SPECIFICATION AllSpec
CONSTANTS
  Parts = {"accounts", "sessions", "blocklist", "access", "clients",
           "subscriptions", "credentials", "logs", "limits"}
  Threads = {t1, t2}
  Sweepers = {k1, k2}
  Users = {u1, u2}
  Admin = admin
  Monitor = monitor
  Owner = owner
  Apps = {c1, c2, c3}
  MaxSessions = 2
  Jtis = {jti}
  Life = 2
  Buffer = 1
  MaxApps = 1
  AppLife = 2
  OptOuts = {o1, o2}
  Lookback = 3
  MaxGap = 2
  Accounts = {a1}
  MaxFlows = 1
  MaxLines = 3
  Callers = {v1, v2}
  Anonymous = {v2}
  Address <- OneAddress
  Windows = {1, 2}
  Quota <- OneEach
  Horizon = 2
  Roles = {"USER", "SUPERADMIN"}
  TempLockAt = 1
  PermLockAt = 2
  MaxUsers = 1
  MaxResets = 1
  MaxWrong = 2
INVARIANTS
  TypesOK
  SingleUseBounded
  LockEarned
  SignOutFinal
  BlockedUntilExpiry
  AccessHolds
  ClientsBounded
  OptOutHonoured
  ErasedWhenDeleted
  PolledOnce
  DeletionAudited
  RefusedIsListed
SYMMETRY Alike
CHECK_DEADLOCK FALSE
