SPECIFICATION Spec
CONSTANTS
  u1 = u1
  s1 = s1
  None = None
  Scripts = {s1}
  ScriptOf <- OneScript
  MaxUsersPerRun = 1
  Users = {u1}
  Admins = {}
  Promotable = {u1}
  Executions = {e1, e2, e3}
  Owner <- OneOwner
  MaxConcurrent <- LimitOne
  Rebuildable = {s1}
  Handlers = {h1, h2}
  Processors = {p1}
  MaxFaults = 1
INVARIANTS TypeOK DispatchInv NoSilentLoss
PROPERTY AdmissionPromise
SYMMETRY Alike
CHECK_DEADLOCK FALSE
