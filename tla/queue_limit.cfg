SPECIFICATION Spec
CONSTANTS
  u1 = u1
  s1 = s1
  None = None
  Scripts = {s1}
  ScriptOf <- OneScript
  MaxUsersPerRun = 1
  Users = {u1}
  Admins = {}
  Promotable = {}
  Executions = {e1, e2}
  Owner <- OneOwner
  MaxConcurrent <- LimitOne
  Rebuildable = {}
  Handlers = {h1, h2}
  Processors = {p1}
  MaxFaults = 0
INVARIANT LimitRespected
CHECK_DEADLOCK FALSE
