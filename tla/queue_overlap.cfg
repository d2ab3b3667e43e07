SPECIFICATION Spec
CONSTANTS
  u1 = u1
  s1 = s1
  None = None
  Scripts = {s1}
  ScriptOf <- OneScript
  MaxUsersPerRun = 1
  Users = {u1}
  Admins = {}
  Promotable = {}
  Executions = {e1, e2, e3, e4}
  Owner <- OneOwner
  MaxConcurrent <- LimitTwo
  Rebuildable = {}
  Handlers = {h1}
  Processors = {p1, p2}
  MaxFaults = 0
INVARIANT DispatchBound
PROPERTY FifoAdmission
SYMMETRY Alike
CHECK_DEADLOCK FALSE
