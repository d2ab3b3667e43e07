SPECIFICATION Spec
CONSTANTS
  Workers = {w1}
  Requests = {}
  Dispatches <- Once
  MaxFaults = 0
PROPERTY RunningNotFailed
CHECK_DEADLOCK FALSE
