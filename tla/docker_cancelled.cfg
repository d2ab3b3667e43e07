SPECIFICATION Spec
CONSTANTS
  Workers = {w1, w2}
  Requests = {r1}
  Dispatches <- Once
  MaxFaults = 0
INVARIANT CancelIsHeeded
CHECK_DEADLOCK FALSE
