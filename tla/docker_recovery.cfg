SPECIFICATION RecoverySpec
CONSTANTS
  Workers = {w1}
  Requests = {r1}
  Dispatches <- LostOrOnce
  MaxFaults = 1
  Rows = {e1, e2, e3}
PROPERTIES ExecutionEnds ServiceReclaimed StaleReached
CHECK_DEADLOCK FALSE
