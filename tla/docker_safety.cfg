SPECIFICATION Spec
CONSTANTS
  Workers = {w1, w2}
  Requests = {r1, r2}
  Dispatches <- LostOrOnce
  MaxFaults = 1
INVARIANT TypeOK
PROPERTIES GraceRespected SettledIsFinal
SYMMETRY Alike
CHECK_DEADLOCK FALSE
