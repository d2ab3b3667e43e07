SPECIFICATION Spec
CONSTANTS
  Requests = {r1}
  Editors = {e1}
  Workers = {w1}
  Batches = 1
  MaxRecipients = 1
  MaxRefusals = 0
  MaxFaults = 0
INVARIANT SentAsRecorded
CHECK_DEADLOCK FALSE
