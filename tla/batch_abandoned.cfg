SPECIFICATION FairSpec
CONSTANTS
  Workers = {w1}
  Requests = {}
  Dispatches <- Once
  Steps = 1
  MaxRetries = 2
  MaxErrors = 0
  Aging = TRUE
  MaxFaults = 0
PROPERTY EndedJobsReported
CHECK_DEADLOCK FALSE
