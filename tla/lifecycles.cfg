SPECIFICATION AllSpec
CONSTANTS
  Workers = {w1, w2}
  Requests = {r1}
  Dispatches <- Once
  Steps = 2
  MaxRetries = 2
  MaxErrors = 1
  Aging = TRUE
  MaxFaults = 1
  SendRequests = {m1, m2}
  Editors = {e1}
  Batches = 2
  MaxRecipients = 1
  MaxRefusals = 1
  Builders = {b1, b2}
  MaxUploads = 2
  MaxRows = 2
  Users = {u1, u2}
  Admins = {admin}
  MaxExecs = 3
  PageSize = 1
  MaxExport = 2
  Ttl = 2
  Local = 2
  Compute = 1
INVARIANTS
  TypesOK
  WholePipelineDone
  JobsTracked
  FinishedMeansDone
  OneSender
  DeliveredOncePerSend
  SentMeansDelivered
  UploadedIsBuilt
  PagesComplete
  ServedFresh
PROPERTIES
  SettledIsFinal
SYMMETRY Alike
CHECK_DEADLOCK FALSE
