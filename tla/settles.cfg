SPECIFICATION SettlesSpec
CONSTANTS
  w1 = w1
  w2 = w2
  bw = bw
  br = br
  jti = jti
  Entries = {e1, e2, e3}
  Requests = {r1, r2}
  Editors = {}
  Workers = {w1, w2}
  Batches = 2
  MaxRecipients = 1
  MaxRefusals = 1
  MaxFaults = 1
PROPERTIES SendingEnds ComesToRest Reconnects QueueDrains
CHECK_DEADLOCK FALSE
