SPECIFICATION FairWaitSpec
CONSTANTS
  j1 = j1
  h1 = h1
  h2 = h2
  QueuedJobs = {j1}
  Tunnel = Tunnel
  Requests = {h1, h2}
  NoRow = NoRow
  Canary = TRUE
  MaxAborts = 1
INVARIANTS
  NoLostWakeup
PROPERTIES
  JobsHandedOut
CHECK_DEADLOCK FALSE
