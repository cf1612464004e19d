SPECIFICATION UpgradeSpec
CONSTANTS
  Jobs = {j1}
  Threads = {t1}
  Releases = {r1}
  Old = Old
  Mixed = Mixed
  None = None
  NoJob = NoJob
  DevJobs = {}
  Selections <- AllSelections
  MaxRequests = 1
  MaxFailures = 1
  j1 = j1
  j2 = j2
  t1 = t1
  t2 = t2
  r1 = r1
INVARIANTS
  UiReleaseKeepsHandoff
CHECK_DEADLOCK FALSE
