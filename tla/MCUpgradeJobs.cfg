SPECIFICATION UpgradeSpec
CONSTANTS
  Jobs = {j1, j2}
  Threads = {t1, t2}
  Releases = {r1}
  Old = Old
  Mixed = Mixed
  None = None
  NoJob = NoJob
  DevJobs = {j2}
  Selections <- MCSelections
  MaxRequests = 1
  MaxFailures = 1
  j1 = j1
  j2 = j2
  t1 = t1
  t2 = t2
  r1 = r1
INVARIANTS
  CompleteIsTrue
PROPERTIES
  JobEnds
CHECK_DEADLOCK FALSE
