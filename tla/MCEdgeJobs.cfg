SPECIFICATION FairSpec
CONSTANTS
  j1 = j1
  w1 = w1
  h1 = h1
  h2 = h2
  Jobs = {j1, w1}
  WriteJobs = {w1}
  Polls = {h1, h2}
  NoJob = NoJob
  NoPoll = NoPoll
  FaultKinds = {"response", "poll", "result", "crash", "storage", "delay"}
  MaxFaults = 2
INVARIANTS
  WriteRunsAtMostOnce
  WriteReportIsTrue
PROPERTIES
  WritePromise
  ReadsFinish
CHECK_DEADLOCK FALSE
