SPECIFICATION Spec
CONSTANTS
  c1 = c1
  c2 = c2
  c3 = c3
  d1 = d1
  d2 = d2
  Commands = {c1, c2, c3}
  Devices = {d1, d2}
  a1 = a1
  a2 = a2
  NoJob = NoJob
  NoTxn = NoTxn
  DeviceOf <- MCDeviceOf
  Approvers = {a1, a2}
  MaxOpen = 2
  ApprovalsOverlap = TRUE
INVARIANTS
  SentOnce
CHECK_DEADLOCK FALSE
