SPECIFICATION OperatorsSpec
CONSTANTS
  c1 = c1
  c2 = c2
  c3 = c3
  d1 = d1
  d2 = d2
  Commands = {c1, c2, c3}
  Devices = {d1, d2}
  a1 = a1
  a2 = a2
  NoJob = NoJob
  NoTxn = NoTxn
  DeviceOf <- MCDeviceOf
  Approvers = {a1, a2}
  MaxOpen = 3
  ApprovalsOverlap = FALSE
  Operators = {u1}
  Organizations = {o1, o2}
  Sites = {s1, s2}
  NoOrganization = NoOrganization
  RequireExplicitMembership = FALSE
  MaxEdits = 6
  SessionEdits = 2
  Me = u1
  Tabs = {t1, t2}
  IdleLimit = 4
  WriteGap = 2
  MaxFaults = 1
  u1 = u1
  o1 = o1
  o2 = o2
  s1 = s1
  s2 = s2
  t1 = t1
  t2 = t2
  Gateways = {1, 2}
  Located = {1}
  Caches = {{}, {2}}
  MaxEvents = 2
  MaxIncidents = 2
INVARIANTS
  SettledBatchIsRight
  AuditIsTrue
  StatusFollowsCommands
PROPERTIES
  VisibilityNeedsGrant
  ApprovalStands
  ActiveStays
  IdlePageIsLeft
  DashboardCatchesUp
  ClicksEnd
CHECK_DEADLOCK FALSE
