SPECIFICATION FleetSpec
CONSTANTS
  Gateways = {g1}
  Requests = {1, 2}
  Legacy = {lw}
  Dev = {dw}
  AskedScopes = {"edge_release"}
  Versions = {v0, v1, v2}
  Configured = v0
  Approved = v1
  DevAgent = v2
  LegacyRelease = v1
  HaltAfter = 1
  Skews = {0}
  MaxFaults = 1
  StaleAfter = 0
  OfflineAfter = 0
  NoRequest = NoRequest
  Credentials = {1, 2}
  Evaluations = {1, 2}
  BacklogAfter = 0
  MaxDeliveries = 1
  MaxClock = 1
  MaxBeats = 2
  MaxTrouble = 1
  Agent0 = v0
  g1 = g1
  lw = lw
  dw = dw
  v0 = v0
  v1 = v1
  v2 = v2
  Machines = {m1, m2}
  Names = {n1, n2}
  Addresses = {p1, p2}
  Unknown = Unknown
  Window = 1
  MaxSkew = 1
  MaxHeard = 2
  MaxMoves = 1
  MaxMisses = 1
  Horizon = 2
  m1 = m1
  m2 = m2
  n1 = n1
  n2 = n2
  p1 = p1
  p2 = p2
INVARIANTS
  CompletedIsBack
  BadReleaseIsHeld
  OneUpdateAtATime
  LastWordIsTrue
  WarningIsTrue
PROPERTIES
  UpdateEnds
  MarkersCatchUp
CHECK_DEADLOCK FALSE
