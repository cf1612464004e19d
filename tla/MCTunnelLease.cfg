SPECIFICATION FairSpec
CONSTANTS
  s1 = s1
  s2 = s2
  Sockets = {s1, s2}
  NoSocket = NoSocket
  NoHeader = NoHeader
  Horizon = 3
  MaxOpens = 2
  MaxDrops = 1
PROPERTIES
  RenewedTunnelStays
  TunnelEnds
CHECK_DEADLOCK FALSE
