SPECIFICATION FairSpec
CONSTANTS
  l1 = l1
  l2 = l2
  r1 = r1
  Links = {l1, l2}
  NoLink = NoLink
  Requests = {r1}
  NoRequest = NoRequest
  Segments = {"gateways", "id", "devices", "app"}
  LocalRoutes = {"devices"}
  Prefix <- SessionPath
  Horizon = 2
  MaxEvents = 2
INVARIANTS
  PendingIsServed
  LinksStayInTunnel
PROPERTIES
  TunnelEndsWithLease
  ActiveReachesEdge
CHECK_DEADLOCK FALSE
