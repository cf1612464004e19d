SPECIFICATION Spec
CONSTANTS
  s1 = s1
  s2 = s2
  Sockets = {s1, s2}
  NoSocket = NoSocket
  NoHeader = NoHeader
  Horizon = 4
  MaxOpens = 2
  MaxDrops = 1
PROPERTIES
  NoneAfterClose
CHECK_DEADLOCK FALSE
