SPECIFICATION MCSpec
CONSTANTS
  d1 = d1
  d2 = d2
  r1 = r1
  r2 = r2
  Devices = {d1, d2}
  Instances = {1, 2}
  Objects = {o}
  Profiles = {q}
  NoProfile = NoProfile
  Requests = {r1, r2}
  Idle = Idle
  MaxLoads = 1
  MaxSize = 4
SYMMETRY Symmetric
INVARIANTS
  RetiredStaysStopped
  AddressIsCopied
