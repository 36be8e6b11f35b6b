SPECIFICATION FairSpec
CONSTANTS
  k1 = k1
  k2 = k2
  n1 = n1
  n2 = n2
  c1 = c1
  c2 = c2
  None = None
  Service = Service
  Keys <- TheKeys
  Subnets <- TheSubnets
  Admins <- TheAdmins
  Addresses = {1, 2}
  p1 = p1
  p2 = p2
  Ports <- ThePorts
  DefaultPort <- p1
  MaxCalls = 2
  MaxTroubles = 1
CHECK_DEADLOCK FALSE
INVARIANTS
  KernelFollowsRows
  RevokedStaysRevoked
  SubnetsAreDisjoint
PROPERTIES
  ComesInStep
