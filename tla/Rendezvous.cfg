CONSTANTS
  a = a
  b = b
  home = home
  cloud = cloud
  None = None
  Node = {a, b}
  Settled = {b}
  Home <- Homes
  Preferred = 0
  Tries = 2
  Taken <- Others
  Natted = {home}
  Outside = {5, 6}
  Filtered = {}
  Metadata = {home}
  Routable = {home, cloud}
  MaxMoves = 1
SPECIFICATION FairSpec
CHECK_DEADLOCK FALSE
INVARIANTS
  RendezvousInv
PROPERTIES
  RegistryLeadsToInformed EveryoneIsReached
