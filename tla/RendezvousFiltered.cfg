CONSTANTS
  a = a
  b = b
  home = home
  cloud = cloud
  None = None
  Node = {a, b}
  Settled = {b}
  Home <- Homes
  Preferred = 0
  Tries = 2
  Taken <- Others
  Natted = {}
  Outside = {5, 6}
  Filtered = {home}
  Metadata = {home}
  Routable = {home, cloud}
  MaxMoves = 0
SPECIFICATION FairSpec
CHECK_DEADLOCK FALSE
PROPERTY RegistryLeadsHere
