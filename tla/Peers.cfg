CONSTANTS
  p = p
  q = q
  o = o
  n = n
  dial1 = dial1
  inbound = inbound
  None = None
  Peer = {p, q, o}
  Actor = {dial1, inbound}
  Work <- Crossing
  EVENT_CHANNEL_CAPACITY = 1
SPECIFICATION FairSpec
CHECK_DEADLOCK FALSE
INVARIANTS
  PeersInv
  RegisteredIsConnected
PROPERTY ListedUnlessUnheard
