CONSTANTS
  p = p
  q = q
  o = o
  n = n
  dial1 = dial1
  inbound = inbound
  None = None
  Peer = {p, q, o, n}
  Actor = {dial1, inbound}
  Work <- NamedMeanwhile
  EVENT_CHANNEL_CAPACITY = 2
SPECIFICATION FairSpec
CHECK_DEADLOCK FALSE
PROPERTY LifecycleFollowed
