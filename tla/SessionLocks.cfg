CONSTANTS
  p1 = p1
  p2 = p2
  p3 = p3
  heartbeat = heartbeat
  broadcast = broadcast
  outbound = outbound
  initiator = initiator
  None = None
  Peer = {p1, p2, p3}
  Shards = 2
  ShardOf <- TwoShards
  Task = {heartbeat, broadcast, outbound, initiator}
  Kind <- Kinds
  Workers = 2
  CanRelay = FALSE
  Start = {p1, p2}
  MaxRounds = 2
SPECIFICATION FairSpec
CHECK_DEADLOCK FALSE
INVARIANTS
  LocksInv
  ShardsInOrder
PROPERTY RoundsEndUnlessStarved
