CONSTANTS
  a = a
  b = b
  xa = xa
  xb = xb
  k1 = k1
  k2 = k2
  None = None
  Node <- TwoNodes
  Addr <- TwoAddrs
  OwnerOf <- Owners
  Source <- OwnAddress
  Discovers <- OneSidedDiscovery
  StunFinds <- StunSilent
  Slot = {1, 2, 3}
  Ordered = TRUE
  Patient = TRUE
  Losable = {"C"}
  MaxLoss = 1
  MaxDup = 0
  MaxRestart = 0
SPECIFICATION FairSpec
CHECK_DEADLOCK FALSE
PROPERTY EveryoneJoins
