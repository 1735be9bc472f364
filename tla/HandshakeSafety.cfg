CONSTANTS
  a = a
  b = b
  xa = xa
  xb = xb
  k1 = k1
  k2 = k2
  None = None
  Node <- TwoNodes
  Addr <- TwoAddrs
  OwnerOf <- Owners
  Source <- OwnAddress
  Discovers <- MutualDiscovery
  StunFinds <- StunSilent
  Slot <- TwoSlots
  Ordered = FALSE
  Patient = FALSE
  Losable = {}
  MaxLoss = 0
  MaxDup = 1
  MaxRestart = 1
SPECIFICATION Spec
SYMMETRY Alike
CHECK_DEADLOCK FALSE

INVARIANTS
  HandshakeInv
  PendingIsOwned
  TransportIsFresh
  EndsMatch
  UnderlayIsIndexed
