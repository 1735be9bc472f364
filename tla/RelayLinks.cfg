CONSTANTS
  a = a
  b = b
  r = r
  s = s
  None = None
  Node <- Three
  Dials <- BothDial
  Scenes <- ShortcutOrRivals
  Routable = {r, b}
  MAX_HOP_REBROADCAST = 1
  Ordered = TRUE
  MaxData = 1
  MaxLoss = 1
  MaxTimeout = 0
  Fresh = {}
SPECIFICATION SceneSpec
CHECK_DEADLOCK FALSE
INVARIANTS
  RelayInv
  NextHopIsNeighbour
  OnlySelfishToSelf
  RoutesResolve
  DeliveredAtDestination
