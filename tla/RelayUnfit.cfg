CONSTANTS
  a = a
  b = b
  r = r
  s = s
  None = None
  Node <- Four
  Dials <- ToR
  Scenes <- Newcomer
  Routable = {a, s}
  MAX_HOP_REBROADCAST = 8
  Ordered = TRUE
  MaxData = 1
  MaxLoss = 0
  MaxTimeout = 0
  Fresh = {}
SPECIFICATION SceneSpec
CHECK_DEADLOCK FALSE
INVARIANT DeliveredAtDestination
