CONSTANTS
  a = a
  b = b
  r = r
  s = s
  None = None
  Node <- Four
  Dials <- ToR
  Scenes <- Newcomer
  Routable = {a, r, s}
  MAX_HOP_REBROADCAST = 8
  Ordered = TRUE
  MaxData = 0
  MaxLoss = 0
  MaxTimeout = 1
  Fresh = {a}
SPECIFICATION SceneFairSpec
CHECK_DEADLOCK FALSE
PROPERTY EveryoneReachable
