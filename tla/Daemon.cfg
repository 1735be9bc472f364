CONSTANTS
  p1 = p1
  p2 = p2
  Cli = Cli
  None = None
  Empty = Empty
  Torn = Torn
  Pid <- TwoPids
  File <- Files
  Writer <- Writers
  Ino <- Inodes
  Damaged = {"identity", "pid"}
  Patient = TRUE
  Foreign = TRUE
  MaxCrash = 1
  MaxCommand = 3
SPECIFICATION FairSpec
CHECK_DEADLOCK FALSE
INVARIANTS
  DaemonInv IdentityIsSaved EnginesCollideOnlyInHaste EnginesLostOnlyInHaste
PROPERTIES
  DownStops ViewConverges ImplementsStateFiles
