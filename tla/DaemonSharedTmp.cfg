CONSTANTS
  p1 = p1
  p2 = p2
  Cli = Cli
  None = None
  Empty = Empty
  Torn = Torn
  Pid <- TwoPids
  File <- Files
  Writer <- Writers
  Ino <- Inodes
  Damaged = {}
  Patient = FALSE
  Foreign = FALSE
  MaxCrash = 0
  MaxCommand = 3
SPECIFICATION Spec
CHECK_DEADLOCK FALSE
PROPERTY ImplementsStateFiles
