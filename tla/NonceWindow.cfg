CONSTANTS
  WIDTH = 3
  MaxNonce = 6
  StrayNonce = {2, 5, 6}
SPECIFICATION Spec
INVARIANTS
  WindowInv
  LateIsNotLost
PROPERTIES
  NoReplayInsideWindow
  ImplementsFilter
