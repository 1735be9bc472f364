CONSTANTS
  WIDTH = 3
  MaxNonce = 6
  StrayNonce = {}
SPECIFICATION Spec
PROPERTY DuplicatesRefused
