\* Is the backend told when the user leaves the input method?
CONSTANTS
  MaxAttempts = 2
  Tries = 2
  MaxSeq = 3
  MaxDepth = 2
  MaxLives = 2
SPECIFICATION Spec
CHECK_DEADLOCK FALSE
PROPERTIES
  DeactivationTold
