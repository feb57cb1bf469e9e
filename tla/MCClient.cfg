\* Two profiles activated in turn, two attempts of which the second is
\* served, nested calls.
CONSTANTS
  MaxAttempts = 2
  Tries = 3
  MaxSeq = 3
  MaxDepth = 2
  MaxLives = 2
SPECIFICATION FairSpec
\* The profiles and attempts run out: the system stops.
CHECK_DEADLOCK FALSE
INVARIANTS
  TypeOK
  NoStaleCallback
  StateMatchesPipe
  PipesHeld
  ClientInv
PROPERTIES
  PortSpec
  AttemptsConclude
  UIThreadComesFree
  CancelledPipesClosed
