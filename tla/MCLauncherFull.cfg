\* One connection whose host sends until every channel and pipe is full:
\* sessions, router and process wait on one another, and all come free again.
CONSTANTS
  c1 = c1
  c2 = c2
  Clients = {c1}
  Backends = {b1}
  NoBackend = NoBackend
  QueueCap = 1
  OutCap = 1
  PipeCap = 1
  MaxStarts = 2
  MaxSeq <- Burst
  MaxInFlight = 7
  PromptSessions = FALSE
SPECIFICATION FairSpec
\* Every connection is used once: the system stops when all are done.
CHECK_DEADLOCK FALSE
PROPERTIES
  SenderComesFree
  ClosedConnectionReleased
