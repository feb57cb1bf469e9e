\* Two connections to one backend whose hosts send ahead of the replies, so
\* that every channel fills: force-disconnects, restarts and closes interleave.
CONSTANTS
  c1 = c1
  c2 = c2
  Clients = {c1, c2}
  Backends = {b1}
  NoBackend = NoBackend
  QueueCap = 1
  OutCap = 1
  PipeCap = 1
  MaxStarts = 2
  MaxSeq <- OneBusy
  MaxInFlight = 2
  PromptSessions = FALSE
SPECIFICATION Spec
\* Every connection is used once: the system stops when all are done.
CHECK_DEADLOCK FALSE
INVARIANTS
  TypeOK
  SessionsMatchProcess
  CloseIsLast
  WatchdogSeesUnanswered
  TrackedUnanswered
  NothingLostMidway
  NoLeakedEntry
  LauncherInv
