\* Two connections whose hosts wait for every reply, as PIMETextService does,
\* with queues that do not fill: what is promised to such hosts, and liveness.
CONSTANTS
  c1 = c1
  c2 = c2
  Clients = {c1, c2}
  Backends = {b1}
  NoBackend = NoBackend
  QueueCap = 4
  OutCap = 1
  PipeCap = 1
  MaxStarts = 2
  MaxSeq <- OneRequest
  MaxInFlight = 1
  PromptSessions = TRUE
SPECIFICATION FairSpec
\* Every connection is used once: the system stops when all are done.
CHECK_DEADLOCK FALSE
INVARIANTS
  RequestsFollowInit
PROPERTIES
  StuckProcessReplaced
  DisconnectedSessionEnds
  ProcessForgetsClosed
