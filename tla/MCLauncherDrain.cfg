\* The same hosts: whose messages does the drain after the delay throw away?
CONSTANTS
  c1 = c1
  c2 = c2
  Clients = {c1, c2}
  Backends = {b1}
  NoBackend = NoBackend
  QueueCap = 4
  OutCap = 1
  PipeCap = 1
  MaxStarts = 2
  MaxSeq <- OneRequest
  MaxInFlight = 1
  PromptSessions = TRUE
SPECIFICATION Spec
CHECK_DEADLOCK FALSE
PROPERTIES
  DrainsOnlyDisconnected
