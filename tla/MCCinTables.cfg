\* Two clients, two tables, two changes of the configuration file.
CONSTANTS
  c1 = c1
  c2 = c2
  Clients = {c1, c2}
  t1 = t1
  t2 = t2
  Types = {t1, t2}
  NoType = NoType
  NoClient = NoClient
  MaxChanges = 2
SPECIFICATION FairSpec
\* Each client connects once: the server stops when all have been closed.
CHECK_DEADLOCK FALSE
INVARIANTS
  TypeOK
  OneLoad
  LookupCurrent
PROPERTIES
  WaitedServiceHasTable
  TablesConverge
