\* Is a key that is pressed while the table loads answered?
CONSTANTS
  c1 = c1
  c2 = c2
  Clients = {c1, c2}
  t1 = t1
  t2 = t2
  Types = {t1, t2}
  NoType = NoType
  NoClient = NoClient
  MaxChanges = 0
SPECIFICATION Spec
CHECK_DEADLOCK FALSE
INVARIANTS
  RequestsAnswered
