SPECIFICATION Spec
CONSTANTS
  Hosts = {h1}
  Threads = {t1, t2}
  Clients = {c1, c2, c3}
  MaxNotes = 2
  None = None
CHECK_DEADLOCK FALSE
INVARIANTS
  ClientsBounded
  LostForAReason
  
PROPERTIES
  CallsProgress
