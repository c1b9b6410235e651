SPECIFICATION Spec
CONSTANTS
  Users = {u1, u2}
  Clients = {c1, c2}
  D = D
  CallbacksCall = TRUE
  MaxNotes = 2
  MaxAnswers = 1
  None = None
SYMMETRY Symmetry
CHECK_DEADLOCK FALSE
INVARIANTS
  StuckOnlyInCallback
  HeldClientsExist
