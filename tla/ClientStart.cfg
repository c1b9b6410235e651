SPECIFICATION Spec
CONSTANTS
  User = User
  IO = IO
  None = None
CHECK_DEADLOCK FALSE
INVARIANTS
  HolderOwns
  DestroyedUnused
PROPERTIES
  NullForAReason
  ImplementsGate
