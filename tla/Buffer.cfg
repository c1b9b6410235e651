SPECIFICATION Spec
CONSTANTS
  Base = 2
  kCheapPrepend = 2
  kInitialSize = 2
  InitialSize = 1
  MaxInput = 2
  MaxBytes = 5
  MaxReserve = 2
  Widths = {1, 2}
INVARIANTS
  SizeBounded
PROPERTIES
  ImplementsByteQueue
