SPECIFICATION FramingSpec
CONSTANTS
  Base = 5
  FieldLength = 2
  MaxDataSize = 8
  Ids <- MCIds
  Bodies <- MCBodies
  KnownTypes = {0}
  MaxMessages = 3
  MaxRead = 12
CHECK_DEADLOCK FALSE
INVARIANTS
  DecodesWhatWasSent
  RefusedForAReason
PROPERTIES
  AcceptableAreHandled
