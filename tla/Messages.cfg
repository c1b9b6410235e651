SPECIFICATION MessagesSpec
CONSTANTS
  Names = {"a", "b"}
  PortLimit = 4
  Base = 2
  IdBytes = 2
  MaxIds = 3
  MaxHosts = 2
CHECK_DEADLOCK FALSE
INVARIANTS
  ReadsBack
  IdsAreNew
