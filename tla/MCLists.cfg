CONSTANTS
  Key = {"a", "b"}
  Conn = {1}
  NoLink = 0
  DeltaMost = 3
  DeltaSmall = 1
  MaxChanges = 2
  MaxFaults = 1
  MayFail = FALSE
SPECIFICATION ListsSpec
PROPERTY ReadsAreCurrent
PROPERTY ToldWhileListening
PROPERTY Converges
CHECK_DEADLOCK FALSE
