CONSTANTS
  Device = {0, 1, 2}
  Everyone = Everyone
  Choice = {{0, 1}, {0, 1, 2}, Everyone}
  HashOf <- MCHashOf
  NoList = NoList
  MaxRules = 2
  MaxEdits = 1
SPECIFICATION Spec
PROPERTY StaysOut
CHECK_DEADLOCK FALSE
