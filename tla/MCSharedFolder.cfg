CONSTANTS
  Device = {1, 2}
  Relation <- MCRelation
  Kind <- MCKind
  Place <- MCPlace
  RuleFolder <- MCRuleFolder
  Written <- MCWritten
  Added <- MCAdded
  SharingDir <- MCSharingDir
  None = None
  NumberedUpTo = 3
  MaxAsks = 3
  MaxPending = 1
  MaxEdits = 2
  MaxBreaks = 1
SPECIFICATION Spec
INVARIANT NothingOverwritten
INVARIANT IndexInStep
INVARIANT LeftOutIsNotGiven
PROPERTY LeftOutChangesNothing
CHECK_DEADLOCK FALSE
