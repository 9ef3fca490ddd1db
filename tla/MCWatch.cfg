CONSTANTS
  Path = {"dir", "file", "file~"}
  Dir = {"dir"}
  Parent <- MCParent
  Root = "root"
  Ignored = {"file~"}
  Quiet = 1
  MaxHold = 2
  MaxChanges = 2
  MaxOut = 1
SPECIFICATION Spec
INVARIANT NoChangeForgotten
INVARIANT FreedIsNotDeleted
PROPERTY EventuallyNoticed
CHECK_DEADLOCK FALSE
