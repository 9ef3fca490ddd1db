CONSTANTS
  Device = {1, 2}
  Path = {"a", "b"}
  Content = {"x"}
  Chunk = {"x"}
  ChunksOf <- MCChunksOf
  Folders <- MCFolders
  RuleOf <- MCRuleOf
  OutsidePath = {}
  Shared = 0
  NoContent = "none"
  Phone = {1}
  Filing = {2}
  Routes <- MCRoutes
  ReceivedPath <- MCReceivedPath
  Careful = TRUE
  MaxOps = 6
SPECIFICATION Spec
INVARIANT NothingLost
INVARIANT CollectedIsTaken
INVARIANT FiledOnce
PROPERTY RecordsAreTrue
CHECK_DEADLOCK FALSE
