SPECIFICATION FairSpec
CONSTANTS
  Device = {1, 2}
  Base = {p}
  Hash = {1, 2}
  Deleted = Deleted
  NoDevice = NoDevice
  Copied = {1}
  PerSecond = 1
  Serving = {1}
  MaxWrites = 3
  MaxServed = 1
  MaxFaults = 1
  MaxEvents = 4
INVARIANT StampsFresh
INVARIANT PlanCurrent
INVARIANT OriginalEditsSurvive
PROPERTY RowsOnlyAdvance
PROPERTY HistoriesConverge
CHECK_DEADLOCK FALSE
