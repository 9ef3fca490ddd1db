SPECIFICATION Spec
CONSTANTS
  a = a
  b = b
  Writer = {w1, w2}
  Collector = {g}
  Chunk = {a, b}
  Path = {p}
  Contents <- OneShared
  None = None
  MaxOps = 2
  MaxEdits = 2
  MaxCrashes = 1
SYMMETRY Writers
INVARIANT NoDangling
PROPERTY NeededPayloadsStay
CHECK_DEADLOCK FALSE
