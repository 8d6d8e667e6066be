CONSTANTS
  t1 = t1
  t2 = t2
  Threads <- TwoThreads
  CellsPerBlock = 5
  MinCells = 2
  BlockCount = 1
  CellSize = 2
  Requests <- AllSizes
  MayFail = FALSE
  StaleFrees = TRUE
SPECIFICATION Spec
SYMMETRY Symmetry
INVARIANTS
  CellsAccounted
  HintsExact
  LiveIsHeld
