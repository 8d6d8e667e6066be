CONSTANTS
  t1 = t1
  t2 = t2
  Threads <- TwoThreads
  CellsPerBlock = 4
  MinCells = 2
  BlockCount = 2
  CellSize = 2
  Requests <- SmallAndWhole
  MayFail = TRUE
  StaleFrees = FALSE
SPECIFICATION Spec
SYMMETRY Symmetry
INVARIANTS
  BlocksTiled
PROPERTIES
  BestFit
  FreedCellIsMerged
  ImplementsAllocator
