CONSTANTS
  t1 = t1
  t2 = t2
  t3 = t3
  Threads <- ThreeThreads
  ItemSize = 2
  BlockSize = 7
  BlockCount = 2
  Bgn = 16
  StaleFrees = TRUE
SPECIFICATION Spec
SYMMETRY Symmetry
INVARIANTS
  MutualExclusion
  FreeListIsChain
  NoDoubleHandout
  NoCellLost
  NullOnlyWhenFull
  StaleFreeIgnored
  ItemsCommitted
