CONSTANTS
  t1 = t1
  t2 = t2
  Threads <- TwoThreads
  BuffSize = 16
  MaxBlocks = 3
  HdrSize = 4
  Align = 4
  Requests <- Odd
  BlockAddrs <- Side
  ArrayCount = 2
SPECIFICATION Spec
CHECK_DEADLOCK FALSE
INVARIANTS
  ChunksInBlocks
  NoBlockLost
  TopIsLive
PROPERTIES
  NeighboursUndisturbed
  ImplementsAllocator
