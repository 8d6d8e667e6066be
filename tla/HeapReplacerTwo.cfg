CONSTANTS
  t1 = t1
  t2 = t2
  NoSlot = NoSlot
  Threads <- TwoThreads
  ItemSize <- TwoPools
  CellSize = 4
  BlockMax = 8
  WordSize = 2
  Capacity <- Crowded
  Working <- MayBeDown
  Requests = {1, 9}
SPECIFICATION FairSpec
CHECK_DEADLOCK FALSE
INVARIANTS
  SlotsAccounted
PROPERTIES
  SomeCallEnds
