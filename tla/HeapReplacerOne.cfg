CONSTANTS
  t1 = t1
  t2 = t2
  NoSlot = NoSlot
  Threads <- OneThread
  ItemSize <- TwoPools
  CellSize = 4
  BlockMax = 8
  WordSize = 2
  Capacity <- OneOfEach
  Working <- MayBeDown
  Requests = {1, 3, 6, 9}
SPECIFICATION Spec
CHECK_DEADLOCK FALSE
INVARIANTS
  BigEnough
  ZeroedForCaller
  DataSurvive
