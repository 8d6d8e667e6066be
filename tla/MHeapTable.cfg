CONSTANTS
  PoolDesc <- Program
  MaxAlloc = 3584
  AddrLen = 256
  Foreign <- Scattered
  OthersMove = FALSE
  MaxFailed = 1
SPECIFICATION Spec
CHECK_DEADLOCK FALSE
INVARIANTS
  TightestPool
