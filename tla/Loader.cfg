CONSTANTS
  t1 = t1
  t2 = t2
  Threads <- TwoThreads
  Main = t1
  Starts <- AllStarts
  PageSize = 4096
  PoolCount = 2
  AddrSpace = 1073741824
  FnAddr <- Library
SPECIFICATION FairSpec
CHECK_DEADLOCK FALSE
INVARIANTS
  BinaryExecutes
  RightProgram
  HeapsSetUpOnce
  GameIsPatched
PROPERTIES
  HookGoesAway
