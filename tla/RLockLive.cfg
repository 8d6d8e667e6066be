CONSTANTS
  t1 = t1
  t2 = t2
  t3 = t3
  Threads <- ThreeThreads
  Nobody = Nobody
  MaxDepth = 3
SPECIFICATION FairSpec
INVARIANTS
  OwnerIsAlone
  NoSelfDeadlock
  CountIsDepth
PROPERTIES
  ImplementsLock
  SomeoneGetsIn
