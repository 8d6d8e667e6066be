CONSTANTS
  PoolDesc <- Small
  MaxAlloc = 24
  AddrLen = 8
  Foreign <- AnyPlaces
  OthersMove = TRUE
  MaxFailed = 4
SPECIFICATION FairSpec
CHECK_DEADLOCK FALSE
INVARIANTS
  AddressesLeadHome
PROPERTIES
  SearchFinds
