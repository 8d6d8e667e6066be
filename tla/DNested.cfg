CONSTANTS
  CellsPerBlock = 6
  MinCells = 2
  BlockCount = 2
  Sizes = {1, 2}
  StackSize = 16
SPECIFICATION NestedSpec
CONSTRAINT FewInLastBlock
CHECK_DEADLOCK FALSE
INVARIANTS
  NestingKeepsCells
