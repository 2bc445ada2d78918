\* A block that fails before its turn
CONSTANTS
  Jobs = 2
  BlockSize = 1
  MaxBlocks = 4
  WriteSizes = {1, 2}
  FaultPoints = {"encode"}
  Headless = FALSE
  Pooled = FALSE
  Workers = 1
SPECIFICATION FairSpec
CHECK_DEADLOCK FALSE
PROPERTIES
  TasksFinish
