\* seek() while a task sleeps
CONSTANTS
  Jobs = 2
  NbBlocks = 3
  BlockSize = 1
  LastSize = 1
  ReadSizes = {1}
  Calls = {"read", "seek"}
  From = 1
  To = 9
  FaultPoints = {}
  Headless = TRUE
  Pooled = FALSE
  Workers = 1
SPECIFICATION FairSpec
CHECK_DEADLOCK FALSE
PROPERTIES
  SeekReturns
