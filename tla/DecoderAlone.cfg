\* One task at a time, straight from the shared bitstream
CONSTANTS
  Jobs = 1
  NbBlocks = 4
  BlockSize = 2
  LastSize = 1
  ReadSizes = {1, 3}
  Calls = {"read", "peek", "seek", "close", "destroy"}
  From = 2
  To = 4
  FaultPoints = {}
  Headless = TRUE
  Pooled = FALSE
  Workers = 1
SPECIFICATION FairSpec
INVARIANTS
  FailsOnlyOnFault
PROPERTIES
  CallsReturn
