\* Reading to the end with four tasks on three workers; any step may fail
CONSTANTS
  Jobs = 4
  NbBlocks = 3
  BlockSize = 2
  LastSize = 1
  ReadSizes = {3}
  Calls = {"read","get"}
  From = 1
  To = 9
  FaultPoints = {"launch","header","read","decode","listen"}
  Headless = FALSE
  Pooled = TRUE
  Workers = 3
SPECIFICATION FairSpec
INVARIANTS
  TypeOK
  DeliveredInOrder
  EofMeansEnd
  SequentialReads
  ReadsOwnBlock
PROPERTIES
  CallsReturn
  TasksFinish
