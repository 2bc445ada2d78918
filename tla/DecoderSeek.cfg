\* A range of blocks, seek(), close() and destruction; three tasks
CONSTANTS
  Jobs = 3
  NbBlocks = 4
  BlockSize = 1
  LastSize = 1
  ReadSizes = {1, 2}
  Calls = {"read", "seek", "close", "destroy"}
  From = 2
  To = 4
  FaultPoints = {"read", "seek"}
  Headless = FALSE
  Pooled = FALSE
  Workers = 1
SPECIFICATION Spec
\* seek() and close() may wait forever, see DecoderSeekHangs.
CHECK_DEADLOCK FALSE
INVARIANTS
  DeliveredInOrder
  EofMeansEnd
  BufferExclusive
