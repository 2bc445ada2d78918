\* Order and integrity of the stream, progress; a pool with fewer workers than
\* slots; faults hit the turn holder or the end marker
CONSTANTS
  Jobs = 4
  BlockSize = 2
  MaxBlocks = 5
  WriteSizes = {3}
  FaultPoints = {"emit", "seal"}
  Headless = FALSE
  Pooled = TRUE
  Workers = 3
SPECIFICATION FairSpec
INVARIANTS
  TypeOK
  SingleWriter
  WellFormedOutput
PROPERTIES
  CancelIsFinal
  ImplementsBlockStream
  CallsReturn
  TasksFinish
