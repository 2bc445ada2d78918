\* Buffers, futures and the end marker; a fault anywhere
CONSTANTS
  Jobs = 2
  BlockSize = 2
  MaxBlocks = 4
  WriteSizes = {1, 3}
  FaultPoints = {"launch", "encode", "emit", "listen", "seal"}
  Headless = TRUE
  Pooled = FALSE
  Workers = 1
SPECIFICATION Spec
\* A block that fails before its turn can leave the client waiting forever.
CHECK_DEADLOCK FALSE
INVARIANTS
  LosslessClose
  BufferExclusive
  FutureOwnsLive
PROPERTIES
  SealedIsFinal
