SPECIFICATION Spec
CONSTANTS
  TokenForward <- newTokenForward
  TokenInverse <- newTokenInverse
  MostEncoded <- tokenMaxEncodedLength
  Chain <- newTransform
  InverseTasksAgree <- TokenTasksAgree
  EntropyEncode <- encode
  EntropyDecode <- decode
  Jobs <- NormalizeJobs
  SmallBlock = 5
  ExtraBuffer = 16
  TransformFloor = 32
  BufferFloor = 16
  ByteBits = 4
INVARIANTS
  LosslessBlock
CHECK_DEADLOCK FALSE
