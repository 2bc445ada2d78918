\* Two-byte words of two-bit bytes, buffers of five words, two buffers of bits
CONSTANTS
  ByteBits = 2
  WordBytes = 2
  OutWords = 5
  InWords = 5
  MaxBits = 43
  MaxAsked = 43
  MaxSeek = 5
  MaxFailures = 2
SPECIFICATION Spec
INVARIANTS
  TypeOK
  WritesInOrder
  NoOverrun
  WrittenExact
  ReadsExact
CHECK_DEADLOCK FALSE
