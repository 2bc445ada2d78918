--------------------------- MODULE BWTBlockCodec ---------------------------
(***************************************************************************)
(* A Burrows-Wheeler transformed block after a header that holds the       *)
(* number of chunks and their indexes, on as many bytes as the size of the *)
(* block asks for.  ByteBits is the number of bits of a byte (8).          *)
(***************************************************************************)
EXTENDS BWT

CONSTANTS ByteBits, MaxIndexes

Radix == 2^ByteBits

getMaxEncodedLength(n) == n + 1 + MaxIndexes

LogSize(n) == Log2(n) + (IF 2^Log2(n) = n THEN 0 ELSE 1)

pIndexSize(n) == (LogSize(n) + ByteBits - 1) \div ByteBits

Mode(logNbChunks, size) == logNbChunks * 4 + size - 1

WithHeader(bwt, chunks, size) ==
  IF ~bwt.ok THEN Fail
  ELSE Done(<<Mode(Log2(chunks), size)>>
            \o FlattenSeq([k \in 1..chunks |->
                 Reverse(Digits(bwt.indexes[k - 1] - 1, Radix, size))])
            \o bwt.out)

HeaderLength(chunks, size) == 1 + chunks * size

BlockForward(src, room) ==
  LET size == pIndexSize(Len(src))
      chunks == getBWTChunks(Len(src))
      bwt == forward(src, room - HeaderLength(chunks, size))
  IN  IF Len(src) = 0 THEN Done(<<>>)
      ELSE IF room < getMaxEncodedLength(Len(src)) \/ size = 0 \/ size > 4 THEN Fail
      ELSE Once(LAMBDA res : WithHeader(res, chunks, size), bwt)

HeaderOf(src) ==
  LET mode == At(src, 0)
      size == (mode % 4) + 1
      chunks == 2^((mode \div 4) % 8)
      index(c) == Value(Reverse(Part(src, 1 + c * size, size)), Radix) + 1
  IN  [chunks |-> chunks, length |-> 1 + chunks * size,
       indexes |-> [c \in 0..chunks - 1 |-> index(c)]]

BlockInverse(src, room, jobs) ==
  LET n == Len(src)
      header == HeaderOf(src)
  IN  IF n <= 1 THEN [ok |-> n = 0, out |-> <<>>]
      ELSE IF n < header.length \/ header.chunks # getBWTChunks(n - header.length) THEN Fail
      ELSE inverse(From(src, header.length), header.indexes, room, jobs)

(***************************************************************************)
(* The tasks of the inverse agree on every byte that two of them write.    *)
(***************************************************************************)
TasksAgree(src, jobs) ==
  LET header == HeaderOf(src)
      data == From(src, header.length)
  IN  Len(data) > Threshold2 => WritesAgree(data, header.indexes, jobs)
=============================================================================
