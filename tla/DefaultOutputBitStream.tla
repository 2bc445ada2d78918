----------------------- MODULE DefaultOutputBitStream -----------------------
(***************************************************************************)
(* kanzi::DefaultOutputBitStream: bits are gathered in a word, words in a  *)
(* buffer, and full buffers go to a byte stream that may fail.             *)
(*                                                                         *)
(* writeBits() for an array is a sequence of loops; each turn of a loop is *)
(* an action.  The client does not write to a stream that has failed or is *)
(* closed, but may close it again.  seek() and tell() are left out.        *)
(***************************************************************************)
EXTENDS BitWords

CONSTANTS OutWords,    \* _bufferSize, in words
          MaxBits,     \* bound of the number of bits written
          MaxFailures  \* bound of the failures of the byte stream

\* The constructor refuses less than 1024 bytes.
ASSUME OutAssumption ==
  /\ OutWords \in Nat \ (0..4)
  /\ MaxBits \in Nat
  /\ MaxFailures \in Nat

VARIABLES
  availBits,  \* _availBits
  current,    \* the bits in _current
  buffer,     \* _buffer, up to _position
  sink,       \* what the byte stream has received
  written,    \* _written
  closed,     \* _closed
  loop,       \* where writeBits(bits[], count) is
  remaining,  \* its local variable
  kept,       \* its local variable "a"
  count,      \* history: bits taken so far
  failures    \* history: calls that have thrown

bufferVars == <<buffer, sink, written>>
arrayVars  == <<loop, remaining, kept>>
outVars    == <<availBits, current, bufferVars, closed, arrayVars, count,
                failures>>

BufferBits == OutWords * WordBits

\* Four words, the turn of the unrolled loop.
Four == 4 * WordBits

OutTypeOK ==
  /\ availBits \in 0..WordBits
  /\ current \in Seq(Nat)
  /\ Len(current) <= WordBits
  /\ buffer \in Seq(Nat)
  /\ sink \in Seq(Nat)
  /\ written \in Int
  /\ closed \in {0, 1}
  /\ loop \in {"none", "fill", "copy", "words", "bytes"}
  /\ remaining \in 0..MaxBits
  /\ kept \in 0..WordBits
  /\ count \in 0..MaxBits
  /\ failures \in 0..MaxFailures

OutInit ==
  /\ availBits = WordBits
  /\ current = <<>>
  /\ buffer = <<>>
  /\ sink = <<>>
  /\ written = 0
  /\ closed = 0
  /\ loop = "none"
  /\ remaining = 0
  /\ kept = 0
  /\ count = 0
  /\ failures = 0

-----------------------------------------------------------------------------
(* The buffer.                                                             *)

\* n bits of the client, behind the k bits it has just taken.
Fresh(k, n) == [i \in 1..n |-> count + k + i]

Stored(b) == buffer' = b /\ UNCHANGED <<sink, written>>

Flushed(b) ==
  /\ sink' = sink \o b
  /\ buffer' = <<>>
  /\ written' = written + Len(b)

\* pushCurrent() flushes when there is no room for another word.
Full(b) == Len(b) >= BufferBits - WordBits

Pushed(b) == IF Full(b) THEN Flushed(b) ELSE Stored(b)

\* flush() throws: the buffer is kept.
FlushFails(b) ==
  /\ failures < MaxFailures
  /\ failures' = failures + 1
  /\ loop' = "none"
  /\ remaining' = 0
  /\ kept' = 0
  /\ Stored(b)
  /\ UNCHANGED closed

-----------------------------------------------------------------------------
(* writeBits(value, n), and writeBit() for n = 1.                          *)

\* _current with the first bits of the value that fill it.
WordWith == current \o Fresh(0, availBits)

PutShort(n) ==
  /\ n < availBits
  /\ current' = current \o Fresh(0, n)
  /\ availBits' = availBits - n
  /\ count' = count + n
  /\ UNCHANGED bufferVars

PutLong(n) ==
  /\ n >= availBits
  /\ Pushed(buffer \o WordWith)
  /\ current' = Fresh(availBits, n - availBits)
  /\ availBits' = WordBits - (n - availBits)
  /\ count' = count + n

PutFails(n) ==
  /\ n >= availBits
  /\ Full(buffer \o WordWith)
  /\ FlushFails(buffer \o WordWith)
  /\ current' = <<>>
  /\ availBits' = WordBits
  /\ count' = count + availBits

Put(n) == PutShort(n) \/ PutLong(n)

MayWrite(n) == /\ loop = "none"
               /\ closed = 0
               /\ failures = 0
               /\ count + n <= MaxBits

WriteBits(n) ==
  /\ MayWrite(n)
  /\ \/ Put(n) /\ UNCHANGED <<closed, arrayVars, failures>>
     \/ PutFails(n)

-----------------------------------------------------------------------------
(* writeBits(bits[], n)                                                    *)

WriteArray(n) ==
  /\ MayWrite(n)
  /\ remaining' = n
  /\ \/ availBits % ByteBits = 0 /\ loop' = "fill" /\ kept' = 0
     \/ /\ availBits % ByteBits # 0
        /\ n >= WordBits
        /\ loop' = "words"
        /\ kept' = availBits
     \/ /\ availBits % ByteBits # 0
        /\ n < WordBits
        /\ loop' = "bytes"
        /\ kept' = 0
  /\ UNCHANGED <<availBits, current, bufferVars, closed, count, failures>>

\* One writeBits() of a loop.
PutInLoop(n) ==
  \/ /\ Put(n)
     /\ remaining' = remaining - n
     /\ UNCHANGED <<closed, loop, kept, failures>>
  \/ PutFails(n)

GoTo(l) ==
  /\ loop' = l
  /\ UNCHANGED <<availBits, current, bufferVars, closed, remaining, kept,
                 count, failures>>

\* Byte by byte until _current is empty.
Fill ==
  /\ loop = "fill"
  /\ IF availBits # WordBits /\ remaining >= ByteBits
       THEN PutInLoop(ByteBits)
       ELSE GoTo("copy")

\* Bytes of the array, up to the last word of the buffer.
Room == BufferBits - WordBits - Len(buffer)

CopyAndFlush ==
  /\ loop = "copy"
  /\ BytesDown(remaining) >= Room
  /\ \/ /\ Flushed(buffer \o Fresh(0, Room))
        /\ UNCHANGED <<closed, loop, kept, failures>>
        /\ remaining' = remaining - Room
     \/ FlushFails(buffer \o Fresh(0, Room))
  /\ count' = count + Room
  /\ UNCHANGED <<availBits, current>>

CopyWords ==
  /\ loop = "copy"
  /\ BytesDown(remaining) < Room
  /\ Stored(buffer \o Fresh(0, WordsDown(remaining)))
  /\ remaining' = remaining - WordsDown(remaining)
  /\ count' = count + WordsDown(remaining)
  /\ loop' = "bytes"
  /\ UNCHANGED <<availBits, current, closed, kept, failures>>

\* Four words shifted through _current.
FullForFourTooLate == Len(buffer) >= BufferBits - 2 * WordBits
FullForFour == Len(buffer) >= BufferBits - Four

FourWords ==
  LET all == current \o Fresh(0, Four)
  IN  /\ loop = "words"
      /\ remaining >= Four
      /\ \/ ~FullForFour /\ Stored(buffer \o First(Four, all))
         \/ /\ FullForFour
            /\ sink' = sink \o buffer
            /\ buffer' = First(Four, all)
            /\ written' = written + Len(buffer)
      /\ current' = Behind(Four, all)
      /\ availBits' = WordBits
      /\ remaining' = remaining - Four
      /\ count' = count + Four
      /\ UNCHANGED <<closed, loop, kept, failures>>

FourWordsFail ==
  /\ loop = "words"
  /\ remaining >= Four
  /\ FullForFour
  /\ FlushFails(buffer)
  /\ current' = current \o Fresh(0, kept)
  /\ count' = count + kept
  /\ UNCHANGED availBits

OneWord ==
  LET all == current \o Fresh(0, WordBits)
  IN  /\ loop = "words"
      /\ remaining < Four
      /\ remaining >= WordBits
      /\ \/ /\ Pushed(buffer \o First(WordBits, all))
            /\ current' = Behind(WordBits, all)
            /\ count' = count + WordBits
            /\ remaining' = remaining - WordBits
            /\ UNCHANGED <<closed, loop, kept, failures>>
         \/ /\ Full(buffer \o First(WordBits, all))
            /\ FlushFails(buffer \o First(WordBits, all))
            /\ current' = <<>>
            /\ count' = count + kept
      /\ availBits' = WordBits

WordsOver ==
  /\ loop = "words"
  /\ remaining < WordBits
  /\ availBits' = kept
  /\ kept' = 0
  /\ loop' = "bytes"
  /\ UNCHANGED <<current, bufferVars, closed, remaining, count, failures>>

\* Last bytes, last bits.
Bytes ==
  /\ loop = "bytes"
  /\ IF remaining = 0 THEN GoTo("none")
     ELSE PutInLoop(IF remaining >= ByteBits THEN ByteBits ELSE remaining)

-----------------------------------------------------------------------------
(* close()                                                                 *)

\* The bits in _current, filled up to a byte, and what fills them up.
Padding == BytesUp(WordBits - availBits) - (WordBits - availBits)
Padded  == First(BytesUp(WordBits - availBits),
                 current \o [i \in 1..ByteBits |-> 0])

MayClose == loop = "none" /\ closed = 0

\* After success _availBits is 0, so that the next write finds no room.
CloseWithoutPadding ==
  /\ MayClose
  /\ sink' = sink \o buffer \o First(BytesDown(WordBits - availBits), current)
  /\ buffer' = <<>>
  /\ written' = written + Len(buffer) - availBits
  /\ availBits' = 0
  /\ closed' = 1
  /\ UNCHANGED <<current, arrayVars, count, failures>>

CloseForgetsWord ==
  /\ MayClose
  /\ sink' = sink \o buffer \o Padded
  /\ buffer' = <<>>
  /\ written' = written - Padding + Len(buffer \o Padded)
  /\ availBits' = 0
  /\ closed' = 1
  /\ UNCHANGED <<current, arrayVars, count, failures>>

Close ==
  /\ MayClose
  /\ sink' = sink \o buffer \o Padded
  /\ buffer' = <<>>
  /\ written' = written - Padding + Len(buffer \o Padded) - WordBits
  /\ availBits' = 0
  /\ closed' = 1
  /\ UNCHANGED <<current, arrayVars, count, failures>>

\* The buffer cannot be written: all is reverted but _written.
CloseFails ==
  /\ MayClose
  /\ buffer \o Padded # <<>>
  /\ failures < MaxFailures
  /\ failures' = failures + 1
  /\ written' = written - Padding
  /\ UNCHANGED <<availBits, current, buffer, sink, closed, arrayVars, count>>

\* The buffer is written, but the byte stream does not flush.
SyncFails ==
  /\ MayClose
  /\ failures < MaxFailures
  /\ failures' = failures + 1
  /\ Flushed(buffer \o Padded)
  /\ written' = written - Padding + Len(buffer \o Padded)
  /\ availBits' = WordBits
  /\ UNCHANGED <<current, closed, arrayVars, count>>

OutNext ==
  \/ \E n \in 1..WordBits : WriteBits(n)
  \/ \E n \in 0..MaxBits : WriteArray(n)
  \/ Fill \/ CopyAndFlush \/ CopyWords
  \/ FourWords \/ FourWordsFail \/ OneWord \/ WordsOver \/ Bytes
  \/ Close \/ CloseFails \/ SyncFails

OutSpec == OutInit /\ [][OutNext]_outVars

-----------------------------------------------------------------------------
(* Properties.                                                             *)

\* written()
Written == written + Len(buffer) + WordBits - availBits

\* The bits reach the byte stream in the order they were written, once each;
\* zeros fill the last byte and nothing else.  A closed stream that has not
\* failed holds all of them; one that has failed holds the first ones.
WritesInOrder ==
  LET all == sink \o buffer
  IN  /\ \A i \in 1..Len(all) : all[i] = i \/ (all[i] = 0 /\ i > count)
      /\ closed = 1 /\ failures = 0 => Len(sink) = BytesUp(count)

\* However the calls mix, the buffer is never written behind its end, and
\* between two calls it has room for the word pushCurrent() or close() adds.
NoOverrun ==
  /\ Len(buffer) <= BufferBits
  /\ closed = 0 => Len(buffer) + BytesUp(WordBits - availBits) <= BufferBits

\* Between two calls written() is the number of bits written, before and after
\* close(), if the byte stream has not failed.
WrittenExact ==
  loop = "none" /\ failures = 0 => Written = count
=============================================================================
