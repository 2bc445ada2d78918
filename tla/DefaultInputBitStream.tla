------------------------ MODULE DefaultInputBitStream ------------------------
(***************************************************************************)
(* kanzi::DefaultInputBitStream: a byte stream is read buffer by buffer,   *)
(* the buffer word by word, the word bit by bit.                           *)
(*                                                                         *)
(* readBits() for an array is a sequence of loops; each turn of a loop is  *)
(* an action.  The byte stream ends but does not fail; a client that has   *)
(* been told of the end seeks before it reads again.  close() and the      *)
(* counter behind read() are left out.                                     *)
(***************************************************************************)
EXTENDS BitWords

CONSTANTS InWords,   \* _bufferSize, in words
          MaxAsked,  \* bound of the number of bits asked for in a call
          MaxSeek    \* bound of the positions to seek

\* The constructor refuses less than 1024 bytes.
ASSUME InAssumption ==
  /\ InWords \in Nat \ (0..4)
  /\ MaxAsked \in Nat \ {0}
  /\ MaxSeek \in Nat

VARIABLES
  opened,    \* whether there is a stream
  source,    \* the bits of the byte stream
  fetched,   \* how many of them it has delivered, tellg()
  chunk,     \* _buffer, up to _maxPosition
  position,  \* _position, in bits
  word,      \* the bits of _current not consumed, as many as _availBits
  inLoop,    \* where readBits(bits[], count) is
  todo,      \* its local variable "remaining"
  got,       \* the bits returned so far
  start,     \* history: tell() when the call began
  asked,     \* history: bits asked for
  answer     \* history: how the last call has ended

bytesVars == <<opened, source>>
fetchVars == <<fetched, chunk, position>>
callVars  == <<inLoop, todo, got, start, asked, answer>>
inVars    == <<bytesVars, fetchVars, word, callVars>>

InBits == InWords * WordBits
InFour == 4 * WordBits

InTypeOK ==
  /\ opened \in {0, 1}
  /\ source \in Seq(Nat)
  /\ fetched \in 0..Len(source)
  /\ chunk \in Seq(Nat)
  /\ Len(chunk) <= InBits
  /\ position \in 0..Len(chunk)
  /\ word \in Seq(Nat)
  /\ Len(word) <= WordBits
  /\ inLoop \in {"none", "empty", "copy", "rest", "words", "bytes"}
  /\ todo \in 0..MaxAsked
  /\ got \in Seq(Nat)
  /\ start \in 0..Len(source)
  /\ asked \in Nat
  /\ answer \in {"none", "bits", "end", "more", "nomore"}

InInit ==
  /\ opened = 0
  /\ source = <<>>
  /\ fetched = 0
  /\ chunk = <<>>
  /\ position = 0
  /\ word = <<>>
  /\ inLoop = "none"
  /\ todo = 0
  /\ got = <<>>
  /\ start = 0
  /\ asked = 0
  /\ answer = "none"

\* tell()
Tell == fetched - (Len(chunk) - position) - Len(word)

-----------------------------------------------------------------------------
(* The buffer.                                                             *)

Smaller(m, n) == IF m < n THEN m ELSE n

\* readFromInputStream(): at most a buffer of what the byte stream still has.
SupplyUnbounded(p) == Behind(p, source)
SupplyFrom(p) == SubSeq(source, p + 1, Smaller(p + InBits, Len(source)))
Supply == SupplyFrom(fetched)

Refill(p) ==
  /\ chunk' = Supply
  /\ fetched' = fetched + Len(Supply)
  /\ position' = p

Left == Behind(position, chunk)

\* The next word; a shorter one at the end of the stream.
WordOfWhole(bits) == First(WordsDown(Smaller(WordBits, Len(bits))), bits)
WordOf(bits) == First(Smaller(WordBits, Len(bits)), bits)

\* pullCurrent(); it throws if there is nothing to pull.
Pulled == WordOf(IF Left # <<>> THEN Left ELSE Supply)

Pull ==
  IF Left # <<>>
    THEN position' = position + Len(Pulled) /\ UNCHANGED <<fetched, chunk>>
    ELSE Refill(Len(Pulled))

\* END_OF_STREAM
Ends ==
  /\ answer' = "end"
  /\ inLoop' = "none"
  /\ todo' = 0
  /\ got' = <<>>

-----------------------------------------------------------------------------
(* readBits(n), and readBit() for n = 1.                                   *)

Missing(n) == n - Len(word)

\* n bits, behind those in g.
Take(n, g) ==
  \/ /\ n <= Len(word)
     /\ got' = g \o First(n, word)
     /\ word' = Behind(n, word)
     /\ UNCHANGED fetchVars
  \/ /\ n > Len(word)
     /\ Len(Pulled) >= Missing(n)
     /\ Pull
     /\ got' = g \o word \o First(Missing(n), Pulled)
     /\ word' = Behind(Missing(n), Pulled)

TakeFails(n) ==
  /\ n > Len(word)
  /\ Len(Pulled) < Missing(n)
  /\ Pull
  /\ word' = IF Pulled = <<>> THEN word ELSE Pulled
  /\ Ends

MayCall(n) ==
  /\ opened = 1
  /\ inLoop = "none"
  /\ answer # "end"
  /\ start' = Tell
  /\ asked' = n

ReadBits(n) ==
  /\ MayCall(n)
  /\ \/ Take(n, <<>>) /\ answer' = "bits" /\ UNCHANGED <<inLoop, todo>>
     \/ TakeFails(n)
  /\ UNCHANGED bytesVars

-----------------------------------------------------------------------------
(* readBits(bits[], n)                                                     *)

Begin(n, l) ==
  /\ inLoop' = l
  /\ todo' = n
  /\ got' = <<>>
  /\ answer' = "none"

ReadArray(n) ==
  /\ MayCall(n)
  /\ \/ /\ word = <<>>
        /\ Pulled # <<>>
        /\ Pull
        /\ word' = Pulled
        /\ Begin(n, "empty")
     \/ /\ word = <<>>
        /\ Pulled = <<>>
        /\ Pull
        /\ Ends
        /\ UNCHANGED word
     \/ /\ word # <<>>
        /\ Begin(n, IF Len(word) % ByteBits = 0 THEN "empty"
                    ELSE IF n >= WordBits THEN "words" ELSE "bytes")
        /\ UNCHANGED <<fetchVars, word>>
  /\ UNCHANGED bytesVars

\* One readBits() of a loop.
TakeInLoop(n) ==
  /\ \/ /\ Take(n, got)
        /\ todo' = todo - n
        /\ UNCHANGED <<inLoop, answer>>
     \/ TakeFails(n)
  /\ UNCHANGED <<bytesVars, start, asked>>

Continue(l) ==
  /\ inLoop' = l
  /\ UNCHANGED <<bytesVars, fetchVars, word, todo, got, start, asked, answer>>

\* Byte by byte until _current is empty.
Empty ==
  /\ inLoop = "empty"
  /\ IF word # <<>> /\ todo >= ByteBits THEN TakeInLoop(ByteBits)
                                        ELSE Continue("copy")

\* The whole buffer, and the next one.
CopyBuffer ==
  /\ inLoop = "copy"
  /\ BytesDown(todo) > Len(Left)
  /\ Refill(0)
  /\ IF Supply = <<>>
       THEN Ends
       ELSE /\ got' = got \o Left
            /\ todo' = todo - Len(Left)
            /\ inLoop' = IF Len(Supply) < InBits THEN "rest" ELSE "copy"
            /\ UNCHANGED answer
  /\ UNCHANGED <<bytesVars, word, start, asked>>

\* Words of the buffer.
CopyRest ==
  LET r == Smaller(WordsDown(todo), Len(Left))
  IN  /\ \/ inLoop = "copy" /\ BytesDown(todo) <= Len(Left)
         \/ inLoop = "rest"
      /\ got' = got \o First(r, Left)
      /\ position' = position + r
      /\ todo' = todo - r
      /\ inLoop' = "bytes"
      /\ UNCHANGED <<bytesVars, fetched, chunk, word, start, asked, answer>>

\* Words shifted through _current: four at once while the buffer has more
\* than four, else one.
FourWordsIn ==
  LET all == word \o First(InFour, Left)
  IN  /\ inLoop = "words"
      /\ todo >= InFour
      /\ Len(Left) > InFour
      /\ got' = got \o First(InFour, all)
      /\ word' = Behind(InFour, all)
      /\ position' = position + InFour
      /\ todo' = todo - InFour
      /\ UNCHANGED <<bytesVars, fetched, chunk, inLoop, start, asked, answer>>

OneWordIn ==
  /\ inLoop = "words"
  /\ todo >= WordBits
  /\ todo < InFour \/ Len(Left) <= InFour
  /\ TakeInLoop(WordBits)

WordsInOver ==
  /\ inLoop = "words"
  /\ todo < WordBits
  /\ Continue("bytes")

\* Last bytes, last bits.
BytesIn ==
  /\ inLoop = "bytes"
  /\ todo > 0
  /\ TakeInLoop(Smaller(todo, ByteBits))

Returned ==
  /\ inLoop = "bytes"
  /\ todo = 0
  /\ inLoop' = "none"
  /\ answer' = "bits"
  /\ UNCHANGED <<bytesVars, fetchVars, word, todo, got, start, asked>>

-----------------------------------------------------------------------------
(* seek() and hasMoreToRead()                                              *)

Seek(p) ==
  LET byte == BytesDown(p)
      off  == p % ByteBits
      bits == SupplyFrom(byte)
  IN  /\ opened = 1
      /\ inLoop = "none"
      /\ IF off = 0
           THEN /\ fetched' = byte
                /\ chunk' = <<>>
                /\ position' = 0
                /\ word' = <<>>
           ELSE /\ fetched' = byte + Len(bits)
                /\ chunk' = bits
                /\ position' = Len(WordOf(bits))
                /\ word' = Behind(off, WordOf(bits))
      /\ start' = p
      /\ asked' = 0
      /\ got' = <<>>
      /\ answer' = "bits"
      /\ UNCHANGED <<bytesVars, inLoop, todo>>

HasMoreToRead ==
  /\ opened = 1
  /\ inLoop = "none"
  /\ answer # "end"
  /\ IF Left # <<>> \/ word # <<>>
       THEN answer' = "more" /\ UNCHANGED fetchVars
       ELSE /\ Refill(0)
            /\ answer' = IF Supply = <<>> THEN "nomore" ELSE "more"
  /\ UNCHANGED <<bytesVars, word, inLoop, todo, got, start, asked>>

InNext ==
  \/ \E n \in 1..WordBits : ReadBits(n)
  \/ \E n \in 1..MaxAsked : ReadArray(n)
  \/ Empty \/ CopyBuffer \/ CopyRest
  \/ FourWordsIn \/ OneWordIn \/ WordsInOver \/ BytesIn \/ Returned
  \/ \E p \in 0..Smaller(MaxSeek, Len(source)) : Seek(p)
  \/ HasMoreToRead

-----------------------------------------------------------------------------
(* Properties.                                                             *)

\* However the calls mix, a call returns exactly the bits that follow the
\* cursor and moves it behind them; a call fails only if the stream has fewer
\* bits left than it asked for; hasMoreToRead() tells whether any is left.
ReadsExact ==
  /\ answer = "bits" => /\ got = SubSeq(source, start + 1, start + asked)
                        /\ Tell = start + asked
  /\ answer = "end" => start + asked > Len(source)
  /\ answer = "more" => Tell < Len(source)
  /\ answer = "nomore" => Tell = Len(source)
=============================================================================
