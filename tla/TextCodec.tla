------------------------------ MODULE TextCodec ------------------------------
(***************************************************************************)
(* Text codec: words found in a dictionary become indexes in it.  The      *)
(* dictionary starts with common words and learns the others as they come, *)
(* in the decoder from what it has of the text: both must learn the same   *)
(* words at the same places.  One codec marks an index with an escape, the *)
(* other with the high bit.                                                *)
(*                                                                         *)
(* Bytes: Letters, whose case is their lowest bit (0x20), SP, CR, LF, the  *)
(* two escapes and NUL; those from High (128) on are not ASCII.  An index  *)
(* has Low values per byte in codec 1 (128) and Base of them, the bits of  *)
(* the first byte apart, in codec 2.  The first dictionary has 2^MinLog to *)
(* 2^MaxLog entries (13, 18), one per Share bytes (128), and grows to      *)
(* MaxDict (2^19); the map has MapSize slots.                              *)
(***************************************************************************)
EXTENDS Integers, Sequences, FiniteSets, SequencesExt, Blocks

CONSTANTS
  Letters, SP, CR, LF, Escape1, Escape2, NUL, High, Low, Base,
  StaticWords, MinLog, MaxLog, Share, MaxDict, MapSize, HashSize, Hash1, Hash2,
  MaxWord, MinBlock, MaxBlock, NulShare, AsciiShare, SpaceShare

None == -1

IsText(b) == b \in Letters

IsDelimiter(b) == b \in {SP, CR, LF}

Flip(b) == IF b % 2 = 0 THEN b + 1 ELSE b - 1

(***************************************************************************)
(* The dictionary: the entries by index, the slot of the map for each      *)
(* hash, and the entry to be used next.  Codec 1 has entries for the two   *)
(* escapes behind the common words.  An entry that is not used, or for an  *)
(* escape, has hash 0.                                                     *)
(***************************************************************************)
computeWordHash(w) == Fold(LAMBDA h, b : (h * Hash1 + b * Hash2) % HashSize, Hash1, w)

Slot(hash) == hash % MapSize

Entry(word, hash) == [word |-> word, hash |-> hash]

NoEntry == Entry(<<>>, 0)

StaticEntries(codec) ==
  [k \in DOMAIN StaticWords |-> Entry(StaticWords[k], computeWordHash(StaticWords[k]))]
    \o (IF codec = 1 THEN <<Entry(<<Escape2>>, 0), Entry(<<Escape1>>, 0)>> ELSE <<>>)

StaticSize(codec) == Len(StaticEntries(codec))

\* The map after every entry of list has been put into it, in order.
Mapped(list, map) ==
  [s \in DOMAIN map |->
     LET own == {i \in DOMAIN list : Slot(list[i].hash) = s}
     IN  IF own = {} THEN map[s] ELSE CHOOSE i \in own : \A j \in own : j <= i]

Padded(entries, size) ==
  [i \in 0..size - 1 |-> IF i < Len(entries) THEN At(entries, i) ELSE NoEntry]

InitialSize(codec, n) ==
  LET log == IF n < Share THEN 0 ELSE Log2(n \div Share)
      bounded == IF log > MaxLog THEN MaxLog ELSE IF log < MinLog THEN MinLog ELSE log
      size == 2 ^ bounded
  IN  IF size < StaticSize(codec) THEN StaticSize(codec) ELSE size

reset(codec, n) ==
  [list |-> Padded(StaticEntries(codec), InitialSize(codec, n)),
   size |-> InitialSize(codec, n),
   map |-> Mapped([i \in 0..StaticSize(codec) - 1 |-> At(StaticEntries(codec), i)],
                  [s \in 0..MapSize - 1 |-> None]),
   words |-> StaticSize(codec)]

expandDictionary(d) ==
  [d EXCEPT !.list = [i \in 0..2 * d.size - 1 |-> IF i < d.size THEN d.list[i] ELSE NoEntry],
            !.map = Mapped(d.list, @),
            !.size = 2 * @]

(***************************************************************************)
(* A new word takes the next entry, and the slot of the word that was      *)
(* there is cleared, whatever is in it.  A dictionary that is full grows,  *)
(* or starts over behind the common words.                                 *)
(***************************************************************************)
Entered(d, word, hash) ==
  [d EXCEPT !.map = [@ EXCEPT ![Slot(d.list[d.words].hash)] = None, ![Slot(hash)] = d.words],
            !.list[d.words] = Entry(word, hash),
            !.words = @ + 1]

RoomAfter(codec, d) ==
  IF d.words < d.size THEN d
  ELSE IF d.size < MaxDict THEN expandDictionary(d)
  ELSE [d EXCEPT !.words = StaticSize(codec)]

Learned(codec, d, word) ==
  LET hash == computeWordHash(word)
      short == Len(word) = 3 /\ d.words >= Low * Low
  IN  IF Len(word) < 3 \/ short \/ d.map[Slot(hash)] # None THEN d
      ELSE Once(LAMBDA e : RoomAfter(codec, e), Entered(d, word, hash))

Matches(d, e, hash, n) == e # None /\ d.list[e].hash = hash /\ Len(d.list[e].word) = n

\* Two words with the same hash and letters, the first one left out.
Lookup(d, word, hash) ==
  LET e == d.map[Slot(hash)]
  IN  IF Matches(d, e, hash, Len(word)) THEN e ELSE None

SameOrNone(d, e, word) ==
  IF e # None /\ From(d.list[e].word, 1) # From(word, 1) THEN None ELSE e

FlippedFirst(word) == <<Flip(At(word, 0))>> \o From(word, 1)

\* The entry of the word, or of the word with its first letter in the other case.
Found(d, word) ==
  LET asIs == Lookup(d, word, computeWordHash(word))
      other == Lookup(d, word, computeWordHash(FlippedFirst(word)))
      e == IF asIs # None THEN asIs ELSE other
  IN  [entry |-> SameOrNone(d, e, word), flip |-> asIs = None]

(***************************************************************************)
(* computeStats: whether the block is text, and whether all its lines end  *)
(* with CR and LF.  (A flag for XML is only written down.)                 *)
(***************************************************************************)
Count(src, S) == Len(SelectSeq(src, LAMBDA b : b \in S))

NotText(src, strict, magic) ==
  LET n == Len(src)
      ascii == Len(SelectSeq(src, LAMBDA b : b < High))
  IN  \/ ~strict /\ magic
      \/ n - ascii > n \div 4
      \/ Count(src, Letters \cup {CR, LF}) < n \div 4
      \/ strict /\ Count(src, {NUL}) >= n \div NulShare
      \/ strict /\ ascii \div AsciiShare < n \div NulShare
      \/ ~strict /\ Count(src, {SP}) < n \div SpaceShare

IsCRLF(src) ==
  /\ \E i \in DOMAIN src : src[i] = CR
  /\ \A i \in DOMAIN src :
       /\ src[i] = CR => i < Len(src) /\ src[i + 1] = LF
       /\ src[i] = LF => i > 1 /\ src[i - 1] = CR

(***************************************************************************)
(* The index of a word.                                                    *)
(***************************************************************************)
emitWordIndex1(v) ==
  IF v < Low THEN <<v>>
  ELSE IF v < Low * Low THEN <<High + v \div Low, v % Low>>
  ELSE <<High + High \div 2 + v \div (Low * Low), High + ((v \div Low) % Low), v % Low>>

Threshold3 == High \div 2

Threshold4 == (High \div 4) * Base

emitWordIndex2(v) ==
  LET w == v + 1
  IN  IF w < Threshold3 THEN <<High + w>>
      ELSE IF w < Threshold4 THEN <<High + Threshold3 + w \div Base, w % Base>>
      ELSE <<High + Threshold3 + High \div 4 + w \div (Base * Base), (w \div Base) % Base, w % Base>>

(***************************************************************************)
(* What is no indexed word.  room is what is left of the output.           *)
(***************************************************************************)
Symbol1(crlf, b) ==
  CASE b = Escape1 -> <<Escape1>> \o emitWordIndex1(StaticSize(1) - 1)
    [] b = Escape2 -> <<Escape1>> \o emitWordIndex1(StaticSize(1) - 2)
    [] b = CR /\ crlf -> <<>>
    [] OTHER -> <<b>>

Fits1(e, b, code, room) ==
  /\ Len(e.out) < room
  /\ b \in {Escape1, Escape2} => Len(e.out) + Len(code) < room

Symbol2(crlf, b) ==
  CASE b = Escape1 -> <<Escape1, Escape1>>
    [] b = CR /\ crlf -> <<>>
    [] b >= High -> <<Escape1, b>>
    [] OTHER -> <<b>>

emitSymbols1(crlf, symbols, room) ==
  Fold(LAMBDA e, b :
         LET code == Symbol1(crlf, b)
         IN  IF ~e.ok THEN e
             ELSE IF Fits1(e, b, code, room) THEN Done(e.out \o code) ELSE Fail,
       Done(<<>>), symbols)

emitSymbols2(crlf, symbols, room) ==
  Fold(LAMBDA e, b :
         LET code == Symbol2(crlf, b)
         IN  IF e.ok /\ Len(e.out) + Len(code) <= room THEN Done(e.out \o code) ELSE Fail,
       Done(<<>>), symbols)

emitSymbols(codec, crlf, symbols, room) ==
  IF codec = 1 THEN emitSymbols1(crlf, symbols, room) ELSE emitSymbols2(crlf, symbols, room)

WordCode(codec, found) ==
  IF codec = 1
  THEN <<IF found.flip THEN Escape2 ELSE Escape1>> \o emitWordIndex1(found.entry)
  ELSE (IF found.flip THEN <<High>> ELSE <<>>) \o emitWordIndex2(found.entry)

(***************************************************************************)
(* The encoder stops at what follows a word: i is where it goes on, delim  *)
(* what precedes the word, emit the first byte not written.  A space alone *)
(* between two indexes is left out.                                        *)
(***************************************************************************)
NextBreak(src, i) ==
  CHOOSE j \in i..Len(src) :
    /\ \A k \in i..j - 1 : IsText(At(src, k))
    /\ j = Len(src) \/ ~IsText(At(src, j))

Between(src, t) ==
  IF t.emit = t.delim /\ At(src, t.delim) = SP THEN <<>>
  ELSE Part(src, t.emit, t.delim + 1 - t.emit)

Indexed(src, codec, t, found, symbols) ==
  IF ~symbols.ok \/ Len(t.out) + Len(symbols.out) >= Len(src) - (IF codec = 1 THEN 4 ELSE 3)
  THEN [t EXCEPT !.ok = FALSE]
  ELSE [t EXCEPT !.out = @ \o symbols.out \o WordCode(codec, found),
                 !.emit = t.delim + 1 + Len(t.d.list[found.entry].word)]

Coded(src, codec, crlf, t, word, found) ==
  IF found.entry = None THEN [t EXCEPT !.d = Learned(codec, @, word)]
  ELSE Indexed(src, codec, t, found,
               emitSymbols(codec, crlf, Between(src, t), Len(src) - Len(t.out)))

Passed(t, i) == [t EXCEPT !.delim = i, !.i = i + 1]

Stop(src, codec, crlf, t, i) ==
  LET n == i - t.delim - 1
      word == Part(src, t.delim + 1, n)
  IN  IF n \in 2..MaxWord /\ IsDelimiter(At(src, i))
      THEN Passed(Once(LAMBDA f : Coded(src, codec, crlf, t, word, f), Found(t.d, word)), i)
      ELSE Passed(t, i)

RECURSIVE Encode(_, _, _, _)
Encode(src, codec, crlf, t) ==
  IF ~t.ok THEN Fail
  ELSE LET i == NextBreak(src, t.i)
       IN  IF i < Len(src)
           THEN Once(LAMBDA u : Encode(src, codec, crlf, u), Stop(src, codec, crlf, t, i))
           ELSE Once(LAMBDA e : IF e.ok THEN Done(t.out \o e.out) ELSE Fail,
                     emitSymbols(codec, crlf, From(src, t.emit), Len(src) - Len(t.out)))

Mode(codec, crlf) == (IF crlf THEN 4 ELSE 0) + (IF codec = 1 THEN 0 ELSE 1)

Anchor(src, i) == IF IsText(At(src, i)) THEN i - 1 ELSE i

Begin(src, codec, crlf) ==
  LET spaces == CHOOSE k \in 0..Len(src) :
                  /\ k = Len(src) \/ At(src, k) # SP
                  /\ \A j \in 0..k - 1 : At(src, j) = SP
  IN  [ok |-> TRUE, i |-> spaces, emit |-> spaces, delim |-> Anchor(src, spaces),
       out |-> <<Mode(codec, crlf)>> \o Fill(SP, spaces), d |-> reset(codec, Len(src))]

Forward(src, room, codec, type, magic) ==
  IF \/ room < Len(src)
     \/ type \notin {"UNDEFINED", "TEXT", "BIN"}
     \/ NotText(src, codec = 1, magic)
  THEN Fail
  ELSE LET crlf == IsCRLF(src)
       IN  Once(LAMBDA t : Encode(src, codec, crlf, t), Begin(src, codec, crlf))

forward1(src, room, type, magic) == Forward(src, room, 1, type, magic)

forward2(src, room, type, magic) == Forward(src, room, 2, type, magic)

\* newToken: the coder that follows decides.
codecFor(entropy) == IF entropy \in {"NONE", "ANS0", "HUFFMAN", "RANGE"} THEN 2 ELSE 1

forward(src, room, entropy, type, magic) ==
  IF src = <<>> THEN Done(<<>>)
  ELSE IF Len(src) < MinBlock \/ Len(src) > MaxBlock THEN Fail
  ELSE IF codecFor(entropy) = 1 THEN forward1(src, room, type, magic)
  ELSE forward2(src, room, type, magic)

(***************************************************************************)
(* The index that starts at i: its value, where the next byte is, whether  *)
(* it can be one.                                                          *)
(***************************************************************************)
ByteAt(src, i) == IF i < Len(src) THEN At(src, i) ELSE 0

Index1(src, i, size) ==
  LET b(k) == ByteAt(src, i + k)
      two == (b(0) % High) * Low + b(1)
      three == (b(0) % (High \div 2)) * Low * Low + (b(1) % High) * Low + b(2)
  IN  IF b(0) < High THEN [value |-> b(0), next |-> i + 1, ok |-> TRUE]
      ELSE IF b(1) < High THEN [value |-> two, next |-> i + 2, ok |-> two < size]
      ELSE [value |-> three, next |-> i + 3, ok |-> three < size]

Index2(src, i, size) ==
  LET b(k) == ByteAt(src, i + k)
      first == b(0) % High
      top == first % (High \div 4)
      two == top * Base + b(1)
      three == (top * Base + b(1)) * Base + b(2)
  IN  IF first < Threshold3 THEN [value |-> first - 1, next |-> i + 1, ok |-> first # 0]
      ELSE IF first < Threshold3 + High \div 4
      THEN [value |-> two - 1, next |-> i + 2, ok |-> two \in 1..size]
      ELSE [value |-> three - 1, next |-> i + 3, ok |-> three \in 1..size]

(***************************************************************************)
(* The decoder learns the words of three letters and more that come to it  *)
(* as they are.  run tells that the last thing it wrote was an indexed     *)
(* word; a space before the next one was left out.                         *)
(***************************************************************************)
Plain(src, i, codec, t) ==
  LET n == i - t.delim - 1
      word == Part(src, t.delim + 1, n)
  IN  IF n \in 3..MaxWord /\ IsDelimiter(At(src, i))
         /\ SameOrNone(t.d, Lookup(t.d, word, computeWordHash(word)), word) = None
      THEN Learned(codec, t.d, word) ELSE t.d

WithFlip(word, flip) == IF flip THEN FlippedFirst(word) ELSE word

Expanded(t, index, flip, room) ==
  LET word == t.d.list[index.value].word
      space == IF t.run /\ Len(word) > 1 THEN <<SP>> ELSE <<>>
      real == Len(word) > 1
  IN  IF ~index.ok THEN [t EXCEPT !.ok = FALSE]
      ELSE IF word = <<>> \/ Len(t.out) + Len(space) + Len(word) > room
      THEN [t EXCEPT !.ok = FALSE]
      ELSE [t EXCEPT !.out = @ \o space \o WithFlip(word, flip), !.run = real,
                     !.i = index.next,
                     !.delim = IF real THEN index.next ELSE index.next - 1]

Literal(t, bytes, next, room) ==
  IF Len(t.out) + Len(bytes) > room THEN [t EXCEPT !.ok = FALSE]
  ELSE [t EXCEPT !.out = @ \o bytes, !.run = FALSE, !.i = next, !.delim = next - 1]

LineEnd(crlf, b) == IF crlf /\ b = LF THEN <<CR, LF>> ELSE <<b>>

Token1(src, crlf, t, room) ==
  LET b == At(src, t.i)
  IN  IF b \in {Escape1, Escape2}
      THEN Once(LAMBDA x : Expanded(t, x, b = Escape2, room), Index1(src, t.i + 1, t.d.size))
      ELSE Literal(t, LineEnd(crlf, b), t.i + 1, room)

Token2(src, crlf, t, room) ==
  LET b == At(src, t.i)
      at == IF b = High THEN t.i + 1 ELSE t.i
  IN  IF b >= High
      THEN Once(LAMBDA x : Expanded(t, x, b = High, room), Index2(src, at, t.d.size))
      ELSE IF b = Escape1 THEN Literal(t, <<ByteAt(src, t.i + 1)>>, t.i + 2, room)
      ELSE Literal(t, LineEnd(crlf, b), t.i + 1, room)

Token(src, codec, crlf, t, room) ==
  IF ~t.ok THEN t
  ELSE IF codec = 1 THEN Token1(src, crlf, t, room) ELSE Token2(src, crlf, t, room)

\* The letters up to i are copied, the word they make is learned.
Copied(src, codec, t, i, room) ==
  [t EXCEPT !.out = @ \o Part(src, t.i, i - t.i), !.i = i,
            !.ok = Len(t.out) + i - t.i <= room /\ (i < Len(src) => Len(t.out) + i - t.i < room),
            !.d = IF i < Len(src) THEN Plain(src, i, codec, t) ELSE @]

RECURSIVE Decode(_, _, _, _, _)
Decode(src, codec, crlf, t, room) ==
  LET i == NextBreak(src, t.i)
      after(u) == IF i = Len(src) THEN u ELSE Token(src, codec, crlf, u, room)
  IN  IF ~t.ok \/ t.i > Len(src) THEN Fail
      ELSE IF t.i = Len(src) THEN Done(t.out)
      ELSE Once(LAMBDA u : Decode(src, codec, crlf, u, room),
                Once(after, Copied(src, codec, t, i, room)))

Backward(src, codec, room) ==
  Once(LAMBDA t : Decode(src, codec, At(src, 0) \div 4 = 1, t, room),
       [ok |-> TRUE, i |-> 1, delim |-> Anchor(src, 1), out |-> <<>>, run |-> FALSE,
        d |-> reset(codec, room)])

inverse1(src, room) == Backward(src, 1, room)

inverse2(src, room) == Backward(src, 2, room)

inverse(src, room) ==
  IF src = <<>> THEN Done(<<>>)
  ELSE IF Len(src) > MaxBlock \/ Len(src) < 2 THEN Fail
  ELSE IF At(src, 0) % 2 = 0 THEN inverse1(src, room) ELSE inverse2(src, room)
=============================================================================
