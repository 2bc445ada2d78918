----------------------------- MODULE ROLZCodec -----------------------------
(***************************************************************************)
(* Reduced offset Lempel-Ziv: matches are looked for among the last places *)
(* where the same bytes came before, and named by their rank among them.   *)
(* ROLZ entropy codes literals, tokens, lengths and ranks separately and   *)
(* ROLZX codes each literal or match with an adaptive binary coder.  Both  *)
(* take blocks in chunks and the last four bytes (LastPart) as literals.   *)
(*                                                                         *)
(* VarBase is that of a byte of a length (128), Word and First the bytes   *)
(* that are compared at a time and start a chunk (8), PosChecks the places *)
(* kept (16 or 32), LongKey the bytes of the long context (8).             *)
(***************************************************************************)
EXTENDS Integers, Sequences, SequencesExt, Blocks

CONSTANTS VarBase, Word, First, LastPart, ChunkSize, MinBlock, SmallBlock, PosChecks,
          LongKey, KeySize, CheckSize, MinMatch, MinMatchLong, MaxMatch1, MaxMatch2,
          SkipShift

Larger(a, b) == IF a >= b THEN a ELSE b

Smaller(a, b) == IF a <= b THEN a ELSE b

getMaxEncodedLength(n, x) ==
  IF x THEN n + (IF n < 32768 THEN 1024 ELSE n \div 32)
  ELSE IF n <= SmallBlock THEN n + 64 ELSE n

(***************************************************************************)
(* What the type of the data asks for: how far before a place its context  *)
(* starts, the shortest match and with it the context; and the flags that  *)
(* tell the decoder.                                                       *)
(***************************************************************************)
Settings(type, x) ==
  CASE type = "EXE" -> [delta |-> 3, min |-> MinMatch, flags |-> 8]
    [] type = "DNA" -> [delta |-> LongKey, min |-> MinMatchLong, flags |-> 4]
    [] type = "MULTIMEDIA" /\ ~x -> [delta |-> LongKey, min |-> MinMatch + 1, flags |-> 2]
    [] OTHER -> [delta |-> 2, min |-> MinMatch, flags |-> 0]

SettingsOf(flags, x) ==
  Settings(CASE flags = 8 -> "EXE" [] flags = 4 -> "DNA" [] flags = 2 -> "MULTIMEDIA"
             [] OTHER -> "UNDEFINED", x)

Mixed(bytes) == SumOf([k \in DOMAIN bytes |-> k * bytes[k]])

Key(src, i, set) ==
  Mixed(Part(src, i - set.delta, IF set.min = MinMatch THEN 2 ELSE LongKey)) % KeySize

Check(src, i) == Mixed(Part(src, i, 3)) % CheckSize

(***************************************************************************)
(* The places: for each context a ring and the index of the last one in    *)
(* it.  A place is an offset in the chunk, with a hash of what is there.   *)
(***************************************************************************)
NoCounters == [key \in 0..KeySize - 1 |-> 0]

NoPlaces == [key \in 0..KeySize - 1 |-> [k \in 0..PosChecks - 1 |-> [check |-> 0, at |-> 0]]]

Register(p, key, check, at) ==
  LET next == (p.counters[key] + 1) % PosChecks
  IN  [counters |-> [p.counters EXCEPT ![key] = next],
       rings |-> [p.rings EXCEPT ![key][next] = [check |-> check, at |-> at]]]

Place(p, key, rank) == p.rings[key][(p.counters[key] - rank) % PosChecks]

Common(src, a, b, most) ==
  CHOOSE n \in 0..most :
    /\ \A k \in 0..n - 1 : At(src, a + k) = At(src, b + k)
    /\ n = most \/ At(src, a + n) # At(src, b + n)

Whole(most) == IF most <= 0 THEN 0 ELSE ((most + Word - 1) \div Word) * Word

(***************************************************************************)
(* The longest match at pos of the chunk at base, the most recent of them; *)
(* ROLZX stops at the first one of the longest length.                     *)
(***************************************************************************)
findMatch(src, base, pos, end, p, set, x) ==
  LET key == Key(src, base + pos, set)
      most == Smaller(IF x THEN MaxMatch2 ELSE MaxMatch1, end - pos) - Word
      Longest(best, rank) ==
        LET place == Place(p, key, rank)
            n == IF place.check # Check(src, base + pos) THEN 0
                 ELSE Common(src, base + place.at, base + pos, Whole(most))
        IN  IF n > best.len /\ ~(x /\ best.len = most) THEN [len |-> n, rank |-> rank] ELSE best
  IN  Fold(Longest, [len |-> 0, rank |-> 0], [k \in 1..PosChecks |-> k - 1])

RegisterAt(src, base, pos, p, set) ==
  Register(p, Key(src, base + pos, set), Check(src, base + pos), pos)

(***************************************************************************)
(* Lengths of one to four bytes, the most significant first.               *)
(***************************************************************************)
emitLength(n) ==
  LET size == CHOOSE g \in 1..4 : (g = 1 \/ n >= VarBase^(g - 1)) /\ (g = 4 \/ n < VarBase^g)
      digits == Reverse(Digits(n, VarBase, size))
  IN  [k \in 1..size |-> IF k < size THEN VarBase + digits[k] ELSE digits[k]]

RECURSIVE ReadFrom(_, _, _, _)
ReadFrom(src, i, val, k) ==
  LET next == val * VarBase + (At(src, i) % VarBase)
  IN  IF At(src, i) >= VarBase /\ k < 4 THEN ReadFrom(src, i + 1, next, k + 1)
      ELSE [val |-> next, at |-> i + 1]

readLength(src, i) == ReadFrom(src, i, 0, 1)

(***************************************************************************)
(* ROLZ: a token is five bits of literals and three of match length.       *)
(***************************************************************************)
Token(lits, len) == Smaller(lits, 31) * 8 + Smaller(len, 7)

Long(n, most) == IF n >= most THEN emitLength(n - most) ELSE <<>>

EmitMatch(src, base, t, pos, m, set) ==
  LET len == m.len - set.min
      lits == pos - t.first
  IN  [t EXCEPT !.tokens = Append(@, Token(lits, len)),
                !.lens = @ \o Long(len, 7) \o Long(lits, 31),
                !.lits = @ \o Part(src, base + t.first, lits),
                !.ranks = Append(@, m.rank),
                !.i = pos + m.len, !.first = pos + m.len, !.skip = 0]

(***************************************************************************)
(* The match m at the position or the one after it, n, when it is longer.  *)
(***************************************************************************)
EmitLonger(src, base, t, m, n, set) ==
  IF n.len >= set.min /\ n.len > m.len
  THEN EmitMatch(src, base, [t EXCEPT !.p = RegisterAt(src, base, t.i + 1, t.p, set)],
                 t.i + 1, n, set)
  ELSE EmitMatch(src, base, t, t.i, m, set)

Step(src, base, size, t, m, set) ==
  IF m.len < set.min THEN [t EXCEPT !.i = @ + 1 + t.skip \div 2^SkipShift, !.skip = @ + 1]
  ELSE EmitLonger(src, base, t, m, findMatch(src, base, t.i + 1, size, t.p, set, FALSE), set)

RECURSIVE EncodeChunk(_, _, _, _, _)
EncodeChunk(src, base, size, t, set) ==
  IF t.i >= size THEN t
  ELSE EncodeChunk(src, base, size,
         Step(src, base, size, [t EXCEPT !.p = RegisterAt(src, base, t.i, t.p, set)],
              findMatch(src, base, t.i, size, t.p, set, FALSE), set), set)

EmitLast(src, base, size, t) ==
  LET lits == size - t.first
  IN  [t EXCEPT !.tokens = IF @ = <<>> THEN @ ELSE Append(@, Token(lits, 0)),
                !.lens = @ \o Long(lits, 31),
                !.lits = @ \o Part(src, base + t.first, lits)]

(***************************************************************************)
(* What the four buffers of a chunk become: an entropy coder writes them,  *)
(* which has a module of its own; here they stand for what it writes.      *)
(***************************************************************************)
Buffers(t) ==
  <<Len(t.lits), Len(t.tokens), Len(t.lens), Len(t.ranks)>>
  \o t.lits \o t.tokens \o t.lens \o t.ranks

RECURSIVE EncodeChunks(_, _, _, _, _, _)
EncodeChunks(src, base, size, counters, out, set) ==
  LET end == Smaller(base + size, Len(src) - LastPart)
      n == Smaller(Len(src) - LastPart - base, First)
      start == [i |-> n, first |-> n, skip |-> 0, lits |-> Part(src, base, n),
                tokens |-> <<>>, lens |-> <<>>, ranks |-> <<>>,
                p |-> [counters |-> counters, rings |-> NoPlaces]]
      next(t) == EncodeChunks(src, end, end - base, t.p.counters,
                              out \o Buffers(EmitLast(src, base, end - base, t)), set)
  IN  IF base >= Len(src) - LastPart THEN out
      ELSE Once(next, EncodeChunk(src, base, end - base, start, set))

Chunks(n) == Smaller(n, ChunkSize)

Encoded(src, set) ==
  EncodeChunks(src, 0, Chunks(Len(src)), NoCounters, <<Len(src), set.flags>>, set)
    \o From(src, Len(src) - LastPart)

forward1(src, room, type) ==
  LET result(out) == [ok |-> Len(out) <= room /\ Len(out) < Len(src), out |-> out]
  IN  IF room < getMaxEncodedLength(Len(src), FALSE) THEN Fail
      ELSE Once(result, Encoded(src, Settings(type, FALSE)))

(***************************************************************************)
(* The inverse of ROLZ registers the places that the encoder has looked    *)
(* at, in the same order: of a run of literals, with the same skips.       *)
(***************************************************************************)
RECURSIVE RegisterRun(_, _, _, _, _, _)
RegisterRun(out, base, pos, p, skip, set) ==
  IF base + pos >= Len(out) THEN p
  ELSE RegisterRun(out, base, pos + 1 + skip \div 2^SkipShift,
                   Register(p, Key(out, base + pos, set), 0, pos), skip + 1, set)

CopyAt(out, from, n) ==
  [k \in 1..n |-> At(out, from + ((k - 1) % (Len(out) - from)))]

RECURSIVE DecodeChunk(_, _, _, _, _, _)
DecodeChunk(d, out, base, size, dstEnd, set) ==
  LET token == Head(d.tokens)
      len == readLength(d.lens, d.len)
      afterLen == IF token % 8 = 7 THEN len.at ELSE d.len
      run == readLength(d.lens, afterLen)
      mLen == set.min + (token % 8) + (IF token % 8 = 7 THEN len.val ELSE 0)
      lits == (token \div 8) + (IF token >= 248 THEN run.val ELSE 0)
      more == out \o Part(d.lits, d.lit, lits)
      pos == Len(more) - base
      p == RegisterRun(more, base, Len(out) - base, d.p, 0, set)
      key == Key(more, Len(more), set)
      rank == At(d.ranks, d.rank)
      next == [d EXCEPT !.tokens = Tail(@), !.lit = @ + lits,
                        !.len = IF token >= 248 THEN run.at ELSE afterLen]
  IN  IF Len(out) - base >= size \/ d.tokens = <<>>
      THEN [d |-> d, out |-> out, ok |-> Len(out) - base = size]
      ELSE IF \/ token % 8 = 7 /\ d.len >= Len(d.lens)
              \/ token >= 248 /\ afterLen >= Len(d.lens)
              \/ d.lit + lits > Len(d.lits)
           THEN [d |-> d, out |-> out, ok |-> FALSE]
      ELSE IF lits > 0 /\ pos >= size
           THEN [d |-> [next EXCEPT !.p = p], out |-> more, ok |-> pos = size]
      ELSE IF Len(more) + mLen > dstEnd \/ d.rank >= Len(d.ranks)
           THEN [d |-> d, out |-> out, ok |-> FALSE]
      ELSE DecodeChunk([next EXCEPT !.rank = @ + 1, !.p = Register(p, key, 0, pos)],
             more \o CopyAt(more, base + Place(p, key, rank).at, mLen), base, size, dstEnd, set)

RECURSIVE DecodeChunks(_, _, _, _, _, _)
DecodeChunks(src, at, out, counters, dstEnd, set) ==
  LET size == Smaller(Chunks(dstEnd), dstEnd - Len(out))
      len(k) == At(src, at + k)
      from(k) == at + 4 + SumOf([j \in 1..k |-> len(j - 1)])
      n == Smaller(dstEnd - Len(out), First)
      lits == Part(src, from(0), len(0))
      start == [lits |-> lits, tokens |-> Part(src, from(1), len(1)),
                lens |-> Part(src, from(2), len(2)), ranks |-> Part(src, from(3), len(3)),
                lit |-> n, len |-> 0, rank |-> 0,
                p |-> [counters |-> counters, rings |-> NoPlaces]]
      next(res) ==
        IF /\ res.ok
           /\ res.d.tokens = <<>> /\ res.d.lit = len(0)
           /\ res.d.len = len(2) /\ res.d.rank = len(3)
        THEN DecodeChunks(src, from(4), res.out, res.d.p.counters, dstEnd, set)
        ELSE [ok |-> FALSE]
  IN  IF Len(out) >= dstEnd THEN [ok |-> TRUE, out |-> out, at |-> at]
      ELSE IF \/ at >= Len(src)
              \/ len(0) < Smaller(size, First) \/ len(0) > size
              \/ len(3) # (IF len(1) = 0 THEN 0 ELSE len(1) - 1)
           THEN [ok |-> FALSE]
      ELSE IF len(1) = 0
           THEN IF len(0) # size THEN [ok |-> FALSE]
                ELSE DecodeChunks(src, from(4), out \o lits, counters, dstEnd, set)
      ELSE Once(next, DecodeChunk(start, out \o Part(lits, 0, n), Len(out), size, dstEnd, set))

inverse1(src, room) ==
  LET ended(res) ==
        IF ~res.ok THEN Fail
        ELSE IF Len(src) - res.at # LastPart \/ Len(res.out) + LastPart > room THEN Fail
        ELSE Done(res.out \o From(src, res.at))
  IN  IF At(src, 0) <= LastPart \/ At(src, 0) - LastPart > room THEN Fail
      ELSE Once(ended, DecodeChunks(src, 2, <<>>, NoCounters, At(src, 0) - LastPart,
                                    SettingsOf(At(src, 1), FALSE)))
=============================================================================
