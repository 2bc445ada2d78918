------------------------------ MODULE LZCodec ------------------------------
(***************************************************************************)
(* LZX: literals, tokens, distances and lengths of matches, found through  *)
(* a hash table and the last two distances, in four sections.              *)
(*                                                                         *)
(* Radix is that of the bytes of a number (256) and IntBytes the bytes of  *)
(* an integer (4); Word, Quick and HashBytes are the bytes compared at a   *)
(* time (8), at first (4) and hashed (5); LastPart is what the end of the      *)
(* block keeps out of matches (18); Extra says whether a second next       *)
(* position is tried (LZX against LZ).                                     *)
(***************************************************************************)
EXTENDS Integers, Sequences, SequencesExt, Blocks

CONSTANTS Radix, IntBytes, Word, Quick, HashBytes, HashSize, LastPart, MinBlock, SmallBlock,
          MaxDistance1, MaxDistance2, SkipShift, Extra

HeaderSize == 3 * IntBytes + 1

READ_LENGTH_GUARD == 2

MaxMatch(minMatch) == Radix * Radix - 1 + Radix - 2 + minMatch

getMaxEncodedLength(n) ==
  (IF n <= SmallBlock THEN n + 16 ELSE n + n \div 64) + READ_LENGTH_GUARD

Larger(a, b) == IF a >= b THEN a ELSE b

Smaller(a, b) == IF a <= b THEN a ELSE b

emitLength(n) ==
  IF n < Radix - 2 THEN <<n>>
  ELSE IF n < Radix * Radix + Radix - 2
       THEN <<Radix - 2>> \o Reverse(Digits(n - (Radix - 2), Radix, 2))
       ELSE <<Radix - 1>> \o Reverse(Digits(n - (Radix - 1), Radix, 3))

readLength(src, i) ==
  LET first == At(src, i)
      more == IF first < Radix - 2 THEN 0 ELSE IF first = Radix - 2 THEN 2 ELSE 3
  IN  [val |-> first + Value(Reverse(Part(src, i + 1, more)), Radix), at |-> i + 1 + more]

(***************************************************************************)
(* The hash of the bytes at i: the product and the shift are left out,     *)
(* what counts is that different bytes may have the same.                  *)
(***************************************************************************)
hash(src, i) == SumOf([k \in 1..HashBytes |-> k * At(src, i + k - 1)]) % HashSize

Same(src, i, ref) == Part(src, i, Quick) = Part(src, ref, Quick)

Common(src, i, ref, most) ==
  CHOOSE n \in 0..most :
    /\ \A k \in 0..n - 1 : At(src, i + k) = At(src, ref + k)
    /\ n = most \/ At(src, i + n) # At(src, ref + n)

findMatch(src, i, ref, most) == Common(src, i, ref, (Larger(most, 0) \div Word) * Word)

(***************************************************************************)
(* The state of the encoder: the position, the end of the last match, the  *)
(* table, the last distances and the four sections.                        *)
(***************************************************************************)
Match(at, ref, len) == [at |-> at, ref |-> ref, len |-> len]

SrcEnd(src) == Len(src) - LastPart

maxDistance(src) ==
  IF SrcEnd(src) < 4 * MaxDistance1 THEN MaxDistance1 ELSE MaxDistance2

MinRef(src, t) == Larger(t.i - maxDistance(src), 0)

MatchAt(src, i, ref, minMatch) ==
  Match(i, ref, findMatch(src, i, ref, Smaller(SrcEnd(src) - i, MaxMatch(minMatch))))

RepeatMatch(src, t, minMatch) ==
  LET ref(k) == t.i + 1 - t.repd[k]
      Fits(k) == ref(k) > MinRef(src, t) /\ Same(src, t.i + 1, ref(k))
  IN  CASE Fits(t.first) -> MatchAt(src, t.i + 1, ref(t.first), minMatch)
        [] ~Fits(t.first) /\ Fits(3 - t.first) -> MatchAt(src, t.i + 1, ref(3 - t.first), minMatch)
        [] OTHER -> Match(t.i, 0, 0)

TableMatch(src, t, minMatch) ==
  LET ref == t.table[hash(src, t.i)]
  IN  IF ref > MinRef(src, t) /\ Same(src, t.i, ref)
      THEN MatchAt(src, t.i, ref, minMatch) ELSE Match(t.i, ref, 0)

Inserted(table, src, i) == [table EXCEPT ![hash(src, i)] = i]

(***************************************************************************)
(* A match at a later position is taken when it is at least as long.       *)
(***************************************************************************)
BetterAt(src, t, step, m, minMatch) ==
  LET i == t.i + step
      ref == t.table[hash(src, i)]
      back == m.len - (Quick - 1)
      next == MatchAt(src, i, ref, minMatch)
  IN  IF /\ ref > MinRef(src, t) + step
         /\ Same(src, i + back, ref + back)
         /\ next.len >= m.len
      THEN next ELSE m

Lazy(src, t, m, minMatch) ==
  LET one == BetterAt(src, t, 1, m, minMatch)
      u == [t EXCEPT !.table = Inserted(@, src, t.i + 1)]
      two == IF Extra THEN BetterAt(src, u, 2, one, minMatch) ELSE one
  IN  IF m.at - m.ref \in {t.repd[1], t.repd[2]} THEN [m |-> m, table |-> t.table]
      ELSE [m |-> two, table |-> IF Extra THEN Inserted(u.table, src, t.i + 2) ELSE u.table]

ExtendedBack(src, t, m) ==
  LET most == Smaller(m.at - t.anchor, m.ref - MinRef(src, t))
      n == CHOOSE b \in 0..Larger(most, 0) :
             /\ \A k \in 1..b : At(src, m.at - k) = At(src, m.ref - k)
             /\ b = Larger(most, 0) \/ At(src, m.at - b - 1) # At(src, m.ref - b - 1)
  IN  Match(m.at - n, m.ref - n, m.len + n)

Capped(m, minMatch) ==
  LET over == Larger(m.len - MaxMatch(minMatch), 0)
  IN  Match(m.at + over, m.ref + over, m.len - over)

(***************************************************************************)
(* The match to write at t.i, and the table with what was looked at.       *)
(***************************************************************************)
FromTable(src, t, minMatch) ==
  LET u == [t EXCEPT !.table = Inserted(@, src, t.i)]
      lazy == Lazy(src, u, TableMatch(src, t, minMatch), minMatch)
  IN  [m |-> Capped(ExtendedBack(src, t, lazy.m), minMatch), table |-> lazy.table]

FromRepeat(src, t, m, minMatch) ==
  LET table == Inserted(t.table, src, t.i)
  IN  IF m.len >= MaxMatch(minMatch) \/ At(src, t.i) # At(src, m.ref - 1)
      THEN [m |-> m, table |-> Inserted(table, src, t.i + 1)]
      ELSE [m |-> Match(t.i, m.ref - 1, m.len + 1), table |-> table]

(***************************************************************************)
(* Writing a match: the token LLLFFMMM or LLLFFFMM, the distance unless it *)
(* is one of the last two, the rest of the lengths, and the literals.      *)
(***************************************************************************)
DistanceBytes(dist) == IF dist >= Radix * Radix THEN 3 ELSE IF dist >= Radix THEN 2 ELSE 1

Written(src, t, m, minMatch) ==
  LET dist == m.at - m.ref
      repeat == dist \in {t.repd[1], t.repd[2]}
      most == IF repeat THEN 3 ELSE 7
      flag == IF dist = t.repd[1] THEN 0 ELSE IF dist = t.repd[2] THEN 4
              ELSE DistanceBytes(dist) * 8
      len == m.len - minMatch
      lits == m.at - t.anchor
  IN  [t EXCEPT
        !.tokens = Append(@, Smaller(lits, 7) * 32 + flag + Smaller(len, most)),
        !.dists = IF repeat THEN @ ELSE @ \o Reverse(Digits(dist, Radix, DistanceBytes(dist))),
        !.lens = IF len >= most THEN @ \o emitLength(len - most) ELSE @,
        !.lits = @ \o (IF lits >= 7 THEN emitLength(lits - 7) ELSE <<>>)
                   \o Part(src, t.anchor, lits),
        !.repd = <<dist, t.repd[1]>>, !.first = 2, !.skip = 0,
        !.i = m.at + m.len, !.anchor = m.at + m.len]

AllInserted(table, src, from, to) ==
  [h \in DOMAIN table |->
     LET at == {i \in from..to - 1 : hash(src, i) = h}
     IN  IF at = {} THEN table[h] ELSE CHOOSE i \in at : \A j \in at : j <= i]

Taken(src, t, found, minMatch) ==
  Written(src, [t EXCEPT !.table = AllInserted(found.table, src, found.m.at + 1,
                                               found.m.at + found.m.len)],
          found.m, minMatch)

Passed(src, t) ==
  [t EXCEPT !.table = Inserted(@, src, t.i), !.first = 1,
            !.i = @ + 1 + t.skip \div 2^SkipShift, !.skip = @ + 1]

Stepped(src, t, repeat, minMatch) ==
  IF repeat.len >= minMatch THEN Taken(src, t, FromRepeat(src, t, repeat, minMatch), minMatch)
  ELSE IF TableMatch(src, t, minMatch).len < minMatch THEN Passed(src, t)
  ELSE Taken(src, t, FromTable(src, t, minMatch), minMatch)

RECURSIVE Encode(_, _, _)
Encode(src, t, minMatch) ==
  IF t.i >= SrcEnd(src) THEN t
  ELSE Encode(src, Stepped(src, t, RepeatMatch(src, t, minMatch), minMatch), minMatch)

Start(src) ==
  [i |-> 0, anchor |-> 0, table |-> [h \in 0..HashSize - 1 |-> 0],
   repd |-> <<Len(src), Len(src)>>, first |-> 1, skip |-> 0,
   lits |-> <<>>, tokens |-> <<>>, dists |-> <<>>, lens |-> <<>>]

LastLiterals(src, t) ==
  LET lits == Len(src) - t.anchor
  IN  [t EXCEPT !.tokens = Append(@, Smaller(lits, 7) * 32),
                !.lits = @ \o (IF lits >= 7 THEN emitLength(lits - 7) ELSE <<>>)
                           \o From(src, t.anchor)]

Flags(src, minMatch) ==
  (minMatch - 2) * 2 + (IF maxDistance(src) = MaxDistance1 THEN 0 ELSE 1)

Int32(n) == Digits(n, Radix, IntBytes)

Sections(src, t, minMatch) ==
  Int32(HeaderSize + Len(t.lits)) \o Int32(Len(t.tokens)) \o Int32(Len(t.dists))
  \o <<Flags(src, minMatch)>> \o t.lits \o t.tokens \o t.dists \o t.lens

(***************************************************************************)
(* type is what is known of the data: DNA has longer matches.              *)
(***************************************************************************)
Ended(src, t, minMatch) ==
  LET out == Sections(src, LastLiterals(src, t), minMatch)
      size == HeaderSize + Len(t.lits) + Len(t.tokens) + Len(t.dists) + Len(t.lens)
  IN  IF size + Len(src) - t.anchor >= Len(src) THEN Fail
      ELSE [ok |-> Len(out) <= Len(src) - Len(src) \div 100, out |-> out]

forward(src, room, type) ==
  LET minMatch == IF type = "DNA" THEN 6 ELSE 4
  IN  IF src = <<>> THEN Done(<<>>)
      ELSE IF room < getMaxEncodedLength(Len(src)) \/ Len(src) < MinBlock \/ type = "SMALL_ALPHABET"
           THEN Fail
           ELSE Ended(src, Encode(src, Start(src), minMatch), minMatch)

(***************************************************************************)
(* The inverse: the match of a token is read before its literals, and is   *)
(* only copied when literals are left after them.                          *)
(***************************************************************************)
CopyOf(out, dist, n) ==
  [k \in 1..n |-> out[Len(out) - dist + 1 + ((k - 1) % dist)]]

MatchOf(src, d, minMatch) ==
  LET token == At(src, d.tk)
      repeat == (token \div 8) % 4 = 0
      most == IF repeat THEN 3 ELSE 7
      len == token % (most + 1)
      rest == readLength(src, d.len)
      bytes == (token \div 8) % 4
  IN  [len |-> len + minMatch + (IF len = most THEN rest.val ELSE 0),
       at |-> IF len = most THEN rest.at ELSE d.len,
       bytes |-> IF repeat THEN 0 ELSE bytes,
       dist |-> IF repeat THEN d.repd[1 + ((token \div 4) % 2)]
                ELSE Value(Reverse(Part(src, d.m, bytes)), Radix)]

RECURSIVE Decode(_, _, _, _, _)
Decode(src, d, minMatch, litEnd, room) ==
  LET token == At(src, d.tk)
      m == MatchOf(src, d, minMatch)
      long == readLength(src, d.i)
      lits == IF token >= 224 THEN 7 + long.val ELSE token \div 32
      from == IF token >= 224 THEN long.at ELSE d.i
      out == d.out \o Part(src, from, lits)
      u == [d EXCEPT !.i = from + lits, !.tk = @ + 1, !.m = @ + m.bytes, !.len = m.at,
                     !.repd = <<m.dist, d.repd[1]>>, !.out = out]
      maxDist == IF At(src, HeaderSize - 1) % 2 = 0 THEN MaxDistance1 ELSE MaxDistance2
  IN  IF lits > room - Len(d.out) \/ lits > litEnd - from THEN Fail
      ELSE IF token >= 32 /\ u.i >= litEnd - HeaderSize
           THEN [ok |-> u.i = litEnd, out |-> out]
      ELSE IF m.dist > Len(out) \/ m.dist > maxDist \/ Len(out) + m.len > room THEN Fail
      ELSE Decode(src, [u EXCEPT !.out = @ \o CopyOf(out, m.dist, m.len)],
                  minMatch, litEnd, room)

inverse(src, slack, room) ==
  LET int(k) == Value(Part(src, k * IntBytes, IntBytes), Radix)
      litEnd == int(0)
      minMatch == (((At(src, HeaderSize - 1) \div 2) % 8) + 2)
      start == [i |-> HeaderSize, tk |-> litEnd, m |-> litEnd + int(1),
                len |-> litEnd + int(1) + int(2), repd |-> <<Len(src), Len(src)>>, out |-> <<>>]
  IN  IF src = <<>> THEN Done(<<>>)
      ELSE IF Len(src) < HeaderSize \/ slack < READ_LENGTH_GUARD THEN Fail
      ELSE IF litEnd < HeaderSize \/ litEnd + int(1) + int(2) > Len(src) THEN Fail
      ELSE Decode(src, start, minMatch, litEnd, room)
=============================================================================
