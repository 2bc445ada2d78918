------------------------------ MODULE LZPCodec ------------------------------
(***************************************************************************)
(* LZP: what follows the last bytes is predicted to be what followed them  *)
(* before; a long match with the prediction becomes a flag and its length. *)
(*                                                                         *)
(* Order is the number of bytes that predict (4), MatchFlag and Radix - 1  *)
(* the flag (0xFC) and the escape (0xFF), Word and Quick the bytes that    *)
(* are compared at a time and at the end of a shortest match (8).          *)
(***************************************************************************)
EXTENDS Integers, Sequences, SequencesExt, Blocks

CONSTANTS Radix, Order, Word, Quick, MinMatch, MinBlock, MatchFlag, HashSize,
          SmallBlock, WorthShift

Escape == Radix - 1

More == Radix - 2

getMaxEncodedLength(n) == IF n <= SmallBlock THEN n + 16 ELSE n + n \div 64

DstEnd(n) == n - n \div 2^WorthShift

hash(out, i) == SumOf([k \in 1..Order |-> k * At(out, i - k)]) % HashSize

findMatch(src, i, ref, most) ==
  LET whole == (most \div Word) * Word
  IN  CHOOSE n \in 0..whole :
        /\ \A k \in 0..n - 1 : At(src, i + k) = At(src, ref + k)
        /\ n = whole \/ At(src, i + n) # At(src, ref + n)

Matched(src, i, ref) ==
  LET last == MinMatch - Quick
  IN  IF ref # 0 /\ Part(src, ref + last, Quick) = Part(src, i + last, Quick)
      THEN findMatch(src, i, ref, Len(src) - i) ELSE 0

RunOf(n) == Fill(More, n \div More) \o <<n % More>>

Predicting == [h \in 0..HashSize - 1 |-> 0]

(***************************************************************************)
(* A literal that looks like the flag is escaped where there is a          *)
(* prediction.  No match is looked for in the last MinMatch bytes.         *)
(***************************************************************************)
RECURSIVE Encode(_, _, _, _)
Encode(src, i, table, out) ==
  LET n == Len(src)
      ref == table[hash(src, i)]
      next == [table EXCEPT ![hash(src, i)] = i]
      len == IF i < n - MinMatch THEN Matched(src, i, ref) ELSE 0
      match == <<MatchFlag>> \o RunOf(len - MinMatch)
      escaped == ref # 0 /\ At(src, i) = MatchFlag
      code == IF len >= MinMatch THEN match
              ELSE IF escaped THEN <<MatchFlag, Escape>> ELSE <<At(src, i)>>
      fits == IF Len(code) = 1 THEN TRUE ELSE Len(out) + Len(code) <= DstEnd(n)
  IN  IF i = n \/ Len(out) >= DstEnd(n)
      THEN [ok |-> i = n /\ Len(out) < DstEnd(n), out |-> out]
      ELSE IF ~fits THEN Fail
      ELSE Encode(src, IF len >= MinMatch THEN i + len ELSE i + 1, next, out \o code)

forward(src, room) ==
  IF src = <<>> THEN Done(<<>>)
  ELSE IF Len(src) < MinBlock \/ room < getMaxEncodedLength(Len(src)) THEN Fail
  ELSE Encode(src, Order, Predicting, Part(src, 0, Order))

(***************************************************************************)
(* The inverse keeps the same table from what it has written.              *)
(***************************************************************************)
RECURSIVE Longer(_, _)
Longer(src, i) == IF i < Len(src) /\ At(src, i) = More THEN 1 + Longer(src, i + 1) ELSE 0

CopyFrom(out, ref, n) ==
  [k \in 1..n |-> At(out, ref + ((k - 1) % (Len(out) - ref)))]

RECURSIVE Decode(_, _, _, _, _)
Decode(src, i, table, out, room) ==
  LET at == Len(out)
      ref == table[hash(out, at)]
      next == [table EXCEPT ![hash(out, at)] = at]
      more == Longer(src, i + 1)
      len == MinMatch + more * More + At(src, i + 1 + more)
  IN  IF i = Len(src) THEN Done(out)
      ELSE IF At(src, i) # MatchFlag \/ ref = 0
           THEN IF at >= room THEN Fail
                ELSE Decode(src, i + 1, next, Append(out, At(src, i)), room)
      ELSE IF i + 1 = Len(src) THEN Fail
      ELSE IF At(src, i + 1) = Escape
           THEN IF at >= room THEN Fail
                ELSE Decode(src, i + 2, next, Append(out, MatchFlag), room)
      ELSE IF i + 1 + more >= Len(src) THEN Fail
      ELSE IF at + len > room THEN Fail
      ELSE Decode(src, i + 2 + more, next, out \o CopyFrom(out, ref, len), room)

inverse(src, room) ==
  IF src = <<>> THEN Done(<<>>)
  ELSE IF Len(src) < Order \/ room < Len(src) THEN Fail
  ELSE Decode(src, Order, Predicting, Part(src, 0, Order), room)
=============================================================================
