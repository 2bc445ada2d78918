-------------------------------- MODULE ZRLT --------------------------------
(***************************************************************************)
(* Zero run length transform: a run of n zeros becomes the binary digits   *)
(* of n+1 after the first, one per byte; the other bytes move up by one,   *)
(* the two highest behind an escape.  Base is the number of byte values.   *)
(***************************************************************************)
EXTENDS Integers, Sequences, SequencesExt, Blocks

CONSTANT Base

getMaxEncodedLength(n) == n

RECURSIVE ZerosFrom(_, _)
ZerosFrom(src, i) ==
  IF i < Len(src) /\ At(src, i) = 0 THEN 1 + ZerosFrom(src, i + 1) ELSE 0

RunDigits(n) == Reverse(Digits(n + 1, 2, Log2(n + 1)))

Shifted(val) ==
  IF val >= Base - 2 THEN <<Base - 1, val - (Base - 2)>> ELSE <<val + 1>>

RECURSIVE Encode(_, _, _, _)
Encode(src, i, out, room) ==
  LET zeros == ZerosFrom(src, i)
      code == IF zeros > 0 THEN RunDigits(zeros) ELSE Shifted(At(src, i))
      size == IF zeros > 0 THEN zeros ELSE 1
  IN  IF i = Len(src) THEN Done(out)
      ELSE IF Len(code) > room - Len(out) THEN Fail
      ELSE Encode(src, i + size, out \o code, room)

forward(src, room) ==
  IF src = <<>> THEN Done(<<>>)
  ELSE IF room < getMaxEncodedLength(Len(src)) THEN Fail
  ELSE Encode(src, 0, <<>>, room)

(***************************************************************************)
(* The inverse.  The digits that start at i, and the run they make; a run  *)
(* that the data ends with is written on the way out, where it may fill    *)
(* the room that is left.                                                  *)
(***************************************************************************)
RECURSIVE RunAt(_, _, _)
RunAt(src, i, n) ==
  IF i < Len(src) /\ At(src, i) <= 1
  THEN RunAt(src, i + 1, n + n + At(src, i))
  ELSE [at |-> i, run |-> n - 1]

LastRun(src, i, run, out, room) ==
  IF i < Len(src) \/ run > room - Len(out) THEN Fail
  ELSE Done(out \o Fill(0, run))

RECURSIVE Decode(_, _, _, _), Literal(_, _, _, _)
Decode(src, i, out, room) ==
  LET zeros == RunAt(src, i, 1)
  IN  IF At(src, i) > 1 THEN Literal(src, i, out, room)
      ELSE IF zeros.at = Len(src) \/ zeros.run >= room - Len(out)
           THEN LastRun(src, zeros.at, zeros.run, out, room)
           ELSE Decode(src, zeros.at, out \o Fill(0, zeros.run), room)

Literal(src, i, out, room) ==
  LET escaped == At(src, i) = Base - 1
      next == IF escaped THEN i + 2 ELSE i + 1
      val == IF escaped THEN Base - 2 + At(src, i + 1) ELSE At(src, i) - 1
  IN  IF Len(out) >= room \/ next > Len(src) THEN Fail
      ELSE IF next >= Len(src) \/ Len(out) + 1 >= room
           THEN [ok |-> next = Len(src), out |-> Append(out, val)]
           ELSE Decode(src, next, Append(out, val), room)

inverse(src, room) ==
  IF src = <<>> THEN Done(<<>>) ELSE Decode(src, 0, <<>>, room)
=============================================================================
