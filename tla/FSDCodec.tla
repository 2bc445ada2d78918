------------------------------ MODULE FSDCodec ------------------------------
(***************************************************************************)
(* Fixed step delta: each byte is coded as its difference, or its          *)
(* exclusive or, with the byte one step before.  Base is the number of     *)
(* byte values, Distances the steps, SampleShift the fraction of large     *)
(* differences (5) above which the exclusive or is taken.                  *)
(***************************************************************************)
EXTENDS Integers, Sequences, FiniteSets, Bitwise, Blocks

CONSTANTS Base, Distances, MinLength, SmallBlock, SmallPad, SampleShift

Half == Base \div 2

ESCAPE_TOKEN == Base - 1

DELTA_CODING == 0

XOR_CODING == 1

getMaxEncodedLength(n) == IF n < SmallBlock THEN n + SmallPad ELSE n + n \div 16

(***************************************************************************)
(* Small differences of both signs as bytes below the escape.              *)
(***************************************************************************)
ZIGZAG1(d) == IF d >= 0 THEN 2 * d ELSE -2 * d - 1

ZIGZAG2(v) == IF v % 2 = 0 THEN v \div 2 ELSE -(v \div 2) - 1

Delta(src, i, dist) == At(src, i) - At(src, i - dist)

IsLarge(d) == d < -(Half - 1) \/ d > Half - 1

(***************************************************************************)
(* The coding: from the number of large differences in the third of the    *)
(* five sub-blocks.                                                        *)
(***************************************************************************)
Mode(src, dist) ==
  LET count5 == 2 * (Len(src) \div 10)
      large == {i \in 2 * count5..3 * count5 - 1 : IsLarge(Delta(src, i, dist))}
  IN  IF Cardinality(large) > shiftR(count5, SampleShift) THEN XOR_CODING ELSE DELTA_CODING

DeltaCode(src, i, dist) ==
  IF IsLarge(Delta(src, i, dist))
  THEN <<ESCAPE_TOKEN, At(src, i) ^^ At(src, i - dist)>>
  ELSE <<ZIGZAG1(Delta(src, i, dist))>>

RECURSIVE EncodeDeltas(_, _, _, _, _)
EncodeDeltas(src, i, dist, out, room) ==
  IF i = Len(src) THEN Done(out)
  ELSE IF Len(out) >= room - 1 THEN Fail
  ELSE EncodeDeltas(src, i + 1, dist, out \o DeltaCode(src, i, dist), room)

EncodeXors(src, dist) ==
  [k \in 1..Len(src) - dist |-> At(src, k - 1 + dist) ^^ At(src, k - 1)]

(***************************************************************************)
(* A block of one of the types that may hold records is tried with the     *)
(* step whose sample has the lowest entropy, dist (0: none is lower than   *)
(* that of the block itself), and kept when the result is lower, which     *)
(* better says.                                                            *)
(***************************************************************************)
forward(src, room, type, dist, better) ==
  LET head == <<Mode(src, dist), dist>> \o Part(src, 0, dist)
  IN  IF src = <<>> THEN Done(<<>>)
      ELSE IF \/ room < getMaxEncodedLength(Len(src))
              \/ Len(src) < MinLength
              \/ type \notin {"UNDEFINED", "MULTIMEDIA", "BIN"}
              \/ dist = 0 \/ ~better
           THEN Fail
      ELSE IF Mode(src, dist) = XOR_CODING THEN Done(head \o EncodeXors(src, dist))
      ELSE EncodeDeltas(src, dist, dist, head, getMaxEncodedLength(Len(src)))

RECURSIVE DecodeDeltas(_, _, _, _, _)
DecodeDeltas(src, i, dist, out, room) ==
  LET prev == At(out, Len(out) - dist)
  IN  IF i = Len(src) \/ Len(out) >= room THEN [ok |-> i = Len(src), out |-> out]
      ELSE IF At(src, i) # ESCAPE_TOKEN
           THEN DecodeDeltas(src, i + 1, dist,
                             Append(out, (prev + ZIGZAG2(At(src, i))) % Base), room)
      ELSE IF i + 1 = Len(src) THEN Fail
      ELSE DecodeDeltas(src, i + 2, dist, Append(out, At(src, i + 1) ^^ prev), room)

RECURSIVE DecodeXors(_, _, _, _, _)
DecodeXors(src, i, dist, out, room) ==
  IF i = Len(src) \/ Len(out) >= room THEN [ok |-> i = Len(src), out |-> out]
  ELSE DecodeXors(src, i + 1, dist,
                  Append(out, At(src, i) ^^ At(out, Len(out) - dist)), room)

inverse(src, room) ==
  LET mode == At(src, 0)
      dist == At(src, 1)
      head == Part(src, 2, dist)
  IN  CASE src = <<>> -> Done(<<>>)
        [] src # <<>> /\ Len(src) < 4 -> Fail
        [] OTHER ->
             IF dist \notin Distances \/ Len(src) < dist + 2 \/ dist > room THEN Fail
             ELSE CASE mode = DELTA_CODING -> DecodeDeltas(src, dist + 2, dist, head, room)
                    [] mode = XOR_CODING -> DecodeXors(src, dist + 2, dist, head, room)
                    [] OTHER -> Fail
=============================================================================
