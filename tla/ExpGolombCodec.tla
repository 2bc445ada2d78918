--------------------------- MODULE ExpGolombCodec ---------------------------
(***************************************************************************)
(* Signed Exp-Golomb codes: as many 0s as the code has bits, a 1, the bits *)
(* of the absolute value above a power of two, the sign.                   *)
(***************************************************************************)
EXTENDS Integers, Sequences, Blocks

encodeByte(v) ==
  LET size == IF v < 0 THEN -v ELSE v
      log2 == Log2(size + 1)
  IN  IF v = 0 THEN <<1>>
      ELSE Fill(0, log2) \o Bits(size + 1, log2 + 1) \o <<IF v < 0 THEN 1 ELSE 0>>

RECURSIVE Zeros(_, _)
Zeros(bits, at) ==
  IF at >= Len(bits) \/ Peek(bits, at, 1) = 1 THEN 0 ELSE 1 + Zeros(bits, at + 1)

decodeByte(bits, at) ==
  LET zeros == Zeros(bits, at)
      log2 == zeros % 8
      res == Peek(bits, at + zeros + 1, log2 + 1)
      value == res \div 2 + 2 ^ log2 - 1
  IN  IF zeros = 0 THEN [value |-> 0, at |-> at + 1]
      ELSE [value |-> IF res % 2 = 1 THEN -value ELSE value, at |-> at + zeros + 2 + log2]
=============================================================================
