---------------------------- MODULE BinaryCodec ----------------------------
(***************************************************************************)
(* The two coders of single bits: FPAQ, whose probabilities are its own,   *)
(* and the binary entropy coder with the predictor of the context model.   *)
(* Both keep an interval [low, high] of TopBits + LowBits bits (56 in the  *)
(* code), write the top ones when they are the same at both ends, and at   *)
(* the end of a chunk low with its low bits set.                           *)
(***************************************************************************)
EXTENDS EntropyUtils

CONSTANTS
  TopBits,     \* bits written at once
  LowBits,     \* bits below them
  FPAQChunk,   \* FPAQ: DEFAULT_CHUNK_SIZE
  MaxChunk     \* binary entropy coder: MAX_CHUNK_SIZE

Width == TopBits + LowBits

Scale == 65536      \* PSCALE

Interval == [low |-> 0, high |-> 2 ^ Width - 1]

(***************************************************************************)
(* Probabilities.  FPAQ: one for each context of the bits of the byte so   *)
(* far and the two top bits of the byte before.  CM: counters for the bits *)
(* so far alone, with the byte before, with the one before that, and one   *)
(* interpolated from these and whether the last bytes repeat.              *)
(***************************************************************************)
FPAQModel == [probs |-> [c \in 0..3 |-> [x \in 1..(Base - 1) |-> Scale \div 2]],
              ctx |-> 1, row |-> 0]

CMModel == [counter1 |-> [x \in 1..(Base - 1) |-> [c \in 0..Base |-> 32768]],
            counter2 |-> [x \in 1..(2 * Base - 1) |->
                            [j \in 0..16 |-> IF j = 16 THEN 65535 ELSE 4096 * j]],
            ctx |-> 1, c1 |-> 0, c2 |-> 0, runMask |-> 0]

Toward(p, bit, rate, slack) ==
  IF bit = 0 THEN p - p \div 2 ^ rate ELSE p - (p - Scale + slack) \div 2 ^ rate

FPAQUpdate(m, bit) ==
  LET ctx == 2 * m.ctx + bit
      full == ctx >= Base
  IN  [probs |-> [m.probs EXCEPT ![m.row][m.ctx] = Toward(@, bit, 6, 64)],
       ctx |-> IF full THEN 1 ELSE ctx,
       row |-> IF full THEN (ctx - Base) \div 2 ^ (SymBits - 2) ELSE m.row]

FPAQSplit(m, range) == ((range \div 256) * m.probs[m.row][m.ctx]) \div 256

CMMix(m) ==
  LET pc1 == m.counter1[m.ctx]
  IN  (13 * (pc1[Base] + pc1[m.c1]) + 6 * pc1[m.c2]) \div 32

CMGet(m) ==
  LET p == CMMix(m)
      pc2 == m.counter2[m.ctx + m.runMask]
      j == p \div 4096
  IN  (2 * p + 3 * (pc2[j] + pc2[j + 1]) + 64) \div 128

CMUpdate(m, bit) ==
  LET j == CMMix(m) \div 4096
      x == m.ctx + m.runMask
      ctx == 2 * m.ctx + bit
      full == ctx >= Base
      c1 == IF full THEN ctx - Base ELSE m.c1
      c2 == IF full THEN m.c1 ELSE m.c2
  IN  [counter1 |-> [[m.counter1 EXCEPT ![m.ctx][Base] = Toward(@, bit, 2, 16)]
                       EXCEPT ![m.ctx][m.c1] = Toward(@, bit, 4, 16)],
       counter2 |-> [[m.counter2 EXCEPT ![x][j] = Toward(@, bit, 6, 16)]
                       EXCEPT ![x][j + 1] = Toward(@, bit, 6, 16)],
       ctx |-> IF full THEN 1 ELSE ctx, c1 |-> c1, c2 |-> c2,
       runMask |-> IF full THEN (IF c1 = c2 THEN Base ELSE 0) ELSE m.runMask]

CMSplit(m, range) == ((range \div 16) * CMGet(m)) \div 256

Split(kind, m, range) == IF kind = "FPAQ" THEN FPAQSplit(m, range) ELSE CMSplit(m, range)

Update(kind, m, bit) == IF kind = "FPAQ" THEN FPAQUpdate(m, bit) ELSE CMUpdate(m, bit)

(***************************************************************************)
(* The encoder.                                                            *)
(***************************************************************************)
Same(t) == t.low \div 2 ^ LowBits = t.high \div 2 ^ LowBits

flush(t) ==
  [t EXCEPT !.low = (@ % 2 ^ LowBits) * 2 ^ TopBits,
            !.high = (@ % 2 ^ LowBits) * 2 ^ TopBits + 2 ^ TopBits - 1,
            !.out = @ \o Bits(t.high \div 2 ^ LowBits, TopBits)]

encodeBit(t, bit, kind) ==
  LET mid == t.low + Split(kind, t.model, t.high - t.low)
      cut == [t EXCEPT !.low = IF bit = 0 THEN mid + 1 ELSE @,
                       !.high = IF bit = 0 THEN @ ELSE mid,
                       !.model = Update(kind, @, bit)]
  IN  IF Same(cut) THEN flush(cut) ELSE cut

encodeByte(t, b, kind) ==
  Fold(LAMBDA u, bit : encodeBit(u, bit, kind), t, Bits(b, SymBits))

\* A chunk of FPAQ starts in the first row of probabilities.
Opened(t, kind) ==
  IF kind = "FPAQ" THEN [t EXCEPT !.out = <<>>, !.model.row = 0] ELSE [t EXCEPT !.out = <<>>]

ChunkOf(n, kind) ==
  CASE kind = "FPAQ" -> FPAQChunk
    [] kind # "FPAQ" /\ n < MaxChunk -> Max2(n, 64)
    [] OTHER -> IF n \div 8 < MaxChunk THEN n \div 8 ELSE n \div 16

LastBits(t) == Bits(t.low - (t.low % 2 ^ LowBits) + 2 ^ LowBits - 1, Width)

RECURSIVE EncodeFrom(_, _, _, _)
EncodeFrom(t, block, size, kind) ==
  LET n == Min2(size, Len(block))
      all == Fold(LAMBDA u, b : encodeByte(u, b, kind), Opened(t, kind), Part(block, 0, n))
  IN  IF block = <<>> THEN <<>>
      ELSE writeVarInt(Len(all.out) \div SymBits) \o all.out \o LastBits(all)
             \o EncodeFrom(all, From(block, n), size, kind)

Start(kind) ==
  [low |-> Interval.low, high |-> Interval.high, out |-> <<>>,
   model |-> IF kind = "FPAQ" THEN FPAQModel ELSE CMModel]

encode(block, kind) == EncodeFrom(Start(kind), block, ChunkOf(Len(block), kind), kind)

(***************************************************************************)
(* The decoder.  It holds Width bits and takes the others of the chunk     *)
(* from index on: the last bits that the encoder wrote end the chunk.      *)
(***************************************************************************)
read(t, buffer) ==
  [t EXCEPT !.low = (@ % 2 ^ LowBits) * 2 ^ TopBits,
            !.high = (@ % 2 ^ LowBits) * 2 ^ TopBits + 2 ^ TopBits - 1,
            !.current = (@ % 2 ^ LowBits) * 2 ^ TopBits + Peek(buffer, t.index, TopBits),
            !.index = @ + TopBits]

decodeBit(t, buffer, kind) ==
  LET split == t.low + Split(kind, t.model, t.high - t.low)
      bit == IF split >= t.current THEN 1 ELSE 0
      cut == [t EXCEPT !.low = IF bit = 0 THEN split + 1 ELSE @,
                       !.high = IF bit = 0 THEN @ ELSE split,
                       !.model = Update(kind, @, bit),
                       !.out = Append(@, bit)]
  IN  IF Same(cut) THEN read(cut, buffer) ELSE cut

decodeByte(t, buffer, kind) ==
  Fold(LAMBDA u, k : decodeBit(u, buffer, kind), t, [k \in 1..SymBits |-> k])

TooLong(kind, sz, n, count) == IF kind = "FPAQ" THEN sz >= 2 * count ELSE sz > 32 * n

RECURSIVE DecodeFrom(_, _, _, _, _, _)
DecodeFrom(t, bits, at, n, size, kind) ==
  LET sz == readVarInt(bits, at)
      m == Min2(size, n)
      end == sz.at + Width + sz.value * SymBits
      buffer == Part(bits, sz.at + Width, sz.value * SymBits)
      fresh == [Opened(t, kind) EXCEPT !.current = Peek(bits, sz.at, Width), !.index = 0]
      all == Fold(LAMBDA u, k : decodeByte(u, buffer, kind), fresh, [k \in 1..m |-> k])
      rest == DecodeFrom(all, bits, end, n - m, size, kind)
  IN  IF n = 0 THEN [ok |-> TRUE, out |-> <<>>, at |-> at]
      ELSE IF \/ ~sz.ok
              \/ TooLong(kind, sz.value, m, t.count)
              \/ end > Len(bits)
              \/ kind = "FPAQ" /\ all.index > sz.value * SymBits
           THEN [ok |-> FALSE, out |-> <<>>, at |-> at]
           ELSE [rest EXCEPT !.out = RawRead(all.out, 0, m) \o rest.out]

decode(bits, at, n, kind) ==
  DecodeFrom([low |-> Interval.low, high |-> Interval.high, out |-> <<>>, current |-> 0,
              index |-> 0, count |-> n, model |-> Start(kind).model],
             bits, at, n, ChunkOf(n, kind), kind)
=============================================================================
