----------------------------- MODULE RangeCodec -----------------------------
(***************************************************************************)
(* Range coding of order 0 in chunks.  The registers hold TopBits +        *)
(* LowBits bits (60 in the code): the top ones are written when they can   *)
(* no longer change, or when the range has become too small.               *)
(***************************************************************************)
EXTENDS EntropyUtils

CONSTANTS
  TopBits,     \* bits written at once, RANGE_MASK has as many
  LowBits,     \* bits below them
  BottomBits,  \* BOTTOM_RANGE is 2^BottomBits - 1
  LogRange,    \* DEFAULT_LOG_RANGE
  MinLog,      \* the least log range
  ChunkSize    \* DEFAULT_CHUNK_SIZE

Width == TopBits + LowBits

LogFor(n) ==
  LET fit == {lr \in MinLog..LogRange : lr = MinLog \/ 2 ^ lr <= n}
  IN  CHOOSE lr \in fit : \A other \in fit : other <= lr

FieldBits(lr) == CHOOSE b \in 3..4 : lr < 2 ^ b /\ (b = 3 \/ lr >= 8)

encodeHeader(alphabet, freqs, lr) ==
  encodeAlphabet(alphabet) \o Bits(lr - MinLog, 3)
    \o (IF Len(alphabet) = 1 THEN <<>> ELSE FreqGroups(freqs, alphabet, 2, FieldBits(lr)))

(***************************************************************************)
(* What the encoder and the decoder do alike once low and range are those  *)
(* of a symbol: the digits that are settled, one after the other.          *)
(***************************************************************************)
Settled(low, range) == low \div 2 ^ LowBits = ((low + range) % 2 ^ Width) \div 2 ^ LowBits

Shifted(low, range) ==
  LET cut == IF Settled(low, range) THEN range ELSE (-low) % 2 ^ BottomBits
  IN  [low |-> (low % 2 ^ LowBits) * 2 ^ TopBits, range |-> cut * 2 ^ TopBits]

Narrow(low, range) == ~Settled(low, range) /\ range >= 2 ^ BottomBits

Narrowed(t, freqs, symbol, shift) ==
  LET range == t.range \div 2 ^ shift
  IN  [t EXCEPT !.low = (@ + CumFreq(freqs, symbol) * range) % 2 ^ Width,
                !.range = range * freqs[symbol]]

RECURSIVE Flushed(_)
Flushed(t) ==
  LET next == Shifted(t.low, t.range)
  IN  IF Narrow(t.low, t.range) THEN t
      ELSE Flushed([low |-> next.low, range |-> next.range,
                    out |-> t.out \o Bits(t.low \div 2 ^ LowBits, TopBits)])

encodeByte(t, b, freqs, shift) == Flushed(Narrowed(t, freqs, b, shift))

RECURSIVE encode(_)
encode(block) ==
  LET n == Min2(ChunkSize, Len(block))
      chunk == Part(block, 0, n)
      lr == LogFor(n)
      freqs == normalizeFrequencies(Histogram(chunk), n, 2 ^ lr)
      alphabet == Present(Histogram(chunk))
      all == Fold(LAMBDA t, b : encodeByte(t, b, freqs, lr),
                  [low |-> 0, range |-> 2 ^ Width - 1, out |-> <<>>], chunk)
  IN  IF block = <<>> THEN <<>>
      ELSE encodeHeader(alphabet, freqs, lr)
             \o (IF Len(alphabet) = 1 THEN <<>> ELSE all.out \o Bits(all.low, Width))
             \o encode(From(block, n))

(***************************************************************************)
(* The decoder.                                                            *)
(***************************************************************************)
WithFreqs(alphabet, lr, read, all) ==
  [ok |-> read.ok /\ all.ok, alphabet |-> alphabet, at |-> read.at, lr |-> lr, freqs |-> all.freqs]

FreqsRead(bits, head, lr) ==
  LET of(read) == WithFreqs(head.alphabet, lr, read, FreqsOf(head.alphabet, read.rest, 2 ^ lr))
  IN  IF head.alphabet = <<>> THEN [ok |-> FALSE, alphabet |-> <<>>, at |-> head.at]
      ELSE Once(of, ReadGroups(bits, head.at + 3, head.alphabet, 2, FieldBits(lr), lr, <<>>))

decodeHeader(bits, at) ==
  LET of(head) == FreqsRead(bits, head, MinLog + Peek(bits, head.at, 3))
  IN  Once(of, decodeAlphabet(bits, at))

RECURSIVE Refilled(_, _)
Refilled(t, bits) ==
  LET next == Shifted(t.low, t.range)
  IN  IF Narrow(t.low, t.range) THEN t
      ELSE Refilled([t EXCEPT !.low = next.low, !.range = next.range, !.at = @ + TopBits,
                              !.code = (@ % 2 ^ LowBits) * 2 ^ TopBits + Peek(bits, t.at, TopBits)],
                    bits)

decodeByte(t, bits, freqs, shift) ==
  LET range == t.range \div 2 ^ shift
      cum == ((t.code - t.low) % 2 ^ Width) \div range
      symbol == SymbolAt(freqs, cum)
  IN  IF ~t.ok \/ range = 0 \/ cum >= 2 ^ shift \/ t.at > Len(bits) THEN [t EXCEPT !.ok = FALSE]
      ELSE Refilled([Narrowed(t, freqs, symbol, shift) EXCEPT !.out = Append(@, symbol)], bits)

CodedChunk(bits, head, n) ==
  LET fresh == [ok |-> TRUE, low |-> 0, range |-> 2 ^ Width - 1, out |-> <<>>,
                code |-> Peek(bits, head.at, Width), at |-> head.at + Width]
      all == Fold(LAMBDA t, k : decodeByte(t, bits, head.freqs, head.lr), fresh, [k \in 1..n |-> k])
  IN  CASE ~head.ok -> [ok |-> FALSE, out |-> <<>>, at |-> head.at]
        [] head.ok /\ Len(head.alphabet) = 1 ->
             [ok |-> TRUE, out |-> Fill(head.alphabet[1], n), at |-> head.at]
        [] OTHER -> [ok |-> all.ok, out |-> all.out, at |-> all.at]

DecodedChunk(bits, at, n) == CodedChunk(bits, decodeHeader(bits, at), n)

RECURSIVE decode(_, _, _)
decode(bits, at, n) ==
  LET rest(chunk) == Joined(chunk, decode(bits, chunk.at, n - Min2(ChunkSize, n)))
  IN  IF n = 0 THEN [ok |-> TRUE, out |-> <<>>, at |-> at]
      ELSE Once(rest, DecodedChunk(bits, at, Min2(ChunkSize, n)))
=============================================================================
