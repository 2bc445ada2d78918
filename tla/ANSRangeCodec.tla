---------------------------- MODULE ANSRangeCodec ----------------------------
(***************************************************************************)
(* Range asymmetric numeral systems of order 0 and 1: four interleaved     *)
(* states, coded from the end of a chunk so that it is decoded from its    *)
(* beginning.  At order 1 each quarter of the chunk has a state, and the   *)
(* byte before chooses the frequencies.                                    *)
(***************************************************************************)
EXTENDS EntropyUtils

CONSTANTS
  TopBits,     \* ANS_TOP is 2^TopBits
  LogRange,    \* DEFAULT_LOG_RANGE
  MinLog,      \* the least log range
  ChunkSize,   \* DEFAULT_ANS0_CHUNK_SIZE
  MaxChunk,    \* MAX_CHUNK_SIZE
  RawLimit     \* blocks of at most that many bytes are copied

IO == 2 * SymBits     \* bits that a state gives or takes at once

ContextsOf(order) == IF order = 0 THEN {0} ELSE Symbols

ChunkOf(order) == Min2(ChunkSize * 2 ^ (SymBits * order), MaxChunk)

LogOf(order) == IF order = 0 THEN LogRange ELSE Max2(LogRange - 1, MinLog)

(***************************************************************************)
(* rebuildStatistics.                                                      *)
(***************************************************************************)
Pairs(part) == [k \in DOMAIN part |-> <<IF k = 1 THEN 0 ELSE part[k - 1], part[k]>>]

rebuildStatistics(chunk, order) ==
  LET quarter == Len(chunk) \div 4
      parts == IF quarter = 0 THEN Pairs(chunk)
               ELSE Pairs(Part(chunk, 0, quarter)) \o Pairs(Part(chunk, quarter, quarter))
                      \o Pairs(Part(chunk, 2 * quarter, quarter))
                      \o Pairs(Part(chunk, 3 * quarter, quarter))
  IN  IF order = 0 THEN [c \in {0} |-> Histogram(chunk)]
      ELSE [c \in Symbols |-> [s \in Symbols |-> CountOf(parts, <<c, s>>)]]

(***************************************************************************)
(* ANSEncSymbol::reset and updateFrequencies.  The entry of a symbol that  *)
(* a context does not have stays what it was.                              *)
(***************************************************************************)
Entry(cum, freq, lr) ==
  LET f == Min2(freq, 2 ^ lr - 1)
  IN  [max |-> 2 ^ (TopBits - lr + IO) * f, freq |-> f, cum |-> cum]

Unset(heap) == [max |-> IF heap = 0 THEN 0 ELSE 2 ^ (TopBits + IO), freq |-> 0, cum |-> 0]

Normalized(stats, lr) ==
  [c \in DOMAIN stats |->
     normalizeFrequencies(stats[c], Fold(LAMBDA n, s : n + stats[c][s], 0, Present(stats[c])),
                          2 ^ lr)]

updateFrequencies(symbols, freqs, lr) ==
  [c \in DOMAIN freqs |->
     [s \in Symbols |-> IF freqs[c][s] = 0 THEN symbols[c][s]
                        ELSE Entry(CumFreq(freqs[c], s), freqs[c][s], lr)]]

encodeHeader(freqs, lr) ==
  LET one(t, c) ==
        LET alphabet == Present(freqs[c])
        IN  t \o encodeAlphabet(alphabet)
              \o (IF Len(alphabet) <= 1 THEN <<>>
                  ELSE FreqGroups(freqs[c], alphabet, 2, Log2(lr) + 1))
  IN  Fold(one, Bits(lr - MinLog, 3), Ordered(DOMAIN freqs, LAMBDA a, b : a < b))

(***************************************************************************)
(* Who codes what when: the state and the position of each turn, as the    *)
(* decoder takes them; the encoder takes them backwards.                   *)
(***************************************************************************)
Turns(order, n4) ==
  [k \in 1..n4 |->
     LET j == 3 - ((k - 1) % 4)
     IN  [state |-> j,
          pos |-> IF order = 0 THEN k - 1 ELSE j * (n4 \div 4) + (k - 1) \div 4]]

ContextAt(order, data, pos, n4) ==
  IF order = 0 \/ pos % (n4 \div 4) = 0 THEN 0 ELSE At(data, pos - 1)

encodeSymbol(t, j, sym, lr) ==
  LET full == t.st[j] >= sym.max
      st == IF full THEN t.st[j] \div 2 ^ IO ELSE t.st[j]
  IN  [st |-> [t.st EXCEPT ![j] = IF sym.freq = 0 THEN st
                                  ELSE (st \div sym.freq) * 2 ^ lr + (st % sym.freq) + sym.cum],
       out |-> IF full THEN Bits(t.st[j] % 2 ^ IO, IO) \o t.out ELSE t.out]

(***************************************************************************)
(* encodeChunk of the n bytes from start on.  At order 1 the first byte    *)
(* that each state codes is found before the loop: with no quarter that is *)
(* the byte before the chunk, and the loop over, it is coded.              *)
(***************************************************************************)
encodeChunk(block, start, n, order, symbols, lr) ==
  LET n4 == n - (n % 4)
      chunk == Part(block, start, n)
      turns == Turns(order, n4)
      back == [k \in 1..n4 |-> turns[n4 + 1 - k]]
      put(t, turn) ==
        encodeSymbol(t, turn.state,
                     symbols[ContextAt(order, chunk, turn.pos, n4)][At(chunk, turn.pos)], lr)
      before(t, j) == encodeSymbol(t, j, symbols[0][At(block, start - 1)], lr)
      fresh == [st |-> [j \in 0..3 |-> 2 ^ TopBits], out |-> Raw(From(chunk, n4))]
      all == IF order = 1 /\ n4 = 0 THEN Fold(before, fresh, <<0, 1, 2, 3>>)
             ELSE Fold(put, fresh, back)
  IN  writeVarInt(Len(all.out) \div SymBits)
        \o Bits(all.st[0], 2 * IO) \o Bits(all.st[1], 2 * IO)
        \o Bits(all.st[2], 2 * IO) \o Bits(all.st[3], 2 * IO) \o all.out

RECURSIVE EncodeFrom(_, _, _, _)
EncodeFrom(block, start, order, before) ==
  LET n == Min2(ChunkOf(order), Len(block) - start)
      lr == LogOf(order)
      freqs == Normalized(rebuildStatistics(Part(block, start, n), order), lr)
      symbols == updateFrequencies(before, freqs, lr)
  IN  IF start = Len(block) THEN <<>>
      ELSE encodeHeader(freqs, lr)
             \o (IF order = 0 /\ Len(Present(freqs[0])) <= 1 THEN <<>>
                 ELSE encodeChunk(block, start, n, order, symbols, lr))
             \o EncodeFrom(block, start + n, order, symbols)

encode(block, order, heap) ==
  IF Len(block) <= RawLimit THEN Raw(block)
  ELSE EncodeFrom(block, 0, order,
                  [c \in ContextsOf(order) |-> [s \in Symbols |-> Unset(heap)]])

(***************************************************************************)
(* decodeHeader: the frequencies of each context.                          *)
(***************************************************************************)
WithFreqs(t, c, alphabet, read, all) ==
  [ok |-> read.ok /\ all.ok, at |-> read.at, size |-> t.size + Len(alphabet),
   freqs |-> [t.freqs EXCEPT ![c] = all.freqs]]

ContextFreqs(bits, t, c, head, lr) ==
  LET of(read) == WithFreqs(t, c, head.alphabet, read, FreqsOf(head.alphabet, read.rest, 2 ^ lr))
  IN  IF ~t.ok \/ head.alphabet = <<>> THEN [t EXCEPT !.at = head.at]
      ELSE Once(of, ReadGroups(bits, head.at, head.alphabet, 2, Log2(lr) + 1, lr, <<>>))

decodeHeader(bits, at, order) ==
  LET lr == MinLog + Peek(bits, at, 3)
      one(t, c) == ContextFreqs(bits, t, c, decodeAlphabet(bits, t.at), lr)
      none == [c \in ContextsOf(order) |-> [s \in Symbols |-> 0]]
  IN  [lr |-> lr,
       read |-> Fold(one, [ok |-> TRUE, at |-> at + 3, size |-> 0, freqs |-> none],
                     Ordered(ContextsOf(order), LAMBDA a, b : a < b))]

decodeSymbol(t, j, freqs, symbol, lr, payload) ==
  LET f == Min2(freqs[symbol], 2 ^ lr - 1)
      st == (f * (t.st[j] \div 2 ^ lr) + (t.st[j] % 2 ^ lr) - CumFreq(freqs, symbol)) % 2 ^ (2 * IO)
      low == st < 2 ^ TopBits
  IN  [t EXCEPT !.st[j] = IF low THEN st * 2 ^ IO + Peek(payload, t.p, IO) ELSE st,
                !.p = IF low THEN @ + IO ELSE @]

(***************************************************************************)
(* decodeChunk: what was coded must have been used up at the end.          *)
(***************************************************************************)
Payload(bits, sz, n, order, freqs, lr) ==
  LET start == sz.at + 8 * IO
      payload == Part(bits, start, Min2(sz.value * SymBits, Len(bits) - start))
      n4 == n - (n % 4)
      get(t, turn) ==
        LET f == freqs[ContextAt(order, t.out, turn.pos, n4)]
            symbol == SymbolAt(f, t.st[turn.state] % 2 ^ lr)
        IN  decodeSymbol([t EXCEPT !.out = Set(t.out, turn.pos, symbol)], turn.state,
                         f, symbol, lr, payload)
      all == Fold(get, [st |-> [j \in 0..3 |-> Peek(bits, sz.at + j * 2 * IO, 2 * IO)],
                        p |-> 0, out |-> Fill(0, n4)],
                  Turns(order, n4))
  IN  IF ~sz.ok \/ start > Len(bits) \/ sz.value > 2 * ChunkOf(order) - 2
      THEN [ok |-> FALSE, out |-> <<>>, at |-> start]
      ELSE [ok |-> all.p + (n - n4) * SymBits = sz.value * SymBits,
            out |-> Part(all.out, 0, n4) \o RawRead(payload, all.p, n - n4),
            at |-> start + sz.value * SymBits]

decodeChunk(bits, at, n, order, freqs, lr) ==
  Payload(bits, readVarInt(bits, at), n, order, freqs, lr)

CodedChunk(bits, head, n, order) ==
  CASE ~head.read.ok \/ head.read.size = 0 ->
         [ok |-> FALSE, out |-> <<>>, at |-> head.read.at]
    [] head.read.ok /\ order = 0 /\ head.read.size = 1 ->
         [ok |-> TRUE, out |-> Fill(Present(head.read.freqs[0])[1], n), at |-> head.read.at]
    [] OTHER -> decodeChunk(bits, head.read.at, n, order, head.read.freqs, head.lr)

DecodedChunk(bits, at, n, order) == CodedChunk(bits, decodeHeader(bits, at, order), n, order)

RECURSIVE DecodeFrom(_, _, _, _)
DecodeFrom(bits, at, n, order) ==
  LET size == Min2(ChunkOf(order), n)
      rest(chunk) == Joined(chunk, DecodeFrom(bits, chunk.at, n - size, order))
  IN  IF n = 0 THEN [ok |-> TRUE, out |-> <<>>, at |-> at]
      ELSE Once(rest, DecodedChunk(bits, at, size, order))

decode(bits, at, n, order) ==
  IF n <= RawLimit THEN [ok |-> TRUE, out |-> RawRead(bits, at, n), at |-> at + n * SymBits]
  ELSE DecodeFrom(bits, at, n, order)
=============================================================================
