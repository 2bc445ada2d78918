---------------------------- MODULE HuffmanCodec ----------------------------
(***************************************************************************)
(* Huffman coding in chunks: code lengths of at most MaxSize bits, from    *)
(* the frequencies of the chunk, are all that is written of the code; the  *)
(* chunk is coded as four fragments.                                       *)
(***************************************************************************)
EXTENDS EntropyUtils, ExpGolombCodec

CONSTANTS
  MaxSize,     \* MAX_SYMBOL_SIZE
  ChunkSize,   \* bytes of a chunk
  RawSize      \* a chunk shorter than that is copied

(***************************************************************************)
(* generateCanonicalCodes: by increasing length, then symbol, each code is *)
(* the one after the code before it.                                       *)
(***************************************************************************)
ByLength(alphabet, sizes) ==
  Ordered({alphabet[k] : k \in DOMAIN alphabet},
          LAMBDA a, b : sizes[a] < sizes[b] \/ (sizes[a] = sizes[b] /\ a < b))

generateCanonicalCodes(alphabet, sizes) ==
  LET order == ByLength(alphabet, sizes)
      assign(t, s) ==
        LET code == t.code * 2 ^ (sizes[s] - t.len)
        IN  [codes |-> [t.codes EXCEPT ![s] = code], code |-> code + 1, len |-> sizes[s]]
  IN  Fold(assign, [codes |-> [s \in Symbols |-> 0], code |-> 0, len |-> sizes[order[1]]],
           order).codes

(***************************************************************************)
(* computeInPlaceSizesPhase1: the array of increasing frequencies becomes  *)
(* that of the parents of the internal nodes.  Of the next leaf s and the  *)
(* next internal node r the lighter one is taken, the leaf on a tie.       *)
(***************************************************************************)
TakeNode(t, n, at) ==
  IF t.s >= n \/ (t.r < at /\ At(t.data, t.r) < At(t.data, t.s))
  THEN [t EXCEPT !.sum = @ + At(t.data, t.r), !.data = Set(t.data, t.r, at), !.r = @ + 1]
  ELSE [t EXCEPT !.sum = @ + At(t.data, t.s),
                 !.data = IF t.s > at THEN Set(t.data, t.s, 0) ELSE t.data, !.s = @ + 1]

computeInPlaceSizesPhase1(freqs) ==
  LET n == Len(freqs)
      node(t, at) ==
        LET two == TakeNode(TakeNode([t EXCEPT !.sum = 0], n, at), n, at)
        IN  [two EXCEPT !.data = Set(two.data, at, two.sum)]
  IN  Fold(node, [data |-> freqs, s |-> 0, r |-> 0, sum |-> 0], [k \in 1..(n - 1) |-> k - 1]).data

(***************************************************************************)
(* computeInPlaceSizesPhase2: level by level the nodes that are not        *)
(* internal are leaves; they are the last ones still without a length.     *)
(***************************************************************************)
RECURSIVE FirstAtLevel(_, _, _)
FirstAtLevel(data, k, top) ==
  IF k # 0 /\ At(data, k - 1) >= top THEN FirstAtLevel(data, k - 1, top) ELSE k

RECURSIVE Levels(_, _, _, _, _)
Levels(data, n, top, depth, nodes) ==
  LET k == FirstAtLevel(data, top, top)
      leaves == nodes - (top - k)
  IN  IF n <= 0 THEN data
      ELSE Levels([i \in DOMAIN data |-> IF i \in (n - leaves + 1)..n THEN depth ELSE data[i]],
                  n - leaves, k, depth + 1, 2 * (top - k))

computeInPlaceSizesPhase2(data) == Levels(data, Len(data), Len(data) - 2, 1, 2)

computeCodeLengths(alphabet, freqs) ==
  LET ranks == Ordered({alphabet[k] : k \in DOMAIN alphabet},
                 LAMBDA a, b : freqs[a] < freqs[b] \/ (freqs[a] = freqs[b] /\ a < b))
      lengths == computeInPlaceSizesPhase2(
                   computeInPlaceSizesPhase1([k \in DOMAIN ranks |-> freqs[ranks[k]]]))
  IN  [ranks |-> ranks,
       sizes |-> [s \in Symbols |->
                    IF \E k \in DOMAIN ranks : ranks[k] = s
                    THEN lengths[CHOOSE k \in DOMAIN ranks : ranks[k] = s] ELSE 0]]

MaxLength(lens) == Fold(LAMBDA m, s : Max2(m, lens.sizes[s]), 0, lens.ranks)

(***************************************************************************)
(* limitCodeLengths: lengths over the limit are cut, which is a debt, and  *)
(* shorter ones are made longer to repay it: first those that repay most   *)
(* without repaying too much, then any; six lengths below the limit take   *)
(* part.  If that is not enough the lengths are computed anew from         *)
(* frequencies on a smaller scale.                                         *)
(***************************************************************************)
Debt(lens) ==
  Fold(LAMBDA d, s : d + Max2(lens.sizes[s] - MaxSize, 0), 0, lens.ranks)

Level(lens, s) == MaxSize - 1 - lens.sizes[s]

Payers(lens, debt) ==
  LET shorter == SelectSeq(lens.ranks, LAMBDA s : lens.sizes[s] < MaxSize)
      stop == {k \in DOMAIN shorter :
                 Level(lens, shorter[k]) > 5 \/ debt < 2 ^ Level(lens, shorter[k])}
      first == CHOOSE k \in stop : \A j \in stop : k <= j
  IN  IF stop = {} THEN shorter ELSE SubSeq(shorter, 1, first - 1)

RECURSIVE Repay(_, _, _)
Repay(lens, t, idx) ==
  LET waiting == SelectSeq(t.payers, LAMBDA s : Level(lens, s) = idx)
      s == waiting[1]
      step == IF t.exact THEN -1 ELSE 1
  IN  IF t.debt <= 0 \/ idx \notin 0..5 THEN t
      ELSE IF waiting = <<>> \/ (t.exact /\ t.debt < 2 ^ idx) THEN Repay(lens, t, idx + step)
      ELSE Repay(lens, [t EXCEPT !.sizes[s] = @ + 1, !.debt = @ - 2 ^ idx,
                                 !.payers = SelectSeq(@, LAMBDA r : r # s)], idx)

limitCodeLengths(alphabet, freqs, lens) ==
  LET debt == Debt(lens)
      cut == [s \in Symbols |-> Min2(lens.sizes[s], MaxSize)]
      once == Repay(lens, [sizes |-> cut, debt |-> debt, payers |-> Payers(lens, debt),
                           exact |-> TRUE], 5)
      twice == Repay(lens, [once EXCEPT !.exact = FALSE], 0)
      total == Fold(LAMBDA n, s : n + freqs[s], 0, alphabet)
  IN  IF twice.debt <= 0 THEN [lens EXCEPT !.sizes = twice.sizes]
      ELSE computeCodeLengths(alphabet, normalizeFrequencies(freqs, total, ChunkSize \div 8))

(***************************************************************************)
(* updateFrequencies: the lengths of the codes of a chunk with more than   *)
(* one symbol, limited; all SymBits when even that is too long.            *)
(***************************************************************************)
Lengths(alphabet, freqs) ==
  LET lens == computeCodeLengths(alphabet, freqs)
      limited == limitCodeLengths(alphabet, freqs, lens)
  IN  CASE Len(alphabet) = 1 -> [s \in Symbols |-> 1]
        [] Len(alphabet) # 1 /\ MaxLength(lens) <= MaxSize -> lens.sizes
        [] OTHER -> IF MaxLength(limited) <= MaxSize THEN limited.sizes
                    ELSE [s \in Symbols |-> SymBits]

WrittenLengths(alphabet, sizes) ==
  Fold(LAMBDA t, k : t \o encodeByte(sizes[alphabet[k]]
                                       - (IF k = 1 THEN 2 ELSE sizes[alphabet[k - 1]])),
       encodeAlphabet(alphabet), [k \in DOMAIN alphabet |-> k])

(***************************************************************************)
(* encodeChunk: four fragments, the sizes of all of them first, and the    *)
(* bytes that are left at the end of the chunk as they are.                *)
(***************************************************************************)
encodeChunk(block, codes, sizes) ==
  LET szFrag == Len(block) \div 4
      fragment(j) == Fold(LAMBDA t, b : t \o Bits(codes[b], sizes[b]), <<>>,
                          Part(block, j * szFrag, szFrag))
  IN  writeVarInt(Len(fragment(0))) \o writeVarInt(Len(fragment(1)))
        \o writeVarInt(Len(fragment(2))) \o writeVarInt(Len(fragment(3)))
        \o fragment(0) \o fragment(1) \o fragment(2) \o fragment(3)
        \o Raw(From(block, 4 * szFrag))

\* Mutant of Coded: codes also for a chunk of one symbol.
CodedAnyway(chunk, alphabet, sizes) ==
  WrittenLengths(alphabet, sizes)
    \o encodeChunk(chunk, generateCanonicalCodes(alphabet, sizes), sizes)

Coded(chunk, alphabet, sizes) ==
  WrittenLengths(alphabet, sizes)
    \o (IF Len(alphabet) = 1 THEN <<>>
        ELSE Once(LAMBDA codes : encodeChunk(chunk, codes, sizes),
                  generateCanonicalCodes(alphabet, sizes)))

RECURSIVE encode(_)
encode(block) ==
  LET n == Min2(ChunkSize, Len(block))
      chunk == Part(block, 0, n)
      freqs == Histogram(chunk)
      alphabet == Present(freqs)
  IN  IF block = <<>> THEN <<>>
      ELSE (IF n < RawSize THEN Raw(chunk)
            ELSE Once(LAMBDA sizes : Coded(chunk, alphabet, sizes), Lengths(alphabet, freqs)))
           \o encode(From(block, n))

(***************************************************************************)
(* readLengths.                                                            *)
(***************************************************************************)
LengthRead(t, s, res) ==
  [at |-> res.at, size |-> t.size + res.value,
   sizes |-> [t.sizes EXCEPT ![s] = t.size + res.value],
   ok |-> t.ok /\ t.size + res.value \in 1..MaxSize]

LengthsOf(bits, head) ==
  [alphabet |-> head.alphabet,
   read |-> Fold(LAMBDA t, s : LengthRead(t, s, decodeByte(bits, t.at)),
                 [at |-> head.at, size |-> 2, ok |-> TRUE, sizes |-> [s \in Symbols |-> 0]],
                 head.alphabet)]

readLengths(bits, at) == LengthsOf(bits, decodeAlphabet(bits, at))

(***************************************************************************)
(* buildDecodingTable: the symbol whose code the next bits begin with.     *)
(* There is room for every code only if they are no longer than a batch.   *)
(***************************************************************************)
buildDecodingTable(alphabet, codes, sizes) ==
  \A k \in DOMAIN alphabet : codes[alphabet[k]] < 2 ^ sizes[alphabet[k]]

Decoded(bits, at, alphabet, codes, sizes) ==
  LET match == {k \in DOMAIN alphabet :
                  Peek(bits, at, sizes[alphabet[k]]) = codes[alphabet[k]]}
  IN  IF match = {} THEN [symbol |-> 7 % Base, size |-> 7]
      ELSE LET s == alphabet[CHOOSE k \in match : TRUE] IN [symbol |-> s, size |-> sizes[s]]

(***************************************************************************)
(* decodeChunk: every fragment must end with the last of its bits.         *)
(***************************************************************************)
Fragment(bits, n, alphabet, codes, sizes) ==
  LET one(t, k) ==
        LET res == Decoded(bits, t.at, alphabet, codes, sizes)
        IN  [at |-> t.at + res.size, out |-> Append(t.out, res.symbol)]
      all == Fold(one, [at |-> 0, out |-> <<>>], [k \in 1..n |-> k])
  IN  [ok |-> all.at = Len(bits), out |-> all.out]

FragmentSizes(bits, at) ==
  LET one(t, k) ==
        LET size == readVarInt(bits, t.at)
        IN  [ok |-> t.ok /\ size.ok, at |-> size.at, sizes |-> Append(t.sizes, size.value)]
  IN  Fold(one, [ok |-> TRUE, at |-> at, sizes |-> <<>>], <<1, 2, 3, 4>>)

Assembled(four, last, at) ==
  [ok |-> \A k \in 1..4 : four[k].ok,
   out |-> four[1].out \o four[2].out \o four[3].out \o four[4].out \o last, at |-> at]

Fragments(bits, head, n, alphabet, codes, sizes) ==
  LET begin(k) == head.at + SumOf(SubSeq(head.sizes, 1, k - 1))
      fragment(k) == Fragment(Part(bits, begin(k), head.sizes[k]), n \div 4, alphabet, codes, sizes)
  IN  IF ~head.ok \/ begin(5) > Len(bits) THEN [ok |-> FALSE, out |-> <<>>, at |-> head.at]
      ELSE Assembled([k \in 1..4 |-> fragment(k)], RawRead(bits, begin(5), n % 4),
                     begin(5) + (n % 4) * SymBits)

decodeChunk(bits, at, n, alphabet, codes, sizes) ==
  Fragments(bits, FragmentSizes(bits, at), n, alphabet, codes, sizes)

CodedChunk(bits, n, head) ==
  LET sizes == head.read.sizes
      codes == generateCanonicalCodes(head.alphabet, sizes)
  IN  CASE head.alphabet = <<>> \/ ~head.read.ok -> [ok |-> FALSE, out |-> <<>>, at |-> head.read.at]
        [] head.read.ok /\ Len(head.alphabet) = 1 ->
             [ok |-> TRUE, out |-> Fill(head.alphabet[1], n), at |-> head.read.at]
        [] OTHER ->
             IF ~buildDecodingTable(head.alphabet, codes, sizes)
             THEN [ok |-> FALSE, out |-> <<>>, at |-> head.read.at]
             ELSE Once(LAMBDA c : decodeChunk(bits, head.read.at, n, head.alphabet, c, sizes), codes)

DecodedChunk(bits, at, n) ==
  IF n < RawSize THEN [ok |-> TRUE, out |-> RawRead(bits, at, n), at |-> at + n * SymBits]
  ELSE Once(LAMBDA head : CodedChunk(bits, n, head), readLengths(bits, at))

RECURSIVE decode(_, _, _)
decode(bits, at, n) ==
  LET rest(chunk) == Joined(chunk, decode(bits, chunk.at, n - Min2(ChunkSize, n)))
  IN  IF n = 0 THEN [ok |-> TRUE, out |-> <<>>, at |-> at]
      ELSE Once(rest, DecodedChunk(bits, at, Min2(ChunkSize, n)))
=============================================================================
