-------------------------------- MODULE BWT --------------------------------
(***************************************************************************)
(* Burrows-Wheeler transform with an index for each chunk of the block, so *)
(* that the chunks can be inverted side by side.                           *)
(*                                                                         *)
(* Base is the number of byte values (256), Chunks that of the chunks (8)  *)
(* of a block of at least Threshold1 bytes (256); above Threshold2 bytes   *)
(* (2 MB) the inverse rebuilds two bytes at a time; FastBits is            *)
(* MASK_FASTBITS, the size less one of the table that starts its search.   *)
(***************************************************************************)
EXTENDS Integers, Sequences, FiniteSets, SequencesExt, FiniteSetsExt, Blocks, DivSufSort

CONSTANTS Base, Chunks, Threshold1, Threshold2, FastBits

Byte == 0..Base - 1

getBWTChunks(n) == IF n < Threshold1 THEN 1 ELSE Chunks

forward(src, room) ==
  IF Len(src) > room THEN [ok |-> FALSE, out |-> <<>>, indexes |-> <<>>]
  ELSE IF Len(src) <= 1 THEN [ok |-> TRUE, out |-> src, indexes |-> [c \in {0} |-> 0]]
  ELSE Once(LAMBDA bwt : [ok |-> TRUE, out |-> bwt.out, indexes |-> bwt.indexes],
            computeBWT(src, getBWTChunks(Len(src))))

\* Mutant of ChunkSize: rounded down.
ChunkSizeDown(n) == n \div getBWTChunks(n)

ChunkSize(n) == Step(n, getBWTChunks(n))

(***************************************************************************)
(* Small blocks: each byte in the order of its value, with a link to the   *)
(* byte that follows it in the block; then the links are followed from     *)
(* each index.                                                             *)
(***************************************************************************)
Links(src, pIdx) ==
  LET order == Ordered(0..Len(src) - 1,
                 LAMBDA i, j : At(src, i) < At(src, j) \/ (At(src, i) = At(src, j) /\ i < j))
  IN  [k \in DOMAIN order |->
         [byte |-> At(src, order[k]),
          next |-> IF order[k] = 0 THEN 0
                   ELSE IF order[k] < pIdx THEN order[k] - 1 ELSE order[k]]]

RECURSIVE Follow(_, _, _)
Follow(links, t, n) ==
  IF n = 0 THEN <<>>
  ELSE <<links[t + 1].byte>> \o Follow(links, links[t + 1].next, n - 1)

inverseMergeTPSI(src, indexes) ==
  LET n == Len(src)
      chunks == getBWTChunks(n)
      size(c) == IF c < chunks - 1 THEN ChunkSize(n) ELSE n - ChunkSize(n) * (chunks - 1)
  IN  IF \E c \in 0..chunks - 1 : indexes[c] <= 0 \/ indexes[c] > n THEN Fail
      ELSE Done(FlattenSeq([k \in 1..chunks |->
                  Follow(Links(src, indexes[0]), indexes[k - 1] - 1, size(k - 1))]))

(***************************************************************************)
(* Large blocks: row r of the sorted block (row 0 is the empty suffix)     *)
(* starts with bytes c, d.  Pairs are counted from the first byte of a row *)
(* and the byte before it, then rows are linked two bytes apart.           *)
(***************************************************************************)
RowByte(src, pIdx, r) == IF r < pIdx THEN At(src, r) ELSE At(src, r - 1)

CumulBefore(src, c) == 1 + Cardinality({i \in DOMAIN src : src[i] < c})

RowsOf(src, c) == CumulBefore(src, c)..CumulBefore(src, c + 1) - 1

PairCount(src, pIdx, c, d) ==
  Cardinality({r \in RowsOf(src, d) : r # pIdx /\ RowByte(src, pIdx, r) = c})

PairsBefore(c, d) == {p \in Byte \X Byte : p[1] < c \/ (p[1] = c /\ p[2] < d)}

PairStart(src, pIdx, c, d) ==
  1 + MapThenSumSet(LAMBDA p : PairCount(src, pIdx, p[1], p[2]), PairsBefore(c, d))
    + (IF src[1] <= c THEN 1 ELSE 0)

(***************************************************************************)
(* The first pair to try for a row, from a table of FastBits+1 entries.    *)
(***************************************************************************)
RECURSIVE Shift(_)
Shift(n) == IF n > FastBits THEN 1 + Shift(n \div 2) ELSE 0

FirstPair(src, pIdx, v) ==
  LET shifted(r) == r \div (2^Shift(Len(src)))
      end(p) == PairStart(src, pIdx, p[1], p[2]) + PairCount(src, pIdx, p[1], p[2])
      reach == {p \in Byte \X Byte : /\ PairCount(src, pIdx, p[1], p[2]) > 0
                                     /\ v <= shifted(end(p) - 1)}
  IN  IF reach = {} THEN <<0, 0>>
      ELSE CHOOSE p \in reach : \A q \in reach : p \notin PairsBefore(q[1], q[2]) => p = q

RECURSIVE Linked(_, _, _, _)
Linked(src, pIdx, n, t) ==
  LET c == At(src, n)
      p == t.freqs[c]
      pair == <<RowByte(src, pIdx, p), c>>
      u == [t EXCEPT !.freqs[c] = @ + 1]
  IN  IF n = Len(src) THEN t
      ELSE Linked(src, pIdx, n + 1,
             IF p = pIdx THEN u
             ELSE [u EXCEPT !.data[u.ends[pair]] = IF n < pIdx THEN n ELSE n + 1,
                            !.ends[pair] = @ + 1])

Tables(src, pIdx) ==
  LET start == [freqs |-> [c \in Byte |-> CumulBefore(src, c)],
                ends |-> [p \in Byte \X Byte |-> PairStart(src, pIdx, p[1], p[2])],
                data |-> [r \in 0..Len(src) |-> 0]]
      linked == Linked(src, pIdx, 0, start)
  IN  [ends |-> linked.ends, data |-> linked.data,
       first |-> [v \in 0..Len(src) |-> FirstPair(src, pIdx, v)]]

(***************************************************************************)
(* A task writes two bytes at a time, from its chunk's index; the writes   *)
(* are <<position, byte>>.  A chunk of odd size has one byte written that  *)
(* is the next chunk's.                                                    *)
(***************************************************************************)
NextPair(p) == IF p[2] = Base - 1 THEN <<p[1] + 1, 0>> ELSE <<p[1], p[2] + 1>>

RECURSIVE PairOf(_, _, _)
PairOf(t, pair, row) ==
  IF t.ends[pair] <= row THEN PairOf(t, NextPair(pair), row) ELSE pair

RECURSIVE ChunkWrites(_, _, _, _, _)
ChunkWrites(t, row, i, end, shift) ==
  LET pair == PairOf(t, t.first[row \div (2^shift)], row)
  IN  IF i > end THEN {}
      ELSE {<<i - 1, pair[1]>>, <<i, pair[2]>>}
           \cup ChunkWrites(t, t.data[row], i + 2, end, shift)

TaskWrites(t, n, indexes, first, last) ==
  LET size == ChunkSize(n)
      together == last - first = Chunks
      end(c) == IF together \/ (c + 1) * size < n - 1 THEN (c + 1) * size ELSE n - 1
  IN  UNION {ChunkWrites(t, indexes[c], c * size + 1, end(c), Shift(n)) : c \in first..last - 1}

(***************************************************************************)
(* The chunks are dealt out to jobs tasks, as evenly as can be.  What each *)
(* task writes, and the last byte.                                         *)
(***************************************************************************)
Share(jobs, j) ==
  Chunks \div jobs + (IF j < Chunks % jobs THEN 1 ELSE 0)

FirstChunk(jobs, j) == MapThenSumSet(LAMBDA k : Share(jobs, k), 0..j - 1)

AllWrites(src, indexes, jobs) ==
  LET tasks == IF jobs < Chunks THEN jobs ELSE Chunks
      t == Tables(src, indexes[0])
  IN  [j \in 0..tasks - 1 |->
         TaskWrites(t, Len(src), indexes, FirstChunk(tasks, j), FirstChunk(tasks, j + 1))]

inverseBiPSIv2(src, indexes, jobs) ==
  LET n == Len(src)
      writes == AllWrites(src, indexes, jobs)
      at(i) == {w \in UNION {writes[j] : j \in DOMAIN writes} : w[1] = i}
  IN  IF \E c \in 0..Chunks - 1 : indexes[c] <= 0 \/ indexes[c] > n THEN Fail
      ELSE Done([k \in 1..n |-> IF k = n THEN src[1]
                                ELSE (CHOOSE w \in at(k - 1) : TRUE)[2]])

(***************************************************************************)
(* No two tasks write different bytes at a position of the block.          *)
(***************************************************************************)
WritesAgree(src, indexes, jobs) ==
  LET writes == AllWrites(src, indexes, jobs)
  IN  \A j, k \in DOMAIN writes : \A v \in writes[j], w \in writes[k] :
        v[1] = w[1] /\ v[1] < Len(src) - 1 => v[2] = w[2]

inverse(src, indexes, room, jobs) ==
  IF Len(src) > room THEN Fail
  ELSE IF Len(src) <= 1 THEN Done(src)
  ELSE IF Len(src) <= Threshold2 THEN inverseMergeTPSI(src, indexes)
  ELSE inverseBiPSIv2(src, indexes, jobs)
=============================================================================
