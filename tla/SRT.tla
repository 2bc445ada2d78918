-------------------------------- MODULE SRT --------------------------------
(***************************************************************************)
(* Sorted rank transform: move-to-front ranks, grouped by the symbol they  *)
(* stand for, the groups in the order of decreasing frequency, after a     *)
(* header of the frequencies.  Base is the number of byte values (256),    *)
(* VarBase that of the payloads of a byte of a frequency (128).            *)
(***************************************************************************)
EXTENDS Integers, Sequences, SequencesExt, Blocks

CONSTANTS Base, VarBase, MaxHeader

Byte == 0..Base - 1

\* Mutant of getMaxEncodedLength: no room for the header.
getMaxEncodedLengthBare(n) == n

getMaxEncodedLength(n) == n + MaxHeader

Frequencies(src) == [c \in Byte |-> CountOf(src, c)]

(***************************************************************************)
(* The header: the frequencies as varints of at most five bytes.           *)
(***************************************************************************)
RECURSIVE VarInt(_, _)
VarInt(f, k) ==
  IF f >= VarBase /\ k < 5
  THEN <<VarBase + (f % VarBase)>> \o VarInt(f \div VarBase, k + 1) ELSE <<f>>

encodeHeader(freqs) == FlattenSeq([i \in 1..Base |-> VarInt(freqs[i - 1], 1)])

RECURSIVE Varint(_, _, _)
Varint(src, i, j) ==
  IF i >= Len(src) THEN [ok |-> FALSE]
  ELSE IF At(src, i) < VarBase THEN [ok |-> TRUE, at |-> i + 1, val |-> At(src, i)]
  ELSE LET rest == Varint(src, i + 1, j + 1)
       IN  IF j = 4 \/ ~rest.ok THEN [ok |-> FALSE]
           ELSE [rest EXCEPT !.val = @ * VarBase + (At(src, i) % VarBase)]

RECURSIVE decodeHeader(_, _, _)
decodeHeader(src, i, freqs) ==
  LET v == Varint(src, i, 0)
  IN  IF Len(freqs) = Base
      THEN [ok |-> TRUE, size |-> i, freqs |-> [c \in Byte |-> freqs[c + 1]]]
      ELSE IF ~v.ok THEN [ok |-> FALSE]
      ELSE decodeHeader(src, v.at, Append(freqs, v.val))

(***************************************************************************)
(* The symbols there are, sorted by decreasing frequency, then by value.   *)
(* (What the shell sort of the code ends with.)                            *)
(***************************************************************************)
preprocess(freqs) ==
  Ordered({c \in Byte : freqs[c] > 0},
               LAMBDA a, b : freqs[a] > freqs[b] \/ (freqs[a] = freqs[b] /\ a < b))

IndexIn(symbols, c) ==
  IF Contains(symbols, c) THEN (CHOOSE k \in DOMAIN symbols : symbols[k] = c) - 1 ELSE 0

BucketStart(freqs, symbols) ==
  [c \in Byte |-> SumOf([k \in 1..IndexIn(symbols, c) |-> freqs[symbols[k]]])]

(***************************************************************************)
(* The initial list is the order of first occurrence.  A byte's rank goes  *)
(* to its bucket, then the byte moves to the front; the rest of its run    *)
(* has rank 0.                                                             *)
(***************************************************************************)
FirstSeen(src) ==
  Fold(LAMBDA seen, c : IF Contains(seen, c) THEN seen ELSE Append(seen, c), <<>>, src)

ToFront(list, r) == <<list[r + 1]>> \o Part(list, 0, r) \o From(list, r + 1)

Ranked(t, c) ==
  LET r == (CHOOSE k \in DOMAIN t.list : t.list[k] = c) - 1
  IN  [list |-> ToFront(t.list, r),
       buckets |-> [t.buckets EXCEPT ![c] = @ + 1],
       out |-> [t.out EXCEPT ![t.buckets[c] + 1] = r]]

forward(src, room) ==
  LET freqs == Frequencies(src)
      start == [list |-> FirstSeen(src),
                buckets |-> BucketStart(freqs, preprocess(freqs)),
                out |-> src]
  IN  IF src = <<>> THEN Done(<<>>)
      ELSE IF room < getMaxEncodedLength(Len(src)) THEN Fail
      ELSE Done(encodeHeader(freqs) \o Fold(Ranked, start, src).out)

(***************************************************************************)
(* The inverse: the first of each bucket says where in the initial list    *)
(* its symbol is; then the symbol in front is next, and the next rank of   *)
(* its bucket says where it goes back to, until the bucket is used up.     *)
(***************************************************************************)
InitialList(src, symbols, starts) ==
  [r \in 0..Base - 1 |->
     LET at == {k \in DOMAIN symbols : At(src, starts[symbols[k]]) = r}
     IN  IF at = {} THEN 0 ELSE symbols[CHOOSE k \in at : \A j \in at : j <= k]]

Sink(list, r) == [k \in DOMAIN list |->
  IF k < r THEN list[k + 1] ELSE IF k = r THEN list[0] ELSE list[k]]

DropFront(list, n) == [k \in DOMAIN list |-> IF k < n THEN list[k + 1] ELSE list[k]]

Unranked(t, src) ==
  LET c == t.list[0]
      more == t.buckets[c] < t.ends[c]
      n == IF more \/ t.left = 1 THEN t.left ELSE t.left - 1
      list == IF more THEN Sink(t.list, At(src, t.buckets[c]))
              ELSE IF t.left = 1 THEN t.list ELSE DropFront(t.list, n)
  IN  [t EXCEPT !.out = Append(@, c), !.left = n, !.list = list,
                !.buckets[c] = IF more THEN @ + 1 ELSE @]

inverse(src, room) ==
  LET header == decodeHeader(src, 0, <<>>)
      data == From(src, header.size)
      symbols == preprocess(header.freqs)
      starts == BucketStart(header.freqs, symbols)
      start == [list |-> InitialList(data, symbols, starts), left |-> Len(symbols),
                buckets |-> [c \in Byte |-> starts[c] + 1],
                ends |-> [c \in Byte |-> starts[c] + header.freqs[c]], out |-> <<>>]
  IN  IF src = <<>> THEN Done(<<>>)
      ELSE IF Len(src) < Base \/ ~header.ok THEN Fail
      ELSE IF Len(data) > room \/ \E k \in DOMAIN symbols : starts[symbols[k]] >= Len(data)
           THEN Fail
      ELSE Done(Fold(LAMBDA t, i : Unranked(t, data), start, data).out)
=============================================================================
