----------------------------- MODULE DivSufSort -----------------------------
(***************************************************************************)
(* The suffix array and the Burrows-Wheeler transform of a block by        *)
(* induced sorting.  A suffix is of type B when it is smaller than the     *)
(* next one, of type B* when the next one is of type A.  The B* suffixes   *)
(* are sorted first (sortTypeBstar, by its result), then two scans of the  *)
(* array induce the order of the others.  A number s that the scans are to *)
(* skip is kept as -s-1 (~s).                                              *)
(***************************************************************************)
LOCAL INSTANCE Integers
LOCAL INSTANCE Sequences
LOCAL INSTANCE FiniteSets
LOCAL INSTANCE SequencesExt
LOCAL INSTANCE Blocks

(***************************************************************************)
(* What is meant: suffixes in lexicographic order.                         *)
(***************************************************************************)
RECURSIVE SuffixLess(_, _, _)
SuffixLess(s, i, j) ==
  IF j = Len(s) THEN FALSE
  ELSE IF i = Len(s) THEN TRUE
  ELSE IF At(s, i) # At(s, j) THEN At(s, i) < At(s, j)
  ELSE SuffixLess(s, i + 1, j + 1)

Rank(s) == [i \in 0..Len(s) - 1 |-> Cardinality({j \in 0..Len(s) - 1 : SuffixLess(s, j, i)})]

Not(s) == -s - 1

(***************************************************************************)
(* The state after sortTypeBstar: every B* suffix is where it belongs,     *)
(* negated when the suffix before it is not of type B.  The cursors are    *)
(* where the next suffix of a bucket goes: from the end of the type B      *)
(* suffixes with first bytes c0 <= c1, from the start of the suffixes with *)
(* first byte c.                                                           *)
(***************************************************************************)
TypeB(s, i) == i < Len(s) - 1 /\ SuffixLess(s, i, i + 1)

TypeBStar(s, i) == TypeB(s, i) /\ ~TypeB(s, i + 1)

Places(s) == 0..Len(s) - 1

StartOf(s, c) == Cardinality({i \in Places(s) : At(s, i) < c})

StartOfB(s, c) ==
  StartOf(s, c) + Cardinality({i \in Places(s) : At(s, i) = c /\ ~TypeB(s, i)})

EndOfB(s, c0, c1) ==
  StartOf(s, c0) - 1
    + Cardinality({i \in Places(s) : At(s, i) = c0 /\ (~TypeB(s, i) \/ At(s, i + 1) <= c1)})

BStarSlot(s, rank, r) == {i \in Places(s) : TypeBStar(s, i) /\ rank[i] = r}

BStarOrFlag(s, slot) ==
  IF slot = {} THEN 0
  ELSE Once(LAMBDA i : IF i = 0 \/ TypeB(s, i - 1) THEN i ELSE Not(i),
            CHOOSE j \in slot : TRUE)

SortedBStar(s, rank) == [r \in Places(s) |-> BStarOrFlag(s, BStarSlot(s, rank, r))]

sortTypeBstar(s) ==
  [m |-> Cardinality({i \in Places(s) : TypeBStar(s, i)}),
   sa |-> SortedBStar(s, Rank(s)),
   b |-> [c \in ToSet(s) \X ToSet(s) |-> IF c[1] <= c[2] THEN EndOfB(s, c[1], c[2]) ELSE 0],
   a |-> [c \in ToSet(s) |-> StartOf(s, c)]]

(***************************************************************************)
(* From right to left over the type B suffixes, bucket by bucket: the      *)
(* suffix before a type B suffix, when it is of type B too, goes to the    *)
(* end k of its bucket.                                                    *)
(***************************************************************************)
Descending(S) == Ordered(S, LAMBDA x, y : x > y)

TypeBSlots(s) == Descending({r \in 0..Len(s) - 1 : \E c \in ToSet(s) :
  r >= StartOfB(s, c) /\ r < StartOf(s, c + 1)})

FirstByte(s, r) == CHOOSE c \in ToSet(s) : r >= StartOf(s, c) /\ r < StartOf(s, c + 1)

PlaceB(s, t, j, left, v, bucket, k) ==
  [t EXCEPT !.sa = [@ EXCEPT ![j] = Not(left),
                             ![k] = IF v > 1 /\ At(s, v - 2) > bucket[1]
                                    THEN Not(v - 1) ELSE v - 1],
            !.b[bucket] = k - 1]

BeforeB(s, t, j, left, v, bucket) == PlaceB(s, t, j, left, v, bucket, t.b[bucket])

InduceB(s, t, j, left, v) ==
  IF v <= 0 THEN [t EXCEPT !.sa[j] = Not(v)]
  ELSE BeforeB(s, t, j, left, v, <<At(s, v - 1), FirstByte(s, j)>>)

SlotsOfB(s, sorted) == IF sorted.m > 0 THEN TypeBSlots(s) ELSE <<>>

(***************************************************************************)
(* From left to right over all: the suffix before, when it is of type A,   *)
(* goes to the start k of its bucket.  The last suffix is put there first. *)
(***************************************************************************)
PlaceA(s, t, v, c, k) ==
  [t EXCEPT !.sa[k] = IF v = 1 \/ At(s, v - 2) < c THEN Not(v - 1) ELSE v - 1,
            !.a[c] = k + 1]

BeforeA(s, t, v, c) == PlaceA(s, t, v, c, t.a[c])

InduceA(s, t, i, v) ==
  IF v <= 0 THEN [t EXCEPT !.sa[i] = Not(v)] ELSE BeforeA(s, t, v, At(s, v - 1))

Slots(s) == [k \in 1..Len(s) |-> k - 1]

PutLast(s, t, last) ==
  [t EXCEPT !.sa[t.a[last]] = IF At(s, Len(s) - 2) < last THEN Not(Len(s) - 1) ELSE Len(s) - 1,
            !.a[last] = @ + 1]

InducedB(s, sorted) ==
  Fold(LAMBDA u, j : InduceB(s, u, j, u.sa[j], u.sa[j]), sorted, SlotsOfB(s, sorted))

constructSuffixArray(s) ==
  Fold(LAMBDA v, i : InduceA(s, v, i, v.sa[i]),
       PutLast(s, InducedB(s, sortTypeBstar(s)), At(s, Len(s) - 1)), Slots(s)).sa

(***************************************************************************)
(* The same scans for the transform: a slot is left with the byte before   *)
(* its suffix, and the slot of a suffix at the start of a chunk is noted.  *)
(***************************************************************************)
Step(n, chunks) == IF n % chunks = 0 THEN n \div chunks ELSE n \div chunks + 1

Noted(t, s, step, slot) ==
  IF s % step = 0 THEN [t EXCEPT !.indexes[s \div step] = slot] ELSE t

NoteB(s, t, j, step, v) ==
  IF v = 0 THEN t
  ELSE InduceB(s, IF v > 0 THEN Noted(t, v, step, j + 1) ELSE t, j,
               IF v > 0 THEN At(s, v - 1) ELSE 0, v)

PlaceByte(s, t, i, v, c, k, skip) ==
  [t EXCEPT !.sa = [@ EXCEPT ![i] = c,
                             ![k] = IF skip THEN Not(At(s, v - 2)) ELSE v - 1],
            !.a[c] = k + 1]

NotedA(t, v, step, i, k, skip) ==
  Once(LAMBDA u : IF skip THEN Noted(u, v - 1, step, k + 1) ELSE u,
       Noted(t, v, step, i + 1))

ByteA(s, t, i, step, v, c, k, skip) ==
  PlaceByte(s, NotedA(t, v, step, i, k, skip), i, v, c, k, skip)

NoteA(s, t, i, step, v) ==
  IF v = 0 THEN [t EXCEPT !.pIdx = i]
  ELSE IF v < 0 THEN [t EXCEPT !.sa[i] = Not(v)]
  ELSE ByteA(s, t, i, step, v, At(s, v - 1), t.a[At(s, v - 1)],
             v > 1 /\ At(s, v - 2) < At(s, v - 1))

LastPlaced(s, t, c, before, n) ==
  [t EXCEPT !.sa[t.a[c]] = IF before < c THEN Not(before) ELSE n - 1, !.a[c] = @ + 1]

LastSuffix(s, t, step, c, before) ==
  LastPlaced(s, IF before < c THEN Noted(t, Len(s) - 1, step, Len(s)) ELSE t,
             c, before, Len(s))

Start(sorted, chunks) ==
  [m |-> sorted.m, sa |-> sorted.sa, b |-> sorted.b, a |-> sorted.a,
   pIdx |-> -1, indexes |-> [c \in 0..chunks - 1 |-> 0]]

NotedB(s, sorted, chunks, step) ==
  Fold(LAMBDA u, j : NoteB(s, u, j, step, u.sa[j]), Start(sorted, chunks),
       SlotsOfB(s, sorted))

Scanned(s, chunks, step) ==
  Fold(LAMBDA v, i : NoteA(s, v, i, step, v.sa[i]),
       LastSuffix(s, NotedB(s, sortTypeBstar(s), chunks, step), step,
                  At(s, Len(s) - 1), At(s, Len(s) - 2)),
       Slots(s))

constructBWT(s, chunks) ==
  Once(LAMBDA u : [u EXCEPT !.indexes[0] = u.pIdx + 1],
       Scanned(s, chunks, Step(Len(s), chunks)))

(***************************************************************************)
(* The block: the byte before the last suffix, then the bytes left in the  *)
(* slots but that of the whole block.                                      *)
(***************************************************************************)
computeBWT(s, chunks) ==
  Once(LAMBDA t : [out |-> <<At(s, Len(s) - 1)>> \o [i \in 1..t.pIdx |-> t.sa[i - 1]]
                           \o [i \in 1..Len(s) - t.pIdx - 1 |-> t.sa[t.pIdx + i]],
                   indexes |-> t.indexes],
       constructBWT(s, chunks))
=============================================================================
