-------------------------------- MODULE BWTS --------------------------------
(***************************************************************************)
(* The bijective variant of the Burrows-Wheeler transform: the block is    *)
(* cut into Lyndon words, whose rotations are sorted.  The suffix array is *)
(* turned into the order of the rotations, word by word.  Base is the      *)
(* number of byte values.                                                  *)
(***************************************************************************)
EXTENDS Integers, Sequences, FiniteSets, SequencesExt, Blocks, DivSufSort

CONSTANT Base

Swapped(t, r, s) == [t EXCEPT !.sa[r] = s, !.isa[s] = r]

(***************************************************************************)
(* moveLyndonWordHead: the head of the word at start moves down the array  *)
(* past the suffixes that its word, repeated, is not smaller than.         *)
(***************************************************************************)
RECURSIVE Common(_, _, _, _, _)
Common(src, a, b, k, size) ==
  IF k < size /\ b + k < Len(src) /\ At(src, a + k) = At(src, b + k)
  THEN Common(src, a, b, k + 1, size) ELSE k

HeadStays(t, src, start, size, rank) ==
  LET next == t.sa[rank + 1]
      k == Common(src, start, next, 0, size)
  IN  \/ rank + 1 >= Len(src)
      \/ next <= start + size
      \/ k = size /\ rank < t.isa[next + k]
      \/ k < size /\ next + k < Len(src) /\ At(src, start + k) < At(src, next + k)

RECURSIVE moveLyndonWordHead(_, _, _, _, _)
moveLyndonWordHead(t, src, start, size, rank) ==
  IF HeadStays(t, src, start, size, rank)
  THEN [Swapped(t, rank, start) EXCEPT !.ref = rank]
  ELSE moveLyndonWordHead(Swapped(t, rank, t.sa[rank + 1]), src, start, size, rank + 1)

(***************************************************************************)
(* The rest of the word, from its end, follows.                            *)
(***************************************************************************)
RECURSIVE MoveDown(_, _, _, _)
MoveDown(t, src, j, rank) ==
  LET next == t.sa[rank + 1]
  IN  IF \/ rank >= Len(src) - 1
         \/ j > next \/ At(src, j) # At(src, next) \/ t.ref < t.isa[next + 1]
      THEN [Swapped(t, rank, j) EXCEPT !.ref = rank]
      ELSE MoveDown(Swapped(t, rank, next), src, j, rank + 1)

RECURSIVE MoveWord(_, _, _, _)
MoveWord(t, src, j, head) ==
  LET u == MoveDown(t, src, j, t.isa[j])
  IN  IF j = head THEN t
      ELSE IF u.ref = t.isa[j] THEN u
      ELSE MoveWord(u, src, j - 1, head)

RECURSIVE Words(_, _, _, _)
Words(t, src, i, head) ==
  LET moved == MoveWord(moveLyndonWordHead(t, src, head, i - head, t.min),
                        src, i - 1, head)
  IN  IF i >= Len(src) \/ t.min = 0 THEN t
      ELSE IF t.isa[i] >= t.min THEN Words(t, src, i + 1, head)
      ELSE Words([moved EXCEPT !.min = moved.isa[i]], src, i + 1, i)

(***************************************************************************)
(* Each rotation's row is given the byte before it in its word: the first  *)
(* of a word the last one.                                                 *)
(***************************************************************************)
RECURSIVE LastBytes(_, _, _, _, _)
LastBytes(isa, src, i, min, out) ==
  IF i = Len(src) THEN Set(out, 0, At(src, Len(src) - 1))
  ELSE IF isa[i] >= min
       THEN LastBytes(isa, src, i + 1, min, Set(out, isa[i], At(src, i - 1)))
       ELSE LastBytes(isa, src, i + 1, isa[i],
                      IF min < Len(src) THEN Set(out, min, At(src, i - 1)) ELSE out)

Rows(sa) == [s \in DOMAIN sa |-> CHOOSE r \in DOMAIN sa : sa[r] = s]

Ranked(sa, isa) == [sa |-> sa, isa |-> isa, min |-> isa[0], ref |-> 0]

Rotations(src) ==
  Words(Once(LAMBDA sa : Ranked(sa, Rows(sa)), constructSuffixArray(src)), src, 1, 0)

forward(src, room) ==
  IF Len(src) > room THEN Fail
  ELSE IF Len(src) < 2 THEN Done(src)
  ELSE Done(LastBytes(Rotations(src).isa, src, 0, Len(src), src))

(***************************************************************************)
(* The inverse: from each row not yet seen, the links are followed round   *)
(* their cycle, and the block is written from its end.                     *)
(***************************************************************************)
Order(src) ==
  [i \in 0..Len(src) - 1 |->
     Cardinality({j \in 0..Len(src) - 1 : \/ At(src, j) < At(src, i)
                                          \/ At(src, j) = At(src, i) /\ j < i})]

RECURSIVE Cycle(_, _, _)
Cycle(t, src, p) ==
  IF t.lf[p] < 0 THEN t
  ELSE Cycle([lf |-> [t.lf EXCEPT ![p] = -1], out |-> <<At(src, p)>> \o t.out], src, t.lf[p])

inverse(src, room) ==
  LET Cycles(t, i) == Cycle(t, src, i)
  IN  IF Len(src) > room THEN Fail
      ELSE IF Len(src) < 2 THEN Done(src)
      ELSE Done(Fold(Cycles, [lf |-> Order(src), out |-> <<>>], Slots(src)).out)
=============================================================================
