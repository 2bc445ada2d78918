-------------------------------- MODULE SBRT --------------------------------
(***************************************************************************)
(* Sort by rank: each byte is replaced by its rank in a list that moves    *)
(* the bytes of recent and frequent use to its front.  Base is the number  *)
(* of byte values.                                                         *)
(***************************************************************************)
EXTENDS Integers, Sequences, SequencesExt, Blocks

CONSTANT Base

Byte == 0..Base - 1

(***************************************************************************)
(* When c is seen at i: the position it competes with, from the position   *)
(* and from the last one, as _mask1, _mask2 and _shift combine them.       *)
(***************************************************************************)
Position(mode, i, last) ==
  CASE mode = "MTF" -> i
    [] mode = "RANK" -> (i + last) \div 2
    [] mode = "TIMESTAMP" -> last

Ranks == [p |-> [c \in Byte |-> 0], q |-> [c \in Byte |-> 0],
          r2s |-> [r \in Byte |-> r], i |-> 0, out |-> <<>>]

(***************************************************************************)
(* c moves up from rank r past every symbol of a position not after its    *)
(* own.                                                                    *)
(***************************************************************************)
RECURSIVE NewRank(_, _, _)
NewRank(t, r, qc) ==
  IF r > 0 /\ t.q[t.r2s[r - 1]] <= qc THEN NewRank(t, r - 1, qc) ELSE r

Moved(r2s, from, to) ==
  [r \in Byte |-> IF r = to THEN r2s[from]
                  ELSE IF r > to /\ r <= from THEN r2s[r - 1] ELSE r2s[r]]

Seen(t, mode, r, out) ==
  LET c == t.r2s[r]
      qc == Position(mode, t.i, t.p[c])
      u == [t EXCEPT !.p[c] = t.i, !.q[c] = qc]
  IN  [u EXCEPT !.r2s = Moved(@, r, NewRank(u, r, qc)),
                !.i = @ + 1, !.out = Append(@, out)]

forward(src, room, mode) ==
  LET Encode(t, c) == LET r == CHOOSE k \in Byte : t.r2s[k] = c IN Seen(t, mode, r, r)
  IN  IF Len(src) > room THEN Fail ELSE Done(Fold(Encode, Ranks, src).out)

inverse(src, room, mode) ==
  LET Decode(t, r) == Seen(t, mode, r, t.r2s[r])
  IN  IF Len(src) > room THEN Fail ELSE Done(Fold(Decode, Ranks, src).out)
=============================================================================
