--------------------------- MODULE BlockContracts ---------------------------
(***************************************************************************)
(* What the way of a block needs of its transforms and of its entropy      *)
(* coder: the promises that Transform.hpp, EntropyEncoder.hpp and          *)
(* EntropyDecoder.hpp ask of those who implement them, for the blocks and  *)
(* the arrays that a job comes to.                                         *)
(*                                                                         *)
(* D[j][k][p] is a set that holds whatever the first k transforms of job j *)
(* may have made of its block and left in the place p: the array of the    *)
(* result, or the other one of the turn.                                   *)
(***************************************************************************)
EXTENDS BlockCoding

Places == {"output", "other"}

Opposite(p) == IF p = "output" THEN "other" ELSE "output"

IsSequence(s) == Len(s) \in Nat /\ s = [i \in 1..Len(s) |-> s[i]]

CopiedOf(j) == Len(j.block) <= SmallBlock \/ j.skip

ChainOf(j) == IF CopiedOf(j) THEN Chain(<<>>) ELSE Chain(j.names)

CoderOf(j) == IF CopiedOf(j) THEN "NONE" ELSE j.entropy

Stages(j) == 1..Len(ChainOf(j))

After(D, j, k) == UNION {D[j][k][p] : p \in Places}

Results(D, j) == After(D, j, Len(ChainOf(j)))

(***************************************************************************)
(* The arrays of the encoding task: that of the result, and the one that   *)
(* takes turns with it, the block's own or the third.                      *)
(***************************************************************************)
NeededOf(j) == getMaxEncodedLength(ChainOf(j), Len(j.block))

OutputLength(j) == Larger(j.spare, NeededOf(j))

InputLength(j) == Larger(Len(j.block) + Len(j.block) \div 8, BufferFloor)

OtherLength(j) == Larger(InputLength(j), NeededOf(j))

TurnLength(j, p) == IF p = "output" THEN OutputLength(j) ELSE OtherLength(j)

Forwarded(j, k, a, p, t) ==
  TokenForward(ChainOf(j)[k], a, TurnLength(j, Opposite(p)), [j.ctx EXCEPT !.type = t])

(***************************************************************************)
(* What is written for a: the header, whichever transforms it says were    *)
(* skipped, and the code.                                                  *)
(***************************************************************************)
Headers(j, a) ==
  {Header(CopiedOf(j), ChainOf(j), flags, Len(a)) :
     flags \in {f \in SUBSET SKIP_MASK : Len(ChainOf(j))..7 \subseteq f}}

CodeOf(j, a) == EntropyEncode(CoderOf(j), a, j.heap)

Decoding(j, head, a) == EntropyDecode(CoderOf(j), head \o CodeOf(j, a), Len(head), Len(a))

(***************************************************************************)
(* The arrays of the decoding task.                                        *)
(***************************************************************************)
BlockLengthOf(j) == Larger(Len(j.block) + ExtraBuffer, Len(j.block) + Len(j.block) \div 16)

RoomOf(j, head, a) ==
  IF j.tasks > 1 THEN Larger(BlockLengthOf(j), Len(head \o CodeOf(j, a)) \div ByteBits)
  ELSE BlockLengthOf(j)

LengthsOf(j, a) ==
  {Larger(BlockLengthOf(j), Len(a) + ExtraBuffer)} \cup {RoomOf(j, head, a) : head \in Headers(j, a)}

InverseLengths(D, j) == UNION {LengthsOf(j, a) : a \in Results(D, j)}

Inverted(j, k, b, length, room) == TokenInverse(ChainOf(j)[k], b, length - Len(b), room, j.ctx)

(***************************************************************************)
(* The stages: no more than 8 transforms may be chained, the length of     *)
(* what they make is an int of four bytes, and so is what they ask for.    *)
(***************************************************************************)
StagesKept(D) ==
  \A j \in Jobs :
    /\ j.skip \in BOOLEAN /\ j.spare \in Nat
    /\ Len(ChainOf(j)) \in 0..8
    /\ NeededOf(j) \in Nat
    /\ j.block \in D[j][0]["other"]
    /\ \A k \in 0..Len(ChainOf(j)), p \in Places : \A a \in D[j][k][p] : IsSequence(a)
    /\ \A a \in Results(D, j) : Halves(Len(a))[4 * ByteBits] = 0

(***************************************************************************)
(* forward writes no more than there is room for; a block that it does not *)
(* take stays where it is; what does not stand in the array of the result  *)
(* in the end fits it; and a block that is to be copied is.                *)
(***************************************************************************)
ForwardKept(D) ==
  \A j \in Jobs :
    /\ \A k \in Stages(j), p \in Places : \A a \in D[j][k - 1][p], t \in j.types :
         \A res \in {Forwarded(j, k, a, p, t)} :
           IF res.ok THEN /\ res.out \in D[j][k][Opposite(p)]
                          /\ Len(res.out) <= TurnLength(j, Opposite(p))
                          /\ CopiedOf(j) => res.out = a
           ELSE a \in D[j][k][p] /\ ~CopiedOf(j)
    /\ \A a \in D[j][Len(ChainOf(j))]["other"] : Len(a) <= OutputLength(j)

(***************************************************************************)
(* inverse, where it succeeds, brings back what forward was given, within  *)
(* the room it has.                                                        *)
(***************************************************************************)
InverseKept(D) ==
  \A j \in Jobs : \A k \in Stages(j), p \in Places : \A a \in D[j][k - 1][p], t \in j.types :
    \A made \in {Forwarded(j, k, a, p, t)} : made.ok =>
      \A length, room \in InverseLengths(D, j) : Len(made.out) <= length =>
        \A res \in {Inverted(j, k, made.out, length, room)} :
          res.ok => res.out = a /\ Len(a) <= room

(***************************************************************************)
(* The entropy decoder, where it succeeds, brings back what the encoder    *)
(* was given and stops where that did.                                     *)
(***************************************************************************)
EntropyKept(D) ==
  \A j \in Jobs : \A a \in Results(D, j) :
    /\ IsSequence(CodeOf(j, a))
    /\ \A head \in Headers(j, a) : \A res \in {Decoding(j, head, a)} :
         res.ok => res.out = a /\ res.at = Len(head \o CodeOf(j, a))

Contracts(D) == StagesKept(D) /\ ForwardKept(D) /\ InverseKept(D) /\ EntropyKept(D)

(***************************************************************************)
(* The tasks of an inverse agree on what forward has made.                 *)
(***************************************************************************)
TasksKept(D) ==
  \A j \in Jobs : \A k \in Stages(j), p \in Places : \A a \in D[j][k - 1][p], t \in j.types :
    \A made \in {Forwarded(j, k, a, p, t)} :
      made.ok => InverseTasksAgree(ChainOf(j)[k], made.out, j.ctx)

(***************************************************************************)
(* No block becomes empty or longer than what the decoding task sets       *)
(* aside for it, and the decoders succeed with as much room as that gives  *)
(* them.                                                                   *)
(***************************************************************************)
AcceptanceKept(D) ==
  \A j \in Jobs :
    /\ \A a \in Results(D, j) :
         Len(a) \in 1..BlockLengthOf(j) /\ \A head \in Headers(j, a) : Decoding(j, head, a).ok
    /\ \A k \in Stages(j), p \in Places : \A a \in D[j][k - 1][p], t \in j.types :
         \A made \in {Forwarded(j, k, a, p, t)} : made.ok =>
           \A length, room \in InverseLengths(D, j) :
             Len(made.out) <= length => Inverted(j, k, made.out, length, room).ok
=============================================================================
