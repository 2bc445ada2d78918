------------------------- MODULE TransformSequence -------------------------
(***************************************************************************)
(* A chain of transforms on a block, between two arrays that take turns as *)
(* source and destination; a third one is allocated where the destination  *)
(* is too short.  A transform that does not apply is skipped, and the      *)
(* inverse undoes the others in reverse order.                             *)
(***************************************************************************)
EXTENDS Integers, Sequences

CONSTANTS
  TokenForward(_, _, _, _),    \* a transform: token, bytes, room for the result, context
  TokenInverse(_, _, _, _, _), \* its inverse: token, bytes, slack behind them, room, context
  MostEncoded(_, _)         \* what it promises not to exceed: token, number of bytes

VARIABLES
  chain,      \* _transforms: the tokens
  slices,     \* the arrays: what their prefix holds and their length
  in, out,    \* which of them is the source and which the destination
  next,       \* the transform whose turn it is
  skipFlags,  \* _skipFlags: the transforms that are skipped
  swaps       \* how often source and destination have been swapped

seqVars == <<chain, slices, in, out, next, skipFlags, swaps>>

SKIP_MASK == 0..7

Slice(data, length) == [data |-> data, length |-> length]

NoSlice == Slice(<<>>, 0)

(***************************************************************************)
(* What n bytes may become on the way through the chain, after each of its *)
(* transforms and at its end.                                              *)
(***************************************************************************)
Sizes(tokens, n) ==
  LET longer(size, token) == LET m == MostEncoded(token, size)
                             IN  IF m > size THEN m ELSE size
      sizes[k \in 0..Len(tokens)] == IF k = 0 THEN n ELSE longer(sizes[k - 1], tokens[k])
  IN  sizes

getMaxEncodedLength(tokens, n) == Sizes(tokens, n)[Len(tokens)]

(***************************************************************************)
(* The destination: itself, or the third array when it is shorter than     *)
(* needed; and the arrays after that.                                      *)
(***************************************************************************)
Target(needed) == IF slices[out].length < needed THEN "buffer" ELSE out

Roomy(needed) ==
  LET to == Target(needed)
  IN  IF slices[to].length < needed THEN [slices EXCEPT ![to] = Slice(<<>>, needed)] ELSE slices

(***************************************************************************)
(* forward.  What a transform that failed leaves in its destination does   *)
(* not matter.                                                             *)
(***************************************************************************)
ForwardBegin(data, to, tokens) ==
  /\ slices' = [input |-> data, output |-> to, buffer |-> NoSlice]
  /\ chain' = tokens
  /\ in' = "input" /\ out' = "output"
  /\ next' = 1 /\ swaps' = 0 /\ skipFlags' = SKIP_MASK

ForwardStep(needed, ctx) ==
  LET to == Target(needed)
      room == Roomy(needed)
      res == TokenForward(chain[next], slices[in].data, room[to].length, ctx)
  IN  /\ next <= Len(chain)
      /\ next' = next + 1
      /\ IF res.ok
         THEN /\ slices' = [room EXCEPT ![to].data = res.out]
              /\ in' = to /\ out' = in /\ swaps' = swaps + 1
              /\ skipFlags' = skipFlags \ {next - 1}
         ELSE /\ slices' = [room EXCEPT ![to].data = <<>>]
              /\ out' = to
              /\ UNCHANGED <<in, swaps, skipFlags>>
      /\ UNCHANGED chain

Fits == Len(slices[in].data) <= slices["output"].length

\* Mutant of ForwardEnd: the bytes stay in the input array after an even number of swaps.
ForwardEndUncopied ==
  /\ next > Len(chain)
  /\ UNCHANGED <<slices, skipFlags, chain, in, out, next, swaps>>

ForwardEnd ==
  /\ next > Len(chain)
  /\ IF swaps % 2 = 1 THEN UNCHANGED <<slices, skipFlags>>
     ELSE IF Fits
          THEN /\ slices' = [slices EXCEPT !["output"].data = slices[in].data]
               /\ UNCHANGED skipFlags
          ELSE skipFlags' = SKIP_MASK /\ UNCHANGED slices
  /\ UNCHANGED <<chain, in, out, next, swaps>>

(***************************************************************************)
(* inverse: the same turns, for the transforms that were not skipped, each *)
(* of which must succeed.                                                  *)
(***************************************************************************)
InverseBegin(data, to, tokens, flags) ==
  /\ slices' = [input |-> data,
                output |-> IF flags = SKIP_MASK THEN Slice(data.data, to.length) ELSE to,
                buffer |-> NoSlice]
  /\ in' = "input" /\ out' = "output"
  /\ next' = (IF flags = SKIP_MASK THEN 0 ELSE Len(tokens)) /\ swaps' = 0
  /\ chain' = tokens /\ skipFlags' = flags

InverseSkip ==
  /\ next >= 1 /\ next - 1 \in skipFlags
  /\ next' = next - 1
  /\ UNCHANGED <<chain, slices, in, out, skipFlags, swaps>>

Undone(ctx) ==
  LET to == Target(slices["output"].length)
      room == Roomy(slices["output"].length)
  IN  TokenInverse(chain[next], slices[in].data,
                      slices[in].length - Len(slices[in].data), room[to].length, ctx)

InverseStep(res) ==
  LET to == Target(slices["output"].length)
  IN  /\ next >= 1 /\ next - 1 \notin skipFlags
      /\ res.ok
      /\ slices' = [Roomy(slices["output"].length) EXCEPT ![to].data = res.out]
      /\ in' = to /\ out' = in /\ swaps' = swaps + 1
      /\ next' = next - 1
      /\ UNCHANGED <<chain, skipFlags>>

InverseEnd ==
  /\ next = 0
  /\ IF swaps % 2 = 1 \/ skipFlags = SKIP_MASK THEN UNCHANGED slices
     ELSE /\ Fits
          /\ slices' = [slices EXCEPT !["output"].data = slices[in].data]
  /\ UNCHANGED <<chain, in, out, next, skipFlags, swaps>>
=============================================================================
