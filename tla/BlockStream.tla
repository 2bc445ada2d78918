---------------------------- MODULE BlockStream ----------------------------
(***************************************************************************)
(* What a compressed stream promises its client, with no threads, buffers  *)
(* or turns: blocks are submitted one after the other; the stream receives *)
(* them in that order, each at most once and with no gap; the end marker   *)
(* goes last, and goes behind a complete sequence of blocks unless the     *)
(* client has been told of a failure.                                      *)
(*                                                                         *)
(* CompressedOutputStream implements this specification as long as blocks  *)
(* only fail while they hold the turn (see that module).                   *)
(***************************************************************************)
EXTENDS Naturals, Sequences

VARIABLES submitted,  \* the blocks the client has filled, in order
          emitted,    \* the blocks in the stream, in order
          sealed,     \* the end marker is in the stream
          reported    \* a call has thrown

blockStreamVars == <<submitted, emitted, sealed, reported>>

Init == /\ submitted = <<>>
        /\ emitted = <<>>
        /\ sealed = FALSE
        /\ reported = FALSE

Complete == emitted = submitted

\* One more block at the end, whatever it contains.
Submit == /\ ~sealed
          /\ Len(submitted') = Len(submitted) + 1
          /\ \A i \in 1..Len(submitted) : submitted'[i] = submitted[i]
          /\ UNCHANGED <<emitted, sealed, reported>>

Emit == /\ ~sealed
        /\ Len(emitted) < Len(submitted)
        /\ emitted' = Append(emitted, submitted[Len(emitted) + 1])
        /\ UNCHANGED <<submitted, sealed, reported>>

Report == /\ reported' = TRUE
          /\ UNCHANGED <<submitted, emitted, sealed>>

Seal == /\ ~sealed
        /\ Complete \/ reported
        /\ sealed' = TRUE
        /\ UNCHANGED <<submitted, emitted, reported>>

Next == \/ Submit
        \/ Emit
        \/ Report
        \/ Seal

Spec == Init /\ [][Next]_blockStreamVars
=============================================================================
