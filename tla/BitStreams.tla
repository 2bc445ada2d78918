----------------------------- MODULE BitStreams -----------------------------
(***************************************************************************)
(* A bitstream is written, closed, and what the byte stream has received   *)
(* is read back.                                                           *)
(***************************************************************************)
EXTENDS DefaultOutputBitStream, DefaultInputBitStream

vars == <<outVars, inVars>>

TypeOK == OutTypeOK /\ InTypeOK

Init == OutInit /\ InInit

Open ==
  /\ closed = 1
  /\ failures = 0
  /\ opened = 0
  /\ opened' = 1
  /\ source' = sink
  /\ UNCHANGED <<outVars, fetchVars, word, callVars>>

Next == \/ OutNext /\ UNCHANGED inVars
        \/ Open
        \/ InNext /\ UNCHANGED outVars

Spec == Init /\ [][Next]_vars
=============================================================================
