------------------ MODULE CompressedInputStreamOrderProofs ------------------
(***************************************************************************)
(* What the client of CompressedInputStream gets, for every value of the   *)
(* constants: the units of the stream in order, the end of the stream only *)
(* at its end, an error only when a step has failed; and the turns of the  *)
(* tasks at the shared bitstream.                                          *)
(***************************************************************************)
EXTENDS CompressedInputStreamProofs

-----------------------------------------------------------------------------
(* The ring: how the tasks are numbered.                                   *)

\* The tasks launched when the ring was last at slot 0.
Behind == submitBlockId - bufferId

\* The tasks of the ring: one in each slot, fewer when a launch has failed in
\* the first round.
Ahead == IF Behind < Jobs THEN Behind ELSE Jobs

\* The number of the task the client is at.
Front == submitBlockId - Ahead + 1

\* Numbers go up by one from the client's slot around the ring.
Numbered(s) ==
  IF s < bufferId
    THEN id[s] = Behind + s + 1
    ELSE id[s] = Front + s - bufferId /\ id[s] <= Behind

Ring ==
  /\ bufferId <= submitBlockId
  /\ bufferId <= Ahead
  /\ mpc = "boot" => submitBlockId = count
  /\ \A s \in Slots : futures[s] = 1 => Numbered(s)
  /\ available > 0 \/ mpc = "resubmit" => Numbered(bufferId)

LEMMA TurnsRound ==
  ASSUME NEW j \in Nat \ {0}, NEW b \in 0..(j - 1)
  PROVE  (b + 1) % j = IF b + 1 = j THEN 0 ELSE b + 1
<1>1. CASE b + 1 = j
  <2>1. j % j = 0
    OBVIOUS
  <2> QED
    BY <1>1, <2>1
<1>2. CASE b + 1 # j
  <2> DEFINE c == b + 1
  <2>1. c \in Int /\ 0 <= c /\ c < j
    BY <1>2
  <2>2. c % j = c
    <3> HIDE DEF c
    <3> QED
      BY <2>1
  <2> QED
    BY <2>2, <1>2
<1> QED
  BY <1>1, <1>2

LEMMA NextSlotIs ==
  ASSUME Ownership
  PROVE  NextSlot = IF bufferId + 1 = Jobs THEN 0 ELSE bufferId + 1
  BY TurnsRound, ConstantsAssumption DEF Ownership, RingTypeOK, Slots, NextSlot

LEMMA RingNumbers ==
  ASSUME Ownership, Ring
  PROVE  /\ Jobs \in Nat \ {0}
         /\ bufferId \in 0..(Jobs - 1)
         /\ submitBlockId \in Nat
         /\ Behind \in Nat /\ Behind = submitBlockId - bufferId
         /\ Ahead \in 0..Jobs /\ Ahead <= Behind
         /\ Behind < Jobs => Ahead = Behind
         /\ Behind >= Jobs => Ahead = Jobs
         /\ Front \in Nat \ {0} /\ Front = submitBlockId - Ahead + 1
         /\ id \in [Slots -> Nat]
<1> USE ConstantsAssumption DEF Ownership, RingTypeOK, TaskTypeOK, Ring, Slots
<1>1. Behind \in Nat /\ Behind <= submitBlockId
  BY DEF Behind
<1>2. Ahead \in 0..Jobs /\ Ahead <= Behind
  BY <1>1 DEF Ahead
<1> QED
  BY <1>1, <1>2 DEF Behind, Ahead, Front

\* No two tasks of the ring have the same number, and none is behind the
\* client.
LEMMA Distinct ==
  ASSUME Ownership, Ring, NEW s \in Slots, NEW t \in Slots,
         Numbered(s), Numbered(t)
  PROVE  /\ id[s] = id[t] => s = t
         /\ id[s] \in Front..submitBlockId
<1>1. s \in 0..(Jobs - 1) /\ t \in 0..(Jobs - 1) /\ id[s] \in Nat /\ id[t] \in Nat
  BY RingNumbers DEF Slots
<1>2. bufferId <= Ahead
  BY DEF Ring
<1> QED
  BY <1>1, <1>2, RingNumbers DEF Numbered

\* The client's own task is the front one.
LEMMA FrontIs ==
  ASSUME Ownership, Ring, Numbered(bufferId)
  PROVE  id[bufferId] = Front /\ Front <= Behind
  BY RingNumbers DEF Numbered

\* In the first round no task has been collected.
LEMMA BootFront ==
  ASSUME Ownership, Ring, mpc = "boot"
  PROVE  Front = 1 /\ Behind = count /\ Ahead = count
  BY ConstantsAssumption
  DEF Ownership, RingTypeOK, ClientTypeOK, BootInOrder, Ring, Behind, Ahead,
      Front, Slots

LEMMA RingBoot ==
  ASSUME Ownership, Ring, Boot
  PROVE  Ring' /\ Front' = 1
<1> USE ConstantsAssumption
    DEF Ownership, RingTypeOK, ClientTypeOK, TaskTypeOK
<1>1. /\ bufferId = 0
      /\ submitBlockId = count
      /\ available = 0
      /\ \A s \in Slots : futures[s] = 1 => s < count /\ id[s] = s + 1
  <2>1. bufferId = 0 /\ submitBlockId = count /\ available = 0
    BY DEF Boot, BootInOrder, Ring
  <2>2. \A s \in Slots : s >= count => futures[s] = 0
    BY DEF Boot, BootInOrder
  <2>4. \A s \in Slots : futures[s] = 1 => s < count /\ Numbered(s)
    BY <2>2 DEF Ring, Slots
  <2>3. Front = 1
    BY BootFront DEF Boot
  <2> QED
    BY <2>1, <2>3, <2>4 DEF Numbered, Slots
<1>2. /\ bufferId' = 0
      /\ available' = 0
      /\ submitBlockId' = count + 1
      /\ mpc' = "boot" => count' = count + 1
      /\ mpc' # "resubmit"
      /\ futures' = [futures EXCEPT ![count] = 1]
      /\ id' = [id EXCEPT ![count] = count + 1]
  BY <1>1 DEF Boot, SubmitBlock, MoreSlots, Return
<1>3. count \in 0..(Jobs - 1)
  BY DEF Slots
<1>4. Behind' = count + 1 /\ Ahead' = count + 1 /\ Front' = 1
  BY <1>2, <1>3 DEF Behind, Ahead, Front
<1>5. \A s \in Slots : futures'[s] = 1 => Numbered(s)'
  <2> SUFFICES ASSUME NEW s \in Slots, futures'[s] = 1
               PROVE  Numbered(s)'
    BY DEF Slots
  <2>1. id'[s] = s + 1 /\ s <= count
    BY <1>1, <1>2, <1>3
  <2> QED
    BY <2>1, <1>2, <1>4, <1>3 DEF Numbered, Slots
<1> QED
  BY <1>2, <1>3, <1>4, <1>5 DEF Ring, Slots

LEMMA RingResubmit ==
  ASSUME Ownership, Ring, Resubmit
  PROVE  Ring' /\ Front' = Front + 1
<1>0. Front \in Int /\ Behind \in Int /\ Ahead \in Int
  BY RingNumbers
<1> USE ConstantsAssumption
    DEF Ownership, RingTypeOK, ClientTypeOK, TaskTypeOK
<1> DEFINE b == bufferId
           n == submitBlockId
<1>1. /\ b \in 0..(Jobs - 1)
      /\ n \in Nat
      /\ b <= n
      /\ Numbered(b)
      /\ available = 0
      /\ mpc = "resubmit"
  BY DEF Resubmit, Ring, CurrentCollected, Slots
<1>2. /\ bufferId' = IF b + 1 = Jobs THEN 0 ELSE b + 1
      /\ available' = 0
      /\ n' = n + 1
      /\ mpc' \notin {"resubmit", "boot"}
      /\ futures' = [futures EXCEPT ![b] = 1]
      /\ id' = [id EXCEPT ![b] = n + 1]
  BY <1>1, NextSlotIs DEF Resubmit, SubmitBlock, Return
<1>3. id[b] = Front /\ Front <= Behind
  BY <1>1, FrontIs
<1>4. \A s \in Slots : futures'[s] = 1 =>
        \/ s = b /\ id'[s] = n + 1
        \/ s # b /\ id'[s] = id[s] /\ Numbered(s)
  BY <1>2 DEF Ring
<1>5. CASE b + 1 = Jobs
  <2>1. Behind >= Jobs /\ Ahead = Jobs /\ Front = n - Jobs + 1
    BY <1>1, <1>3, <1>5 DEF Behind, Ahead, Front
  <2>2. /\ bufferId' = 0
        /\ Behind' = n + 1
        /\ Ahead' = Jobs
        /\ Front' = n - Jobs + 2
    BY <2>1, <1>1, <1>2, <1>5 DEF Behind, Ahead, Front
  <2>3. \A s \in Slots : futures'[s] = 1 => Numbered(s)'
    <3> SUFFICES ASSUME NEW s \in Slots, futures'[s] = 1
                 PROVE  Numbered(s)'
      BY DEF Slots
    <3>1. CASE s = b
      <4>1. id'[s] = n + 1 /\ s \in 0..(Jobs - 1)
        BY <3>1, <1>2, <1>1 DEF Slots
      <4>2. ~(s < bufferId')
        BY <4>1, <2>2
      <4>3. id'[s] = Front' + s - bufferId' /\ id'[s] <= Behind'
        BY <4>1, <3>1, <1>5, <2>2, <1>1
      <4> QED
        BY <4>2, <4>3 DEF Numbered
    <3>2. CASE s # b
      <4>1. s < b
        BY <3>2, <1>5, <1>1 DEF Slots
      <4>2. id[s] = Behind + s + 1 /\ id'[s] = id[s]
        BY <3>2, <4>1, <1>4 DEF Numbered
      <4> QED
        BY <4>1, <4>2, <1>5, <2>2, <1>1 DEF Numbered, Slots, Behind
    <3> QED
      BY <3>1, <3>2
  <2> QED
    BY <2>1, <2>2, <2>3, <1>2, <1>1 DEF Ring
<1>6. CASE b + 1 # Jobs
  <2>1. /\ bufferId' = b + 1
        /\ Behind' = Behind
        /\ Ahead' = Ahead
        /\ Front' = Front + 1
    BY <1>1, <1>2, <1>6 DEF Behind, Ahead, Front
  <2>2. \A s \in Slots : futures'[s] = 1 => Numbered(s)'
    <3> SUFFICES ASSUME NEW s \in Slots, futures'[s] = 1
                 PROVE  Numbered(s)'
      BY DEF Slots
    <3>1. CASE s = b
      <4>1. id'[s] = n + 1 /\ s < bufferId'
        BY <3>1, <1>2, <1>1, <2>1 DEF Slots
      <4>2. id'[s] = Behind' + s + 1
        BY <4>1, <3>1, <2>1, <1>1 DEF Behind
      <4> QED
        BY <4>1, <4>2 DEF Numbered
    <3>2. CASE s # b
      <4>1. id'[s] = id[s] /\ Numbered(s)
        BY <3>2, <1>4
      <4> QED
        <5>1. s \in Int /\ Front \in Int /\ Behind \in Int
          BY <1>0 DEF Slots
        <5> QED
          BY <5>1, <4>1, <3>2, <2>1, <1>1 DEF Numbered
    <3> QED
      BY <3>1, <3>2
  <2>3. b + 1 <= Ahead
    BY <1>0, <1>1, <1>3 DEF Behind, Front
  <2> QED
    BY <2>1, <2>2, <2>3, <1>2, <1>1 DEF Ring
<1> QED
  BY <1>5, <1>6

LEMMA RingClient ==
  ASSUME Ownership, Ring, ClientCall \/ ClientStep
  PROVE  Ring'
<1> USE ConstantsAssumption DEF Ring, Numbered, Behind, Ahead, Front,
    Ownership, RingTypeOK, TaskTypeOK, CallMatchesPlace
<1>1. CASE ReadHeader
  BY <1>1 DEF ReadHeader, Wanted, slotVars, FreshRing, Slots
<1>2. CASE ReadHeaderFails
  BY <1>2 DEF ReadHeaderFails, Wanted, Throw, slotVars
<1>3. CASE Boot
  BY <1>3, RingBoot
<1>4. CASE BootFails
  BY <1>4 DEF BootFails, SubmitFails, Throw, slotVars
<1>5. CASE GetOnClosed
  BY <1>5 DEF GetOnClosed, NeedsBlock, Wanted, Throw, slotVars
<1>6. CASE NoFuture
  BY <1>6 DEF NoFuture, MayCollect, NeedsBlock, Wanted, Return, slotVars
<1>7. CASE CollectBlock
  BY <1>7 DEF CollectBlock, Collects, MayCollect, NeedsBlock, Wanted, Length
<1>8. CASE CollectEnd
  BY <1>8 DEF CollectEnd, Collects, MayCollect, NeedsBlock, Wanted, Return
<1>9. CASE CollectError
  BY <1>9 DEF CollectError, Collects, MayCollect, NeedsBlock, Wanted, Throw
<1>10. CASE CollectSkipped
  BY <1>10 DEF CollectSkipped, Collects, MayCollect, NeedsBlock, Wanted
<1>11. CASE Copy
  BY <1>11 DEF Copy, slotVars, ClientTypeOK, CurrentCollected
<1>12. CASE ReadReturns
  BY <1>12 DEF ReadReturns, Return, slotVars
<1>13. CASE PeekByte
  BY <1>13 DEF PeekByte, HasByte, Return, slotVars
<1>14. CASE GetByte
  BY <1>14 DEF GetByte, HasByte, Return, slotVars
<1>15. CASE Resubmit
  BY <1>15, RingResubmit
<1>16. CASE ResubmitSkipped
  BY <1>16 DEF ResubmitSkipped, SubmitBlock, NextSlot
<1>17. CASE ResubmitFails
  BY <1>17 DEF ResubmitFails, SubmitFails, Throw, slotVars
<1>18. CASE CloseNotifies
  BY <1>18 DEF CloseNotifies, Woken
<1>19. CASE Drain
  BY <1>19 DEF Drain, Drained, MoreSlots, ClientTypeOK
<1>20. CASE Release
  BY <1>20 DEF Release, Return
<1>21. CASE Reset
  BY <1>21 DEF Reset, ResetRing, Return, DrainInOrder, Slots
<1>22. CASE ResetFails
  BY <1>22 DEF ResetFails, ResetRing, Return, DrainInOrder, Slots
<1>23. ASSUME NEW n \in ReadSizes, CallRead(n)
      PROVE  Ring'
  BY <1>23 DEF CallRead, slotVars
<1>24. ASSUME NEW f \in {"get", "peek"}, CallGet(f)
      PROVE  Ring'
  BY <1>24 DEF CallGet, slotVars
<1>25. ASSUME NEW b \in 1..(NbBlocks + 1), CallSeek(b)
      PROVE  Ring'
  BY <1>25 DEF CallSeek, slotVars
<1>26. ASSUME NEW f \in {"close", "destroy"}, CallClose(f)
      PROVE  Ring'
  BY <1>26 DEF CallClose, slotVars
<1> QED
  BY <1>1, <1>2, <1>3, <1>4, <1>5, <1>6, <1>7, <1>8, <1>9, <1>10, <1>11,
     <1>12, <1>13, <1>14, <1>15, <1>16, <1>17, <1>18, <1>19, <1>20, <1>21,
     <1>22, <1>23, <1>24, <1>25, <1>26
  DEF ClientStep, ClientCall

LEMMA RingNext ==
  ASSUME Ownership, Ring, [Next]_vars
  PROVE  Ring'
<1>1. CASE ClientCall \/ ClientStep
  BY <1>1, RingClient
<1>2. ASSUME NEW k \in Slots, TaskStep(k) PROVE Ring'
  BY <1>2, TaskFrame
  DEF Ownership, Ring, Numbered, Behind, Ahead, Front, clientVars, Slots
<1>3. CASE UNCHANGED vars
  BY <1>3
  DEF Ring, Numbered, Behind, Ahead, Front, vars, clientVars, slotVars, Slots
<1> QED
  BY <1>1, <1>2, <1>3 DEF Next, Terminated

-----------------------------------------------------------------------------
(* What a task's place says about its result.                              *)

Before(s) == pc[s] \in {"queued", "wait", "asleep", "recheck"}

TaskResults ==
  \A s \in Slots :
    /\ Before(s) \/ pc[s] = "size" => got[s] = 0
    /\ pc[s] \in {"cancel", "cnotify"} =>
         result[s] = "error" \/ (result[s] = "end" /\ got[s] = 0)
    /\ pc[s] = "over" => result[s] # "none"
    /\ result[s] = "error" => pc[s] \in {"cancel", "cnotify", "over"}

\* The task has ended in failure, at the end marker or in vain, or is about to.
Failed(s) ==
  \/ pc[s] \in {"cancel", "cnotify"}
  \/ pc[s] = "over" /\ result[s] \in {"error", "canceled"}
  \/ pc[s] = "over" /\ result[s] = "end" /\ got[s] = 0

LEMMA ResultsTask ==
  ASSUME Ownership, TaskResults, NEW k \in Slots, TaskStep(k)
  PROVE  TaskResults'
<1> SUFFICES ASSUME NEW s \in Slots
             PROVE  /\ Before(s)' \/ pc'[s] = "size" => got'[s] = 0
                    /\ pc'[s] \in {"cancel", "cnotify"} =>
                         \/ result'[s] = "error"
                         \/ result'[s] = "end" /\ got'[s] = 0
                    /\ pc'[s] = "over" => result'[s] # "none"
                    /\ result'[s] = "error" =>
                         pc'[s] \in {"cancel", "cnotify", "over"}
  BY DEF TaskResults, Slots
<1> USE DEF Ownership, TaskTypeOK, RingTypeOK, TaskResults, Before
<1>1. CASE Start(k)
  BY <1>1 DEF Start, Goto, OnlyPc, clientVars
<1>2. CASE CheckTurn(k)
  BY <1>2 DEF CheckTurn, Goto, OnlyPc, clientVars
<1>3. CASE RecheckCanceled(k)
  BY <1>3 DEF RecheckCanceled, ReturnsFrom, Goto, clientVars
<1>4. CASE Recheck(k)
  BY <1>4 DEF Recheck, Goto, OnlyPc, clientVars
<1>5. CASE ReadSize(k)
  BY <1>5 DEF ReadSize, Goto, clientVars
<1>6. CASE ReadEnd(k)
  BY <1>6 DEF ReadEnd, CancelsWith, Goto, clientVars
<1>7. CASE ReadFails(k)
  BY <1>7 DEF ReadFails, CancelsWith, Goto, clientVars
<1>8. CASE ReadAstray(k)
  BY <1>8 DEF ReadAstray, CancelsWith, Goto, clientVars
<1>9. CASE ReadData(k)
  BY <1>9 DEF ReadData, Goto, clientVars
<1>10. CASE Publish(k)
  BY <1>10 DEF Publish, Goto, clientVars
<1>11. CASE Cancel(k)
  BY <1>11 DEF Cancel, Goto, clientVars
<1>12. CASE Notify(k)
  BY <1>12 DEF Notify, Woken, clientVars, AfterNotify, ResultAtNotify
<1>13. CASE Decode(k)
  BY <1>13 DEF Decode, ReturnsFrom, Goto, clientVars
<1>14. CASE DecodeFails(k)
  BY <1>14 DEF DecodeFails, CancelsWith, Goto, clientVars
<1>15. CASE SpuriousWake(k)
  BY <1>15 DEF SpuriousWake, Goto, OnlyPc, clientVars
<1> QED
  BY <1>1, <1>2, <1>3, <1>4, <1>5, <1>6, <1>7, <1>8, <1>9, <1>10, <1>11,
     <1>12, <1>13, <1>14, <1>15
  DEF TaskStep, TaskRuns

LEMMA ResultsClient ==
  ASSUME Ownership, TaskResults, ClientCall \/ ClientStep
  PROVE  TaskResults'
<1> USE DEF Ownership, TaskTypeOK, RingTypeOK, ClientTypeOK, TaskResults, Before
<1>1. CASE ReadHeader
  BY <1>1 DEF ReadHeader, Wanted, slotVars
<1>2. CASE ReadHeaderFails
  BY <1>2 DEF ReadHeaderFails, Wanted, Throw, slotVars
<1>3. CASE Boot
  BY <1>3 DEF Boot, SubmitBlock, MoreSlots, Return
<1>4. CASE BootFails
  BY <1>4 DEF BootFails, SubmitFails, Throw, slotVars
<1>5. CASE GetOnClosed
  BY <1>5 DEF GetOnClosed, NeedsBlock, Wanted, Throw, slotVars
<1>6. CASE NoFuture
  BY <1>6 DEF NoFuture, MayCollect, NeedsBlock, Wanted, Return, slotVars
<1>7. CASE CollectBlock
  BY <1>7 DEF CollectBlock, Collects, MayCollect, NeedsBlock, Wanted
<1>8. CASE CollectEnd
  BY <1>8 DEF CollectEnd, Collects, MayCollect, NeedsBlock, Wanted, Return
<1>9. CASE CollectError
  BY <1>9 DEF CollectError, Collects, MayCollect, NeedsBlock, Wanted, Throw
<1>10. CASE CollectSkipped
  BY <1>10 DEF CollectSkipped, Collects, MayCollect, NeedsBlock, Wanted
<1>11. CASE Copy
  BY <1>11 DEF Copy, slotVars
<1>12. CASE ReadReturns
  BY <1>12 DEF ReadReturns, Return, slotVars
<1>13. CASE PeekByte
  BY <1>13 DEF PeekByte, HasByte, Return, slotVars
<1>14. CASE GetByte
  BY <1>14 DEF GetByte, HasByte, Return, slotVars
<1>15. CASE Resubmit
  BY <1>15 DEF Resubmit, SubmitBlock, NextSlot, Return
<1>16. CASE ResubmitSkipped
  BY <1>16 DEF ResubmitSkipped, SubmitBlock, NextSlot
<1>17. CASE ResubmitFails
  BY <1>17 DEF ResubmitFails, SubmitFails, Throw, slotVars
<1>18. CASE CloseNotifies
  BY <1>18 DEF CloseNotifies, Woken
<1>19. CASE Drain
  BY <1>19 DEF Drain, Drained, MoreSlots
<1>20. CASE Release
  BY <1>20 DEF Release, Return
<1>21. CASE Reset
  BY <1>21 DEF Reset, ResetRing, Return
<1>22. CASE ResetFails
  BY <1>22 DEF ResetFails, ResetRing, Return
<1>23. ASSUME NEW n \in ReadSizes, CallRead(n)
      PROVE  TaskResults'
  BY <1>23 DEF CallRead, slotVars
<1>24. ASSUME NEW f \in {"get", "peek"}, CallGet(f)
      PROVE  TaskResults'
  BY <1>24 DEF CallGet, slotVars
<1>25. ASSUME NEW b \in 1..(NbBlocks + 1), CallSeek(b)
      PROVE  TaskResults'
  BY <1>25 DEF CallSeek, slotVars
<1>26. ASSUME NEW f \in {"close", "destroy"}, CallClose(f)
      PROVE  TaskResults'
  BY <1>26 DEF CallClose, slotVars
<1> QED
  BY <1>1, <1>2, <1>3, <1>4, <1>5, <1>6, <1>7, <1>8, <1>9, <1>10, <1>11,
     <1>12, <1>13, <1>14, <1>15, <1>16, <1>17, <1>18, <1>19, <1>20, <1>21,
     <1>22, <1>23, <1>24, <1>25, <1>26
  DEF ClientStep, ClientCall

LEMMA ResultsNext ==
  ASSUME Ownership, TaskResults, [Next]_vars
  PROVE  TaskResults'
<1>1. CASE UNCHANGED vars
  BY <1>1 DEF TaskResults, Before, vars, slotVars
<1> QED
  BY <1>1, ResultsTask, ResultsClient DEF Next, Terminated

-----------------------------------------------------------------------------
(* A stream from which nothing has been read, and one that is closed.      *)

Untouched ==
  initialized = 0 =>
    /\ delivered = <<>>
    /\ Headless => cursor = At(base, "size")
    /\ ~Headless /\ cursor = At(0, "header") => base = 1
    /\ ~Headless /\ "seek" \notin Calls => cursor = At(0, "header")
    /\ closed = 0 => "eof" \notin iostate
    /\ closed = 0 /\ call # "seek" => blockId = 0
    /\ closed = 1 => blockId = CANCEL

LEMMA UntouchedClient ==
  ASSUME Ownership, Untouched, ClientCall \/ ClientStep
  PROVE  Untouched'
<1> USE DEF Ownership, ClientTypeOK, CallMatchesPlace, FreshRing, Untouched
<1>1. CASE ReadHeader
  BY <1>1 DEF ReadHeader, Wanted, slotVars
<1>2. CASE ReadHeaderFails
  BY <1>2 DEF ReadHeaderFails, Wanted, Throw, slotVars
<1>3. CASE Boot
  BY <1>3 DEF Boot, SubmitBlock, MoreSlots, Return
<1>4. CASE BootFails
  BY <1>4 DEF BootFails, SubmitFails, Throw, slotVars
<1>5. CASE GetOnClosed
  BY <1>5 DEF GetOnClosed, NeedsBlock, Wanted, Throw, slotVars
<1>6. CASE NoFuture
  BY <1>6 DEF NoFuture, MayCollect, NeedsBlock, Wanted, Return, slotVars
<1>7. CASE CollectBlock
  BY <1>7 DEF CollectBlock, Collects, MayCollect, NeedsBlock, Wanted
<1>8. CASE CollectEnd
  BY <1>8 DEF CollectEnd, Collects, MayCollect, NeedsBlock, Wanted, Return
<1>9. CASE CollectError
  BY <1>9 DEF CollectError, Collects, MayCollect, NeedsBlock, Wanted, Throw
<1>10. CASE CollectSkipped
  BY <1>10 DEF CollectSkipped, Collects, MayCollect, NeedsBlock, Wanted
<1>11. CASE Copy
  BY <1>11 DEF Copy, slotVars, RingTypeOK
<1>12. CASE ReadReturns
  BY <1>12 DEF ReadReturns, Return, slotVars
<1>13. CASE PeekByte
  BY <1>13 DEF PeekByte, HasByte, Return, slotVars
<1>14. CASE GetByte
  BY <1>14 DEF GetByte, HasByte, Return, slotVars, RingTypeOK
<1>15. CASE Resubmit
  BY <1>15 DEF Resubmit, SubmitBlock, NextSlot, Return
<1>16. CASE ResubmitSkipped
  BY <1>16 DEF ResubmitSkipped, SubmitBlock, NextSlot
<1>17. CASE ResubmitFails
  BY <1>17 DEF ResubmitFails, SubmitFails, Throw, slotVars
<1>18. CASE CloseNotifies
  BY <1>18 DEF CloseNotifies, Woken
<1>19. CASE Drain
  BY <1>19 DEF Drain, Drained, MoreSlots
<1>20. CASE Release
  BY <1>20 DEF Release, Return
<1>21. CASE Reset
  BY <1>21 DEF Reset, ResetRing, Return, At
<1>22. CASE ResetFails
  BY <1>22 DEF ResetFails, ResetRing, Return
<1>23. ASSUME NEW n \in ReadSizes, CallRead(n)
      PROVE  Untouched'
  BY <1>23 DEF CallRead, slotVars
<1>24. ASSUME NEW f \in {"get", "peek"}, CallGet(f)
      PROVE  Untouched'
  BY <1>24 DEF CallGet, slotVars
<1>25. ASSUME NEW b \in 1..(NbBlocks + 1), CallSeek(b)
      PROVE  Untouched'
  BY <1>25 DEF CallSeek, slotVars
<1>26. ASSUME NEW f \in {"close", "destroy"}, CallClose(f)
      PROVE  Untouched'
  BY <1>26 DEF CallClose, slotVars
<1> QED
  BY <1>1, <1>2, <1>3, <1>4, <1>5, <1>6, <1>7, <1>8, <1>9, <1>10, <1>11,
     <1>12, <1>13, <1>14, <1>15, <1>16, <1>17, <1>18, <1>19, <1>20, <1>21,
     <1>22, <1>23, <1>24, <1>25, <1>26
  DEF ClientStep, ClientCall

LEMMA UntouchedNext ==
  ASSUME Ownership, Untouched, [Next]_vars
  PROVE  Untouched'
<1>1. CASE UNCHANGED vars
  BY <1>1 DEF Untouched, vars, clientVars
<1>2. ASSUME NEW k \in Slots, TaskStep(k) PROVE Untouched'
  <2>1. initialized' = initialized /\ Live(k)
    BY <1>2, TaskFrame DEF Ownership, clientVars
  <2>2. initialized # 0
    BY <2>1 DEF Ownership, FreshRing, LiveHasFuture
  <2> QED
    BY <2>1, <2>2 DEF Untouched
<1> QED
  BY <1>1, <1>2, UntouchedClient DEF Next, Terminated

\* After close() nothing is in a buffer, and tasks launched by a first read()
\* give up.
AfterClose ==
  closed = 1 /\ mpc \notin {"cnotify", "drain", "release"} =>
    /\ available = 0
    /\ mpc # "resubmit"
    /\ \/ blockId = CANCEL
       \/ initialized = 1 /\ mpc # "boot" /\ \A s \in Slots : futures[s] = 0
    /\ \A s \in Slots : futures[s] = 1 =>
         Before(s) \/ (pc[s] = "over" /\ result[s] = "canceled")

LEMMA AfterCloseClient ==
  ASSUME Ownership, Untouched, AfterClose, ClientCall \/ ClientStep
  PROVE  AfterClose'
<1> USE DEF Ownership, RingTypeOK, TaskTypeOK, ClientTypeOK,
    CallMatchesPlace, AfterClose, Before
<1>1. CASE ReadHeader
  BY <1>1 DEF ReadHeader, Wanted, slotVars, Untouched
<1>2. CASE ReadHeaderFails
  BY <1>2 DEF ReadHeaderFails, Wanted, Throw, slotVars
<1>3. CASE Boot
  BY <1>3 DEF Boot, SubmitBlock, MoreSlots, Return
<1>4. CASE BootFails
  BY <1>4 DEF BootFails, SubmitFails, Throw, slotVars
<1>5. CASE GetOnClosed
  BY <1>5 DEF GetOnClosed, NeedsBlock, Wanted, Throw, slotVars
<1>6. CASE NoFuture
  BY <1>6 DEF NoFuture, MayCollect, NeedsBlock, Wanted, Return, slotVars
<1>7. CASE CollectBlock
  BY <1>7 DEF CollectBlock, Collects, MayCollect, NeedsBlock, Wanted, Length
<1>8. CASE CollectEnd
  BY <1>8 DEF CollectEnd, Collects, MayCollect, NeedsBlock, Wanted, Return
<1>9. CASE CollectError
  BY <1>9 DEF CollectError, Collects, MayCollect, NeedsBlock, Wanted, Throw
<1>10. CASE CollectSkipped
  BY <1>10 DEF CollectSkipped, Collects, MayCollect, NeedsBlock, Wanted
<1>11. CASE Copy
  BY <1>11 DEF Copy, slotVars
<1>12. CASE ReadReturns
  BY <1>12 DEF ReadReturns, Return, slotVars
<1>13. CASE PeekByte
  BY <1>13 DEF PeekByte, HasByte, Return, slotVars
<1>14. CASE GetByte
  BY <1>14 DEF GetByte, HasByte, Return, slotVars
<1>15. CASE Resubmit
  BY <1>15 DEF Resubmit, SubmitBlock, NextSlot, Return
<1>16. CASE ResubmitSkipped
  BY <1>16 DEF ResubmitSkipped, SubmitBlock, NextSlot
<1>17. CASE ResubmitFails
  BY <1>17 DEF ResubmitFails, SubmitFails, Throw, slotVars
<1>18. CASE CloseNotifies
  BY <1>18 DEF CloseNotifies, Woken
<1>19. CASE Drain
  BY <1>19 DEF Drain, Drained, MoreSlots
<1>20. CASE Release
  BY <1>20 DEF Release, Return, DrainInOrder, Untouched
<1>21. CASE Reset
  BY <1>21 DEF Reset, ResetRing, Return
<1>22. CASE ResetFails
  BY <1>22 DEF ResetFails, ResetRing, Return
<1>23. ASSUME NEW n \in ReadSizes, CallRead(n)
      PROVE  AfterClose'
  BY <1>23 DEF CallRead, slotVars
<1>24. ASSUME NEW f \in {"get", "peek"}, CallGet(f)
      PROVE  AfterClose'
  BY <1>24 DEF CallGet, slotVars
<1>25. ASSUME NEW b \in 1..(NbBlocks + 1), CallSeek(b)
      PROVE  AfterClose'
  BY <1>25 DEF CallSeek, slotVars
<1>26. ASSUME NEW f \in {"close", "destroy"}, CallClose(f)
      PROVE  AfterClose'
  BY <1>26 DEF CallClose, slotVars
<1> QED
  BY <1>1, <1>2, <1>3, <1>4, <1>5, <1>6, <1>7, <1>8, <1>9, <1>10, <1>11,
     <1>12, <1>13, <1>14, <1>15, <1>16, <1>17, <1>18, <1>19, <1>20, <1>21,
     <1>22, <1>23, <1>24, <1>25, <1>26
  DEF ClientStep, ClientCall

LEMMA AfterCloseTask ==
  ASSUME Ownership, AfterClose, NEW k \in Slots, TaskStep(k)
  PROVE  AfterClose'
<1> SUFFICES ASSUME closed = 1, mpc \notin {"cnotify", "drain", "release"}
             PROVE  AfterClose'
  BY TaskFrame DEF Ownership, AfterClose, clientVars
<1>1. futures[k] = 1
  BY TaskFrame DEF Ownership, RingTypeOK, LiveHasFuture
<1>2. Before(k) /\ blockId = CANCEL
  BY <1>1, TaskFrame DEF Ownership, AfterClose, Live
<1>3. /\ blockId' = CANCEL
      /\ Before(k)' \/ (pc'[k] = "over" /\ result'[k] = "canceled")
  <2> USE <1>2 DEF Ownership, TaskTypeOK, RingTypeOK, Before
  <2>1. CASE Start(k)
    BY <2>1 DEF Start, Goto, OnlyPc, clientVars
  <2>2. CASE CheckTurn(k)
    BY <2>2 DEF CheckTurn, Goto, OnlyPc, clientVars
  <2>3. CASE RecheckCanceled(k)
    BY <2>3 DEF RecheckCanceled, ReturnsFrom, Goto, clientVars, Canceled
  <2>4. CASE Recheck(k)
    BY <2>4 DEF Recheck, Goto, OnlyPc, clientVars, Canceled
  <2>5. CASE ReadSize(k)
    BY <2>5 DEF ReadSize, Goto, clientVars
  <2>6. CASE ReadEnd(k)
    BY <2>6 DEF ReadEnd, CancelsWith, Goto, clientVars
  <2>7. CASE ReadFails(k)
    BY <2>7 DEF ReadFails, CancelsWith, Goto, clientVars
  <2>8. CASE ReadAstray(k)
    BY <2>8 DEF ReadAstray, CancelsWith, Goto, clientVars
  <2>9. CASE ReadData(k)
    BY <2>9 DEF ReadData, Goto, clientVars
  <2>10. CASE Publish(k)
    BY <2>10 DEF Publish, Goto, clientVars
  <2>11. CASE Cancel(k)
    BY <2>11 DEF Cancel, Goto, clientVars
  <2>12. CASE Notify(k)
    BY <2>12 DEF Notify, Woken, clientVars
  <2>13. CASE Decode(k)
    BY <2>13 DEF Decode, ReturnsFrom, Goto, clientVars
  <2>14. CASE DecodeFails(k)
    BY <2>14 DEF DecodeFails, CancelsWith, Goto, clientVars
  <2>15. CASE SpuriousWake(k)
    BY <2>15 DEF SpuriousWake, Goto, OnlyPc, clientVars
  <2> QED
    BY <2>1, <2>2, <2>3, <2>4, <2>5, <2>6, <2>7, <2>8, <2>9, <2>10, <2>11,
       <2>12, <2>13, <2>14, <2>15
    DEF TaskStep, TaskRuns
<1> QED
  BY <1>3, TaskFrame
  DEF Ownership, AfterClose, Before, clientVars, Slots

LEMMA AfterCloseNext ==
  ASSUME Ownership, Untouched, AfterClose, [Next]_vars
  PROVE  AfterClose'
<1>1. CASE UNCHANGED vars
  BY <1>1 DEF AfterClose, Before, vars, clientVars, slotVars
<1> QED
  BY <1>1, AfterCloseTask, AfterCloseClient DEF Next, Terminated

-----------------------------------------------------------------------------
(* The turns of the tasks at the shared bitstream.                         *)

\* The task has read its own block and passed the turn on.
Published(s) ==
  /\ got[s] = base + id[s] - 1
  /\ \/ pc[s] = "notify"
     \/ pc[s] = "decode" /\ id[s] \in From..(To - 1)
     \/ /\ pc[s] = "over"
        /\ \/ /\ result[s] = "decoded"
              /\ id[s] \in From..(To - 1)
              /\ array[s] = got[s]
           \/ result[s] = "skipped" /\ id[s] < From
           \/ result[s] = "end" /\ id[s] >= From /\ id[s] >= To

\* The data part of the task's block is still to be read; a task that is
\* alone leaves it for Decode, or for nobody when the block is not wanted.
Holding(s) ==
  \/ pc[s] = "data"
  \/ /\ ~OwnStream
     /\ id[s] >= From
     /\ \/ pc[s] \in {"publish", "notify", "decode"}
        \/ pc[s] = "over" /\ result[s] = "end"

AtTurn == {"recheck", "size", "data", "publish", "cancel"}

InTurn(s) ==
  IF id[s] <= blockId
    THEN Published(s)
    ELSE /\ pc[s] \in {"queued", "wait", "asleep"} \cup AtTurn
         /\ pc[s] \in AtTurn => id[s] = blockId + 1
         /\ pc[s] \in {"data", "publish"} => got[s] = base + id[s] - 1
         /\ pc[s] = "data" => ReadsDataInTurn(s)

\* Where the cursor is while a task is between the parts of its block.
CursorAt(s) ==
  /\ Holding(s) => cursor = At(got[s], "data")
  /\ pc[s] = "publish" /\ ~Holding(s) => cursor = At(got[s] + 1, "size")

\* Nobody is.
BetweenBlocks ==
  \A s \in Slots :
    futures[s] = 1 => ~Holding(s) /\ pc[s] \notin {"publish", "cancel"}

TurnOrder ==
  /\ blockId \in 0..submitBlockId
  /\ base + blockId - 1 <= NbBlocks
  /\ \A s \in Slots : futures[s] = 1 => InTurn(s) /\ CursorAt(s)
  /\ BetweenBlocks => cursor = At(base + blockId, "size")

LEMMA TaskHasFuture ==
  ASSUME Ownership, NEW k \in Slots, TaskStep(k)
  PROVE  futures[k] = 1 /\ Live(k)
  BY TaskFrame DEF Ownership, RingTypeOK, LiveHasFuture

\* There is one task at a time whose turn it is.
LEMMA OneAtTurn ==
  ASSUME Ownership, Ring, TurnOrder, NEW s \in Slots, NEW t \in Slots,
         futures[s] = 1, futures[t] = 1, pc[s] \in AtTurn, pc[t] \in AtTurn
  PROVE  s = t /\ id[s] = blockId + 1
<1>1. id[s] > blockId /\ id[t] > blockId
  BY ConstantsAssumption
  DEF TurnOrder, InTurn, Published, AtTurn, Ownership, TaskTypeOK
<1>2. id[s] = blockId + 1 /\ id[t] = blockId + 1
  BY <1>1, ConstantsAssumption DEF TurnOrder, InTurn, Ownership, TaskTypeOK
<1>3. Numbered(s) /\ Numbered(t)
  BY DEF Ring
<1> QED
  BY <1>2, <1>3, Distinct

LEMMA AloneIsOnly ==
  ASSUME ~OwnStream
  PROVE  Jobs = 1 /\ Slots = {0}
<1>1. Jobs = 1
  BY ConstantsAssumption DEF OwnStream
<1> QED
  BY <1>1 DEF Slots

\* While a task has the turn no other is in the middle of a block.
LEMMA OthersBetween ==
  ASSUME Ownership, Ring, TurnOrder, NEW k \in Slots, futures[k] = 1,
         pc[k] \in AtTurn, NEW t \in Slots, futures[t] = 1, t # k
  PROVE  ~Holding(t) /\ pc[t] \notin {"publish", "cancel"}
<1>1. OwnStream
  BY AloneIsOnly
<1>2. pc[t] \notin AtTurn
  BY OneAtTurn
<1> QED
  BY <1>1, <1>2 DEF Holding, AtTurn

LEMMA CursorAtSize ==
  ASSUME Ownership, Ring, TurnOrder, NEW k \in Slots, futures[k] = 1,
         pc[k] \in {"recheck", "size"}
  PROVE  cursor = At(base + blockId, "size")
<1>1. pc[k] \in AtTurn
  BY DEF AtTurn
<1>2. ~Holding(k) /\ pc[k] \notin {"publish", "cancel"}
  BY DEF Holding
<1>3. BetweenBlocks
  BY <1>1, <1>2, OthersBetween DEF BetweenBlocks
<1> QED
  BY <1>3 DEF TurnOrder

\* What a step of another task leaves alone.
LEMMA OtherTask ==
  ASSUME Ownership, NEW k \in Slots, TaskStep(k), NEW t \in Slots, t # k
  PROVE  /\ Published(t) => Published(t)'
         /\ Holding(t)' <=> Holding(t)
         /\ got'[t] = got[t]
         /\ \A p \in {"publish", "cancel", "cnotify", "over"} \cup AtTurn :
              pc'[t] = p <=> pc[t] = p
         /\ blockId' = blockId /\ InTurn(t) => InTurn(t)'
<1>1. /\ \/ pc'[t] = pc[t]
         \/ pc[t] = "asleep" /\ pc'[t] = "wait"
      /\ got'[t] = got[t]
      /\ result'[t] = result[t]
      /\ array'[t] = array[t]
      /\ id'[t] = id[t]
      /\ base' = base
  BY TaskFrame DEF Ownership, clientVars
<1>2. Published(t) => Published(t)'
  BY <1>1 DEF Published
<1>3. Holding(t)' <=> Holding(t)
  BY <1>1 DEF Holding, OwnStream
<1>4. \A p \in {"publish", "cancel", "cnotify", "over"} \cup AtTurn :
        pc'[t] = p <=> pc[t] = p
  BY <1>1 DEF AtTurn
<1>5. blockId' = blockId /\ InTurn(t) => InTurn(t)'
  BY <1>1, <1>2 DEF InTurn, AtTurn, ReadsDataInTurn, OwnStream
<1> QED
  BY <1>1, <1>2, <1>3, <1>4, <1>5

\* A step that leaves turn and cursor alone.
LEMMA TurnQuiet ==
  ASSUME Ownership, TurnOrder, NEW k \in Slots, TaskStep(k),
         blockId' = blockId, cursor' = cursor, InTurn(k)',
         got'[k] = got[k],
         Holding(k)' <=> Holding(k),
         pc'[k] = "publish" <=> pc[k] = "publish",
         pc'[k] = "cancel" <=> pc[k] = "cancel"
  PROVE  TurnOrder'
<1>1. base' = base /\ submitBlockId' = submitBlockId /\ futures' = futures
  BY TaskFrame DEF Ownership, clientVars
<1>2. futures[k] = 1
  BY TaskHasFuture
<1>3. \A s \in Slots : /\ got'[s] = got[s]
                       /\ Holding(s)' <=> Holding(s)
                       /\ pc'[s] = "publish" <=> pc[s] = "publish"
                       /\ pc'[s] = "cancel" <=> pc[s] = "cancel"
  BY OtherTask
<1>4. \A s \in Slots : futures[s] = 1 => InTurn(s)'
  BY OtherTask DEF TurnOrder
<1>5. \A s \in Slots : futures[s] = 1 => CursorAt(s)'
  BY <1>3 DEF TurnOrder, CursorAt
<1>6. BetweenBlocks' <=> BetweenBlocks
  BY <1>1, <1>3 DEF BetweenBlocks, Slots
<1> QED
  BY <1>1, <1>4, <1>5, <1>6 DEF TurnOrder, Slots

\* A step of the task that has the turn, which keeps it.
LEMMA TurnKept ==
  ASSUME Ownership, Ring, TurnOrder, NEW k \in Slots, TaskStep(k),
         blockId' = blockId, pc[k] \in AtTurn, InTurn(k)', CursorAt(k)',
         Holding(k)' \/ pc'[k] \in {"publish", "cancel"}
  PROVE  TurnOrder'
<1>1. base' = base /\ submitBlockId' = submitBlockId /\ futures' = futures
  BY TaskFrame DEF Ownership, clientVars
<1>2. futures[k] = 1
  BY TaskHasFuture
<1>3. \A s \in Slots : futures[s] = 1 /\ s # k =>
        ~Holding(s)' /\ pc'[s] \notin {"publish", "cancel"}
  BY <1>2, OthersBetween, OtherTask
<1>4. \A s \in Slots : futures[s] = 1 => InTurn(s)'
  BY OtherTask DEF TurnOrder
<1>5. \A s \in Slots : futures[s] = 1 => CursorAt(s)'
  <2> SUFFICES ASSUME NEW s \in Slots, futures[s] = 1, s # k PROVE CursorAt(s)'
    OBVIOUS
  <2>1. ~Holding(s)' /\ pc'[s] # "publish"
    BY <1>3
  <2> QED
    BY <2>1 DEF CursorAt
<1>6. ~BetweenBlocks'
  BY <1>1, <1>2 DEF BetweenBlocks
<1> QED
  BY <1>1, <1>4, <1>5, <1>6 DEF TurnOrder, Slots

LEMMA TurnPublish ==
  ASSUME Ownership, Ring, TurnOrder, NEW k \in Slots, Publish(k)
  PROVE  TurnOrder'
<1>0. TaskStep(k)
  BY DEF TaskStep, TaskRuns
<1>1. /\ base' = base /\ submitBlockId' = submitBlockId /\ futures' = futures
      /\ id' = id
      /\ futures[k] = 1
  BY <1>0, TaskFrame, TaskHasFuture DEF Ownership, clientVars
<1>2. pc[k] = "publish" /\ pc[k] \in AtTurn
  BY DEF Publish, AtTurn
<1>3. id[k] = blockId + 1 /\ got[k] = base + id[k] - 1
  <2>1. id[k] = blockId + 1
    BY <1>1, <1>2, OneAtTurn
  <2>2. InTurn(k) /\ ~(id[k] <= blockId)
    BY <1>1, <2>1 DEF TurnOrder, Ownership, TaskTypeOK
  <2> QED
    BY <2>1, <2>2, <1>2 DEF InTurn
<1>4. /\ blockId' = id[k]
      /\ pc' = [pc EXCEPT ![k] = "notify"]
      /\ UNCHANGED <<got, result, array, cursor>>
  BY DEF Publish, Goto
<1>5. Published(k)'
  BY <1>1, <1>3, <1>4 DEF Published, Ownership, TaskTypeOK
<1>6. \A s \in Slots : futures[s] = 1 => InTurn(s)'
  <2> SUFFICES ASSUME NEW s \in Slots, futures[s] = 1 PROVE InTurn(s)'
    OBVIOUS
  <2>1. CASE s = k
    BY <2>1, <1>1, <1>4, <1>5 DEF InTurn, Ownership, TaskTypeOK
  <2>2. CASE s # k
    <3>1. id[s] # id[k]
      BY <2>2, <1>1, Distinct DEF Ring
    <3>2. CASE id[s] <= blockId
      <4>1. Published(s)'
        BY <3>2, <2>2, <1>0, OtherTask DEF TurnOrder, InTurn
      <4>2. id'[s] <= blockId'
        BY <3>2, <1>1, <1>3, <1>4 DEF Ownership, TaskTypeOK, TurnOrder
      <4> QED
        BY <4>1, <4>2 DEF InTurn
    <3>3. CASE ~(id[s] <= blockId)
      <4>1. ~(id'[s] <= blockId')
        BY <3>1, <3>3, <1>1, <1>3, <1>4 DEF Ownership, TaskTypeOK, TurnOrder
      <4>2. InTurn(s)
        BY DEF TurnOrder
      <4>3. pc[s] \in {"queued", "wait", "asleep"} \cup AtTurn
        BY <3>3, <4>2 DEF InTurn
      <4>4. pc[s] \notin AtTurn
        BY <2>2, <1>1, <1>2, OneAtTurn
      <4>5. pc'[s] = pc[s]
        BY <2>2, <1>4
      <4> QED
        BY <4>1, <4>3, <4>4, <4>5 DEF InTurn, AtTurn
    <3> QED
      BY <3>2, <3>3
  <2> QED
    BY <2>1, <2>2
<1>7. \A s \in Slots : futures[s] = 1 => CursorAt(s)'
  <2> SUFFICES ASSUME NEW s \in Slots, futures[s] = 1 PROVE CursorAt(s)'
    OBVIOUS
  <2>1. CASE s = k
    <3>1. Holding(k)' => Holding(k)
      BY <1>1, <1>2, <1>4 DEF Holding, OwnStream, Ownership, TaskTypeOK
    <3>2. pc'[k] # "publish"
      BY <1>4 DEF Ownership, TaskTypeOK
    <3> QED
      BY <2>1, <3>1, <3>2, <1>1, <1>4 DEF TurnOrder, CursorAt
  <2>2. CASE s # k
    BY <2>2, <1>0, <1>1, <1>2, OthersBetween, OtherTask DEF CursorAt
  <2> QED
    BY <2>1, <2>2
<1>8. BetweenBlocks' => cursor' = At(base' + blockId', "size")
  <2> SUFFICES ASSUME BetweenBlocks' PROVE cursor = At(base + id[k], "size")
    BY <1>1, <1>4
  <2>1. ~Holding(k)'
    BY <1>1 DEF BetweenBlocks
  <2>2. ~Holding(k)
    BY <2>1, <1>1, <1>2, <1>4 DEF Holding, OwnStream, Ownership, TaskTypeOK
  <2>3. cursor = At(got[k] + 1, "size")
    BY <2>2, <1>1, <1>2 DEF TurnOrder, CursorAt
  <2>4. got[k] + 1 = base + id[k]
    BY <1>3 DEF Ownership, TaskTypeOK, ClientTypeOK
  <2> QED
    BY <2>3, <2>4
<1>9. blockId' \in 0..submitBlockId' /\ base' + blockId' - 1 <= NbBlocks
  <2>1. id[k] \in Front..submitBlockId /\ Front \in Nat
    BY <1>1, Distinct, RingNumbers DEF Ring
  <2>2. got[k] \in 0..NbBlocks
    BY DEF Ownership, TaskTypeOK
  <2> QED
    BY <2>1, <2>2, <1>1, <1>3, <1>4, ConstantsAssumption
<1> QED
  BY <1>1, <1>6, <1>7, <1>8, <1>9 DEF TurnOrder, Slots

\* Decoding moves the cursor only when the task is alone.
LEMMA TurnDecode ==
  ASSUME Ownership, Ring, TurnOrder, NEW k \in Slots, Decode(k)
  PROVE  TurnOrder'
<1>0. TaskStep(k)
  BY DEF TaskStep, TaskRuns
<1>1. /\ base' = base /\ submitBlockId' = submitBlockId /\ futures' = futures
      /\ id' = id
      /\ futures[k] = 1
  BY <1>0, TaskFrame, TaskHasFuture DEF Ownership, clientVars
<1>2. /\ pc[k] = "decode"
      /\ pc' = [pc EXCEPT ![k] = "over"]
      /\ result' = [result EXCEPT ![k] = "decoded"]
      /\ array' = [array EXCEPT ![k] = got[k]]
      /\ UNCHANGED <<got, blockId>>
      /\ cursor' = IF OwnStream THEN cursor ELSE At(got[k] + 1, "size")
  BY DEF Decode, ReturnsFrom, Goto
<1>3. id[k] <= blockId /\ Published(k)
  BY <1>1, <1>2 DEF TurnOrder, InTurn, AtTurn
<1>4. InTurn(k)'
  <2>1. Published(k)'
    BY <1>1, <1>2, <1>3 DEF Published, Ownership, TaskTypeOK, RingTypeOK
  <2> QED
    BY <2>1, <1>1, <1>2, <1>3 DEF InTurn
<1>5. CASE OwnStream
  <2>1. ~Holding(k) /\ ~Holding(k)'
    BY <1>2, <1>5 DEF Holding, OwnStream, Ownership, TaskTypeOK
  <2>2. cursor' = cursor
    BY <1>2, <1>5
  <2>3. pc'[k] = "over"
    BY <1>2 DEF Ownership, TaskTypeOK
  <2> QED
    BY <1>0, <1>2, <1>4, <2>1, <2>2, <2>3, TurnQuiet
<1>6. CASE ~OwnStream
  <2>1. Jobs = 1 /\ Slots = {0} /\ k = 0
    BY <1>6, AloneIsOnly
  <2>2. pc'[k] = "over" /\ result'[k] = "decoded" /\ ~Holding(k)'
    BY <1>2 DEF Holding, Ownership, TaskTypeOK
  <2>3. id[k] = blockId
    <3>1. id[k] \in Front..submitBlockId /\ Front = submitBlockId - Ahead + 1
          /\ Ahead \in 0..1 /\ submitBlockId \in Nat
      BY <1>1, <2>1, Distinct, RingNumbers DEF Ring
    <3>2. blockId \in 0..submitBlockId
      BY DEF TurnOrder
    <3> QED
      BY <3>1, <3>2, <1>3
  <2>4. cursor' = At(base + blockId, "size")
    <3>1. got[k] + 1 = base + blockId
      BY <1>3, <2>3 DEF Published, Ownership, ClientTypeOK, TaskTypeOK
    <3> QED
      BY <3>1, <1>2, <1>6
  <2>5. \A s \in Slots : futures[s] = 1 => InTurn(s)' /\ CursorAt(s)'
    BY <1>4, <2>1, <2>2 DEF CursorAt
  <2> QED
    BY <1>1, <1>2, <2>1, <2>4, <2>5 DEF TurnOrder
<1> QED
  BY <1>5, <1>6

LEMMA TurnNotify ==
  ASSUME Ownership, Ring, TurnOrder, NEW k \in Slots, Notify(k)
  PROVE  TurnOrder'
<1>0. TaskStep(k)
  BY DEF TaskStep, TaskRuns
<1>1. /\ base' = base /\ id' = id /\ futures[k] = 1
  BY <1>0, TaskFrame, TaskHasFuture DEF Ownership, clientVars
<1>2. pc[k] \in {"notify", "cnotify"} /\ UNCHANGED <<array, got, blockId, cursor>>
  BY DEF Notify
<1>3. id[k] <= blockId /\ Published(k) /\ pc[k] = "notify"
  BY <1>1, <1>2 DEF TurnOrder, InTurn, AtTurn, Published
<1>4. /\ pc'[k] = AfterNotify(k)
      /\ result'[k] = ResultAtNotify(k)
  BY DEF Notify, Woken, Ownership, TaskTypeOK
<1>5. id[k] \in Nat /\ From \in Nat /\ To \in Nat
  BY ConstantsAssumption DEF Ownership, TaskTypeOK
<1>6. CASE Skips(k)
  <2>1. pc'[k] = "over" /\ result'[k] = "skipped" /\ id[k] < From
    BY <1>3, <1>4, <1>6 DEF AfterNotify, ResultAtNotify, Skips, Drops
  <2>2. Published(k)'
    BY <1>1, <1>2, <1>3, <2>1 DEF Published
  <2>3. ~Holding(k) /\ ~Holding(k)'
    BY <1>1, <1>3, <1>5, <2>1 DEF Holding
  <2>4. InTurn(k)'
    BY <2>2, <1>1, <1>2, <1>3 DEF InTurn
  <2> QED
    BY <1>0, <1>2, <1>3, <2>1, <2>3, <2>4, TurnQuiet
<1>7. CASE ~Skips(k) /\ Drops(k)
  <2>1. pc'[k] = "over" /\ result'[k] = "end" /\ id[k] >= From /\ id[k] >= To
    BY <1>3, <1>4, <1>5, <1>7 DEF AfterNotify, ResultAtNotify, Skips, Drops
  <2>2. Published(k)'
    BY <1>1, <1>2, <1>3, <2>1 DEF Published
  <2>3. Holding(k) <=> Holding(k)'
    BY <1>1, <1>3, <2>1 DEF Holding, OwnStream
  <2>4. InTurn(k)'
    BY <2>2, <1>1, <1>2, <1>3 DEF InTurn
  <2> QED
    BY <1>0, <1>2, <1>3, <2>1, <2>3, <2>4, TurnQuiet
<1>8. CASE ~Skips(k) /\ ~Drops(k)
  <2>1. pc'[k] = "decode" /\ id[k] \in From..(To - 1)
    BY <1>3, <1>4, <1>5, <1>8 DEF AfterNotify, Skips, Drops
  <2>2. Published(k)'
    BY <1>1, <1>2, <1>3, <2>1 DEF Published
  <2>3. Holding(k) <=> Holding(k)'
    BY <1>1, <1>3, <2>1 DEF Holding, OwnStream
  <2>4. InTurn(k)'
    BY <2>2, <1>1, <1>2, <1>3 DEF InTurn
  <2> QED
    BY <1>0, <1>2, <1>3, <2>1, <2>3, <2>4, TurnQuiet
<1> QED
  BY <1>6, <1>7, <1>8

\* A task that has not read anything and does not read.
LEMMA TurnWait ==
  ASSUME Ownership, Ring, TurnOrder, NEW k \in Slots,
         Start(k) \/ CheckTurn(k) \/ Recheck(k) \/ SpuriousWake(k)
  PROVE  TurnOrder'
<1>0. TaskStep(k)
  BY DEF TaskStep, TaskRuns
<1>1. /\ id' = id /\ futures[k] = 1 /\ base' = base
  BY <1>0, TaskFrame, TaskHasFuture DEF Ownership, clientVars
<1>2. /\ UNCHANGED <<blockId, cursor, got, result, array>>
      /\ pc[k] \in {"queued", "wait", "asleep", "recheck"}
      /\ pc'[k] \in {"wait", "asleep", "recheck", "size"}
      /\ pc[k] = "recheck" => pc'[k] = "size"
      /\ pc[k] # "recheck" => pc'[k] # "size"
      /\ pc[k] # "recheck" /\ pc'[k] = "recheck" => MayProceed(k)
  BY DEF Start, CheckTurn, Recheck, SpuriousWake, Goto, OnlyPc, Ownership,
         TaskTypeOK
<1>3. ~(id[k] <= blockId)
  BY <1>1, <1>2 DEF TurnOrder, InTurn, Published
<1>4. pc'[k] \in AtTurn => id[k] = blockId + 1
  <2>1. CASE pc[k] = "recheck"
    BY <2>1, <1>1, OneAtTurn DEF AtTurn
  <2>2. CASE pc[k] # "recheck"
    <3>1. CASE MayProceed(k)
      <4>1. blockId \in Nat /\ id[k] \in Nat
        BY DEF TurnOrder, Ownership, TaskTypeOK, RingTypeOK
      <4> QED
        BY <4>1, <3>1 DEF MayProceed, CANCEL
    <3>2. CASE ~MayProceed(k)
      BY <3>2, <2>2, <1>2 DEF AtTurn
    <3> QED
      BY <3>1, <3>2
  <2> QED
    BY <2>1, <2>2
<1>5. InTurn(k)'
  BY <1>1, <1>2, <1>3, <1>4 DEF InTurn, AtTurn
<1>6. ~Holding(k) /\ ~Holding(k)'
  BY <1>2 DEF Holding
<1>7. blockId' = blockId /\ cursor' = cursor /\ got'[k] = got[k]
  BY <1>2
<1>8. /\ pc'[k] = "publish" <=> pc[k] = "publish"
      /\ pc'[k] = "cancel" <=> pc[k] = "cancel"
  BY <1>2
<1> QED
  BY <1>0, <1>5, <1>6, <1>7, <1>8, TurnQuiet

\* Reading: the task finds its own block, or the end marker behind the last.
LEMMA TurnReadSize ==
  ASSUME Ownership, Ring, TurnOrder, NEW k \in Slots, ReadSize(k)
  PROVE  TurnOrder' /\ got'[k] = base + id[k] - 1
<1>0. TaskStep(k)
  BY DEF TaskStep, TaskRuns
<1>1. /\ id' = id /\ futures[k] = 1 /\ base' = base
  BY <1>0, TaskFrame, TaskHasFuture DEF Ownership, clientVars
<1>2. pc[k] = "size" /\ pc[k] \in AtTurn
  BY DEF ReadSize, AtTurn
<1>3. id[k] = blockId + 1 /\ ~(id[k] <= blockId)
  BY <1>1, <1>2, OneAtTurn DEF TurnOrder
<1>4. cursor = At(base + blockId, "size") /\ cursor.blk = base + blockId
  BY <1>1, <1>2, CursorAtSize DEF At
<1>5. /\ got'[k] = base + blockId
      /\ cursor' = At(base + blockId, "data")
      /\ pc'[k] = IF ReadsDataInTurn(k) THEN "data" ELSE "publish"
      /\ UNCHANGED <<blockId, result, array>>
  BY <1>4 DEF ReadSize, Goto, Ownership, TaskTypeOK
<1>6. got'[k] = base + id[k] - 1
  BY <1>3, <1>5 DEF Ownership, ClientTypeOK, TaskTypeOK, TurnOrder
<1>7. InTurn(k)'
  BY <1>1, <1>3, <1>5, <1>6
  DEF InTurn, AtTurn, ReadsDataInTurn, OwnStream
<1>8. Holding(k)'
  BY <1>1, <1>5, ConstantsAssumption
  DEF Holding, ReadsDataInTurn, OwnStream, Ownership, TaskTypeOK
<1>9. CursorAt(k)'
  BY <1>5, <1>8 DEF CursorAt
<1> QED
  BY <1>0, <1>2, <1>5, <1>6, <1>7, <1>8, <1>9, TurnKept

LEMMA TurnReadData ==
  ASSUME Ownership, Ring, TurnOrder, NEW k \in Slots, ReadData(k)
  PROVE  TurnOrder' /\ got'[k] = got[k]
<1>0. TaskStep(k)
  BY DEF TaskStep, TaskRuns
<1>1. /\ id' = id /\ futures[k] = 1 /\ base' = base
  BY <1>0, TaskFrame, TaskHasFuture DEF Ownership, clientVars
<1>2. pc[k] = "data" /\ pc[k] \in AtTurn /\ Holding(k)
  BY DEF ReadData, AtTurn, Holding
<1>3. id[k] = blockId + 1 /\ ~(id[k] <= blockId)
  BY <1>1, <1>2, OneAtTurn DEF TurnOrder
<1>4. /\ cursor = At(got[k], "data")
      /\ got[k] = base + id[k] - 1
      /\ ReadsDataInTurn(k)
  BY <1>1, <1>2, <1>3 DEF TurnOrder, CursorAt, InTurn
<1>5. /\ got' = got
      /\ cursor' = At(got[k] + 1, "size")
      /\ pc'[k] = "publish"
      /\ UNCHANGED <<blockId, result, array>>
  BY <1>4 DEF ReadData, Goto, Ownership, TaskTypeOK
<1>6. InTurn(k)'
  BY <1>1, <1>3, <1>4, <1>5 DEF InTurn, AtTurn
<1>7. CursorAt(k)'
  BY <1>1, <1>4, <1>5, ConstantsAssumption
  DEF CursorAt, Holding, ReadsDataInTurn, OwnStream, Ownership, TaskTypeOK
<1> QED
  BY <1>0, <1>2, <1>5, <1>6, <1>7, TurnKept

LEMMA TurnReadStops ==
  ASSUME Ownership, Ring, TurnOrder, NEW k \in Slots,
         ReadEnd(k) \/ ReadFails(k)
  PROVE  /\ TurnOrder'
         /\ id[k] = blockId + 1
         /\ result'[k] \in {"end", "error"}
         /\ result'[k] = "end" => base + id[k] - 1 = NbBlocks + 1
         /\ FaultPoints = {} => result'[k] = "end"
         /\ pc'[k] = "cancel"
<1>0. TaskStep(k)
  BY DEF TaskStep, TaskRuns
<1>1. /\ id' = id /\ futures[k] = 1 /\ base' = base
  BY <1>0, TaskFrame, TaskHasFuture DEF Ownership, clientVars
<1>2. pc[k] \in {"size", "data"} /\ pc[k] \in AtTurn
  BY DEF ReadEnd, ReadFails, AtTurn
<1>3. id[k] = blockId + 1 /\ ~(id[k] <= blockId)
  BY <1>1, <1>2, OneAtTurn DEF TurnOrder
<1>4. /\ pc'[k] = "cancel"
      /\ blockId' = blockId
      /\ result'[k] = IF ReadEnd(k) THEN "end" ELSE "error"
  BY DEF ReadEnd, ReadFails, CancelsWith, Goto, Ownership, TaskTypeOK
<1>5. InTurn(k)'
  BY <1>1, <1>3, <1>4 DEF InTurn, AtTurn
<1>6. CursorAt(k)'
  BY <1>4 DEF CursorAt, Holding
<1>7. TurnOrder'
  BY <1>0, <1>2, <1>4, <1>5, <1>6, TurnKept
<1>8. ReadEnd(k) => base + id[k] - 1 = NbBlocks + 1
  <2> SUFFICES ASSUME ReadEnd(k) PROVE base + id[k] - 1 = NbBlocks + 1
    OBVIOUS
  <2>1. pc[k] = "size" /\ cursor.blk = NbBlocks + 1
    BY DEF ReadEnd, At
  <2>2. cursor.blk = base + blockId
    BY <2>1, <1>1, CursorAtSize DEF At
  <2> QED
    BY <2>1, <2>2, <1>3 DEF Ownership, ClientTypeOK, TaskTypeOK, TurnOrder
<1>9. ~ReadEnd(k) => FaultPoints # {}
  <2> SUFFICES ASSUME ReadFails(k), "read" \notin FaultPoints PROVE FALSE
    OBVIOUS
  <2>1. pc[k] = "size" /\ cursor.blk = NbBlocks + 2
    BY DEF ReadFails
  <2>2. cursor.blk = base + blockId
    BY <2>1, <1>1, CursorAtSize DEF At
  <2>3. base + blockId - 1 <= NbBlocks /\ base \in Int /\ blockId \in Int
        /\ NbBlocks \in Int
    BY ConstantsAssumption DEF TurnOrder, Ownership, ClientTypeOK, RingTypeOK
  <2> QED
    BY <2>1, <2>2, <2>3
<1> QED
  BY <1>3, <1>4, <1>7, <1>8, <1>9

\* Nobody reads what is another's, and nobody is canceled.
LEMMA NotAstray ==
  ASSUME Ownership, Ring, TurnOrder, NEW k \in Slots, TaskStep(k)
  PROVE  ~ReadAstray(k) /\ ~RecheckCanceled(k)
<1>1. futures[k] = 1
  BY TaskHasFuture
<1>2. ~ReadAstray(k)
  <2> SUFFICES ASSUME ReadAstray(k) PROVE FALSE
    OBVIOUS
  <2>1. pc[k] = "size" /\ cursor.part = "data"
    BY DEF ReadAstray
  <2>2. cursor.part = "size"
    BY <2>1, <1>1, CursorAtSize DEF At
  <2> QED
    BY <2>1, <2>2
<1>3. ~RecheckCanceled(k)
  BY DEF TurnOrder, RecheckCanceled, Canceled, CANCEL, Ownership, RingTypeOK
<1> QED
  BY <1>2, <1>3

LEMMA TurnTask ==
  ASSUME Ownership, Ring, TurnOrder, NEW k \in Slots, TaskStep(k),
         ~DecodeFails(k), ~Cancel(k)
  PROVE  TurnOrder'
  BY NotAstray, TurnWait, TurnReadSize, TurnReadData, TurnReadStops,
     TurnPublish, TurnNotify, TurnDecode
  DEF TaskStep, TaskRuns

-----------------------------------------------------------------------------
(* Until the client learns of a failure, the tasks before the first that   *)
(* has failed have all read their own block.                               *)

\* The stream may deliver: it is open, and no seek() or close() is going on.
Open ==
  /\ initialized = 1
  /\ closed = 0
  /\ mpc \in {"idle", "read", "get", "boot", "resubmit"}

\* The client has nothing left and nothing to wait for.
Stuck ==
  /\ available = 0
  /\ mpc \notin {"boot", "resubmit"}
  /\ futures[bufferId] = 0

Healthy == Open /\ ~Stuck

Calm == \A s \in Slots : futures[s] = 1 => ~Failed(s)

\* Of the tasks not collected, r is the first that has failed.
FailsFirst(r) ==
  /\ futures[r] = 1
  /\ Failed(r)
  /\ result[r] \in {"end", "error"}
  /\ FaultPoints = {} => result[r] = "end"
  /\ result[r] = "end" => base + id[r] - 1 = NbBlocks + 1
  /\ \A s \in Slots : futures[s] = 1 /\ id[s] < id[r] => Published(s)

Progress ==
  Healthy => \/ Calm /\ TurnOrder
             \/ \E r \in Slots : FailsFirst(r)

LEMMA PublishedIsNotFailed ==
  ASSUME Ownership, NEW s \in Slots, Published(s), id[s] > 0
  PROVE  ~Failed(s)
  BY ConstantsAssumption
  DEF Published, Failed, Ownership, ClientTypeOK, TaskTypeOK

\* A task that has published goes on, unless it cannot decode its block.
LEMMA PublishedStays ==
  ASSUME Ownership, NEW k \in Slots, TaskStep(k), NEW s \in Slots,
         Published(s), ~DecodeFails(s)
  PROVE  Published(s)'
<1> USE ConstantsAssumption DEF Ownership, TaskTypeOK, RingTypeOK
<1>1. base' = base /\ id' = id
  BY TaskFrame DEF clientVars
<1>2. CASE s # k
  BY <1>2, OtherTask
<1>3. CASE s = k
  <2>1. pc[k] \in {"notify", "decode"}
    BY <1>3, TaskFrame DEF Published, Live
  <2>2. CASE Notify(k)
    <3>1. /\ pc'[k] = AfterNotify(k)
          /\ result'[k] = ResultAtNotify(k)
          /\ got' = got
          /\ pc[k] = "notify"
      BY <2>1, <2>2 DEF Notify, Woken
    <3>2. \/ pc'[k] = "over" /\ result'[k] = "skipped" /\ id[k] < From
          \/ pc'[k] = "over" /\ result'[k] = "end" /\ id[k] >= From /\ id[k] >= To
          \/ pc'[k] = "decode" /\ id[k] \in From..(To - 1)
      BY <3>1 DEF AfterNotify, ResultAtNotify, Skips, Drops
    <3> QED
      BY <1>1, <1>3, <3>1, <3>2 DEF Published
  <2>3. CASE Decode(k)
    BY <1>1, <1>3, <2>3 DEF Decode, ReturnsFrom, Goto, Published
  <2> QED
    BY <1>3, <2>1, <2>2, <2>3
    DEF TaskStep, TaskRuns, Start, CheckTurn, RecheckCanceled, Recheck,
        ReadSize, ReadEnd, ReadFails, ReadAstray, ReadData, Publish, Cancel,
        DecodeFails, SpuriousWake, ReturnsFrom
<1> QED
  BY <1>2, <1>3

\* A failure is not undone.
LEMMA FailedStays ==
  ASSUME Ownership, TaskResults, NEW k \in Slots, TaskStep(k),
         NEW s \in Slots, Failed(s)
  PROVE  Failed(s)' /\ result'[s] = result[s] /\ got'[s] = got[s]
<1> USE DEF Ownership, TaskTypeOK, RingTypeOK
<1>1. CASE s # k
  <2>1. pc'[s] = pc[s] /\ result'[s] = result[s] /\ got'[s] = got[s]
    BY <1>1, TaskFrame DEF Failed
  <2> QED
    BY <2>1 DEF Failed
<1>2. CASE s = k
  <2>1. pc[k] \in {"cancel", "cnotify"}
    BY <1>2, TaskFrame DEF Failed, Live
  <2>2. CASE Cancel(k)
    BY <1>2, <2>2 DEF Cancel, Goto, Failed
  <2>3. CASE Notify(k)
    <3>1. pc'[k] = AfterNotify(k) /\ result'[k] = ResultAtNotify(k) /\ got' = got
      BY <2>3 DEF Notify, Woken
    <3>2. pc[k] = "cnotify"
      BY <2>1, <2>3 DEF Notify
    <3>3. pc'[k] = "over" /\ result'[k] = result[k]
      BY <3>1, <3>2 DEF AfterNotify, ResultAtNotify
    <3> QED
      BY <1>2, <3>1, <3>2, <3>3 DEF Failed, TaskResults
  <2> QED
    BY <2>1, <2>2, <2>3
    DEF TaskStep, TaskRuns, Start, CheckTurn, RecheckCanceled, Recheck,
        ReadSize, ReadEnd, ReadFails, ReadAstray, ReadData, Publish, Decode,
        DecodeFails, SpuriousWake, ReturnsFrom
<1> QED
  BY <1>1, <1>2

\* The ways to fail when all is in turn.
LEMMA BecomesFailed ==
  ASSUME Ownership, TaskResults, Ring, TurnOrder, NEW k \in Slots, TaskStep(k),
         NEW s \in Slots, ~Failed(s), Failed(s)'
  PROVE  s = k /\ (ReadEnd(k) \/ ReadFails(k) \/ DecodeFails(k))
<1> USE DEF Ownership, TaskTypeOK, RingTypeOK
<1>1. s = k
  <2> SUFFICES ASSUME s # k PROVE FALSE
    OBVIOUS
  <2>1. /\ pc'[s] = pc[s] \/ (pc[s] = "asleep" /\ pc'[s] = "wait")
        /\ result'[s] = result[s]
        /\ got'[s] = got[s]
    BY TaskFrame
  <2> QED
    BY <2>1 DEF Failed
<1>2. ~Notify(k)
  <2> SUFFICES ASSUME Notify(k) PROVE FALSE
    OBVIOUS
  <2>1. TurnOrder'
    BY TurnNotify
  <2>2. futures'[k] = 1 /\ id'[k] > 0 /\ base' \in Nat /\ From \in Nat /\ got'[k] \in Nat
    BY TaskHasFuture, TaskFrame, OwnershipTask, ConstantsAssumption
    DEF SkipsInRange, Live, ClientTypeOK
  <2>3. pc[k] = "notify"
    BY <1>1 DEF Failed, Notify
  <2>4. pc'[k] = AfterNotify(k) /\ result'[k] = ResultAtNotify(k)
    BY DEF Notify, Woken
  <2>5. pc'[k] = "over" /\ result'[k] = "end" /\ got'[k] = 0
    BY <1>1, <2>3, <2>4 DEF Failed, AfterNotify, ResultAtNotify, Drops, Skips
  <2>6. Published(k)'
    BY <2>1, <2>2, <2>5 DEF TurnOrder, InTurn, AtTurn
  <2> QED
    BY <2>2, <2>5, <2>6, OwnershipTask DEF Published, ClientTypeOK
<1> QED
  BY <1>1, <1>2, NotAstray
  DEF TaskStep, TaskRuns, Start, CheckTurn, Recheck, ReadSize, ReadData,
      Publish, Cancel, Decode, SpuriousWake, ReturnsFrom, Goto, Failed

\* A failure when all is in turn is the first.
LEMMA FirstToFail ==
  ASSUME Ownership, TaskResults, Ring, Calm, TurnOrder, NEW k \in Slots,
         ReadEnd(k) \/ ReadFails(k) \/ DecodeFails(k)
  PROVE  FailsFirst(k)'
<1>0. TaskStep(k)
  BY DEF TaskStep, TaskRuns
<1>1. /\ base' = base /\ id' = id /\ futures' = futures
      /\ futures[k] = 1
      /\ \A s \in Slots : id[s] \in Nat
  BY <1>0, TaskFrame, TaskHasFuture DEF Ownership, clientVars, TaskTypeOK
<1>2. blockId \in Nat
  BY DEF TurnOrder, Ownership, RingTypeOK
<1>3. /\ pc'[k] = "cancel"
      /\ result'[k] \in {"end", "error"}
      /\ FaultPoints = {} => result'[k] = "end"
      /\ result'[k] = "end" => base + id[k] - 1 = NbBlocks + 1
      /\ id[k] <= blockId + 1
  <2>1. CASE ReadEnd(k) \/ ReadFails(k)
    BY <2>1, <1>1, <1>2, TurnReadStops
  <2>2. CASE DecodeFails(k)
    <3>1. pc[k] = "decode" /\ pc'[k] = "cancel" /\ result'[k] = "error"
      BY <2>2 DEF DecodeFails, CancelsWith, Goto, Ownership, TaskTypeOK
    <3>2. id[k] <= blockId /\ Published(k)
      BY <3>1, <1>1 DEF TurnOrder, InTurn, AtTurn
    <3>3. got[k] # 0
      BY <3>2, <1>0, TaskFrame, ConstantsAssumption
      DEF Published, Ownership, ClientTypeOK, TaskTypeOK, SkipsInRange, Live
    <3>4. FaultPoints # {}
      BY <2>2, <3>3 DEF DecodeFails
    <3> QED
      BY <3>1, <3>2, <3>4, <1>1, <1>2
  <2> QED
    BY <2>1, <2>2
<1>4. \A s \in Slots : futures[s] = 1 /\ id[s] < id[k] => Published(s)'
  <2> SUFFICES ASSUME NEW s \in Slots, futures[s] = 1, id[s] < id[k]
               PROVE  Published(s)'
    OBVIOUS
  <2>1. Published(s)
    BY <1>1, <1>2, <1>3 DEF TurnOrder, InTurn
  <2>2. s # k
    BY <1>1
  <2> QED
    BY <2>1, <2>2, <1>0, OtherTask
<1>5. Failed(k)'
  BY <1>3 DEF Failed
<1> QED
  BY <1>1, <1>3, <1>4, <1>5 DEF FailsFirst, Slots

\* The first to fail stays so until an earlier task cannot decode its block.
LEMMA FailsFirstStays ==
  ASSUME Ownership, TaskResults, NEW r \in Slots, FailsFirst(r),
         NEW k \in Slots, TaskStep(k)
  PROVE  \E q \in Slots : FailsFirst(q)'
<1>1. /\ base' = base /\ id' = id /\ futures' = futures
      /\ futures[k] = 1
      /\ \A s \in Slots : id[s] \in Nat
  BY TaskFrame, TaskHasFuture DEF Ownership, clientVars, TaskTypeOK
<1>2. CASE DecodeFails(k) /\ id[k] < id[r]
  <2>1. Published(k)
    BY <1>1, <1>2 DEF FailsFirst
  <2>2. got[k] # 0
    BY <2>1, TaskFrame, ConstantsAssumption
    DEF Published, Ownership, ClientTypeOK, TaskTypeOK, SkipsInRange, Live
  <2>3. pc'[k] = "cancel" /\ result'[k] = "error" /\ FaultPoints # {}
    BY <1>2, <2>2 DEF DecodeFails, CancelsWith, Goto, Ownership, TaskTypeOK
  <2>4. \A s \in Slots : futures[s] = 1 /\ id[s] < id[k] => Published(s)'
    <3> SUFFICES ASSUME NEW s \in Slots, futures[s] = 1, id[s] < id[k]
                 PROVE  Published(s)'
      OBVIOUS
    <3>1. id[s] < id[r] /\ s # k
      BY <1>1, <1>2
    <3>2. Published(s)
      BY <3>1 DEF FailsFirst
    <3> QED
      BY <3>1, <3>2, OtherTask
  <2>5. Failed(k)'
    BY <2>3 DEF Failed
  <2>6. FailsFirst(k)'
    BY <1>1, <2>3, <2>4, <2>5 DEF FailsFirst, Slots
  <2> QED
    BY <2>6 DEF Slots
<1>3. CASE ~(DecodeFails(k) /\ id[k] < id[r])
  <2>1. \A s \in Slots : futures[s] = 1 /\ id[s] < id[r] => Published(s)'
    <3> SUFFICES ASSUME NEW s \in Slots, futures[s] = 1, id[s] < id[r]
                 PROVE  Published(s)'
      OBVIOUS
    <3>1. Published(s)
      BY DEF FailsFirst
    <3>2. CASE s = k
      BY <3>1, <3>2, <1>3, PublishedStays
    <3>3. CASE s # k
      BY <3>1, <3>3, OtherTask
    <3> QED
      BY <3>2, <3>3
  <2>2. Failed(r)' /\ result'[r] = result[r]
    BY FailedStays DEF FailsFirst
  <2>3. FailsFirst(r)'
    BY <1>1, <2>1, <2>2 DEF FailsFirst, Slots
  <2> QED
    BY <2>3 DEF Slots
<1> QED
  BY <1>2, <1>3

LEMMA ProgressTask ==
  ASSUME Ownership, TaskResults, Ring, Progress, NEW k \in Slots, TaskStep(k)
  PROVE  Progress'
<1>1. UNCHANGED <<clientVars, futures>>
  BY TaskFrame DEF Ownership
<1>2. Healthy' <=> Healthy
  BY <1>1 DEF Healthy, Open, Stuck, clientVars
<1> SUFFICES ASSUME Healthy
             PROVE  \/ Calm' /\ TurnOrder'
                    \/ \E r \in Slots : FailsFirst(r)'
  BY <1>2 DEF Progress, Slots
<1>3. CASE \E r \in Slots : FailsFirst(r)
  BY <1>3, FailsFirstStays
<1>4. CASE Calm /\ TurnOrder
  <2>1. CASE ReadEnd(k) \/ ReadFails(k) \/ DecodeFails(k)
    BY <1>4, <2>1, FirstToFail
  <2>2. CASE ~(ReadEnd(k) \/ ReadFails(k) \/ DecodeFails(k))
    <3>1. Calm'
      BY <1>1, <1>4, <2>2, BecomesFailed DEF Calm, Slots
    <3>2. ~Cancel(k)
      BY <1>4, TaskHasFuture DEF Cancel, Calm, Failed
    <3>3. TurnOrder'
      BY <1>4, <2>2, <3>2, TurnTask
    <3> QED
      BY <3>1, <3>3
  <2> QED
    BY <2>1, <2>2
<1> QED
  BY <1>3, <1>4 DEF Progress

-----------------------------------------------------------------------------
(* The client and the turns.                                               *)

\* What SubmitBlock(b) does to the turns: a task more that waits.
LEMMA TurnSubmit ==
  ASSUME Ownership, Ring, NEW b \in Slots, SubmitBlock(b),
         futures[b] = 0, UNCHANGED <<base, blockId, cursor>>, TurnOrder
  PROVE  TurnOrder'
<1> USE DEF Ownership, RingTypeOK, TaskTypeOK
<1>1. /\ futures'[b] = 1
      /\ pc'[b] \in {"queued", "wait"}
      /\ id'[b] = submitBlockId + 1
      /\ submitBlockId' = submitBlockId + 1
  BY DEF SubmitBlock
<1>2. \A s \in Slots : s # b =>
        /\ futures'[s] = futures[s]
        /\ pc'[s] = pc[s]
        /\ id'[s] = id[s]
        /\ got'[s] = got[s]
        /\ result'[s] = result[s]
        /\ array'[s] = array[s]
  BY DEF SubmitBlock
<1>3. \A s \in Slots : s # b =>
        /\ InTurn(s)' <=> InTurn(s)
        /\ CursorAt(s)' <=> CursorAt(s)
        /\ Holding(s)' <=> Holding(s)
  BY <1>2
  DEF Published, InTurn, CursorAt, Holding, OwnStream, AtTurn, ReadsDataInTurn
<1>4. ~Holding(b)' /\ pc'[b] \notin {"publish", "cancel"}
  BY <1>1 DEF Holding
<1>5. InTurn(b)' /\ CursorAt(b)'
  <2>1. ~(id'[b] <= blockId')
    BY <1>1 DEF TurnOrder
  <2> QED
    BY <2>1, <1>4, <1>1 DEF InTurn, AtTurn, CursorAt
<1>6. \A s \in Slots : futures'[s] = 1 => InTurn(s)' /\ CursorAt(s)'
  BY <1>2, <1>3, <1>5 DEF TurnOrder
<1>7. BetweenBlocks' => BetweenBlocks
  <2> SUFFICES ASSUME BetweenBlocks', NEW s \in Slots, futures[s] = 1
               PROVE  ~Holding(s) /\ pc[s] \notin {"publish", "cancel"}
    BY DEF BetweenBlocks
  <2>1. s # b /\ futures'[s] = 1
    BY <1>2
  <2>2. ~Holding(s)' /\ pc'[s] \notin {"publish", "cancel"}
    BY <2>1 DEF BetweenBlocks, Slots
  <2> QED
    BY <2>1, <2>2, <1>2, <1>3
<1>8. blockId' \in 0..submitBlockId' /\ base' + blockId' - 1 <= NbBlocks
  BY <1>1 DEF TurnOrder
<1> QED
  BY <1>6, <1>7, <1>8 DEF TurnOrder, Slots

\* What it is to the turns that a task's result is taken.
LEMMA TurnCollect ==
  ASSUME Ownership, NEW w, Collects(w), UNCHANGED <<base, blockId, cursor>>,
         ~Holding(bufferId), TurnOrder
  PROVE  TurnOrder'
<1> USE DEF Ownership, RingTypeOK, TaskTypeOK
<1>1. /\ futures[bufferId] = 1
      /\ pc[bufferId] = "over"
      /\ futures' = [futures EXCEPT ![bufferId] = 0]
      /\ UNCHANGED <<array, submitBlockId, pc, id, got, result>>
  BY DEF Collects
<1>2. \A s \in Slots : futures'[s] = 1 <=> futures[s] = 1 /\ s # bufferId
  BY <1>1
<1>3. \A s \in Slots :
        /\ InTurn(s)' <=> InTurn(s)
        /\ CursorAt(s)' <=> CursorAt(s)
        /\ Holding(s)' <=> Holding(s)
  BY <1>1
  DEF Published, InTurn, CursorAt, Holding, OwnStream, AtTurn, ReadsDataInTurn
<1>4. BetweenBlocks' => BetweenBlocks
  BY <1>1, <1>2, <1>3 DEF BetweenBlocks, Slots
<1> QED
  BY <1>1, <1>2, <1>3, <1>4 DEF TurnOrder, Slots

\* A slot gets its next task.
LEMMA ProgressSubmit ==
  ASSUME Ownership, Ring, NEW b \in Slots, SubmitBlock(b),
         futures[b] = 0, UNCHANGED <<base, blockId, cursor>>,
         \/ Calm /\ TurnOrder
         \/ \E r \in Slots : FailsFirst(r)
  PROVE  \/ Calm' /\ TurnOrder'
         \/ \E r \in Slots : FailsFirst(r)'
<1> USE DEF Ownership, RingTypeOK, TaskTypeOK
<1>1. /\ futures'[b] = 1
      /\ pc'[b] \in {"queued", "wait"}
      /\ id'[b] = submitBlockId + 1
      /\ submitBlockId' = submitBlockId + 1
  BY DEF SubmitBlock
<1>2. \A s \in Slots : s # b =>
        /\ futures'[s] = futures[s]
        /\ pc'[s] = pc[s]
        /\ id'[s] = id[s]
        /\ got'[s] = got[s]
        /\ result'[s] = result[s]
        /\ array'[s] = array[s]
  BY DEF SubmitBlock
<1>3. \A s \in Slots : futures[s] = 1 => s # b /\ id[s] <= submitBlockId
  <2> SUFFICES ASSUME NEW s \in Slots, futures[s] = 1
               PROVE  id[s] <= submitBlockId
    OBVIOUS
  <2>1. Numbered(s) /\ Numbered(s)
    BY DEF Ring
  <2>2. id[s] \in Front..submitBlockId
    BY <2>1, Distinct
  <2> QED
    BY <2>2, RingNumbers
<1>4. \A s \in Slots : s # b =>
        /\ Published(s)' <=> Published(s)
        /\ Failed(s)' <=> Failed(s)
  BY <1>2 DEF Published, Failed
<1>5. CASE Calm /\ TurnOrder
  <2>1. ~Failed(b)'
    BY <1>1 DEF Failed
  <2>2. Calm'
    BY <1>2, <1>4, <1>5, <2>1 DEF Calm, Slots
  <2>3. TurnOrder'
    BY <1>5, TurnSubmit
  <2> QED
    BY <2>2, <2>3
<1>6. ASSUME NEW r \in Slots, FailsFirst(r) PROVE FailsFirst(r)'
  <2>1. r # b /\ id[r] <= submitBlockId
    BY <1>3, <1>6 DEF FailsFirst
  <2>2. ~(id'[b] < id'[r])
    BY <1>1, <1>2, <2>1
  <2>3. \A s \in Slots : futures'[s] = 1 /\ id'[s] < id'[r] => Published(s)'
    BY <1>2, <1>4, <1>6, <2>1, <2>2 DEF FailsFirst
  <2> QED
    BY <1>2, <1>4, <1>6, <2>1, <2>3 DEF FailsFirst, Slots
<1> QED
  BY <1>5, <1>6 DEF Slots

\* The result of the client's slot is taken, and the stream goes on.
LEMMA ProgressCollect ==
  ASSUME Ownership, Ring, NEW w, Collects(w), w \in {"decoded", "skipped"},
         UNCHANGED <<base, blockId, cursor>>,
         \/ Calm /\ TurnOrder
         \/ \E r \in Slots : FailsFirst(r)
  PROVE  \/ Calm' /\ TurnOrder'
         \/ \E r \in Slots : FailsFirst(r)'
<1> USE DEF Ownership, RingTypeOK, TaskTypeOK
<1>1. /\ futures[bufferId] = 1
      /\ pc[bufferId] = "over"
      /\ result[bufferId] = w
      /\ futures' = [futures EXCEPT ![bufferId] = 0]
      /\ UNCHANGED <<array, submitBlockId, pc, id, got, result>>
  BY DEF Collects
<1>2. ~Failed(bufferId) /\ ~Holding(bufferId)
  BY <1>1 DEF Failed, Holding
<1>3. \A s \in Slots : futures'[s] = 1 <=> futures[s] = 1 /\ s # bufferId
  BY <1>1
<1>4. \A s \in Slots :
        /\ Published(s)' <=> Published(s)
        /\ Failed(s)' <=> Failed(s)
  BY <1>1 DEF Published, Failed
<1>5. CASE Calm /\ TurnOrder
  <2>1. Calm'
    BY <1>3, <1>4, <1>5 DEF Calm, Slots
  <2>2. TurnOrder'
    BY <1>2, <1>5, TurnCollect
  <2> QED
    BY <2>1, <2>2
<1>6. ASSUME NEW r \in Slots, FailsFirst(r) PROVE FailsFirst(r)'
  <2>1. r # bufferId
    BY <1>2, <1>6 DEF FailsFirst
  <2> QED
    BY <2>1, <1>1, <1>3, <1>4, <1>6 DEF FailsFirst, Slots
<1> QED
  BY <1>5, <1>6 DEF Slots

\* A ring without tasks, with the bitstream before its first block.
LEMMA ProgressStart ==
  ASSUME Ownership', \A s \in Slots : futures'[s] = 0,
         blockId' = 0, cursor' = At(base', "size")
  PROVE  Calm' /\ TurnOrder'
<1>1. base' \in 1..(NbBlocks + 1) /\ submitBlockId' \in Nat
  BY DEF Ownership, ClientTypeOK, RingTypeOK
<1>2. base' \in Int /\ NbBlocks \in Int /\ base' <= NbBlocks + 1
  BY <1>1, ConstantsAssumption
<1>3. base' + 0 = base' /\ base' + 0 - 1 <= NbBlocks
  <2>1. \A b, n \in Int : b <= n + 1 => b + 0 = b /\ b + 0 - 1 <= n
    OBVIOUS
  <2> QED
    BY <1>2, <2>1
<1> QED
  BY <1>1, <1>3 DEF Calm, TurnOrder, Slots

LEMMA ProgressSame ==
  ASSUME Progress, UNCHANGED <<slotVars, blockId, cursor, base>>,
         Healthy' => Healthy
  PROVE  Progress'
  BY DEF Progress, slotVars, Calm, TurnOrder, FailsFirst, Failed, Published,
         InTurn, CursorAt, Holding, BetweenBlocks, OwnStream, AtTurn,
         ReadsDataInTurn, Slots

LEMMA ProgressClient ==
  ASSUME NoByteOfRange, Ownership, Ring, Untouched, Progress,
         ClientCall \/ ClientStep
  PROVE  Progress'
<1>0. Ownership'
  BY OwnershipNext DEF Next
<1>1. CASE ReadHeader
  <2>1. \A s \in Slots : futures'[s] = 0
    BY <1>1 DEF ReadHeader, slotVars, Ownership, FreshRing
  <2>2. Healthy' => blockId' = 0 /\ cursor' = At(base', "size")
    BY <1>1
    DEF ReadHeader, Wanted, HeaderReadable, Healthy, Open, Untouched, Ownership,
        CallMatchesPlace
  <2> QED
    BY <2>1, <2>2, ProgressStart, <1>0 DEF Progress
<1>2. CASE ReadHeaderFails
  BY <1>2
  DEF ReadHeaderFails, Wanted, Throw, slotVars, Open, Stuck, Ownership,
      FreshRing, RingTypeOK, Progress, Healthy
<1>3. CASE Boot
  <2>1. Healthy' => Healthy
    BY <1>3 DEF Boot, Healthy, Open, Stuck
  <2>2. count \in Slots /\ futures[count] = 0
    BY <1>3, ConstantsAssumption DEF Boot, Ownership, BootInOrder,
        ClientTypeOK, Slots
  <2> QED
    BY <1>3, <2>1, <2>2, ProgressSubmit DEF Boot, Progress, Slots
<1>4. CASE BootFails
  BY <1>4, ProgressSame
  DEF BootFails, SubmitFails, Throw, slotVars, Healthy, Open, Stuck,
      Ownership, CallMatchesPlace, ClientTypeOK, RingTypeOK
<1>5. CASE GetOnClosed
  BY <1>5
  DEF GetOnClosed, NeedsBlock, Wanted, Throw, slotVars, Progress, Healthy,
      Open, Stuck
<1>6. CASE NoFuture
  BY <1>6
  DEF NoFuture, MayCollect, NeedsBlock, Wanted, Return, slotVars, Progress,
      Healthy, Open, Stuck
<1>7. CASE CollectBlock
  <2>1. Healthy' => Healthy
    BY <1>7
    DEF CollectBlock, Collects, MayCollect, NeedsBlock, Wanted, Healthy,
        Open, Stuck
  <2> QED
    BY <1>7, <2>1, ProgressCollect DEF CollectBlock, Progress, Slots
<1>8. CASE CollectEnd
  BY <1>8
  DEF CollectEnd, Collects, MayCollect, NeedsBlock, Wanted, Return, Open,
      Stuck, Ownership, RingTypeOK, Progress, Healthy
<1>9. CASE CollectError
  BY <1>9
  DEF CollectError, Collects, MayCollect, NeedsBlock, Wanted, Throw, Open,
      Stuck, Ownership, RingTypeOK, Progress, Healthy
<1>10. CASE CollectSkipped
  <2>1. Healthy' => Healthy
    BY <1>10
    DEF CollectSkipped, Collects, MayCollect, NeedsBlock, Wanted, Healthy,
        Open, Stuck
  <2> QED
    BY <1>10, <2>1, ProgressCollect DEF CollectSkipped, Progress, Slots
<1>11. CASE Copy
  BY <1>11, ProgressSame
  DEF Copy, slotVars, Healthy, Open, Stuck, Ownership, CallMatchesPlace,
      ClientTypeOK, RingTypeOK
<1>12. CASE ReadReturns
  BY <1>12, ProgressSame
  DEF ReadReturns, Return, slotVars, Healthy, Open, Stuck, Ownership,
      CallMatchesPlace, ClientTypeOK, RingTypeOK
<1>13. CASE PeekByte
  BY <1>13, ProgressSame
  DEF PeekByte, HasByte, Return, slotVars, Healthy, Open, Stuck, Ownership,
      CallMatchesPlace, ClientTypeOK, RingTypeOK
<1>14. CASE GetByte
  BY <1>14, ProgressSame
  DEF GetByte, HasByte, Return, slotVars, Healthy, Open, Stuck, Ownership,
      CallMatchesPlace, ClientTypeOK, RingTypeOK
<1>15. CASE Resubmit
  <2>1. Healthy' => Healthy
    BY <1>15 DEF Resubmit, Healthy, Open, Stuck
  <2>2. bufferId \in Slots /\ futures[bufferId] = 0
    BY <1>15 DEF Resubmit, Ownership, CurrentCollected, RingTypeOK
  <2> QED
    BY <1>15, <2>1, <2>2, ProgressSubmit DEF Resubmit, Progress, Slots
<1>16. CASE ResubmitSkipped
  BY <1>16
  DEF ResubmitSkipped, SubmitBlock, NextSlot, Ownership, CallMatchesPlace
<1>17. CASE ResubmitFails
  BY <1>17
  DEF ResubmitFails, SubmitFails, Throw, slotVars, Open, Stuck, Ownership,
      CallMatchesPlace, CurrentCollected, Progress, Healthy
<1>18. CASE CloseNotifies
  BY <1>18 DEF CloseNotifies, Woken, Progress, Healthy, Open, Stuck
<1>19. CASE Drain
  BY <1>19 DEF Drain, Drained, MoreSlots, Progress, Healthy, Open, Stuck
<1>20. CASE Release
  BY <1>20
  DEF Release, Return, Open, Ownership, CallMatchesPlace, Progress, Healthy
<1>21. CASE Reset
  <2>1. \A s \in Slots : futures'[s] = 0
    BY <1>21 DEF Reset, ResetRing, Ownership, DrainInOrder
  <2>2. blockId' = 0 /\ cursor' = At(base', "size")
    BY <1>21 DEF Reset, ResetRing
  <2> QED
    BY <2>1, <2>2, ProgressStart, <1>0 DEF Progress
<1>22. CASE ResetFails
  BY <1>22, ConstantsAssumption
  DEF ResetFails, ResetRing, Return, Open, Stuck, Ownership, DrainInOrder,
      Progress, Healthy, Slots
<1>23. ASSUME NEW n \in ReadSizes, CallRead(n)
      PROVE  Progress'
  BY <1>23, ProgressSame
  DEF CallRead, slotVars, Healthy, Open, Stuck
<1>24. ASSUME NEW f \in {"get", "peek"}, CallGet(f)
      PROVE  Progress'
  BY <1>24, ProgressSame
  DEF CallGet, slotVars, Healthy, Open, Stuck
<1>25. ASSUME NEW b \in 1..(NbBlocks + 1), CallSeek(b)
      PROVE  Progress'
  BY <1>25 DEF CallSeek, Progress, Healthy, Open
<1>26. ASSUME NEW f \in {"close", "destroy"}, CallClose(f)
      PROVE  Progress'
  BY <1>26 DEF CallClose, Progress, Healthy, Open
<1> QED
  BY <1>1, <1>2, <1>3, <1>4, <1>5, <1>6, <1>7, <1>8, <1>9, <1>10, <1>11,
     <1>12, <1>13, <1>14, <1>15, <1>16, <1>17, <1>18, <1>19, <1>20, <1>21,
     <1>22, <1>23, <1>24, <1>25, <1>26
  DEF ClientStep, ClientCall

LEMMA ProgressNext ==
  ASSUME NoByteOfRange, Ownership, TaskResults, Ring, Untouched, Progress,
         [Next]_vars
  PROVE  Progress'
<1>1. CASE UNCHANGED vars
  BY <1>1, ProgressSame
  DEF Healthy, Open, Stuck, vars, clientVars, slotVars
<1> QED
  BY <1>1, ProgressTask, ProgressClient DEF Next, Terminated

-----------------------------------------------------------------------------
(* The place of the client in the stream.                                  *)

\* The last unit delivered is unit i of the n-th block from base on, or the
\* last of the block before it when i is 0.
UpTo(n, i) ==
  IF i > 0
    THEN /\ delivered # <<>>
         /\ delivered[Len(delivered)] = <<base + n - 1, i>>
    ELSE IF n <= From
      THEN delivered = <<>>
      ELSE /\ delivered # <<>>
           /\ delivered[Len(delivered)] = <<base + n - 2, Length(base + n - 2)>>

\* The client's buffer holds the block its number stands for.
HoldsFront ==
  /\ array[bufferId] = base + Front - 1
  /\ Front \in From..(To - 1)

Place ==
  Healthy =>
    /\ mpc = "resubmit" /\ call = "read" =>
         /\ UpTo(Front, index[bufferId])
         /\ IF index[bufferId] = 0
              THEN Front < From
              ELSE /\ Front >= From
                   /\ index[bufferId] = Length(base + Front - 1)
    /\ mpc = "resubmit" /\ call = "get" =>
         /\ HoldsFront
         /\ UpTo(Front, index[bufferId] - 1)
         /\ index[bufferId] = Length(base + Front - 1)
    /\ available > 0 =>
         /\ HoldsFront
         /\ UpTo(Front, index[bufferId])
         /\ index[bufferId] + available = Length(base + Front - 1)
    /\ available = 0 /\ mpc # "resubmit" => UpTo(Front, 0)

LEMMA FrontStays ==
  ASSUME UNCHANGED <<submitBlockId, bufferId>>
  PROVE  Front' = Front
  BY DEF Front, Ahead, Behind

\* A task whose result the client takes, and has not failed, has read the
\* block the client is at.
LEMMA FrontPublished ==
  ASSUME Ownership, Ring, Progress, Healthy, futures[bufferId] = 1,
         pc[bufferId] = "over", ~Failed(bufferId)
  PROVE  Published(bufferId) /\ id[bufferId] = Front
<1>1. bufferId \in Slots
  BY DEF Ownership, RingTypeOK
<1>2. Numbered(bufferId) /\ id[bufferId] = Front
  BY <1>1, FrontIs DEF Ring
<1>3. CASE TurnOrder
  <2>1. InTurn(bufferId)
    BY <1>1, <1>3 DEF TurnOrder
  <2>2. pc[bufferId] \notin {"queued", "wait", "asleep"} \cup AtTurn
    BY DEF AtTurn
  <2> QED
    BY <1>2, <2>1, <2>2, Zenon DEF InTurn
<1>4. ASSUME NEW r \in Slots, FailsFirst(r) PROVE Published(bufferId)
  <2>1. Numbered(r) /\ r # bufferId
    BY <1>4 DEF FailsFirst, Ring
  <2>2. id[r] # id[bufferId] /\ id[r] \in Front..submitBlockId
    BY <1>1, <1>2, <2>1, Distinct
  <2>3. id[bufferId] < id[r]
    BY <1>2, <2>2, RingNumbers
  <2> QED
    BY <1>1, <1>4, <2>3 DEF FailsFirst
<1> QED
  BY <1>2, <1>3, <1>4 DEF Progress

\* Of the tasks, the client's own is the first to fail if it fails.
LEMMA FrontFailsFirst ==
  ASSUME Ownership, Ring, Progress, Healthy, futures[bufferId] = 1,
         Failed(bufferId)
  PROVE  FailsFirst(bufferId)
<1> DEFINE b == bufferId
<1>1. b \in Slots
  BY DEF Ownership, RingTypeOK
<1>2. PICK r \in Slots : FailsFirst(r)
  BY <1>1 DEF Progress, Calm
<1>3. r = b
  <2> SUFFICES ASSUME r # b PROVE FALSE
    OBVIOUS
  <2>1. Numbered(r) /\ Numbered(b)
    BY <1>1, <1>2 DEF FailsFirst, Ring
  <2>2. id[b] = Front /\ id[r] # id[b] /\ id[r] \in Front..submitBlockId
    BY <1>1, <2>1, FrontIs, Distinct
  <2>3. id[b] < id[r]
    BY <2>2, RingNumbers
  <2>4. Published(b)
    BY <1>1, <1>2, <2>3 DEF FailsFirst
  <2>5. id[b] > 0
    BY <2>2, RingNumbers
  <2> QED
    BY <1>1, <2>4, <2>5, PublishedIsNotFailed
<1> QED
  BY <1>2, <1>3

LEMMA Joined ==
  ASSUME NEW D, NEW s \in Seq(D), NEW t \in Seq(D)
  PROVE  /\ Len(s \o t) = Len(s) + Len(t)
         /\ \A i \in 1..Len(s) : (s \o t)[i] = s[i]
         /\ \A i \in (Len(s) + 1)..(Len(s) + Len(t)) :
              (s \o t)[i] = t[i - Len(s)]
         /\ Len(t) > 0 => s \o t # <<>>
         /\ Len(s) \in Nat
         /\ s = <<>> <=> Len(s) = 0
  OBVIOUS

\* Units i + 1 to i + m of block b have been delivered.
Appended(b, i, m) ==
  /\ Len(delivered') = Len(delivered) + m
  /\ \A j \in 1..Len(delivered) : delivered'[j] = delivered[j]
  /\ \A j \in (Len(delivered) + 1)..(Len(delivered) + m) :
       delivered'[j] = <<b, i + (j - Len(delivered))>>
  /\ delivered' # <<>>
  /\ Len(delivered) \in Nat
  /\ delivered = <<>> <=> Len(delivered) = 0

Run(b, i, m) == [j \in 1..m |-> <<b, i + j>>]

LEMMA RunFollows ==
  ASSUME NEW D, NEW s \in Seq(D), NEW m \in Nat \ {0}, NEW b, NEW i \in Nat,
         Run(b, i, m) \in Seq(D)
  PROVE  LET r == s \o Run(b, i, m)
         IN  /\ Len(r) = Len(s) + m
             /\ \A j \in 1..Len(s) : r[j] = s[j]
             /\ \A j \in (Len(s) + 1)..(Len(s) + m) :
                  r[j] = <<b, i + (j - Len(s))>>
             /\ r # <<>>
             /\ Len(s) \in Nat
             /\ s = <<>> <=> Len(s) = 0
<1> DEFINE t == Run(b, i, m)
<1>1. Len(t) = m /\ \A j \in 1..m : t[j] = <<b, i + j>>
  BY DEF Run
<1>2. Len(s) \in Nat /\ (s = <<>> <=> Len(s) = 0)
  OBVIOUS
<1>3. /\ Len(s \o t) = Len(s) + Len(t)
      /\ \A j \in 1..Len(s) : (s \o t)[j] = s[j]
      /\ \A j \in (Len(s) + 1)..(Len(s) + Len(t)) : (s \o t)[j] = t[j - Len(s)]
      /\ Len(t) > 0 => s \o t # <<>>
  BY Joined
<1> HIDE DEF t
<1>4. ASSUME NEW j \in (Len(s) + 1)..(Len(s) + m)
      PROVE  (s \o t)[j] = <<b, i + (j - Len(s))>>
  <2>1. j - Len(s) \in 1..m
    BY <1>2
  <2>2. (s \o t)[j] = t[j - Len(s)]
    BY <1>1, <1>3
  <2> QED
    BY <2>1, <2>2, <1>1
<1>5. /\ Len(s \o t) = Len(s) + m
      /\ \A j \in (Len(s) + 1)..(Len(s) + m) :
           (s \o t)[j] = <<b, i + (j - Len(s))>>
      /\ s \o t # <<>>
  BY <1>1, <1>3, <1>4
<1> QED
  BY <1>2, <1>3, <1>5 DEF t

LEMMA UnitsDelivered ==
  ASSUME Ownership, DeliveredTypeOK, array[bufferId] # 0,
         NEW i \in Nat, NEW m \in Nat \ {0}, i + m <= BlockSize,
         delivered' = delivered \o Units(i, m)
  PROVE  Appended(array[bufferId], i, m)
<1> DEFINE D == (0..NbBlocks) \X (0..BlockSize)
<1>1. Units(i, m) = Run(array[bufferId], i, m)
  BY DEF Units, Run
<1>2. delivered \in Seq(D) /\ Run(array[bufferId], i, m) \in Seq(D)
  BY <1>1, UnitsType DEF DeliveredTypeOK
<1>3. delivered' = delivered \o Run(array[bufferId], i, m)
  BY <1>1
<1> HIDE DEF D
<1> QED
  <2> DEFINE s == delivered
             b == array[bufferId]
             r == s \o Run(b, i, m)
  <2>1. /\ Len(r) = Len(s) + m
        /\ \A j \in 1..Len(s) : r[j] = s[j]
        /\ \A j \in (Len(s) + 1)..(Len(s) + m) :
             r[j] = <<b, i + (j - Len(s))>>
        /\ r # <<>>
        /\ Len(s) \in Nat
        /\ s = <<>> <=> Len(s) = 0
    <3>1. s \in Seq(D) /\ Run(b, i, m) \in Seq(D)
      BY <1>2
    <3> HIDE DEF s, b
    <3> QED
      BY <3>1, RunFollows
  <2>2. delivered' = r
    BY <1>3
  <2> HIDE DEF r
  <2> QED
    BY <2>1, <2>2 DEF Appended

LEMMA DeliveredNext ==
  ASSUME Ownership, base' = base,
         NEW n \in From..(To - 1), NEW i \in Nat, NEW m \in Nat \ {0},
         base + n - 1 <= NbBlocks, i + m <= Length(base + n - 1),
         UpTo(n, i), DeliveredInOrder, Appended(base + n - 1, i, m)
  PROVE  DeliveredInOrder'
<1> DEFINE L == Len(delivered)
           b == base + n - 1
<1>1. /\ base \in Nat \ {0} /\ n \in Nat \ {0} /\ b \in Nat /\ b > 0 /\ b <= NbBlocks
      /\ NbBlocks \in Nat /\ From \in Nat \ {0} /\ To \in Nat
  BY ConstantsAssumption DEF Ownership, ClientTypeOK, RingTypeOK
<1>2. /\ Len(delivered') = L + m
      /\ \A j \in 1..L : delivered'[j] = delivered[j]
      /\ \A j \in (L + 1)..(L + m) : delivered'[j] = <<b, i + (j - L)>>
      /\ delivered' # <<>>
      /\ L \in Nat
      /\ delivered = <<>> <=> L = 0
  BY DEF Appended
<1>11. /\ L > 0 => delivered[1] = <<FirstBlock, 1>>
       /\ \A j \in 1..(L - 1) : delivered[j + 1] = After(delivered[j])
       /\ \A j \in 1..L : delivered[j][1] \in FirstBlock..LastBlock
  BY <1>2 DEF DeliveredInOrder
<1> HIDE DEF L
<1>3. L > 0 => delivered[L] = IF i > 0 THEN <<b, i>> ELSE <<b - 1, Length(b - 1)>>
  <2>1. b - 1 = base + n - 2
    BY <1>1
  <2>2. i = 0 /\ L > 0 => delivered[L] = <<base + n - 2, Length(base + n - 2)>>
    BY <1>1, <1>2 DEF UpTo, L
  <2>3. i > 0 => delivered[L] = <<b, i>>
    BY DEF UpTo, L
  <2> QED
    BY <2>1, <2>2, <2>3
<1>4. L = 0 => i = 0 /\ n = From
  BY <1>1, <1>2 DEF UpTo
<1>5. delivered'[1] = <<FirstBlock, 1>>
  <2>1. CASE L = 0
    BY <2>1, <1>4, <1>1, <1>2 DEF FirstBlock
  <2>2. CASE L > 0
    <3>1. 1 \in 1..L
      BY <2>2, <1>2
    <3> QED
      BY <3>1, <1>2, <1>11
  <2> QED
    BY <2>1, <2>2, <1>2
<1>6. ASSUME NEW j \in 1..(L + m - 1)
      PROVE  delivered'[j + 1] = After(delivered'[j])
  <2>1. CASE j < L
    BY <2>1, <1>2, <1>11
  <2>2. CASE j = L
    <3>0. L + 1 \in (L + 1)..(L + m) /\ (L + 1) - L = 1
      BY <1>2
    <3>1. delivered'[j + 1] = <<b, i + 1>> /\ delivered'[j] = delivered[L]
      BY <3>0, <2>2, <1>2
    <3>2. CASE i > 0
      <4>1. delivered'[j] = <<b, i>> /\ i < Length(b)
        BY <3>1, <3>2, <1>3, <2>2, ConstantsAssumption DEF Length
      <4> QED
        BY <3>1, <4>1 DEF After
    <3>3. CASE i = 0
      <4>1. delivered'[j] = <<b - 1, Length(b - 1)>>
        BY <3>1, <3>3, <1>3, <2>2
      <4>2. After(<<b - 1, Length(b - 1)>>) = <<b - 1 + 1, 1>>
        BY ConstantsAssumption DEF After, Length
      <4> QED
        BY <3>1, <3>3, <4>1, <4>2, <1>1
    <3> QED
      BY <3>2, <3>3
  <2>3. CASE j > L
    <3> DEFINE q == j - L
    <3>1. /\ q \in 1..(m - 1)
          /\ j \in (L + 1)..(L + m) /\ j + 1 \in (L + 1)..(L + m)
          /\ (j + 1) - L = q + 1
      BY <2>3, <1>2
    <3>2. delivered'[j] = <<b, i + q>> /\ delivered'[j + 1] = <<b, (i + q) + 1>>
      BY <3>1, <1>2
    <3> HIDE DEF q
    <3>3. i + q < Length(b)
      BY <3>1, ConstantsAssumption DEF Length
    <3> QED
      BY <3>1, <3>2, <3>3 DEF After
  <2> QED
    BY <2>1, <2>2, <2>3, <1>2
<1>7. b \in FirstBlock..LastBlock
  BY <1>1 DEF FirstBlock, LastBlock
<1>8. ASSUME NEW j \in 1..(L + m)
      PROVE  delivered'[j][1] \in FirstBlock..LastBlock
  <2>1. CASE j <= L
    BY <2>1, <1>2, <1>11
  <2>2. CASE j > L
    <3>1. j \in (L + 1)..(L + m)
      BY <2>2, <1>2
    <3> QED
      BY <3>1, <1>2, <1>7
  <2> QED
    BY <2>1, <2>2, <1>2
<1>9. FirstBlock' = FirstBlock /\ LastBlock' = LastBlock
  BY DEF FirstBlock, LastBlock
<1>10. \A u : After(u)' = After(u)
  BY DEF After
<1> QED
  BY <1>5, <1>6, <1>8, <1>9, <1>10, <1>2 DEF DeliveredInOrder

\* Where the client stands when a buffer has units left.
LEMMA PlaceInBlock ==
  ASSUME Ownership, Ring, Place, Healthy, available > 0
  PROVE  /\ array[bufferId] = base + Front - 1
         /\ array[bufferId] \in 1..NbBlocks
         /\ Front \in From..(To - 1) /\ Front \in Nat \ {0}
         /\ UpTo(Front, index[bufferId])
         /\ index[bufferId] \in Nat /\ available \in Nat \ {0}
         /\ index[bufferId] + available = Length(base + Front - 1)
         /\ Length(base + Front - 1) <= BlockSize
  BY RingNumbers, ConstantsAssumption
  DEF Ownership, ClientTypeOK, RingTypeOK, Place, HoldsFront, Length

\* Where it stands when get() has to submit the slot before it returns.
LEMMA PlaceAtEnd ==
  ASSUME Ownership, Ring, Place, Healthy, mpc = "resubmit", call = "get"
  PROVE  /\ array[bufferId] = base + Front - 1
         /\ array[bufferId] \in 1..NbBlocks
         /\ Front \in From..(To - 1) /\ Front \in Nat \ {0}
         /\ UpTo(Front, index[bufferId] - 1)
         /\ index[bufferId] \in Nat \ {0}
         /\ index[bufferId] = Length(base + Front - 1)
         /\ Length(base + Front - 1) <= BlockSize
  BY RingNumbers, ConstantsAssumption
  DEF Ownership, ClientTypeOK, RingTypeOK, CurrentCollected, Place,
      HoldsFront, Length

LEMMA LastAppended ==
  ASSUME NEW b, NEW i \in Nat, NEW m \in Nat \ {0}, Appended(b, i, m)
  PROVE  /\ delivered' # <<>>
         /\ delivered'[Len(delivered')] = <<b, i + m>>
<1>1. Len(delivered) \in Nat /\ Len(delivered') = Len(delivered) + m
  BY DEF Appended
<1>2. /\ Len(delivered') \in (Len(delivered) + 1)..(Len(delivered) + m)
      /\ Len(delivered') - Len(delivered) = m
  BY <1>1
<1> QED
  BY <1>2 DEF Appended

LEMMA OneDelivered ==
  ASSUME Ownership, DeliveredTypeOK, array[bufferId] # 0,
         NEW i \in Nat, i + 1 <= BlockSize,
         delivered' = delivered \o Units(i, 1)
  PROVE  /\ Appended(array[bufferId], i, 1)
         /\ delivered' # <<>>
         /\ delivered'[Len(delivered')] = <<array[bufferId], i + 1>>
<1> DEFINE m == 1
<1>1. m \in Nat \ {0} /\ i + m <= BlockSize
  OBVIOUS
<1>2. delivered' = delivered \o Units(i, m)
  OBVIOUS
<1>3. /\ Appended(array[bufferId], i, m)
      /\ delivered' # <<>>
      /\ delivered'[Len(delivered')] = <<array[bufferId], i + m>>
  <2> HIDE DEF m
  <2>1. Appended(array[bufferId], i, m)
    BY <1>1, <1>2, UnitsDelivered
  <2> QED
    BY <1>1, <2>1, LastAppended
<1> QED
  BY <1>3

LEMMA PlaceCopy ==
  ASSUME Ownership, Ring, DeliveredTypeOK, Place, Copy, Healthy'
  PROVE  Place'
<1> DEFINE n == IF remaining < available THEN remaining ELSE available
           i == index[bufferId]
           f == Front
<1>1. n \in Nat \ {0} /\ n <= available /\ available > 0
  BY DEF Copy, Ownership, ClientTypeOK, RingTypeOK
<1>2. Healthy
  BY <1>1 DEF Copy, slotVars, Healthy, Open, Stuck
<1>3. /\ i + n <= Length(base + f - 1) /\ i + n <= BlockSize /\ i \in Nat
      /\ f \in From..(To - 1) /\ f \in Nat \ {0}
      /\ array[bufferId] = base + f - 1
      /\ i + available = Length(base + f - 1)
  <2>1. /\ array[bufferId] = base + f - 1
        /\ f \in From..(To - 1) /\ f \in Nat \ {0}
        /\ i \in Nat /\ available \in Nat \ {0}
        /\ i + available = Length(base + f - 1)
        /\ Length(base + f - 1) <= BlockSize
    BY <1>1, <1>2, PlaceInBlock
  <2>2. BlockSize \in Nat /\ n \in Nat /\ n <= available
    BY <1>1, ConstantsAssumption
  <2> HIDE DEF n, i, f
  <2> QED
    BY <2>1, <2>2
<1>4. /\ index'[bufferId] = i + n /\ bufferId' = bufferId /\ base' = base
      /\ array' = array /\ call' = "read" /\ available' = available - n
      /\ mpc' = IF available = n THEN "resubmit" ELSE "read"
      /\ delivered' = delivered \o Units(i, n)
  BY DEF Copy, slotVars, Ownership, RingTypeOK, CallMatchesPlace
<1>5. Front' = f
  BY FrontStays DEF Copy, slotVars
<1>6. Appended(base + f - 1, i, n)
  <2>1. array[bufferId] # 0
    BY <1>1, <1>2, PlaceInBlock
  <2> QED
    BY <2>1, <1>1, <1>3, <1>4, UnitsDelivered
<1>7. /\ delivered' # <<>>
      /\ delivered'[Len(delivered')] = <<base + f - 1, i + n>>
  BY <1>1, <1>3, <1>6, LastAppended
<1>8. Length(base + f - 1)' = Length(base + f - 1)
  BY <1>4, <1>5 DEF Length
<1>9. available \in Nat /\ From \in Nat /\ To \in Nat
  BY ConstantsAssumption DEF Ownership, RingTypeOK
<1> HIDE DEF n, i, f
<1> QED
  BY <1>1, <1>3, <1>4, <1>5, <1>7, <1>8, <1>9 DEF Place, HoldsFront, UpTo,
      Length

LEMMA PlaceGetByte ==
  ASSUME Ownership, Ring, DeliveredTypeOK, Place, GetByte, Healthy'
  PROVE  Place'
<1> DEFINE i == index[bufferId]
           f == Front
<1>1. available > 0 /\ available \in Nat
  BY DEF GetByte, HasByte, Ownership, CallMatchesPlace, RingTypeOK
<1>2. Healthy
  BY <1>1 DEF GetByte, Return, HasByte, slotVars, Healthy, Open, Stuck,
              Ownership, CallMatchesPlace
<1>3. /\ i + 1 <= BlockSize /\ i \in Nat
      /\ f \in From..(To - 1) /\ f \in Nat \ {0}
      /\ array[bufferId] = base + f - 1
      /\ i + available = Length(base + f - 1)
  <2>1. /\ array[bufferId] = base + f - 1
        /\ f \in From..(To - 1) /\ f \in Nat \ {0}
        /\ i \in Nat /\ available \in Nat \ {0}
        /\ i + available = Length(base + f - 1)
        /\ Length(base + f - 1) <= BlockSize
    BY <1>1, <1>2, PlaceInBlock
  <2>2. BlockSize \in Nat
    BY ConstantsAssumption
  <2> HIDE DEF i, f
  <2> QED
    BY <2>1, <2>2
<1>9. UpTo(f, i)
  BY <1>1, <1>2, PlaceInBlock
<1>4. /\ index'[bufferId] = i + 1 /\ bufferId' = bufferId /\ base' = base
      /\ array' = array /\ available' = available - 1
  BY DEF GetByte, slotVars, Ownership, RingTypeOK
<1>5. Front' = f
  BY FrontStays DEF GetByte, slotVars
<1>6. From \in Nat /\ To \in Nat
  BY ConstantsAssumption
<1>7. CASE available = 1
  <2>1. mpc' = "resubmit" /\ call' = "get" /\ delivered' = delivered
    BY <1>7 DEF GetByte
  <2> HIDE DEF i, f
  <2> QED
    BY <2>1, <1>3, <1>4, <1>5, <1>6, <1>7, <1>9 DEF Place, HoldsFront, UpTo,
        Length
<1>8. CASE available # 1
  <2>1. mpc' = "idle" /\ call' = "none" /\ delivered' = delivered \o Units(i, 1)
    BY <1>8 DEF GetByte, Return
  <2>2. array[bufferId] # 0
    BY <1>1, <1>2, PlaceInBlock
  <2>3. /\ delivered' # <<>>
        /\ delivered'[Len(delivered')] = <<array[bufferId], i + 1>>
    BY <1>3, <2>1, <2>2, OneDelivered
  <2> HIDE DEF i, f
  <2>4. UpTo(Front, index[bufferId])'
    <3>1. /\ index'[bufferId'] > 0
          /\ <<array[bufferId], i + 1>> = <<base' + Front' - 1, index'[bufferId']>>
      BY <1>3, <1>4, <1>5
    <3> QED
      BY <2>3, <3>1 DEF UpTo
  <2>5. HoldsFront'
    BY <1>3, <1>4, <1>5 DEF HoldsFront
  <2>6. available' > 0 /\ (i + 1) + available' = Length(base + f - 1)
    BY <1>1, <1>3, <1>4, <1>8
  <2>7. Length(base + Front - 1)' = Length(base + f - 1)
    BY <1>4, <1>5 DEF Length
  <2>8. (index[bufferId] + available)' = Length(base + Front - 1)'
    BY <2>6, <2>7, <1>4
  <2> QED
    BY <2>1, <2>4, <2>5, <2>6, <2>8 DEF Place
<1> QED
  BY <1>7, <1>8

LEMMA PlaceResubmit ==
  ASSUME Ownership, Ring, DeliveredTypeOK, Place, Resubmit, Healthy'
  PROVE  Place'
<1> DEFINE i == index[bufferId]
           f == Front
<1>1. /\ mpc = "resubmit" /\ available' = 0 /\ base' = base
      /\ mpc' \in {"read", "idle"}
      /\ call \in {"read", "get"}
  BY DEF Resubmit, SubmitBlock, Return, Ownership, CallMatchesPlace,
         CurrentCollected
<1>2. Healthy
  BY <1>1 DEF Resubmit, SubmitBlock, Healthy, Open, Stuck
<1>3. Front' = f + 1 /\ f \in Nat \ {0}
  BY RingResubmit, RingNumbers
<1>4. From \in Nat /\ To \in Nat /\ base \in Nat
  BY ConstantsAssumption DEF Ownership, ClientTypeOK
<1>5. base + (f + 1) - 2 = base + f - 1
  BY <1>3, <1>4
<1>6. CASE call = "read"
  <2>1. /\ delivered' = delivered
        /\ UpTo(f, i)
        /\ i \in Nat
        /\ IF i = 0 THEN f < From ELSE f >= From /\ i = Length(base + f - 1)
    BY <1>1, <1>2, <1>6 DEF Resubmit, Place, Ownership, RingTypeOK
  <2> HIDE DEF i, f
  <2>2. CASE i = 0
    BY <2>1, <2>2, <1>1, <1>3, <1>4 DEF Place, UpTo
  <2>3. CASE i # 0
    BY <2>1, <2>3, <1>1, <1>3, <1>4, <1>5 DEF Place, UpTo, Length
  <2> QED
    BY <2>2, <2>3
<1>7. CASE call = "get"
  <2>1. /\ delivered' = delivered \o Units(i - 1, 1)
        /\ i - 1 \in Nat /\ (i - 1) + 1 <= BlockSize /\ (i - 1) + 1 = i
        /\ i = Length(base + f - 1)
        /\ f >= From
        /\ array[bufferId] = base + f - 1 /\ array[bufferId] # 0
    BY <1>1, <1>2, <1>7, PlaceAtEnd DEF Resubmit
  <2>2. /\ delivered' # <<>>
        /\ delivered'[Len(delivered')] = <<array[bufferId], i>>
    <3> DEFINE k == i - 1
    <3>1. /\ k \in Nat /\ k + 1 = i /\ k + 1 <= BlockSize
          /\ delivered' = delivered \o Units(k, 1)
      BY <2>1
    <3> HIDE DEF k
    <3>2. /\ delivered' # <<>>
          /\ delivered'[Len(delivered')] = <<array[bufferId], k + 1>>
      BY <2>1, <3>1, OneDelivered
    <3> QED
      BY <3>1, <3>2
  <2> HIDE DEF i, f
  <2> QED
    BY <2>1, <2>2, <1>1, <1>3, <1>4, <1>5 DEF Place, UpTo, Length
<1> QED
  BY <1>1, <1>6, <1>7

LEMMA PlaceBlock ==
  ASSUME Ownership, Ring, Progress, Place, CollectBlock, Healthy'
  PROVE  Place'
<1> DEFINE b == bufferId
<1>1. /\ mpc \in {"read", "get"} /\ available = 0 /\ b \in Slots
      /\ futures[b] = 1 /\ pc[b] = "over" /\ result[b] = "decoded"
  BY DEF CollectBlock, Collects, MayCollect, NeedsBlock, Wanted, Ownership,
         RingTypeOK
<1>2. Healthy
  BY <1>1 DEF CollectBlock, Collects, Healthy, Open, Stuck
<1>3. Published(b) /\ id[b] = Front
  BY <1>1, <1>2, FrontPublished DEF Failed
<1>4. /\ got[b] = base + Front - 1
      /\ Front \in From..(To - 1)
      /\ array[b] = got[b]
  BY <1>1, <1>3 DEF Published
<1>5. UpTo(Front, 0)
  BY <1>1, <1>2 DEF Place
<1>6. /\ mpc' = mpc /\ base' = base /\ b' = b /\ array' = array
      /\ delivered' = delivered
      /\ index'[b] = 0
      /\ available' = Length(got[b])
  BY DEF CollectBlock, Collects, Ownership, RingTypeOK
<1>7. Front' = Front
  BY FrontStays DEF CollectBlock, Collects
<1>8. Length(got[b]) > 0 /\ Length(got[b]) \in Nat
  BY ConstantsAssumption DEF Length
<1> HIDE DEF b
<1>9. HoldsFront'
  BY <1>4, <1>6, <1>7 DEF HoldsFront, b
<1> QED
  BY <1>1, <1>4, <1>5, <1>6, <1>7, <1>8, <1>9 DEF Place, UpTo, Length, b

LEMMA PlaceSkipped ==
  ASSUME NoByteOfRange, Ownership, Ring, Progress, Place, CollectSkipped,
         Healthy'
  PROVE  Place'
<1> DEFINE b == bufferId
<1>1. /\ mpc \in {"read", "get"} /\ available = 0 /\ b \in Slots
      /\ futures[b] = 1 /\ pc[b] = "over" /\ result[b] = "skipped"
  BY DEF CollectSkipped, Collects, MayCollect, NeedsBlock, Wanted, Ownership,
         RingTypeOK
<1>2. mpc = "read" /\ call = "read"
  BY <1>1 DEF NoByteOfRange, Ownership, SkipsInRange, CallMatchesPlace
<1>3. Healthy
  BY <1>1 DEF CollectSkipped, Collects, Healthy, Open, Stuck
<1>4. Published(b) /\ id[b] = Front
  BY <1>1, <1>3, FrontPublished DEF Failed
<1>5. Front < From
  BY <1>1, <1>4 DEF Published
<1>6. UpTo(Front, 0)
  BY <1>1, <1>2, <1>3 DEF Place
<1>7. /\ mpc' = "resubmit" /\ call' = "read" /\ base' = base /\ b' = b
      /\ delivered' = delivered
      /\ index'[b] = 0
      /\ available' = 0
  BY <1>1, <1>2 DEF CollectSkipped, Collects, Ownership, RingTypeOK
<1>8. Front' = Front
  BY FrontStays DEF CollectSkipped, Collects
<1> HIDE DEF b
<1> QED
  BY <1>5, <1>6, <1>7, <1>8 DEF Place, UpTo, Length, b

LEMMA PlaceKept ==
  ASSUME Place, mpc # "resubmit", mpc' # "resubmit", Healthy' => Healthy,
         UNCHANGED <<submitBlockId, bufferId, delivered, base, available>>,
         available = 0 \/ UNCHANGED <<index, array>>
  PROVE  Place'
<1>1. Front' = Front
  BY FrontStays
<1> QED
  BY <1>1 DEF Place, HoldsFront, UpTo, Length

LEMMA PlaceStart ==
  ASSUME submitBlockId' = 0, bufferId' = 0, delivered' = <<>>,
         available' = 0, mpc' # "resubmit"
  PROVE  Place'
<1>1. Front' = 1
  BY ConstantsAssumption DEF Front, Ahead, Behind
<1>2. 1 <= From
  BY ConstantsAssumption
<1> QED
  BY <1>1, <1>2 DEF Place, UpTo

LEMMA PlaceBoot ==
  ASSUME Ownership, Ring, Place, Boot
  PROVE  Place'
<1>1. Front' = 1 /\ Front = 1
  BY RingBoot, BootFront DEF Boot
<1>2. mpc = "boot" /\ available = 0 /\ mpc' # "resubmit" /\ available' = 0
  BY DEF Boot, Return, Ownership, BootInOrder
<1>3. Healthy' => Healthy
  BY DEF Boot, Healthy, Open, Stuck
<1> QED
  BY <1>1, <1>2, <1>3 DEF Boot, Place, UpTo, Length

LEMMA ClientPlaceNext ==
  ASSUME NoByteOfRange, Ownership, Ring, Untouched, Progress,
         DeliveredTypeOK, Place, ClientCall \/ ClientStep
  PROVE  Place'
<1> SUFFICES ASSUME Healthy' PROVE Place'
  BY DEF Place
<1>1. CASE ReadHeader
  BY <1>1, PlaceStart DEF ReadHeader, Wanted, slotVars, Ownership, FreshRing,
      Healthy, Open, Untouched
<1>2. CASE ReadHeaderFails
  BY <1>2
  DEF ReadHeaderFails, Wanted, Throw, slotVars, Open, Stuck, Ownership,
      FreshRing, RingTypeOK, Healthy
<1>3. CASE Boot
  BY <1>3, PlaceBoot
<1>4. CASE BootFails
  BY <1>4, PlaceKept
  DEF BootFails, SubmitFails, Throw, slotVars, Healthy, Open, Stuck,
      Ownership, CallMatchesPlace, BootInOrder
<1>5. CASE GetOnClosed
  BY <1>5
  DEF GetOnClosed, NeedsBlock, Wanted, Throw, slotVars, Healthy, Open,
      Stuck
<1>6. CASE NoFuture
  BY <1>6
  DEF NoFuture, MayCollect, NeedsBlock, Wanted, Return, slotVars, Healthy,
      Open, Stuck
<1>7. CASE CollectBlock
  BY <1>7, PlaceBlock
<1>8. CASE CollectEnd
  BY <1>8
  DEF CollectEnd, Collects, MayCollect, NeedsBlock, Wanted, Return, Open,
      Stuck, Ownership, RingTypeOK, Healthy
<1>9. CASE CollectError
  BY <1>9
  DEF CollectError, Collects, MayCollect, NeedsBlock, Wanted, Throw, Open,
      Stuck, Ownership, RingTypeOK, Healthy
<1>10. CASE CollectSkipped
  BY <1>10, PlaceSkipped
<1>11. CASE Copy
  BY <1>11, PlaceCopy
<1>12. CASE ReadReturns
  BY <1>12, PlaceKept
  DEF ReadReturns, Return, slotVars, Healthy, Open, Stuck, Ownership,
      CallMatchesPlace, BootInOrder
<1>13. CASE PeekByte
  BY <1>13, PlaceKept
  DEF PeekByte, HasByte, Return, slotVars, Healthy, Open, Stuck, Ownership,
      CallMatchesPlace, BootInOrder
<1>14. CASE GetByte
  BY <1>14, PlaceGetByte
<1>15. CASE Resubmit
  BY <1>15, PlaceResubmit
<1>16. CASE ResubmitSkipped
  BY <1>16
  DEF ResubmitSkipped, SubmitBlock, NextSlot, Ownership, CallMatchesPlace
<1>17. CASE ResubmitFails
  BY <1>17
  DEF ResubmitFails, SubmitFails, Throw, slotVars, Open, Stuck, Ownership,
      CallMatchesPlace, CurrentCollected, Healthy
<1>18. CASE CloseNotifies
  BY <1>18 DEF CloseNotifies, Woken, Healthy, Open, Stuck
<1>19. CASE Drain
  BY <1>19 DEF Drain, Drained, MoreSlots, Healthy, Open, Stuck
<1>20. CASE Release
  BY <1>20 DEF Release, Return, Open, Ownership, CallMatchesPlace, Healthy
<1>21. CASE Reset
  BY <1>21, PlaceStart DEF Reset, ResetRing, Return
<1>22. CASE ResetFails
  BY <1>22, ConstantsAssumption
  DEF ResetFails, ResetRing, Return, Open, Stuck, Ownership, DrainInOrder,
      Healthy, Slots
<1>23. ASSUME NEW n \in ReadSizes, CallRead(n)
      PROVE  Place'
  BY <1>23, PlaceKept DEF CallRead, slotVars, Healthy, Open, Stuck
<1>24. ASSUME NEW f \in {"get", "peek"}, CallGet(f)
      PROVE  Place'
  BY <1>24, PlaceKept DEF CallGet, slotVars, Healthy, Open, Stuck
<1>25. ASSUME NEW b \in 1..(NbBlocks + 1), CallSeek(b)
      PROVE  Place'
  BY <1>25 DEF CallSeek, Healthy, Open
<1>26. ASSUME NEW f \in {"close", "destroy"}, CallClose(f)
      PROVE  Place'
  BY <1>26 DEF CallClose, Healthy, Open
<1> QED
  BY <1>1, <1>2, <1>3, <1>4, <1>5, <1>6, <1>7, <1>8, <1>9, <1>10, <1>11,
     <1>12, <1>13, <1>14, <1>15, <1>16, <1>17, <1>18, <1>19, <1>20, <1>21,
     <1>22, <1>23, <1>24, <1>25, <1>26
  DEF ClientStep, ClientCall

LEMMA PlaceNext ==
  ASSUME NoByteOfRange, Ownership, Ring, Untouched, Progress,
         DeliveredTypeOK, Place, [Next]_vars
  PROVE  Place'
<1>1. CASE UNCHANGED vars
  <2>1. Front' = Front
    BY <1>1, FrontStays DEF vars, clientVars, slotVars
  <2> QED
    BY <1>1, <2>1
    DEF vars, clientVars, slotVars, Place, HoldsFront, UpTo, Length, Healthy,
        Open, Stuck
<1>2. ASSUME NEW k \in Slots, TaskStep(k) PROVE Place'
  <2>1. UNCHANGED <<clientVars, futures, submitBlockId>>
    BY <1>2, TaskFrame DEF Ownership
  <2>2. Front' = Front
    BY <2>1, FrontStays DEF clientVars
  <2>3. Healthy' <=> Healthy
    BY <2>1 DEF Healthy, Open, Stuck, clientVars
  <2>4. available > 0 \/ mpc = "resubmit" => array'[bufferId] = array[bufferId]
    <3>1. available > 0 \/ mpc = "resubmit" => futures[bufferId] = 0
      BY DEF Ownership, CurrentCollected
    <3>2. futures[k] = 1
      BY <1>2, TaskHasFuture
    <3> QED
      BY <1>2, <3>1, <3>2, TaskFrame DEF Ownership, RingTypeOK
  <2> QED
    BY <2>1, <2>2, <2>3, <2>4
    DEF clientVars, Place, HoldsFront, UpTo, Length, Ownership, RingTypeOK
<1> QED
  BY <1>1, <1>2, ClientPlaceNext DEF Next, Terminated

-----------------------------------------------------------------------------
(* The units arrive in order.                                              *)

\* What the client can still take is what the invariants speak of.
LEMMA ServesOnlyHealthy ==
  ASSUME Ownership, AfterClose, Copy \/ GetByte \/ Resubmit
  PROVE  Healthy \/ (Resubmit /\ call = "read")
  BY DEF Copy, GetByte, Resubmit, HasByte, Ownership, CallMatchesPlace,
         FreshRing, AfterClose, ClientTypeOK, RingTypeOK, Healthy, Open, Stuck

LEMMA InOrderNext ==
  ASSUME NoByteOfRange, Ownership, Ring, AfterClose, DeliveredTypeOK, Place,
         DeliveredInOrder, [Next]_vars
  PROVE  DeliveredInOrder'
<1>0. ASSUME UNCHANGED <<delivered, base>> PROVE DeliveredInOrder'
  BY <1>0 DEF DeliveredInOrder, FirstBlock, LastBlock, After, Length
<1>1. CASE Copy
  <2> DEFINE n == IF remaining < available THEN remaining ELSE available
             i == index[bufferId]
             f == Front
  <2>1. n \in Nat \ {0} /\ n <= available /\ available > 0
    BY <1>1 DEF Copy, Ownership, ClientTypeOK, RingTypeOK
  <2>2. Healthy
    BY <1>1, ServesOnlyHealthy DEF Copy, Resubmit
  <2>3. /\ array[bufferId] = base + f - 1 /\ array[bufferId] \in 1..NbBlocks
        /\ f \in From..(To - 1)
        /\ i \in Nat /\ available \in Nat \ {0}
        /\ i + available = Length(base + f - 1)
        /\ Length(base + f - 1) <= BlockSize
    BY <2>1, <2>2, PlaceInBlock
  <2>4. UpTo(f, i)
    BY <2>1, <2>2, PlaceInBlock
  <2>5. delivered' = delivered \o Units(i, n) /\ base' = base
    BY <1>1 DEF Copy
  <2>6. BlockSize \in Nat /\ NbBlocks \in Nat
    BY ConstantsAssumption
  <2> HIDE DEF n, i, f
  <2>7. /\ i + n <= Length(base + f - 1) /\ i + n <= BlockSize
        /\ base + f - 1 <= NbBlocks /\ array[bufferId] # 0
    BY <2>1, <2>3, <2>6
  <2>8. Appended(base + f - 1, i, n)
    BY <2>1, <2>3, <2>5, <2>7, UnitsDelivered
  <2> QED
    BY <2>1, <2>3, <2>4, <2>5, <2>7, <2>8, DeliveredNext
<1>2. ASSUME GetByte, available # 1 PROVE DeliveredInOrder'
  <2> DEFINE i == index[bufferId]
             f == Front
             n == 1
  <2>1. available > 0
    BY <1>2 DEF GetByte, HasByte, Ownership, CallMatchesPlace, RingTypeOK
  <2>2. Healthy
    BY <1>2, ServesOnlyHealthy DEF GetByte, Resubmit, HasByte, Ownership,
       CallMatchesPlace
  <2>3. /\ array[bufferId] = base + f - 1 /\ array[bufferId] \in 1..NbBlocks
        /\ f \in From..(To - 1)
        /\ i \in Nat /\ available \in Nat \ {0}
        /\ i + available = Length(base + f - 1)
        /\ Length(base + f - 1) <= BlockSize
    BY <2>1, <2>2, PlaceInBlock
  <2>4. UpTo(f, i)
    BY <2>1, <2>2, PlaceInBlock
  <2>5. delivered' = delivered \o Units(i, n) /\ base' = base
    BY <1>2 DEF GetByte
  <2>6. BlockSize \in Nat /\ NbBlocks \in Nat /\ n \in Nat \ {0} /\ n = 1
    BY ConstantsAssumption
  <2> HIDE DEF n, i, f
  <2>7. /\ i + n <= Length(base + f - 1) /\ i + n <= BlockSize
        /\ base + f - 1 <= NbBlocks /\ array[bufferId] # 0
    BY <2>1, <2>3, <2>6
  <2>8. Appended(base + f - 1, i, n)
    BY <2>3, <2>5, <2>6, <2>7, UnitsDelivered
  <2> QED
    BY <2>3, <2>4, <2>5, <2>6, <2>7, <2>8, DeliveredNext
<1>3. ASSUME Resubmit, call # "read" PROVE DeliveredInOrder'
  <2> DEFINE i == index[bufferId] - 1
             f == Front
             n == 1
  <2>1. mpc = "resubmit" /\ call = "get"
    BY <1>3 DEF Resubmit, Ownership, CallMatchesPlace
  <2>2. Healthy
    BY <1>3, ServesOnlyHealthy
  <2>3. /\ array[bufferId] = base + f - 1 /\ array[bufferId] \in 1..NbBlocks
        /\ f \in From..(To - 1)
        /\ i \in Nat
        /\ i + 1 = Length(base + f - 1)
        /\ Length(base + f - 1) <= BlockSize
    BY <2>1, <2>2, PlaceAtEnd
  <2>4. UpTo(f, i)
    BY <2>1, <2>2, PlaceAtEnd
  <2>5. delivered' = delivered \o Units(i, n) /\ base' = base
    BY <1>3 DEF Resubmit
  <2>6. BlockSize \in Nat /\ NbBlocks \in Nat /\ n \in Nat \ {0} /\ n = 1
    BY ConstantsAssumption
  <2> HIDE DEF n, i, f
  <2>7. /\ i + n <= Length(base + f - 1) /\ i + n <= BlockSize
        /\ base + f - 1 <= NbBlocks /\ array[bufferId] # 0
    BY <2>3, <2>6
  <2>8. Appended(base + f - 1, i, n)
    BY <2>3, <2>5, <2>6, <2>7, UnitsDelivered
  <2> QED
    BY <2>3, <2>4, <2>5, <2>6, <2>7, <2>8, DeliveredNext
<1>4. CASE Reset
  BY <1>4 DEF Reset, DeliveredInOrder
<1>5. CASE \/ (ClientCall \/ ClientStep) /\ ~Copy /\ ~GetByte /\ ~Resubmit /\ ~Reset
           \/ GetByte /\ available = 1
           \/ Resubmit /\ call = "read"
  <2>1. UNCHANGED <<delivered, base>>
    BY <1>5
    DEF ClientCall, ClientStep, CallRead, CallGet, CallSeek, CallClose,
        ReadHeader, ReadHeaderFails, Boot, BootFails, SubmitFails,
        GetOnClosed, NoFuture, CollectBlock, CollectEnd, CollectError,
        CollectSkipped, ReadReturns, PeekByte, ResubmitSkipped,
        ResubmitFails, CloseNotifies, Drain, Release, ResetFails, GetByte,
        Resubmit
  <2> QED
    BY <2>1, <1>0
<1>6. ASSUME NEW k \in Slots, TaskStep(k) PROVE DeliveredInOrder'
  BY <1>6, <1>0, TaskFrame DEF Ownership, clientVars
<1>7. CASE UNCHANGED vars
  BY <1>7, <1>0 DEF vars, clientVars
<1> QED
  BY <1>1, <1>2, <1>3, <1>4, <1>5, <1>6, <1>7 DEF Next, Terminated

-----------------------------------------------------------------------------
(* The end of the stream.                                                  *)

\* While there is something to wait for the end has not been announced.
NoEof == Healthy => "eof" \notin iostate

\* Unless a call has failed, every slot but the client's has a task.
FullRing ==
  Healthy /\ reported = {} =>
    \A s \in Slots :
      (IF mpc = "boot" THEN s < count ELSE s # bufferId) => futures[s] = 1

\* Unless a call has failed, the client only stops at the end.
EndReached == Open /\ Stuck /\ reported = {} => AllDelivered

Ended == NoEof /\ FullRing /\ EndReached

\* The result that is taken for the end is that of the task at the end.
LEMMA EndIsEnd ==
  ASSUME Ownership, Ring, Progress, Place, DeliveredTypeOK, DeliveredInOrder,
         CollectEnd, closed = 0
  PROVE  AllDelivered
<1> DEFINE b == bufferId
           f == Front
           d == delivered
<1>1. /\ mpc \in {"read", "get"} /\ available = 0 /\ b \in Slots
      /\ futures[b] = 1 /\ pc[b] = "over" /\ result[b] \in {"end", "canceled"}
      /\ initialized = 1
  BY DEF CollectEnd, Collects, MayCollect, NeedsBlock, Wanted, Ownership,
         RingTypeOK
<1>2. Healthy
  BY <1>1 DEF Healthy, Open, Stuck
<1>3. /\ base \in Nat \ {0} /\ NbBlocks \in Nat /\ base <= NbBlocks + 1
      /\ f \in Nat \ {0} /\ From \in Nat \ {0} /\ To \in Nat \ {0}
  BY ConstantsAssumption, RingNumbers DEF Ownership, ClientTypeOK
<1>4. IF f <= From THEN d = <<>>
      ELSE d # <<>> /\ d[Len(d)] = <<base + f - 2, Length(base + f - 2)>>
  BY <1>1, <1>2 DEF Place, UpTo
<1>5. d # <<>> => d[Len(d)][1] \in FirstBlock..LastBlock
  <2>1. d # <<>> => Len(d) \in 1..Len(d)
    BY DEF DeliveredTypeOK
  <2> QED
    BY <2>1 DEF DeliveredInOrder
<1>6. base + f - 1 = NbBlocks + 1 \/ (f >= From /\ f >= To)
  <2>1. id[b] = f
    BY <1>1, FrontIs DEF Ring
  <2>2. CASE ~Failed(b)
    <3>1. Published(b)
      BY <1>1, <1>2, <2>2, FrontPublished
    <3>2. f >= From /\ f >= To
      BY <1>1, <2>1, <3>1 DEF Published
    <3> QED
      BY <3>2
  <2>3. CASE Failed(b)
    <3>1. FailsFirst(b)
      BY <1>1, <1>2, <2>3, FrontFailsFirst
    <3>2. result[b] = "end"
      BY <1>1, <3>1 DEF FailsFirst
    <3> QED
      BY <2>1, <3>1, <3>2 DEF FailsFirst
  <2> QED
    BY <2>2, <2>3
<1> HIDE DEF f, d, b
<1>7. LastBlock = IF NbBlocks < base + To - 2 THEN NbBlocks ELSE base + To - 2
  BY DEF LastBlock
<1>8. FirstBlock = base + From - 1
  BY DEF FirstBlock
<1>9. CASE f <= From
  <2>1. LastBlock < FirstBlock
    BY <1>3, <1>6, <1>7, <1>8, <1>9
  <2> QED
    BY <2>1, <1>4, <1>9 DEF AllDelivered, d
<1>10. CASE f > From
  <2>1. d # <<>> /\ d[Len(d)] = <<base + f - 2, Length(base + f - 2)>>
    BY <1>3, <1>4, <1>10
  <2>2. base + f - 2 \in FirstBlock..LastBlock
    BY <1>5, <2>1
  <2>3. base + f - 2 = LastBlock
    BY <1>3, <1>6, <1>7, <1>8, <2>2
  <2> QED
    BY <2>1, <2>3 DEF AllDelivered, d
<1> QED
  BY <1>3, <1>9, <1>10

LEMMA NoEofClient ==
  ASSUME Ownership, Untouched, NoEof, ClientCall \/ ClientStep
  PROVE  NoEof'
<1> USE DEF NoEof, Healthy, Open, Stuck, Ownership, RingTypeOK, ClientTypeOK,
    CallMatchesPlace
<1>1. CASE ReadHeader
  BY <1>1 DEF ReadHeader, Wanted, slotVars, Untouched
<1>2. CASE ReadHeaderFails
  BY <1>2 DEF ReadHeaderFails, Wanted, Throw, slotVars, FreshRing
<1>3. CASE Boot
  BY <1>3 DEF Boot, SubmitBlock, MoreSlots, Return, BootInOrder
<1>4. CASE BootFails
  BY <1>4 DEF BootFails, SubmitFails, Throw, slotVars, BootInOrder
<1>5. CASE GetOnClosed
  BY <1>5 DEF GetOnClosed, NeedsBlock, Wanted, Throw, slotVars
<1>6. CASE NoFuture
  BY <1>6 DEF NoFuture, MayCollect, NeedsBlock, Wanted, Return, slotVars
<1>7. CASE CollectBlock
  BY <1>7 DEF CollectBlock, Collects, MayCollect, NeedsBlock, Wanted
<1>8. CASE CollectEnd
  BY <1>8 DEF CollectEnd, Collects, MayCollect, NeedsBlock, Wanted, Return
<1>9. CASE CollectError
  BY <1>9 DEF CollectError, Collects, MayCollect, NeedsBlock, Wanted, Throw
<1>10. CASE CollectSkipped
  BY <1>10 DEF CollectSkipped, Collects, MayCollect, NeedsBlock, Wanted
<1>11. CASE Copy
  BY <1>11 DEF Copy, slotVars
<1>12. CASE ReadReturns
  BY <1>12 DEF ReadReturns, Return, slotVars
<1>13. CASE PeekByte
  BY <1>13 DEF PeekByte, HasByte, Return, slotVars
<1>14. CASE GetByte
  BY <1>14 DEF GetByte, HasByte, Return, slotVars
<1>15. CASE Resubmit
  BY <1>15 DEF Resubmit, SubmitBlock, NextSlot, Return, CurrentCollected
<1>16. CASE ResubmitSkipped
  BY <1>16 DEF ResubmitSkipped, SubmitBlock, NextSlot
<1>17. CASE ResubmitFails
  BY <1>17 DEF ResubmitFails, SubmitFails, Throw, slotVars, CurrentCollected
<1>18. CASE CloseNotifies
  BY <1>18 DEF CloseNotifies, Woken
<1>19. CASE Drain
  BY <1>19 DEF Drain, Drained, MoreSlots
<1>20. CASE Release
  BY <1>20 DEF Release, Return
<1>21. CASE Reset
  BY <1>21 DEF Reset, ResetRing, Return
<1>22. CASE ResetFails
  BY <1>22, ConstantsAssumption
  DEF ResetFails, ResetRing, Return, DrainInOrder, Slots
<1>23. ASSUME NEW n \in ReadSizes, CallRead(n)
      PROVE  NoEof'
  BY <1>23 DEF CallRead, slotVars
<1>24. ASSUME NEW f \in {"get", "peek"}, CallGet(f)
      PROVE  NoEof'
  BY <1>24 DEF CallGet, slotVars
<1>25. ASSUME NEW b \in 1..(NbBlocks + 1), CallSeek(b)
      PROVE  NoEof'
  BY <1>25 DEF CallSeek, slotVars
<1>26. ASSUME NEW f \in {"close", "destroy"}, CallClose(f)
      PROVE  NoEof'
  BY <1>26 DEF CallClose, slotVars
<1> QED
  BY <1>1, <1>2, <1>3, <1>4, <1>5, <1>6, <1>7, <1>8, <1>9, <1>10, <1>11,
     <1>12, <1>13, <1>14, <1>15, <1>16, <1>17, <1>18, <1>19, <1>20, <1>21,
     <1>22, <1>23, <1>24, <1>25, <1>26
  DEF ClientStep, ClientCall

LEMMA RingFullClient ==
  ASSUME Ownership, FullRing, ClientCall \/ ClientStep
  PROVE  FullRing'
<1> USE DEF FullRing, Healthy, Open, Stuck, Ownership, RingTypeOK,
    ClientTypeOK, CallMatchesPlace
<1>1. CASE ReadHeader
  BY <1>1 DEF ReadHeader, Wanted, slotVars, Slots
<1>2. CASE ReadHeaderFails
  BY <1>2 DEF ReadHeaderFails, Wanted, Throw, slotVars, FreshRing
<1>3. CASE Boot
  <2>1. /\ count \in 0..(Jobs - 1) /\ Jobs \in Nat
        /\ futures' = [futures EXCEPT ![count] = 1]
        /\ IF count + 1 < Jobs THEN count' = count + 1 /\ mpc' = "boot"
                               ELSE mpc' # "boot"
        /\ reported' = reported /\ mpc = "boot"
    BY <1>3, ConstantsAssumption
    DEF Boot, SubmitBlock, MoreSlots, Return, Ownership, ClientTypeOK, Slots
  <2>2. Healthy' => Healthy
    BY <1>3 DEF Boot, Healthy, Open, Stuck
  <2>3. futures \in [Slots -> {0, 1}] /\ Slots = 0..(Jobs - 1)
    BY DEF Ownership, RingTypeOK, Slots
  <2> QED
    BY <2>1, <2>2, <2>3 DEF FullRing
<1>4. CASE BootFails
  BY <1>4 DEF BootFails, SubmitFails, Throw, slotVars, BootInOrder
<1>5. CASE GetOnClosed
  BY <1>5 DEF GetOnClosed, NeedsBlock, Wanted, Throw, slotVars
<1>6. CASE NoFuture
  BY <1>6 DEF NoFuture, MayCollect, NeedsBlock, Wanted, Return, slotVars
<1>7. CASE CollectBlock
  BY <1>7 DEF CollectBlock, Collects, MayCollect, NeedsBlock, Wanted
<1>8. CASE CollectEnd
  BY <1>8 DEF CollectEnd, Collects, MayCollect, NeedsBlock, Wanted, Return
<1>9. CASE CollectError
  BY <1>9 DEF CollectError, Collects, MayCollect, NeedsBlock, Wanted, Throw
<1>10. CASE CollectSkipped
  BY <1>10 DEF CollectSkipped, Collects, MayCollect, NeedsBlock, Wanted
<1>11. CASE Copy
  BY <1>11 DEF Copy, slotVars
<1>12. CASE ReadReturns
  BY <1>12 DEF ReadReturns, Return, slotVars
<1>13. CASE PeekByte
  BY <1>13 DEF PeekByte, HasByte, Return, slotVars
<1>14. CASE GetByte
  BY <1>14 DEF GetByte, HasByte, Return, slotVars
<1>15. CASE Resubmit
  <2>1. /\ futures' = [futures EXCEPT ![bufferId] = 1]
        /\ mpc' # "boot" /\ mpc # "boot" /\ reported' = reported
    BY <1>15 DEF Resubmit, SubmitBlock, Return
  <2>2. Healthy' => Healthy
    BY <1>15 DEF Resubmit, Healthy, Open, Stuck
  <2>3. futures \in [Slots -> {0, 1}] /\ bufferId \in Slots
    BY DEF Ownership, RingTypeOK
  <2> QED
    BY <2>1, <2>2, <2>3 DEF FullRing, Slots
<1>16. CASE ResubmitSkipped
  BY <1>16 DEF ResubmitSkipped, SubmitBlock, NextSlot
<1>17. CASE ResubmitFails
  BY <1>17 DEF ResubmitFails, SubmitFails, Throw, slotVars, CurrentCollected
<1>18. CASE CloseNotifies
  BY <1>18 DEF CloseNotifies, Woken
<1>19. CASE Drain
  BY <1>19 DEF Drain, Drained, MoreSlots
<1>20. CASE Release
  BY <1>20 DEF Release, Return
<1>21. CASE Reset
  BY <1>21 DEF Reset, ResetRing, Return, Slots
<1>22. CASE ResetFails
  BY <1>22, ConstantsAssumption
  DEF ResetFails, ResetRing, Return, DrainInOrder, Slots
<1>23. ASSUME NEW n \in ReadSizes, CallRead(n)
      PROVE  FullRing'
  BY <1>23 DEF CallRead, slotVars
<1>24. ASSUME NEW f \in {"get", "peek"}, CallGet(f)
      PROVE  FullRing'
  BY <1>24 DEF CallGet, slotVars
<1>25. ASSUME NEW b \in 1..(NbBlocks + 1), CallSeek(b)
      PROVE  FullRing'
  BY <1>25 DEF CallSeek, slotVars
<1>26. ASSUME NEW f \in {"close", "destroy"}, CallClose(f)
      PROVE  FullRing'
  BY <1>26 DEF CallClose, slotVars
<1> QED
  BY <1>1, <1>2, <1>3, <1>4, <1>5, <1>6, <1>7, <1>8, <1>9, <1>10, <1>11,
     <1>12, <1>13, <1>14, <1>15, <1>16, <1>17, <1>18, <1>19, <1>20, <1>21,
     <1>22, <1>23, <1>24, <1>25, <1>26
  DEF ClientStep, ClientCall

LEMMA EndReachedClient ==
  ASSUME NoByteOfRange, Ownership, Ring, Progress, Place, DeliveredTypeOK,
         DeliveredInOrder, FullRing, EndReached, ClientCall \/ ClientStep
  PROVE  EndReached'
<1>0. ASSUME UNCHANGED <<delivered, base>>, AllDelivered PROVE AllDelivered'
  BY <1>0 DEF AllDelivered, LastBlock, FirstBlock, Length
<1> USE DEF EndReached, Open, Stuck, Ownership, RingTypeOK, ClientTypeOK,
    CallMatchesPlace
<1>1. CASE ReadHeader
  BY <1>1 DEF ReadHeader, Wanted, slotVars
<1>2. CASE ReadHeaderFails
  BY <1>2 DEF ReadHeaderFails, Wanted, Throw, slotVars, FreshRing
<1>3. CASE Boot
  <2> SUFFICES ASSUME Open', Stuck', reported' = {} PROVE FALSE
    OBVIOUS
  <2>1. /\ count \in 0..(Jobs - 1) /\ Jobs \in Nat
        /\ futures' = [futures EXCEPT ![count] = 1]
        /\ mpc = "boot" /\ bufferId = 0 /\ bufferId' = 0
        /\ reported' = reported
        /\ count + 1 < Jobs => mpc' = "boot"
    BY <1>3, ConstantsAssumption
    DEF Boot, SubmitBlock, MoreSlots, BootInOrder, Slots
  <2>2. count = Jobs - 1
    BY <2>1
  <2>3. Healthy
    BY <1>3 DEF Boot, Healthy
  <2>4. count # 0 => futures[0] = 1
    BY <2>1, <2>3 DEF FullRing, Slots
  <2> QED
    BY <2>1, <2>2, <2>4 DEF Slots
<1>4. CASE BootFails
  BY <1>4 DEF BootFails, SubmitFails, Throw, slotVars, BootInOrder
<1>5. CASE GetOnClosed
  BY <1>5, <1>0 DEF GetOnClosed, NeedsBlock, Wanted, Throw, slotVars
<1>6. CASE NoFuture
  BY <1>6, <1>0 DEF NoFuture, MayCollect, NeedsBlock, Wanted, Return, slotVars
<1>7. CASE CollectBlock
  BY <1>7, ConstantsAssumption
  DEF CollectBlock, Collects, MayCollect, NeedsBlock, Wanted, Length
<1>8. CASE CollectEnd
  <2>1. closed' = closed /\ UNCHANGED <<delivered, base>>
    BY <1>8 DEF CollectEnd, Collects
  <2> QED
    BY <1>8, <2>1, <1>0, EndIsEnd
<1>9. CASE CollectError
  BY <1>9 DEF CollectError, Collects, MayCollect, NeedsBlock, Wanted, Throw
<1>10. CASE CollectSkipped
  BY <1>10 DEF CollectSkipped, Collects, MayCollect, NeedsBlock, Wanted
<1>11. CASE Copy
  BY <1>11, <1>0 DEF Copy, slotVars, Slots
<1>12. CASE ReadReturns
  BY <1>12, <1>0 DEF ReadReturns, Return, slotVars
<1>13. CASE PeekByte
  BY <1>13, <1>0 DEF PeekByte, HasByte, Return, slotVars
<1>14. CASE GetByte
  BY <1>14, <1>0 DEF GetByte, HasByte, Return, slotVars, HasByte
<1>15. CASE Resubmit
  <2> SUFFICES ASSUME Open', Stuck', reported' = {} PROVE FALSE
    OBVIOUS
  <2>1. bufferId' \in Slots /\ futures'[bufferId'] = 0
    BY <1>15, NextSlotInSlots DEF Resubmit, NextSlot
  <2>2. futures' = [futures EXCEPT ![bufferId] = 1] /\ reported = {}
    BY <1>15 DEF Resubmit, SubmitBlock
  <2>3. bufferId' # bufferId /\ futures[bufferId'] = 0
    BY <2>1, <2>2
  <2>4. Healthy /\ mpc # "boot"
    BY <1>15 DEF Resubmit, SubmitBlock, Healthy
  <2> QED
    BY <2>1, <2>2, <2>3, <2>4 DEF FullRing
<1>16. CASE ResubmitSkipped
  BY <1>16 DEF ResubmitSkipped, SubmitBlock, NextSlot
<1>17. CASE ResubmitFails
  BY <1>17 DEF ResubmitFails, SubmitFails, Throw, slotVars, CurrentCollected
<1>18. CASE CloseNotifies
  BY <1>18 DEF CloseNotifies, Woken
<1>19. CASE Drain
  BY <1>19 DEF Drain, Drained, MoreSlots
<1>20. CASE Release
  BY <1>20 DEF Release, Return
<1>21. CASE Reset
  BY <1>21 DEF Reset, ResetRing, Return
<1>22. CASE ResetFails
  BY <1>22 DEF ResetFails, ResetRing, Return, DrainInOrder, Slots
<1>23. ASSUME NEW n \in ReadSizes, CallRead(n)
      PROVE  EndReached'
  BY <1>23, <1>0 DEF CallRead, slotVars
<1>24. ASSUME NEW f \in {"get", "peek"}, CallGet(f)
      PROVE  EndReached'
  BY <1>24, <1>0 DEF CallGet, slotVars
<1>25. ASSUME NEW b \in 1..(NbBlocks + 1), CallSeek(b)
      PROVE  EndReached'
  BY <1>25 DEF CallSeek, slotVars
<1>26. ASSUME NEW f \in {"close", "destroy"}, CallClose(f)
      PROVE  EndReached'
  BY <1>26 DEF CallClose, slotVars
<1> QED
  BY <1>1, <1>2, <1>3, <1>4, <1>5, <1>6, <1>7, <1>8, <1>9, <1>10, <1>11,
     <1>12, <1>13, <1>14, <1>15, <1>16, <1>17, <1>18, <1>19, <1>20, <1>21,
     <1>22, <1>23, <1>24, <1>25, <1>26
  DEF ClientStep, ClientCall

LEMMA EndedNext ==
  ASSUME NoByteOfRange, Ownership, Ring, Untouched, Progress, Place,
         DeliveredTypeOK, DeliveredInOrder, Ended, [Next]_vars
  PROVE  Ended'
<1>1. CASE ClientCall \/ ClientStep
  BY <1>1, NoEofClient, RingFullClient, EndReachedClient DEF Ended
<1>2. ASSUME UNCHANGED <<clientVars, futures>> PROVE Ended'
  BY <1>2
  DEF clientVars, Ended, NoEof, FullRing, EndReached, Healthy, Open, Stuck,
      AllDelivered, LastBlock, FirstBlock, Length, Slots
<1>3. ASSUME NEW k \in Slots, TaskStep(k) PROVE Ended'
  BY <1>2, <1>3, TaskFrame DEF Ownership
<1>4. CASE UNCHANGED vars
  BY <1>2, <1>4 DEF vars, slotVars
<1> QED
  BY <1>1, <1>3, <1>4 DEF Next, Terminated

LEMMA EofClient ==
  ASSUME Ownership, AfterClose, Ended, Ended', EofMeansEnd,
         ClientCall \/ ClientStep
  PROVE  EofMeansEnd'
<1> SUFFICES ASSUME "eof" \in iostate', reported' = {}, closed' = 0
             PROVE  AllDelivered'
  BY DEF EofMeansEnd
<1>1. CASE Copy \/ GetByte \/ (Resubmit /\ call # "read")
  <2>1. Healthy
    BY <1>1, ServesOnlyHealthy
    DEF Copy, GetByte, HasByte, Resubmit, Ownership, CallMatchesPlace
  <2>2. iostate' = iostate
    BY <1>1 DEF Copy, GetByte, Resubmit
  <2> QED
    BY <2>1, <2>2 DEF Ended, NoEof
<1>2. CASE CollectEnd \/ NoFuture
  <2>1. Open' /\ Stuck'
    BY <1>2
    DEF CollectEnd, NoFuture, Collects, MayCollect, NeedsBlock, Wanted,
        Return, slotVars, Open, Stuck, Ownership, RingTypeOK
  <2> QED
    BY <2>1 DEF Ended, EndReached
<1>3. CASE Reset
  BY <1>3 DEF Reset
<1>4. CASE \/ Resubmit /\ call = "read"
           \/ /\ ClientCall \/ ClientStep
              /\ ~Copy /\ ~GetByte /\ ~Resubmit /\ ~CollectEnd /\ ~NoFuture
              /\ ~Reset
  <2>1. /\ UNCHANGED <<delivered, base>>
        /\ "eof" \in iostate /\ reported = {} /\ closed = 0
    BY <1>4
    DEF ClientCall, ClientStep, CallRead, CallGet, CallSeek, CallClose,
        ReadHeader, ReadHeaderFails, Boot, BootFails, SubmitFails, Throw,
        GetOnClosed, CollectBlock, CollectError, CollectSkipped,
        ReadReturns, PeekByte, ResubmitSkipped, ResubmitFails,
        CloseNotifies, Drain, Release, ResetFails, Resubmit
  <2> QED
    BY <2>1
    DEF EofMeansEnd, AllDelivered, LastBlock, FirstBlock, Length
<1> QED
  BY <1>1, <1>2, <1>3, <1>4

LEMMA EofNext ==
  ASSUME Ownership, AfterClose, Ended, Ended', EofMeansEnd, [Next]_vars
  PROVE  EofMeansEnd'
<1>1. CASE ClientCall \/ ClientStep
  BY <1>1, EofClient
<1>2. ASSUME UNCHANGED clientVars PROVE EofMeansEnd'
  BY <1>2
  DEF clientVars, EofMeansEnd, AllDelivered, LastBlock, FirstBlock, Length
<1>3. ASSUME NEW k \in Slots, TaskStep(k) PROVE EofMeansEnd'
  BY <1>2, <1>3, TaskFrame DEF Ownership
<1>4. CASE UNCHANGED vars
  BY <1>2, <1>4 DEF vars
<1> QED
  BY <1>1, <1>3, <1>4 DEF Next, Terminated

-----------------------------------------------------------------------------
(* Calls fail because a step has failed.                                   *)

\* seek() leaves a stream whose header has not been read behind that header.
HeaderInPlace == Headless \/ "seek" \notin Calls

LEMMA NoErrorOnOpen ==
  ASSUME Ownership, Ring, Progress, FaultPoints = {}, closed = 0
  PROVE  ~Collects("error")
<1> SUFFICES ASSUME Collects("error") PROVE FALSE
  OBVIOUS
<1> DEFINE b == bufferId
<1>1. /\ mpc \in {"read", "get"} /\ available = 0 /\ b \in Slots
      /\ futures[b] = 1 /\ pc[b] = "over" /\ result[b] = "error"
      /\ initialized = 1
  BY DEF Collects, MayCollect, NeedsBlock, Wanted, Ownership, RingTypeOK
<1>2. Healthy /\ Failed(b)
  BY <1>1 DEF Healthy, Open, Stuck, Failed
<1>3. FailsFirst(b)
  BY <1>1, <1>2, FrontFailsFirst
<1> QED
  BY <1>1, <1>3 DEF FailsFirst

LEMMA FailsClient ==
  ASSUME HeaderInPlace, Ownership, Ring, Untouched, Progress,
         FailsOnlyOnFault, ClientCall \/ ClientStep
  PROVE  FailsOnlyOnFault'
<1> SUFFICES ASSUME FaultPoints = {}, closed' = 0 PROVE reported' = {}
  BY DEF FailsOnlyOnFault
<1>1. closed = 0
  BY DEF ClientCall, ClientStep, CallRead, CallGet, CallSeek, CallClose,
        ReadHeader, ReadHeaderFails, Boot, BootFails, SubmitFails, Throw,
        GetOnClosed, NoFuture, CollectBlock, CollectEnd, CollectError,
        CollectSkipped, Copy, ReadReturns, PeekByte, GetByte,
        Resubmit, ResubmitSkipped, ResubmitFails,
        CloseNotifies, Drain, Release, Reset, ResetRing, ResetFails
<1>2. reported = {}
  BY <1>1 DEF FailsOnlyOnFault
<1>3. ~ReadHeaderFails
  BY <1>1 DEF ReadHeaderFails, HeaderReadable, HeaderInPlace, Untouched
<1>4. ~CollectError
  BY <1>1, NoErrorOnOpen DEF CollectError
<1> QED
  BY <1>1, <1>2, <1>3, <1>4
  DEF ClientCall, ClientStep, CallRead, CallGet, CallSeek, CallClose,
        ReadHeader, Boot, BootFails, SubmitFails,
        GetOnClosed, NoFuture, CollectBlock, CollectEnd,
        CollectSkipped, Copy, ReadReturns, PeekByte, GetByte,
        Resubmit, ResubmitSkipped, ResubmitFails,
        CloseNotifies, Drain, Release, Reset, ResetFails

LEMMA FailsNext ==
  ASSUME HeaderInPlace, Ownership, Ring, Untouched, Progress,
         FailsOnlyOnFault, [Next]_vars
  PROVE  FailsOnlyOnFault'
<1>1. CASE ClientCall \/ ClientStep
  BY <1>1, FailsClient
<1>2. ASSUME UNCHANGED clientVars PROVE FailsOnlyOnFault'
  BY <1>2 DEF clientVars, FailsOnlyOnFault
<1>3. ASSUME NEW k \in Slots, TaskStep(k) PROVE FailsOnlyOnFault'
  BY <1>2, <1>3, TaskFrame DEF Ownership
<1>4. CASE UNCHANGED vars
  BY <1>2, <1>4 DEF vars
<1> QED
  BY <1>1, <1>3, <1>4 DEF Next, Terminated

-----------------------------------------------------------------------------
(* Turns without exception, until a task fails behind its turn.            *)

\* The bodies of SequentialReads and ReadsOwnBlock.
OneAtATime == \A s, t \in Slots : Reading(s) /\ Reading(t) => s = t

OwnBlock ==
  \A s \in Slots : futures[s] = 1 /\ got[s] # 0 => got[s] = base + id[s] - 1

\* A task has canceled those behind it; those before it go on decoding.
Halted ==
  /\ blockId = CANCEL
  /\ \A s \in Slots : futures[s] = 1 =>
       /\ pc[s] \notin {"size", "data", "publish", "cancel"}
       /\ pc[s] \in {"notify", "decode"} => got[s] # 0

\* Nobody reads any more, wherever the cursor is left: the header could not
\* be read, or a task that is alone has dropped its block before its data.
Spent == Stuck /\ \A s \in Slots : futures[s] = 0

Discipline ==
  /\ initialized = 1 => TurnOrder \/ Halted \/ Spent
  /\ OwnBlock

\* A task of this ring has failed behind its turn.  Until the ring is started
\* the later slots still have the results of the ring before.
Late == \E s \in Slots : FailedBehind(s) /\ (mpc = "boot" => s < count)

Disciplined ==
  closed = 0 /\ mpc \notin {"drain", "reset"} => Late \/ Discipline

\* The slot that is used up and given its next task has not failed.
Served == available > 0 \/ mpc = "resubmit" => result[bufferId] # "error"

\* What a task has read in its turn is a block of the stream.
LEMMA ReadInTurn ==
  ASSUME Ownership, TurnOrder, NEW s \in Slots, futures[s] = 1,
         pc[s] \in {"notify", "decode"}
  PROVE  got[s] # 0
<1> USE ConstantsAssumption DEF Ownership, ClientTypeOK, TaskTypeOK
<1>1. Published(s)
  BY DEF TurnOrder, InTurn, AtTurn
<1>2. pc[s] # "none" /\ id[s] > 0
  BY DEF SkipsInRange
<1>3. got[s] = base + id[s] - 1 /\ base >= 1
  BY <1>1 DEF Published
<1> QED
  BY <1>2, <1>3

LEMMA CancelHalts ==
  ASSUME Ownership, Ring, TurnOrder, NEW k \in Slots, TaskStep(k), Cancel(k)
  PROVE  Halted'
<1>1. futures[k] = 1 /\ pc[k] = "cancel" /\ k \in Slots
  BY TaskHasFuture DEF Cancel
<1>2. /\ blockId' = CANCEL
      /\ UNCHANGED <<futures, got>>
      /\ pc' = [pc EXCEPT ![k] = "cnotify"]
  BY DEF Cancel, Goto, clientVars
<1>3. \A s \in Slots : futures[s] = 1 /\ pc[s] \in AtTurn => s = k
  BY <1>1, OneAtTurn DEF AtTurn
<1>4. \A s \in Slots : futures[s] = 1 /\ pc[s] \in {"notify", "decode"} =>
        got[s] # 0
  BY ReadInTurn
<1>5. pc'[k] = "cnotify" /\ \A s \in Slots : s # k => pc'[s] = pc[s]
  BY <1>2 DEF Ownership, TaskTypeOK
<1>6. ASSUME NEW s \in Slots, futures[s] = 1
      PROVE  /\ pc'[s] \notin {"size", "data", "publish", "cancel"}
             /\ pc'[s] \in {"notify", "decode"} => got[s] # 0
  <2>1. CASE s = k
    BY <2>1, <1>5
  <2>2. CASE s # k
    <3>1. pc[s] \notin AtTurn /\ pc'[s] = pc[s]
      BY <1>3, <1>5, <1>6, <2>2
    <3> QED
      BY <3>1, <1>4, <1>6 DEF AtTurn
  <2> QED
    BY <2>1, <2>2
<1> QED
  BY <1>2, <1>6 DEF Halted, Slots

\* Tasks that find themselves canceled do not read.
LEMMA HaltedTask ==
  ASSUME Ownership, Halted, NEW k \in Slots, TaskStep(k), ~DecodeFails(k)
  PROVE  Halted' /\ UNCHANGED got
<1> USE DEF Ownership, TaskTypeOK
<1>1. futures[k] = 1
  BY TaskHasFuture
<1>2. UNCHANGED futures
  BY TaskFrame
<1>3. /\ pc[k] \notin {"size", "data", "publish", "cancel"}
      /\ pc[k] \in {"notify", "decode"} => got[k] # 0
      /\ blockId = CANCEL
  BY <1>1 DEF Halted
<1>4. /\ UNCHANGED <<blockId, got>>
      /\ pc'[k] \notin {"size", "data", "publish", "cancel"}
      /\ pc'[k] = "notify" => FALSE
      /\ pc'[k] = "decode" => pc[k] = "notify"
      /\ \A t \in Slots : t # k =>
           pc'[t] = pc[t] \/ (pc[t] = "asleep" /\ pc'[t] = "wait")
  <2>1. CASE Start(k)
    BY <2>1 DEF Start, Goto, OnlyPc
  <2>2. CASE CheckTurn(k)
    BY <2>2 DEF CheckTurn, Goto, OnlyPc
  <2>3. CASE RecheckCanceled(k)
    BY <2>3 DEF RecheckCanceled, ReturnsFrom, Goto
  <2>4. CASE Notify(k)
    BY <2>4 DEF Notify, AfterNotify, Woken
  <2>5. CASE Decode(k)
    BY <2>5 DEF Decode, ReturnsFrom, Goto
  <2>6. CASE SpuriousWake(k)
    BY <2>6 DEF SpuriousWake, Goto, OnlyPc
  <2>7. ~Recheck(k) /\ ~ReadSize(k) /\ ~ReadEnd(k) /\ ~ReadFails(k)
        /\ ~ReadAstray(k)
    BY <1>3
    DEF Recheck, Canceled, ReadSize, ReadEnd, ReadFails, ReadAstray,
        CancelsWith, Goto
  <2>8. ~ReadData(k) /\ ~Publish(k) /\ ~Cancel(k)
    BY <1>3 DEF ReadData, Publish, Cancel
  <2> QED
    BY <2>1, <2>2, <2>3, <2>4, <2>5, <2>6, <2>7, <2>8 DEF TaskStep, TaskRuns
<1>5. ASSUME NEW s \in Slots, futures[s] = 1
      PROVE  /\ pc'[s] \notin {"size", "data", "publish", "cancel"}
             /\ pc'[s] \in {"notify", "decode"} => got'[s] # 0
  BY <1>3, <1>4, <1>5 DEF Halted
<1> QED
  BY <1>2, <1>3, <1>4, <1>5 DEF Halted, Slots

\* A task that reads in its turn reads the block of its number.
LEMMA OwnBlockTask ==
  ASSUME Ownership, Ring, TurnOrder, OwnBlock, NEW k \in Slots, TaskStep(k)
  PROVE  OwnBlock'
<1> USE DEF Ownership, TaskTypeOK
<1>1. UNCHANGED <<futures, id, base>> /\ futures[k] = 1
  BY TaskFrame, TaskHasFuture DEF clientVars
<1>2. CASE UNCHANGED got
  BY <1>1, <1>2 DEF OwnBlock, Slots
<1>3. CASE ReadSize(k)
  <2>1. pc[k] = "size" /\ got' = [got EXCEPT ![k] = cursor.blk]
    BY <1>3 DEF ReadSize
  <2>2. cursor = At(base + blockId, "size")
    BY <2>1, <1>1, CursorAtSize
  <2>3. id[k] = blockId + 1
    BY <2>1, <1>1, OneAtTurn DEF AtTurn
  <2>4. base \in Int /\ blockId \in Int
    BY ConstantsAssumption DEF ClientTypeOK, TurnOrder
  <2>5. got'[k] = base + id[k] - 1
    BY <2>1, <2>2, <2>3, <2>4 DEF At
  <2>6. \A s \in Slots : s # k => got'[s] = got[s]
    BY <2>1
  <2> QED
    BY <1>1, <2>5, <2>6 DEF OwnBlock, Slots
<1>4. CASE ReadData(k) \/ ReadFails(k)
  <2>1. \A s \in Slots : got'[s] = got[s] \/ got'[s] = 0
    BY <1>4 DEF ReadData, ReadFails
  <2> QED
    BY <1>1, <2>1 DEF OwnBlock, Slots
<1>5. UNCHANGED got \/ ReadSize(k) \/ ReadData(k) \/ ReadFails(k)
  BY DEF TaskStep, TaskRuns, Start, CheckTurn, RecheckCanceled, Recheck,
         ReadEnd, ReadAstray, Publish, Cancel, Notify, Decode,
         DecodeFails, SpuriousWake, OnlyPc
<1> QED
  BY <1>2, <1>3, <1>4, <1>5

\* Who has failed behind its turn stays in its slot.
LEMMA LateTask ==
  ASSUME Ownership, TaskResults, Late, NEW k \in Slots, TaskStep(k)
  PROVE  Late'
<1>1. PICK s \in Slots : FailedBehind(s) /\ (mpc = "boot" => s < count)
  BY DEF Late
<1>2. UNCHANGED <<mpc, count>>
  BY TaskFrame DEF Ownership, clientVars
<1>3. Failed(s)
  BY <1>1 DEF FailedBehind, TaskResults, Failed
<1>4. result'[s] = result[s] /\ got'[s] = got[s]
  BY <1>3, FailedStays
<1> QED
  BY <1>1, <1>2, <1>4 DEF Late, FailedBehind, Slots

LEMMA FailureIsLate ==
  ASSUME Ownership, NEW k \in Slots, DecodeFails(k), got[k] # 0
  PROVE  Late'
<1>1. TaskStep(k)
  BY DEF TaskStep, TaskRuns
<1>2. UNCHANGED <<mpc, count, got>>
  BY DEF DecodeFails, clientVars
<1>3. futures[k] = 1
  BY <1>1, TaskHasFuture
<1>4. mpc = "boot" => k < count
  BY <1>3, ConstantsAssumption
  DEF Ownership, BootInOrder, ClientTypeOK, Slots
<1>5. result'[k] = "error"
  BY DEF DecodeFails, CancelsWith, Ownership, TaskTypeOK
<1> QED
  BY <1>2, <1>4, <1>5 DEF Late, FailedBehind, Slots

LEMMA DisciplineTask ==
  ASSUME Ownership, Ring, Discipline, NEW k \in Slots, TaskStep(k)
  PROVE  Late' \/ Discipline'
<1>1. UNCHANGED <<clientVars, futures, id>> /\ futures[k] = 1
  BY TaskFrame, TaskHasFuture DEF Ownership
<1>2. initialized = 1 /\ ~Spent
  BY <1>1 DEF Ownership, FreshRing, ClientTypeOK, Spent
<1>3. CASE DecodeFails(k)
  <2>1. pc[k] = "decode"
    BY <1>3 DEF DecodeFails
  <2>2. got[k] # 0
    BY <2>1, <1>1, <1>2, ReadInTurn DEF Discipline, Halted
  <2> QED
    BY <1>3, <2>2, FailureIsLate
<1>4. CASE Halted /\ ~DecodeFails(k)
  <2>1. Halted' /\ UNCHANGED got
    BY <1>4, HaltedTask
  <2>2. OwnBlock'
    BY <1>1, <2>1 DEF Discipline, OwnBlock, Slots, clientVars
  <2> QED
    BY <2>1, <2>2 DEF Discipline
<1>5. CASE TurnOrder /\ ~DecodeFails(k)
  <2>1. TurnOrder' \/ Halted'
    BY <1>5, TurnTask, CancelHalts
  <2>2. OwnBlock'
    BY <1>5, OwnBlockTask DEF Discipline
  <2> QED
    BY <2>1, <2>2 DEF Discipline
<1> QED
  BY <1>2, <1>3, <1>4, <1>5 DEF Discipline

\* A slot gets its next task.
LEMMA DisciplineSubmit ==
  ASSUME Ownership, Ring, Discipline, initialized = 1, ~Spent,
         NEW b \in Slots, SubmitBlock(b), futures[b] = 0,
         UNCHANGED <<base, blockId, cursor>>
  PROVE  Discipline'
<1> USE DEF Ownership, RingTypeOK, TaskTypeOK
<1>1. /\ pc'[b] \in {"queued", "wait"} /\ got'[b] = 0
      /\ \A s \in Slots : s # b => /\ futures'[s] = futures[s]
                                   /\ pc'[s] = pc[s]
                                   /\ id'[s] = id[s]
                                   /\ got'[s] = got[s]
  BY DEF SubmitBlock
<1>2. OwnBlock'
  BY <1>1 DEF Discipline, OwnBlock, Slots
<1>3. Halted => Halted'
  BY <1>1 DEF Halted, Slots, CANCEL
<1>4. TurnOrder => TurnOrder'
  BY TurnSubmit
<1> QED
  BY <1>2, <1>3, <1>4 DEF Discipline

\* The client takes a result, and reads on only if nothing was dropped.
LEMMA DisciplineCollect ==
  ASSUME Ownership, Discipline, NEW w, Collects(w),
         UNCHANGED <<base, blockId, cursor>>,
         w \in {"decoded", "skipped"} \/ Spent' \/ OwnStream
  PROVE  Discipline'
<1> USE DEF Ownership, RingTypeOK, TaskTypeOK
<1>1. /\ futures[bufferId] = 1
      /\ pc[bufferId] = "over"
      /\ result[bufferId] = w
      /\ initialized = 1
      /\ futures' = [futures EXCEPT ![bufferId] = 0]
      /\ UNCHANGED <<array, submitBlockId, pc, id, got, result>>
  BY DEF Collects, MayCollect, NeedsBlock
<1>2. \A s \in Slots : futures'[s] = 1 => futures[s] = 1
  BY <1>1
<1>3. OwnBlock'
  BY <1>1, <1>2 DEF Discipline, OwnBlock, Slots
<1>4. ~Spent
  BY <1>1 DEF Spent
<1>5. Halted => Halted'
  BY <1>1, <1>2 DEF Halted, Slots, CANCEL
<1>6. TurnOrder => TurnOrder' \/ Spent'
  <2>1. CASE Holding(bufferId)
    BY <1>1, <2>1 DEF Holding
  <2>2. CASE ~Holding(bufferId)
    BY <2>2, TurnCollect
  <2> QED
    BY <2>1, <2>2
<1> QED
  BY <1>1, <1>3, <1>4, <1>5, <1>6 DEF Discipline

LEMMA DisciplineSame ==
  ASSUME Discipline, UNCHANGED <<slotVars, blockId, cursor, base>>,
         Spent => Spent', initialized' = initialized
  PROVE  Discipline'
<1>1. OwnBlock'
  BY DEF Discipline, OwnBlock, slotVars, Slots
<1>2. TurnOrder => TurnOrder'
  BY DEF slotVars, TurnOrder, Published, InTurn, CursorAt, Holding,
         BetweenBlocks, OwnStream, AtTurn, ReadsDataInTurn, Slots
<1>3. Halted => Halted'
  BY DEF Halted, slotVars, Slots, CANCEL
<1> QED
  BY <1>1, <1>2, <1>3 DEF Discipline

\* The client goes on with the slot it has: what it was about to use up.
LEMMA ServedClient ==
  ASSUME NoByteOfRange, Ownership, Served, ClientCall \/ ClientStep
  PROVE  Served'
<1> USE DEF Ownership, RingTypeOK, TaskTypeOK, ClientTypeOK, Served
<1>0. mpc \notin {"byte", "skip"} /\ mpc' \notin {"byte", "skip"}
  BY OwnershipNext DEF Next, CallMatchesPlace
<1>1. CASE CollectBlock
  BY <1>1 DEF CollectBlock, Collects
<1>2. CASE CollectSkipped
  BY <1>2 DEF CollectSkipped, Collects
<1>3. CASE Copy
  BY <1>3 DEF Copy, slotVars
<1>4. CASE GetByte
  BY <1>0, <1>4 DEF GetByte, HasByte, Return, slotVars
<1>5. CASE Boot
  BY <1>5 DEF Boot, BootInOrder, Return
<1>6. CASE Resubmit
  BY <1>6 DEF Resubmit, CurrentCollected, Return
<1>7. CASE Release \/ Reset \/ ResetFails
  BY <1>7 DEF Release, Reset, ResetFails, ResetRing, Return
<1>8. CASE \/ BootFails \/ ResubmitFails \/ ReadHeader \/ ReadHeaderFails
           \/ GetOnClosed \/ NoFuture \/ ReadReturns \/ PeekByte
           \/ ClientCall
  BY <1>8
  DEF BootFails, ResubmitFails, SubmitFails, ReadHeader, ReadHeaderFails,
      GetOnClosed, NoFuture, ReadReturns, PeekByte, Throw, Return,
      ClientCall, CallRead, CallGet, CallSeek, CallClose, slotVars
<1>9. CASE \/ CollectEnd \/ CollectError \/ CloseNotifies \/ Drain
  BY <1>9
  DEF CollectEnd, CollectError, Collects, CloseNotifies, Drain, Throw, Return
<1>10. ~ResubmitSkipped
  BY <1>0 DEF ResubmitSkipped
<1> QED
  BY <1>1, <1>2, <1>3, <1>4, <1>5, <1>6, <1>7, <1>8, <1>9, <1>10
  DEF ClientStep

LEMMA ServedNext ==
  ASSUME NoByteOfRange, Ownership, Served, [Next]_vars
  PROVE  Served'
<1>1. CASE UNCHANGED vars
  BY <1>1 DEF Served, vars, clientVars, slotVars
<1>2. ASSUME NEW k \in Slots, TaskStep(k) PROVE Served'
  <2>1. UNCHANGED <<available, mpc, bufferId>>
    BY <1>2, TaskFrame DEF Ownership, clientVars
  <2>2. SUFFICES ASSUME available > 0 \/ mpc = "resubmit"
                 PROVE  result'[bufferId] # "error"
    BY <2>1 DEF Served
  <2>3. ~Live(bufferId) /\ Live(k) /\ bufferId \in Slots
    BY <1>2, <2>2, TaskFrame
    DEF Ownership, CurrentCollected, LiveHasFuture, RingTypeOK
  <2>4. bufferId # k
    BY <2>3
  <2>5. result'[bufferId] = result[bufferId]
    BY <1>2, <2>3, <2>4, TaskFrame DEF Ownership
  <2> QED
    BY <2>2, <2>5 DEF Served
<1> QED
  BY <1>1, <1>2, ServedClient DEF Next, Terminated

\* A late failure stays on record while the client reads: its slot is not
\* used again.
LEMMA LateClient ==
  ASSUME NoByteOfRange, Ownership, Served, Late, ClientCall \/ ClientStep,
         ~ReadHeader, ~Reset
  PROVE  Late'
<1> USE DEF Ownership, RingTypeOK, TaskTypeOK, ClientTypeOK
<1>0. mpc # "skip"
  BY DEF CallMatchesPlace
<1>1. PICK s \in Slots : FailedBehind(s) /\ (mpc = "boot" => s < count)
  BY DEF Late
<1>2. CASE Boot
  <2>1. s < count /\ result'[s] = result[s] /\ got'[s] = got[s]
    BY <1>1, <1>2 DEF Boot, SubmitBlock, Slots
  <2>2. mpc' = "boot" => s < count'
    BY <1>2, <2>1, ConstantsAssumption DEF Boot, Return, Slots
  <2> QED
    BY <1>1, <2>1, <2>2 DEF Late, FailedBehind, Slots
<1>3. CASE Resubmit
  <2>1. s # bufferId
    BY <1>1, <1>3 DEF Served, FailedBehind, Resubmit
  <2>2. result'[s] = result[s] /\ got'[s] = got[s] /\ mpc' # "boot"
    BY <1>3, <2>1 DEF Resubmit, SubmitBlock, Return
  <2> QED
    BY <1>1, <2>2 DEF Late, FailedBehind, Slots
<1>4. CASE ~Boot /\ ~Resubmit
  <2>1. UNCHANGED <<result, got>> /\ mpc' # "boot"
    <3>1. CASE \/ BootFails \/ ResubmitFails \/ ReadHeaderFails
               \/ GetOnClosed \/ NoFuture \/ ReadReturns \/ PeekByte
               \/ ClientCall
      BY <3>1
      DEF BootFails, ResubmitFails, SubmitFails, ReadHeaderFails,
          GetOnClosed, NoFuture, ReadReturns, PeekByte, Throw, Return,
          ClientCall, CallRead, CallGet, CallSeek, CallClose, slotVars
    <3>2. CASE \/ CollectBlock \/ CollectEnd \/ CollectError
               \/ CollectSkipped \/ Copy \/ GetByte
      BY <3>2
      DEF CollectBlock, CollectEnd, CollectError, CollectSkipped, Collects,
          MayCollect, NeedsBlock, Wanted, Copy, GetByte, HasByte, Throw,
          Return, slotVars
    <3>3. CASE \/ CloseNotifies \/ Drain \/ Release \/ ResetFails
      BY <3>3
      DEF CloseNotifies, Drain, Release, ResetFails, ResetRing, Return
    <3>4. ~ResubmitSkipped
      BY <1>0 DEF ResubmitSkipped
    <3> QED
      BY <1>4, <3>1, <3>2, <3>3, <3>4 DEF ClientStep
  <2> QED
    BY <1>1, <2>1 DEF Late, FailedBehind, Slots
<1> QED
  BY <1>2, <1>3, <1>4

\* A call that reads, while no task has failed behind its turn.
LEMMA DisciplineClient ==
  ASSUME NoByteOfRange, Ownership, Discipline, Ring,
         closed = 0, closed' = 0, mpc' # "drain",
         mpc \notin {"drain", "reset"}, ClientCall \/ ClientStep, ~ReadHeader
  PROVE  Discipline'
<1>0. /\ Ownership'
      /\ mpc \notin {"cnotify", "drain", "release", "reset", "dead", "byte",
                     "skip"}
  BY OwnershipNext
  DEF Next, Ownership, CallMatchesPlace, ClientTypeOK
<1>1. ~ReadHeader
  OBVIOUS
<1>2. CASE ReadHeaderFails
  <2>1. Spent'
    BY <1>2
    DEF ReadHeaderFails, Throw, slotVars, Spent, Stuck, Ownership, FreshRing,
        RingTypeOK, ClientTypeOK, Slots
  <2>2. OwnBlock'
    BY <2>1 DEF Spent, OwnBlock, Slots
  <2> QED
    BY <2>1, <2>2 DEF Discipline
<1>3. CASE Boot
  <2>1. initialized = 1 /\ ~Spent
    BY <1>3 DEF Boot, Ownership, FreshRing, ClientTypeOK, Spent, Stuck
  <2>2. count \in Slots /\ futures[count] = 0
    BY <1>3, ConstantsAssumption DEF Boot, Ownership, BootInOrder,
        ClientTypeOK, Slots
  <2> QED
    BY <1>3, <2>1, <2>2, DisciplineSubmit DEF Boot
<1>4. CASE BootFails
  BY <1>4, DisciplineSame
  DEF BootFails, SubmitFails, Throw, slotVars, Spent, Stuck
<1>5. CASE GetOnClosed
  BY <1>0, <1>5 DEF GetOnClosed
<1>6. CASE NoFuture
  BY <1>6, DisciplineSame
  DEF NoFuture, Return, slotVars, Spent, Stuck, Slots
<1>7. CASE CollectBlock
  BY <1>7, DisciplineCollect DEF CollectBlock
<1>8. CASE \/ CollectEnd
           \/ CollectError
  <2>1. PICK w : Collects(w)
    BY <1>8 DEF CollectEnd, CollectError
  <2>2. /\ UNCHANGED <<base, blockId, cursor, available, bufferId>>
        /\ mpc' = "idle"
    BY <1>8 DEF CollectEnd, CollectError, Return, Throw
  <2>3. CASE OwnStream
    BY <2>1, <2>2, <2>3, DisciplineCollect
  <2>4. CASE ~OwnStream
    <3>1. Slots = {0} /\ bufferId = 0
      BY <2>4, AloneIsOnly DEF Ownership, ClientTypeOK, RingTypeOK
    <3>2. futures'[0] = 0 /\ available = 0
      BY <2>1, <3>1
      DEF Collects, MayCollect, NeedsBlock, Ownership, RingTypeOK
    <3>3. Spent'
      BY <2>2, <3>1, <3>2 DEF Spent, Stuck, Slots
    <3> QED
      BY <2>1, <2>2, <3>3, DisciplineCollect
  <2> QED
    BY <2>3, <2>4
<1>9. CASE CollectSkipped
  BY <1>9, DisciplineCollect DEF CollectSkipped
<1>10. CASE Copy
  <2>1. ~Spent
    BY <1>10 DEF Copy, Spent, Stuck, Ownership, RingTypeOK, ClientTypeOK
  <2> QED
    BY <1>10, <2>1, DisciplineSame DEF Copy
<1>11. CASE ReadReturns
  BY <1>11, DisciplineSame
  DEF ReadReturns, Return, slotVars, Spent, Stuck, Slots
<1>12. CASE PeekByte
  BY <1>12, DisciplineSame
  DEF PeekByte, Return, slotVars, Spent, Stuck, Slots
<1>13. CASE GetByte
  <2>1. ~Spent
    BY <1>0, <1>13 DEF GetByte, HasByte, Spent, Stuck
  <2> QED
    BY <1>13, <2>1, DisciplineSame DEF GetByte
<1>14. CASE Resubmit
  <2>1. initialized = 1 /\ ~Spent
    BY <1>14 DEF Resubmit, Ownership, FreshRing, ClientTypeOK, Spent, Stuck
  <2>2. bufferId \in Slots /\ futures[bufferId] = 0
    BY <1>14 DEF Resubmit, Ownership, CurrentCollected, RingTypeOK
  <2> QED
    BY <1>14, <2>1, <2>2, DisciplineSubmit DEF Resubmit
<1>15. CASE ResubmitFails
  BY <1>0, <1>15, DisciplineSame
  DEF ResubmitFails, SubmitFails, Throw, slotVars, Spent, Stuck
<1>16. CASE \/ ResubmitSkipped \/ CloseNotifies \/ Drain \/ Release
            \/ Reset \/ ResetFails
  BY <1>0, <1>16
  DEF ResubmitSkipped, CloseNotifies, Drain, Release, Reset, ResetFails,
      ResetRing
<1>17. ASSUME NEW n \in ReadSizes, CallRead(n)
      PROVE  Discipline'
  BY <1>17, DisciplineSame DEF CallRead, slotVars, Spent, Stuck, Slots
<1>18. ASSUME NEW f \in {"get", "peek"}, CallGet(f)
      PROVE  Discipline'
  BY <1>18, DisciplineSame DEF CallGet, slotVars, Spent, Stuck, Slots
<1>19. ASSUME NEW b \in 1..(NbBlocks + 1), CallSeek(b)
      PROVE  Discipline'
  BY <1>19 DEF CallSeek
<1>20. ASSUME NEW f \in {"close", "destroy"}, CallClose(f)
      PROVE  Discipline'
  BY <1>20 DEF CallClose
<1> QED
  BY <1>1, <1>2, <1>3, <1>4, <1>5, <1>6, <1>7, <1>8, <1>9, <1>10, <1>11,
     <1>12, <1>13, <1>14, <1>15, <1>16, <1>17, <1>18, <1>19, <1>20
  DEF ClientStep, ClientCall

\* The ring starts, at the first block or where seek() has put the bitstream.
LEMMA DisciplineStart ==
  ASSUME Ownership, Ownership', Untouched, closed = 0,
         ReadHeader \/ Reset \/ ResetFails
  PROVE  Discipline'
<1>1. CASE ReadHeader
  <2>1. \A s \in Slots : futures'[s] = 0
    BY <1>1 DEF ReadHeader, slotVars, Ownership, FreshRing
  <2>2. call # "seek"
    BY <1>1 DEF ReadHeader, Wanted, Ownership, CallMatchesPlace
  <2>3. blockId' = 0 /\ cursor' = At(base', "size")
    BY <1>1, <2>2 DEF ReadHeader, HeaderReadable, Untouched
  <2>4. OwnBlock'
    BY <2>1 DEF OwnBlock, Slots
  <2> QED
    BY <2>1, <2>3, <2>4, ProgressStart DEF Discipline
<1>2. CASE Reset
  <2>1. \A s \in Slots : futures'[s] = 0
    BY <1>2 DEF Reset, ResetRing, Ownership, DrainInOrder
  <2>2. blockId' = 0 /\ cursor' = At(base', "size")
    BY <1>2 DEF Reset, ResetRing
  <2>3. OwnBlock'
    BY <2>1 DEF OwnBlock, Slots
  <2> QED
    BY <2>1, <2>2, <2>3, ProgressStart DEF Discipline
<1>3. CASE ResetFails
  <2>1. \A s \in Slots : futures'[s] = 0
    BY <1>3 DEF ResetFails, ResetRing, Ownership, DrainInOrder
  <2>2. available' = 0 /\ mpc' = "idle" /\ bufferId' \in Slots
    BY <1>3 DEF ResetFails, ResetRing, Return, Ownership, RingTypeOK
  <2>3. Spent'
    BY <2>1, <2>2 DEF Spent, Stuck, Slots
  <2>4. OwnBlock'
    BY <2>1 DEF OwnBlock, Slots
  <2> QED
    BY <2>3, <2>4 DEF Discipline
<1> QED
  BY <1>1, <1>2, <1>3

LEMMA DisciplinedNext ==
  ASSUME NoByteOfRange, Ownership, TaskResults, Ring, Untouched, Served,
         Disciplined, [Next]_vars
  PROVE  Disciplined'
<1> SUFFICES ASSUME closed' = 0, mpc' \notin {"drain", "reset"}
             PROVE  Late' \/ Discipline'
  BY DEF Disciplined
<1>0. Ownership'
  BY OwnershipNext
<1>1. CASE UNCHANGED vars
  <2>1. Late \/ Discipline
    BY <1>1 DEF Disciplined, vars, clientVars
  <2>2. Late => Late'
    BY <1>1 DEF Late, FailedBehind, vars, clientVars, slotVars, Slots
  <2>3. Discipline => Discipline'
    BY <1>1, DisciplineSame
    DEF vars, clientVars, slotVars, Spent, Stuck, Slots
  <2> QED
    BY <2>1, <2>2, <2>3
<1>2. ASSUME NEW k \in Slots, TaskStep(k) PROVE Late' \/ Discipline'
  <2>1. UNCHANGED <<closed, mpc>>
    BY <1>2, TaskFrame DEF Ownership, clientVars
  <2> QED
    BY <1>2, <2>1, LateTask, DisciplineTask DEF Disciplined
<1>3. CASE ClientCall \/ ClientStep
  <2>1. closed = 0
    BY <1>3
    DEF ClientCall, ClientStep, CallRead, CallGet, CallSeek, CallClose,
        ReadHeader, ReadHeaderFails, Boot, BootFails, SubmitFails, Throw,
        GetOnClosed, NoFuture, CollectBlock, CollectEnd, CollectError,
        CollectSkipped, Copy, ReadReturns, PeekByte, GetByte,
        Resubmit, ResubmitSkipped, ResubmitFails,
        CloseNotifies, Drain, Release, Reset, ResetRing, ResetFails
  <2>2. CASE ReadHeader \/ Reset \/ ResetFails
    BY <1>0, <2>1, <2>2, DisciplineStart
  <2>3. CASE ~ReadHeader /\ ~Reset /\ ~ResetFails
    <3>1. mpc # "drain"
      <4> SUFFICES ASSUME mpc = "drain" PROVE FALSE
        OBVIOUS
      <4>1. Drain
        BY <1>3, <2>3
        DEF ClientCall, ClientStep, CallRead, CallGet, CallSeek, CallClose,
            Wanted, HasByte, NeedsBlock, MayCollect, Collects,
            ReadHeaderFails, Boot, BootFails, GetOnClosed, NoFuture,
            CollectBlock, CollectEnd, CollectError, CollectSkipped, Copy,
            ReadReturns, PeekByte, GetByte, Resubmit, ResubmitSkipped,
            ResubmitFails, CloseNotifies, Release
      <4>2. call # "seek"
        BY <4>1 DEF Drain
      <4> QED
        BY <2>1, <4>2 DEF Ownership, CallMatchesPlace
    <3>2. mpc # "reset"
      BY <1>3, <2>3
      DEF ClientCall, ClientStep, CallRead, CallGet, CallSeek, CallClose,
          Wanted, HasByte, NeedsBlock, MayCollect, Collects,
          ReadHeaderFails, Boot, BootFails, GetOnClosed, NoFuture,
          CollectBlock, CollectEnd, CollectError, CollectSkipped, Copy,
          ReadReturns, PeekByte, GetByte, Resubmit, ResubmitSkipped,
          ResubmitFails, CloseNotifies, Drain, Release
    <3> QED
      BY <1>3, <2>1, <2>3, <3>1, <3>2, LateClient, DisciplineClient
      DEF Disciplined
  <2> QED
    BY <2>2, <2>3
<1> QED
  BY <1>1, <1>2, <1>3 DEF Next, Terminated

\* Two tasks at the bitstream would both have the turn.
LEMMA OneReader ==
  ASSUME Ownership, Ring, Discipline
  PROVE  OneAtATime
<1> SUFFICES ASSUME NEW s \in Slots, NEW t \in Slots, Reading(s), Reading(t)
             PROVE  s = t
  BY DEF OneAtATime
<1>1. CASE ~OwnStream
  BY <1>1, AloneIsOnly
<1>2. CASE OwnStream
  <2>1. /\ pc[s] \in {"size", "data", "publish"}
        /\ pc[t] \in {"size", "data", "publish"}
    BY <1>2 DEF Reading
  <2>2. futures[s] = 1 /\ futures[t] = 1
    BY <2>1 DEF Ownership, LiveHasFuture, Live, RingTypeOK
  <2>3. TurnOrder
    BY <2>1, <2>2
    DEF Discipline, Halted, Spent, Ownership, FreshRing, ClientTypeOK
  <2> QED
    BY <2>1, <2>2, <2>3, OneAtTurn DEF AtTurn
<1> QED
  BY <1>1, <1>2

\* As long as no CANCEL is stored out of turn nobody has failed late.
LEMMA InTurnOnly ==
  ASSUME Ownership, Disciplined, OnlyReadersCancel
  PROVE  Discipline
<1>1. closed = 0 /\ mpc \notin {"drain", "reset"}
  BY DEF OnlyReadersCancel, Ownership, CallMatchesPlace
<1>2. ~Late
  BY DEF OnlyReadersCancel, Late
<1> QED
  BY <1>1, <1>2 DEF Disciplined

-----------------------------------------------------------------------------
(* The theorems.                                                           *)

StreamInv ==
  /\ Ownership
  /\ DeliveredTypeOK
  /\ TaskResults
  /\ Ring
  /\ Untouched
  /\ AfterClose
  /\ Progress
  /\ Place
  /\ DeliveredInOrder
  /\ Ended

LEMMA StreamInit == Init => StreamInv
<1> SUFFICES ASSUME Init PROVE StreamInv
  OBVIOUS
<1>1. Ownership
  BY OwnershipInit
<1>2. DeliveredTypeOK
  BY DEF Init, DeliveredTypeOK
<1>3. TaskResults
  BY DEF Init, TaskResults, Before, Slots
<1>4. Ring
  <2>1. Ahead = 0
    BY ConstantsAssumption DEF Init, Ahead, Behind
  <2> QED
    BY <2>1 DEF Init, Ring, Slots
<1>5. Untouched
  BY DEF Init, Untouched, At
<1>6. AfterClose
  BY DEF Init, AfterClose
<1>7. ~Healthy /\ ~Open
  BY DEF Init, Healthy, Open
<1>8. Progress /\ Place /\ Ended
  BY <1>7 DEF Progress, Place, Ended, NoEof, FullRing, EndReached
<1>9. DeliveredInOrder
  BY DEF Init, DeliveredInOrder
<1> QED
  BY <1>1, <1>2, <1>3, <1>4, <1>5, <1>6, <1>8, <1>9 DEF StreamInv

LEMMA StreamNext ==
  ASSUME NoByteOfRange, StreamInv, [Next]_vars
  PROVE  StreamInv'
<1> USE DEF StreamInv
<1>1. Ownership' /\ DeliveredTypeOK'
  BY OwnershipNext, DeliveredTypeNext
<1>2. TaskResults'
  BY ResultsNext
<1>3. Ring' /\ Untouched'
  BY RingNext, UntouchedNext
<1>4. AfterClose'
  BY AfterCloseNext
<1>5. Progress'
  BY ProgressNext
<1>6. Place'
  BY PlaceNext
<1>7. DeliveredInOrder'
  BY InOrderNext
<1>8. Ended'
  BY EndedNext
<1> QED
  BY <1>1, <1>2, <1>3, <1>4, <1>5, <1>6, <1>7, <1>8

LEMMA StreamHolds ==
  ASSUME NoByteOfRange
  PROVE  Spec => []StreamInv
<1>1. StreamInv /\ [Next]_vars => StreamInv'
  BY StreamNext
<1> QED
  BY <1>1, StreamInit, PTL DEF Spec

\* What the client gets is what the compressed stream holds from its position
\* on, in order, whatever the tasks' schedule and whichever steps fail.
THEOREM DeliveredInOrderHolds ==
  ASSUME NoByteOfRange
  PROVE  Spec => []DeliveredInOrder
<1>1. StreamInv => DeliveredInOrder
  BY DEF StreamInv
<1> QED
  BY <1>1, StreamHolds, PTL

\* The end is announced after the last unit of the last block, unless a call
\* has failed before: the result of a canceled task is not taken for it.
THEOREM EofMeansEndHolds ==
  ASSUME NoByteOfRange
  PROVE  Spec => []EofMeansEnd
<1>1. Init => EofMeansEnd
  BY DEF Init, EofMeansEnd
<1>2. StreamInv /\ StreamInv' /\ EofMeansEnd /\ [Next]_vars => EofMeansEnd'
  BY EofNext DEF StreamInv
<1> QED
  BY <1>1, <1>2, StreamHolds, PTL DEF Spec

\* Without faults no call on an open stream fails, for every order of calls
\* (but a seek() before the header has been read).
THEOREM FailsOnlyOnFaultHolds ==
  ASSUME NoByteOfRange, HeaderInPlace
  PROVE  Spec => []FailsOnlyOnFault
<1>1. Init => FailsOnlyOnFault
  BY DEF Init, FailsOnlyOnFault
<1>2. StreamInv /\ FailsOnlyOnFault /\ [Next]_vars => FailsOnlyOnFault'
  BY FailsNext DEF StreamInv
<1> QED
  BY <1>1, <1>2, StreamHolds, PTL DEF Spec

LEMMA DisciplinedHolds ==
  ASSUME NoByteOfRange
  PROVE  Spec => [](Served /\ Disciplined)
<1>1. Init => Served /\ Disciplined
  <2> SUFFICES ASSUME Init PROVE Served /\ Discipline
    BY DEF Disciplined
  <2>1. ~(available > 0) /\ mpc # "resubmit" /\ initialized # 1
    BY DEF Init
  <2>2. OwnBlock
    BY DEF Init, OwnBlock
  <2> QED
    BY <2>1, <2>2 DEF Served, Discipline
<1>2. StreamInv /\ Served /\ Disciplined /\ [Next]_vars
        => Served' /\ Disciplined'
  BY ServedNext, DisciplinedNext DEF StreamInv
<1> QED
  BY <1>1, <1>2, StreamHolds, PTL DEF Spec

\* No two tasks are at the bitstream at once, however many there are, whatever
\* they meet in it and whenever they wake; until a CANCEL is stored out of turn
\* by a task that has passed the turn on, by seek() or by close().
THEOREM SequentialReadsHolds ==
  ASSUME NoByteOfRange
  PROVE  Spec => []SequentialReads
<1>1. StreamInv /\ Disciplined => SequentialReads
  BY InTurnOnly, OneReader DEF StreamInv, SequentialReads, OneAtATime
<1> QED
  BY <1>1, StreamHolds, DisciplinedHolds, PTL

\* Under the same condition a task reads the block of its number.
THEOREM ReadsOwnBlockHolds ==
  ASSUME NoByteOfRange
  PROVE  Spec => []ReadsOwnBlock
<1>1. StreamInv /\ Disciplined => ReadsOwnBlock
  BY InTurnOnly DEF StreamInv, ReadsOwnBlock, Discipline, OwnBlock
<1> QED
  BY <1>1, StreamHolds, DisciplinedHolds, PTL
=============================================================================
