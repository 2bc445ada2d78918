-------------------- MODULE CompressedInputStreamProofs --------------------
(***************************************************************************)
(* Theorems about CompressedInputStream: its types, and who owns the       *)
(* buffers.  They hold for every number of slots and blocks, every block   *)
(* size and every choice of faults.                                        *)
(***************************************************************************)
EXTENDS CompressedInputStream, TLAPS

\* get() and peek() take a byte without asking for the result of its slot
\* when the block before it is skipped: such calls have no part in a range.
NoByteOfRange == From = 1 \/ Calls \cap {"get", "peek"} = {}

\* A headless stream whose first read() comes after close() launches tasks
\* that the destructor does not wait for.
NoTaskAfterClose == Headless => ~({"close", "destroy"} \subseteq Calls)

-----------------------------------------------------------------------------
(* The parts of the type invariant.                                        *)

ClientTypeOK ==
  /\ mpc \in {"idle", "read", "get", "byte", "boot", "resubmit", "skip",
              "cnotify", "drain", "release", "reset", "dead"}
  /\ call \in AllCalls \cup {"none"}
  /\ remaining \in Nat
  /\ target \in 0..(NbBlocks + 1)
  /\ count \in Slots
  /\ initialized \in {0, 1}
  /\ closed \in {0, 1}
  /\ iostate \subseteq {"bad", "eof"}
  /\ base \in 1..(NbBlocks + 1)
  /\ reported \subseteq AllCalls

RingTypeOK ==
  /\ bufferId \in Slots
  /\ available \in 0..BlockSize
  /\ index \in [Slots -> 0..BlockSize]
  /\ array \in [Slots -> 0..NbBlocks]
  /\ futures \in [Slots -> {0, 1}]
  /\ submitBlockId \in Nat

TaskTypeOK ==
  /\ pc \in [Slots -> {"none", "queued", "wait", "asleep", "recheck",
                       "size", "data", "publish", "notify", "decode", "cancel", "cnotify",
                       "over"}]
  /\ id \in [Slots -> Nat]
  /\ got \in [Slots -> 0..NbBlocks]
  /\ result \in [Slots -> {"none", "decoded", "skipped", "end", "canceled",
                           "error"}]
  /\ blockId \in Nat \cup {CANCEL}
  /\ cursor \in Positions

DeliveredTypeOK == delivered \in Seq((0..NbBlocks) \X (0..BlockSize))

LEMMA TypeParts ==
  TypeOK <=> ClientTypeOK /\ RingTypeOK /\ TaskTypeOK /\ DeliveredTypeOK
  BY DEF TypeOK, ClientTypeOK, RingTypeOK, TaskTypeOK, DeliveredTypeOK

-----------------------------------------------------------------------------
(* Ownership: what the place of the client says about the slots.           *)

CallMatchesPlace ==
  /\ call # "none" => call \in Calls
  /\ mpc \notin {"byte", "skip"}
  /\ mpc = "idle" => call = "none"
  /\ mpc = "read" => call = "read"
  /\ mpc = "get" => call \in {"get", "peek"}
  /\ mpc = "boot" => call \in {"read", "get", "peek", "seek"}
  /\ mpc = "resubmit" => call \in {"read", "get"}
  /\ mpc \in {"release", "cnotify"} => call \in {"close", "destroy"}
  /\ mpc = "drain" => call \in {"seek", "close", "destroy"}
  /\ mpc = "reset" => call = "seek"
  /\ mpc = "dead" => call = "destroy"
  /\ call = "seek" => target > 0 /\ closed = 0
  /\ call \in {"close", "destroy"} => closed = 1

\* Tasks are numbered from 1; only those of a range are skipped.
SkipsInRange ==
  /\ \A s \in Slots : pc[s] # "none" => id[s] > 0
  /\ \A s \in Slots : result[s] = "skipped" => From > 1

\* A task that may still run can be waited for.
LiveHasFuture == \A s \in Slots : futures[s] = 0 => ~Live(s)

\* The result of the slot whose buffer is being read has been taken.
CurrentCollected ==
  /\ available > 0 => /\ futures[bufferId] = 0
                      /\ index[bufferId] + available <= BlockSize
  /\ mpc = "resubmit" => futures[bufferId] = 0 /\ available = 0
  /\ mpc = "resubmit" /\ call = "get" => index[bufferId] > 0

\* The slots that have not been given a task yet.
BootInOrder ==
  mpc = "boot" => /\ available = 0
                  /\ bufferId = 0
                  /\ \A s \in Slots : s >= count => futures[s] = 0

\* The slots that seek() and close() have waited for.
DrainInOrder ==
  /\ mpc = "cnotify" => count = 0
  /\ mpc = "drain" => \A s \in Slots : s < count => futures[s] = 0
  /\ mpc \in {"release", "reset"} => \A s \in Slots : futures[s] = 0

\* Until the stream's header has been read no task is launched.
FreshRing ==
  initialized = 0 => /\ available = 0
                     /\ bufferId = 0
                     /\ submitBlockId = 0
                     /\ mpc \notin {"boot", "resubmit"}
                     /\ \A s \in Slots : futures[s] = 0

Ownership ==
  /\ ClientTypeOK
  /\ RingTypeOK
  /\ TaskTypeOK
  /\ CallMatchesPlace
  /\ SkipsInRange
  /\ LiveHasFuture
  /\ CurrentCollected
  /\ BootInOrder
  /\ DrainInOrder
  /\ FreshRing

LEMMA OwnershipInit == Init => Ownership
<1> SUFFICES ASSUME Init PROVE Ownership
  OBVIOUS
<1> USE ConstantsAssumption DEF Init, Slots
<1>1. ClientTypeOK
  BY DEF ClientTypeOK
<1>2. RingTypeOK
  BY DEF RingTypeOK
<1>3. TaskTypeOK
  BY DEF TaskTypeOK, CANCEL, Positions, At
<1>4. CallMatchesPlace /\ SkipsInRange /\ LiveHasFuture
  BY DEF CallMatchesPlace, SkipsInRange, LiveHasFuture, Live
<1>5. CurrentCollected /\ BootInOrder /\ DrainInOrder /\ FreshRing
  BY DEF CurrentCollected, BootInOrder, DrainInOrder, FreshRing
<1> QED
  BY <1>1, <1>2, <1>3, <1>4, <1>5 DEF Ownership

-----------------------------------------------------------------------------
(* The steps of the tasks.                                                 *)

\* What a task changes: its own state, the turn and the cursor; it may wake
\* others.
LEMMA TaskFrame ==
  ASSUME TaskTypeOK, RingTypeOK, NEW k \in Slots, TaskStep(k)
  PROVE  /\ UNCHANGED <<clientVars, futures, submitBlockId, id>>
         /\ Live(k)
         /\ pc' \in [Slots -> {"none", "queued", "wait", "asleep", "recheck",
                       "size", "data", "publish", "notify", "decode", "cancel", "cnotify",
                       "over"}]
         /\ pc'[k] # "none"
         /\ \A t \in Slots \ {k} :
              /\ \/ pc'[t] = pc[t]
                 \/ pc[t] = "asleep" /\ pc'[t] = "wait"
              /\ got'[t] = got[t]
              /\ result'[t] = result[t]
              /\ array'[t] = array[t]
<1> USE DEF TaskTypeOK, RingTypeOK, Live, clientVars
<1>1. CASE Start(k)
  BY <1>1 DEF Start, Goto, OnlyPc, clientVars
<1>2. CASE CheckTurn(k)
  BY <1>2 DEF CheckTurn, Goto, OnlyPc, clientVars
<1>3. CASE RecheckCanceled(k)
  BY <1>3 DEF RecheckCanceled, ReturnsFrom, Goto, clientVars
<1>4. CASE Recheck(k)
  BY <1>4 DEF Recheck, Goto, OnlyPc, clientVars
<1>5. CASE ReadSize(k)
  BY <1>5 DEF ReadSize, Goto, clientVars
<1>6. CASE ReadEnd(k)
  BY <1>6 DEF ReadEnd, CancelsWith, Goto, clientVars
<1>7. CASE ReadFails(k)
  BY <1>7 DEF ReadFails, CancelsWith, Goto, clientVars
<1>8. CASE ReadAstray(k)
  BY <1>8 DEF ReadAstray, CancelsWith, Goto, clientVars
<1>9. CASE ReadData(k)
  BY <1>9 DEF ReadData, Goto, clientVars
<1>10. CASE Publish(k)
  BY <1>10 DEF Publish, Goto, clientVars
<1>11. CASE Cancel(k)
  BY <1>11 DEF Cancel, Goto, clientVars
<1>12. CASE Notify(k)
  BY <1>12 DEF Notify, Woken, clientVars, AfterNotify
<1>13. CASE Decode(k)
  BY <1>13 DEF Decode, ReturnsFrom, Goto, clientVars
<1>14. CASE DecodeFails(k)
  BY <1>14 DEF DecodeFails, CancelsWith, Goto, clientVars
<1>15. CASE SpuriousWake(k)
  BY <1>15 DEF SpuriousWake, Goto, OnlyPc, clientVars
<1> QED
  BY <1>1, <1>2, <1>3, <1>4, <1>5, <1>6, <1>7, <1>8, <1>9, <1>10, <1>11,
     <1>12, <1>13, <1>14, <1>15
  DEF TaskStep, TaskRuns

LEMMA TaskTypeTask ==
  ASSUME TaskTypeOK, RingTypeOK, NEW k \in Slots, TaskStep(k)
  PROVE  /\ id' \in [Slots -> Nat]
         /\ got' \in [Slots -> 0..NbBlocks]
         /\ array' \in [Slots -> 0..NbBlocks]
         /\ result' \in [Slots -> {"none", "decoded", "skipped", "end",
                                   "canceled", "error"}]
         /\ blockId' \in Nat \cup {CANCEL}
         /\ cursor' \in Positions
         /\ result'[k] = "skipped" => result[k] = "skipped" \/ Skips(k)
<1> USE ConstantsAssumption DEF TaskTypeOK, RingTypeOK, Positions, At
<1>1. CASE Start(k)
  BY <1>1 DEF Start, Goto, OnlyPc, clientVars
<1>2. CASE CheckTurn(k)
  BY <1>2 DEF CheckTurn, Goto, OnlyPc, clientVars
<1>3. CASE RecheckCanceled(k)
  BY <1>3 DEF RecheckCanceled, ReturnsFrom, Goto, clientVars
<1>4. CASE Recheck(k)
  BY <1>4 DEF Recheck, Goto, OnlyPc, clientVars
<1>5. CASE ReadSize(k)
  BY <1>5 DEF ReadSize, Goto, clientVars, ReadsDataInTurn
<1>6. CASE ReadEnd(k)
  BY <1>6 DEF ReadEnd, CancelsWith, Goto, clientVars
<1>7. CASE ReadFails(k)
  BY <1>7 DEF ReadFails, CancelsWith, Goto, clientVars
<1>8. CASE ReadAstray(k)
  BY <1>8 DEF ReadAstray, CancelsWith, Goto, clientVars
<1>9. CASE ReadData(k)
  BY <1>9 DEF ReadData, Goto, clientVars
<1>10. CASE Publish(k)
  BY <1>10 DEF Publish, Goto, clientVars
<1>11. CASE Cancel(k)
  BY <1>11 DEF Cancel, Goto, clientVars
<1>12. CASE Notify(k)
  BY <1>12 DEF Notify, Woken, clientVars, ResultAtNotify
<1>13. CASE Decode(k)
  BY <1>13 DEF Decode, ReturnsFrom, Goto, clientVars
<1>14. CASE DecodeFails(k)
  BY <1>14 DEF DecodeFails, CancelsWith, Goto, clientVars
<1>15. CASE SpuriousWake(k)
  BY <1>15 DEF SpuriousWake, Goto, OnlyPc, clientVars
<1> QED
  BY <1>1, <1>2, <1>3, <1>4, <1>5, <1>6, <1>7, <1>8, <1>9, <1>10, <1>11,
     <1>12, <1>13, <1>14, <1>15
  DEF TaskStep, TaskRuns

LEMMA OwnershipTask ==
  ASSUME Ownership, NEW k \in Slots, TaskStep(k)
  PROVE  Ownership'
<1> USE DEF Ownership
<1>1. UNCHANGED <<clientVars, futures, submitBlockId, id>>
  BY TaskFrame
<1>2. ClientTypeOK'
  BY <1>1 DEF ClientTypeOK, clientVars, Slots
<1>3. RingTypeOK'
  BY <1>1, TaskTypeTask DEF RingTypeOK, clientVars, Slots
<1>4. TaskTypeOK'
  BY TaskTypeTask, TaskFrame DEF TaskTypeOK, Slots
<1>5. CallMatchesPlace'
  BY <1>1 DEF CallMatchesPlace, clientVars
<1>6. SkipsInRange'
  <2>1. \A s \in Slots : pc'[s] # "none" => id'[s] > 0
    <3> SUFFICES ASSUME NEW s \in Slots, pc'[s] # "none"
                 PROVE  id[s] > 0
      BY <1>1
    <3>1. pc[s] # "none"
      BY TaskFrame DEF Live
    <3> QED
      BY <3>1 DEF SkipsInRange
  <2>2. \A s \in Slots : result'[s] = "skipped" => From > 1
    <3> SUFFICES ASSUME NEW s \in Slots, result'[s] = "skipped"
                 PROVE  From > 1
      OBVIOUS
    <3>1. CASE result[s] = "skipped"
      BY <3>1 DEF SkipsInRange
    <3>2. CASE result[s] # "skipped"
      <4>1. s = k /\ Skips(k)
        BY <3>2, TaskFrame, TaskTypeTask
      <4>2. id[k] > 0
        BY TaskFrame DEF SkipsInRange, Live
      <4> QED
        BY <4>1, <4>2, ConstantsAssumption DEF Skips, TaskTypeOK
    <3> QED
      BY <3>1, <3>2
  <2> QED
    BY <2>1, <2>2 DEF SkipsInRange
<1>7. LiveHasFuture'
  <2> SUFFICES ASSUME NEW s \in Slots, futures[s] = 0
               PROVE  pc'[s] \in {"none", "over"}
    BY <1>1 DEF LiveHasFuture, Live
  <2>1. pc[s] \in {"none", "over"}
    BY DEF LiveHasFuture, Live
  <2> QED
    BY <2>1, TaskFrame DEF Live
<1>8. CurrentCollected' /\ BootInOrder' /\ DrainInOrder' /\ FreshRing'
  BY <1>1
  DEF CurrentCollected, BootInOrder, DrainInOrder, FreshRing, clientVars, Slots
<1> QED
  BY <1>2, <1>3, <1>4, <1>5, <1>6, <1>7, <1>8

-----------------------------------------------------------------------------
(* The steps of the client.                                                *)

LEMMA NextSlotInSlots == \A s \in Slots : (s + 1) % Jobs \in Slots
  BY ConstantsAssumption DEF Slots

LEMMA ClientTypeClient ==
  ASSUME Ownership, ClientCall \/ ClientStep
  PROVE  ClientTypeOK'
<1> USE ConstantsAssumption DEF Ownership, ClientTypeOK, AllCalls, Slots
<1>1. CASE ReadHeader
  BY <1>1 DEF ReadHeader, Wanted, slotVars
<1>2. CASE ReadHeaderFails
  BY <1>2 DEF ReadHeaderFails, Wanted, Throw, slotVars, CallMatchesPlace
<1>3. CASE Boot
  BY <1>3 DEF Boot, SubmitBlock, MoreSlots, Return
<1>4. CASE BootFails
  BY <1>4 DEF BootFails, SubmitFails, Throw, slotVars, CallMatchesPlace
<1>5. CASE GetOnClosed
  BY <1>5
  DEF GetOnClosed, NeedsBlock, Wanted, Throw, slotVars, CallMatchesPlace
<1>6. CASE NoFuture
  BY <1>6 DEF NoFuture, MayCollect, NeedsBlock, Wanted, Return, slotVars
<1>7. CASE CollectBlock
  BY <1>7 DEF CollectBlock, Collects, MayCollect, NeedsBlock, Wanted
<1>8. CASE CollectEnd
  BY <1>8 DEF CollectEnd, Collects, MayCollect, NeedsBlock, Wanted, Return
<1>9. CASE CollectError
  BY <1>9
  DEF CollectError, Collects, MayCollect, NeedsBlock, Wanted, Throw,
      CallMatchesPlace
<1>10. CASE CollectSkipped
  BY <1>10 DEF CollectSkipped, Collects, MayCollect, NeedsBlock, Wanted
<1>11. CASE Copy
  BY <1>11 DEF Copy, slotVars, RingTypeOK
<1>12. CASE ReadReturns
  BY <1>12 DEF ReadReturns, Return, slotVars
<1>13. CASE PeekByte
  BY <1>13 DEF PeekByte, HasByte, Return, slotVars
<1>14. CASE GetByte
  BY <1>14 DEF GetByte, HasByte, Return, slotVars
<1>15. CASE Resubmit
  BY <1>15 DEF Resubmit, SubmitBlock, NextSlot, Return
<1>16. CASE ResubmitSkipped
  BY <1>16 DEF ResubmitSkipped, SubmitBlock, NextSlot
<1>17. CASE ResubmitFails
  BY <1>17 DEF ResubmitFails, SubmitFails, Throw, slotVars, CallMatchesPlace
<1>18. CASE CloseNotifies
  BY <1>18 DEF CloseNotifies, Woken
<1>19. CASE Drain
  BY <1>19 DEF Drain, Drained, MoreSlots
<1>20. CASE Release
  BY <1>20 DEF Release, Return
<1>21. CASE Reset
  BY <1>21 DEF Reset, ResetRing, Return, CallMatchesPlace
<1>22. CASE ResetFails
  BY <1>22 DEF ResetFails, ResetRing, Return
<1>23. ASSUME NEW n \in ReadSizes, CallRead(n)
      PROVE  ClientTypeOK'
  BY <1>23 DEF CallRead, slotVars
<1>24. ASSUME NEW f \in {"get", "peek"}, CallGet(f)
      PROVE  ClientTypeOK'
  BY <1>24 DEF CallGet, slotVars
<1>25. ASSUME NEW b \in 1..(NbBlocks + 1), CallSeek(b)
      PROVE  ClientTypeOK'
  BY <1>25 DEF CallSeek, slotVars
<1>26. ASSUME NEW f \in {"close", "destroy"}, CallClose(f)
      PROVE  ClientTypeOK'
  BY <1>26 DEF CallClose, slotVars
<1> QED
  BY <1>1, <1>2, <1>3, <1>4, <1>5, <1>6, <1>7, <1>8, <1>9, <1>10, <1>11,
     <1>12, <1>13, <1>14, <1>15, <1>16, <1>17, <1>18, <1>19, <1>20, <1>21,
     <1>22, <1>23, <1>24, <1>25, <1>26
  DEF ClientStep, ClientCall

LEMMA RingTypeClient ==
  ASSUME Ownership, ClientCall \/ ClientStep
  PROVE  RingTypeOK'
<1> USE ConstantsAssumption DEF Ownership, RingTypeOK
<1>1. CASE ReadHeader
  BY <1>1 DEF ReadHeader, Wanted, slotVars
<1>2. CASE ReadHeaderFails
  BY <1>2 DEF ReadHeaderFails, Wanted, Throw, slotVars
<1>3. CASE Boot
  BY <1>3 DEF Boot, SubmitBlock, MoreSlots, Return, ClientTypeOK
<1>4. CASE BootFails
  BY <1>4 DEF BootFails, SubmitFails, Throw, slotVars, ClientTypeOK
<1>5. CASE GetOnClosed
  BY <1>5 DEF GetOnClosed, NeedsBlock, Wanted, Throw, slotVars
<1>6. CASE NoFuture
  BY <1>6 DEF NoFuture, MayCollect, NeedsBlock, Wanted, Return, slotVars
<1>7. CASE CollectBlock
  BY <1>7
  DEF CollectBlock, Collects, MayCollect, NeedsBlock, Wanted, Length,
      MayCollect
<1>8. CASE CollectEnd
  BY <1>8 DEF CollectEnd, Collects, MayCollect, NeedsBlock, Wanted, Return
<1>9. CASE CollectError
  BY <1>9 DEF CollectError, Collects, MayCollect, NeedsBlock, Wanted, Throw
<1>10. CASE CollectSkipped
  BY <1>10 DEF CollectSkipped, Collects, MayCollect, NeedsBlock, Wanted
<1>11. CASE Copy
  BY <1>11 DEF Copy, slotVars, CurrentCollected, ClientTypeOK
<1>12. CASE ReadReturns
  BY <1>12 DEF ReadReturns, Return, slotVars
<1>13. CASE PeekByte
  BY <1>13 DEF PeekByte, HasByte, Return, slotVars
<1>14. CASE GetByte
  BY <1>14
  DEF GetByte, HasByte, Return, slotVars, CallMatchesPlace,
      CurrentCollected
<1>15. CASE Resubmit
  BY <1>15, NextSlotInSlots DEF Resubmit, SubmitBlock, NextSlot, Return
<1>16. CASE ResubmitSkipped
  BY <1>16, NextSlotInSlots DEF ResubmitSkipped, SubmitBlock, NextSlot
<1>17. CASE ResubmitFails
  BY <1>17 DEF ResubmitFails, SubmitFails, Throw, slotVars
<1>18. CASE CloseNotifies
  BY <1>18 DEF CloseNotifies, Woken
<1>19. CASE Drain
  BY <1>19 DEF Drain, Drained, MoreSlots, ClientTypeOK
<1>20. CASE Release
  BY <1>20 DEF Release, Return
<1>21. CASE Reset
  BY <1>21 DEF Reset, ResetRing, Return, Slots
<1>22. CASE ResetFails
  BY <1>22 DEF ResetFails, ResetRing, Return, Slots
<1>23. ASSUME NEW n \in ReadSizes, CallRead(n)
      PROVE  RingTypeOK'
  BY <1>23 DEF CallRead, slotVars
<1>24. ASSUME NEW f \in {"get", "peek"}, CallGet(f)
      PROVE  RingTypeOK'
  BY <1>24 DEF CallGet, slotVars
<1>25. ASSUME NEW b \in 1..(NbBlocks + 1), CallSeek(b)
      PROVE  RingTypeOK'
  BY <1>25 DEF CallSeek, slotVars
<1>26. ASSUME NEW f \in {"close", "destroy"}, CallClose(f)
      PROVE  RingTypeOK'
  BY <1>26 DEF CallClose, slotVars
<1> QED
  BY <1>1, <1>2, <1>3, <1>4, <1>5, <1>6, <1>7, <1>8, <1>9, <1>10, <1>11,
     <1>12, <1>13, <1>14, <1>15, <1>16, <1>17, <1>18, <1>19, <1>20, <1>21,
     <1>22, <1>23, <1>24, <1>25, <1>26
  DEF ClientStep, ClientCall

LEMMA TaskTypeClient ==
  ASSUME Ownership, ClientCall \/ ClientStep
  PROVE  TaskTypeOK'
<1> USE ConstantsAssumption DEF Ownership, TaskTypeOK, RingTypeOK, CANCEL
<1>1. CASE ReadHeader
  BY <1>1 DEF ReadHeader, Wanted, slotVars, Positions, At
<1>2. CASE ReadHeaderFails
  BY <1>2 DEF ReadHeaderFails, Wanted, Throw, slotVars
<1>3. CASE Boot
  BY <1>3 DEF Boot, SubmitBlock, MoreSlots, Return, ClientTypeOK
<1>4. CASE BootFails
  BY <1>4 DEF BootFails, SubmitFails, Throw, slotVars
<1>5. CASE GetOnClosed
  BY <1>5 DEF GetOnClosed, NeedsBlock, Wanted, Throw, slotVars
<1>6. CASE NoFuture
  BY <1>6 DEF NoFuture, MayCollect, NeedsBlock, Wanted, Return, slotVars
<1>7. CASE CollectBlock
  BY <1>7 DEF CollectBlock, Collects, MayCollect, NeedsBlock, Wanted
<1>8. CASE CollectEnd
  BY <1>8 DEF CollectEnd, Collects, MayCollect, NeedsBlock, Wanted, Return
<1>9. CASE CollectError
  BY <1>9 DEF CollectError, Collects, MayCollect, NeedsBlock, Wanted, Throw
<1>10. CASE CollectSkipped
  BY <1>10 DEF CollectSkipped, Collects, MayCollect, NeedsBlock, Wanted
<1>11. CASE Copy
  BY <1>11 DEF Copy, slotVars
<1>12. CASE ReadReturns
  BY <1>12 DEF ReadReturns, Return, slotVars
<1>13. CASE PeekByte
  BY <1>13 DEF PeekByte, HasByte, Return, slotVars
<1>14. CASE GetByte
  BY <1>14 DEF GetByte, HasByte, Return, slotVars
<1>15. CASE Resubmit
  BY <1>15 DEF Resubmit, SubmitBlock, NextSlot, Return
<1>16. CASE ResubmitSkipped
  BY <1>16 DEF ResubmitSkipped, SubmitBlock, NextSlot
<1>17. CASE ResubmitFails
  BY <1>17 DEF ResubmitFails, SubmitFails, Throw, slotVars
<1>18. CASE CloseNotifies
  BY <1>18 DEF CloseNotifies, Woken
<1>19. CASE Drain
  BY <1>19 DEF Drain, Drained, MoreSlots
<1>20. CASE Release
  BY <1>20 DEF Release, Return
<1>21. CASE Reset
  BY <1>21 DEF Reset, ResetRing, Return, ClientTypeOK, Positions, At
<1>22. CASE ResetFails
  BY <1>22 DEF ResetFails, ResetRing, Return
<1>23. ASSUME NEW n \in ReadSizes, CallRead(n)
      PROVE  TaskTypeOK'
  BY <1>23 DEF CallRead, slotVars
<1>24. ASSUME NEW f \in {"get", "peek"}, CallGet(f)
      PROVE  TaskTypeOK'
  BY <1>24 DEF CallGet, slotVars
<1>25. ASSUME NEW b \in 1..(NbBlocks + 1), CallSeek(b)
      PROVE  TaskTypeOK'
  BY <1>25 DEF CallSeek, slotVars
<1>26. ASSUME NEW f \in {"close", "destroy"}, CallClose(f)
      PROVE  TaskTypeOK'
  BY <1>26 DEF CallClose, slotVars
<1> QED
  BY <1>1, <1>2, <1>3, <1>4, <1>5, <1>6, <1>7, <1>8, <1>9, <1>10, <1>11,
     <1>12, <1>13, <1>14, <1>15, <1>16, <1>17, <1>18, <1>19, <1>20, <1>21,
     <1>22, <1>23, <1>24, <1>25, <1>26
  DEF ClientStep, ClientCall

LEMMA PlaceClient ==
  ASSUME NoByteOfRange, Ownership, ClientCall \/ ClientStep
  PROVE  CallMatchesPlace'
<1> USE DEF Ownership, CallMatchesPlace
<1>1. CASE ReadHeader
  BY <1>1 DEF ReadHeader, Wanted, slotVars
<1>2. CASE ReadHeaderFails
  BY <1>2 DEF ReadHeaderFails, Wanted, Throw, slotVars
<1>3. CASE Boot
  BY <1>3 DEF Boot, SubmitBlock, MoreSlots, Return
<1>4. CASE BootFails
  BY <1>4 DEF BootFails, SubmitFails, Throw, slotVars
<1>5. CASE GetOnClosed
  BY <1>5 DEF GetOnClosed, NeedsBlock, Wanted, Throw, slotVars
<1>6. CASE NoFuture
  BY <1>6 DEF NoFuture, MayCollect, NeedsBlock, Wanted, Return, slotVars
<1>7. CASE CollectBlock
  BY <1>7 DEF CollectBlock, Collects, MayCollect, NeedsBlock, Wanted
<1>8. CASE CollectEnd
  BY <1>8 DEF CollectEnd, Collects, MayCollect, NeedsBlock, Wanted, Return
<1>9. CASE CollectError
  BY <1>9 DEF CollectError, Collects, MayCollect, NeedsBlock, Wanted, Throw
<1>10. CASE CollectSkipped
  <2>1. result[bufferId] = "skipped" /\ From > 1
    BY <1>10 DEF CollectSkipped, Collects, RingTypeOK, SkipsInRange
  <2>2. mpc # "get"
    BY <2>1, ConstantsAssumption DEF NoByteOfRange
  <2> QED
    BY <1>10, <2>2 DEF CollectSkipped, Collects, MayCollect, NeedsBlock, Wanted
<1>11. CASE Copy
  BY <1>11 DEF Copy, slotVars
<1>12. CASE ReadReturns
  BY <1>12 DEF ReadReturns, Return, slotVars
<1>13. CASE PeekByte
  BY <1>13 DEF PeekByte, HasByte, Return, slotVars
<1>14. CASE GetByte
  BY <1>14 DEF GetByte, HasByte, Return, slotVars
<1>15. CASE Resubmit
  BY <1>15 DEF Resubmit, SubmitBlock, NextSlot, Return
<1>16. CASE ResubmitSkipped
  BY <1>16 DEF ResubmitSkipped, SubmitBlock, NextSlot
<1>17. CASE ResubmitFails
  BY <1>17 DEF ResubmitFails, SubmitFails, Throw, slotVars
<1>18. CASE CloseNotifies
  BY <1>18 DEF CloseNotifies, Woken
<1>19. CASE Drain
  BY <1>19 DEF Drain, Drained, MoreSlots
<1>20. CASE Release
  BY <1>20 DEF Release, Return
<1>21. CASE Reset
  BY <1>21 DEF Reset, ResetRing, Return
<1>22. CASE ResetFails
  BY <1>22 DEF ResetFails, ResetRing, Return
<1>23. ASSUME NEW n \in ReadSizes, CallRead(n)
      PROVE  CallMatchesPlace'
  BY <1>23 DEF CallRead, slotVars
<1>24. ASSUME NEW f \in {"get", "peek"}, CallGet(f)
      PROVE  CallMatchesPlace'
  BY <1>24 DEF CallGet, slotVars
<1>25. ASSUME NEW b \in 1..(NbBlocks + 1), CallSeek(b)
      PROVE  CallMatchesPlace'
  BY <1>25 DEF CallSeek, slotVars
<1>26. ASSUME NEW f \in {"close", "destroy"}, CallClose(f)
      PROVE  CallMatchesPlace'
  BY <1>26 DEF CallClose, slotVars
<1> QED
  BY <1>1, <1>2, <1>3, <1>4, <1>5, <1>6, <1>7, <1>8, <1>9, <1>10, <1>11,
     <1>12, <1>13, <1>14, <1>15, <1>16, <1>17, <1>18, <1>19, <1>20, <1>21,
     <1>22, <1>23, <1>24, <1>25, <1>26
  DEF ClientStep, ClientCall

LEMMA SkipsClient ==
  ASSUME Ownership, ClientCall \/ ClientStep
  PROVE  SkipsInRange'
<1> USE DEF Ownership, SkipsInRange, TaskTypeOK
<1>1. CASE ReadHeader
  BY <1>1 DEF ReadHeader, Wanted, slotVars
<1>2. CASE ReadHeaderFails
  BY <1>2 DEF ReadHeaderFails, Wanted, Throw, slotVars
<1>3. CASE Boot
  BY <1>3 DEF Boot, SubmitBlock, MoreSlots, Return, RingTypeOK, ClientTypeOK
<1>4. CASE BootFails
  BY <1>4 DEF BootFails, SubmitFails, Throw, slotVars
<1>5. CASE GetOnClosed
  BY <1>5 DEF GetOnClosed, NeedsBlock, Wanted, Throw, slotVars
<1>6. CASE NoFuture
  BY <1>6 DEF NoFuture, MayCollect, NeedsBlock, Wanted, Return, slotVars
<1>7. CASE CollectBlock
  BY <1>7 DEF CollectBlock, Collects, MayCollect, NeedsBlock, Wanted
<1>8. CASE CollectEnd
  BY <1>8 DEF CollectEnd, Collects, MayCollect, NeedsBlock, Wanted, Return
<1>9. CASE CollectError
  BY <1>9 DEF CollectError, Collects, MayCollect, NeedsBlock, Wanted, Throw
<1>10. CASE CollectSkipped
  BY <1>10 DEF CollectSkipped, Collects, MayCollect, NeedsBlock, Wanted
<1>11. CASE Copy
  BY <1>11 DEF Copy, slotVars
<1>12. CASE ReadReturns
  BY <1>12 DEF ReadReturns, Return, slotVars
<1>13. CASE PeekByte
  BY <1>13 DEF PeekByte, HasByte, Return, slotVars
<1>14. CASE GetByte
  BY <1>14 DEF GetByte, HasByte, Return, slotVars
<1>15. CASE Resubmit
  BY <1>15 DEF Resubmit, SubmitBlock, NextSlot, Return, RingTypeOK
<1>16. CASE ResubmitSkipped
  BY <1>16 DEF ResubmitSkipped, SubmitBlock, NextSlot, RingTypeOK
<1>17. CASE ResubmitFails
  BY <1>17 DEF ResubmitFails, SubmitFails, Throw, slotVars
<1>18. CASE CloseNotifies
  BY <1>18 DEF CloseNotifies, Woken
<1>19. CASE Drain
  BY <1>19 DEF Drain, Drained, MoreSlots
<1>20. CASE Release
  BY <1>20 DEF Release, Return
<1>21. CASE Reset
  BY <1>21 DEF Reset, ResetRing, Return
<1>22. CASE ResetFails
  BY <1>22 DEF ResetFails, ResetRing, Return
<1>23. ASSUME NEW n \in ReadSizes, CallRead(n)
      PROVE  SkipsInRange'
  BY <1>23 DEF CallRead, slotVars
<1>24. ASSUME NEW f \in {"get", "peek"}, CallGet(f)
      PROVE  SkipsInRange'
  BY <1>24 DEF CallGet, slotVars
<1>25. ASSUME NEW b \in 1..(NbBlocks + 1), CallSeek(b)
      PROVE  SkipsInRange'
  BY <1>25 DEF CallSeek, slotVars
<1>26. ASSUME NEW f \in {"close", "destroy"}, CallClose(f)
      PROVE  SkipsInRange'
  BY <1>26 DEF CallClose, slotVars
<1> QED
  BY <1>1, <1>2, <1>3, <1>4, <1>5, <1>6, <1>7, <1>8, <1>9, <1>10, <1>11,
     <1>12, <1>13, <1>14, <1>15, <1>16, <1>17, <1>18, <1>19, <1>20, <1>21,
     <1>22, <1>23, <1>24, <1>25, <1>26
  DEF ClientStep, ClientCall

LEMMA LiveClient ==
  ASSUME Ownership, ClientCall \/ ClientStep
  PROVE  LiveHasFuture'
<1> USE DEF Ownership, LiveHasFuture, Live, TaskTypeOK, RingTypeOK
<1>1. CASE ReadHeader
  BY <1>1 DEF ReadHeader, Wanted, slotVars
<1>2. CASE ReadHeaderFails
  BY <1>2 DEF ReadHeaderFails, Wanted, Throw, slotVars
<1>3. CASE Boot
  BY <1>3 DEF Boot, SubmitBlock, MoreSlots, Return, ClientTypeOK
<1>4. CASE BootFails
  BY <1>4 DEF BootFails, SubmitFails, Throw, slotVars
<1>5. CASE GetOnClosed
  BY <1>5 DEF GetOnClosed, NeedsBlock, Wanted, Throw, slotVars
<1>6. CASE NoFuture
  BY <1>6 DEF NoFuture, MayCollect, NeedsBlock, Wanted, Return, slotVars
<1>7. CASE CollectBlock
  BY <1>7 DEF CollectBlock, Collects, MayCollect, NeedsBlock, Wanted
<1>8. CASE CollectEnd
  BY <1>8 DEF CollectEnd, Collects, MayCollect, NeedsBlock, Wanted, Return
<1>9. CASE CollectError
  BY <1>9 DEF CollectError, Collects, MayCollect, NeedsBlock, Wanted, Throw
<1>10. CASE CollectSkipped
  BY <1>10 DEF CollectSkipped, Collects, MayCollect, NeedsBlock, Wanted
<1>11. CASE Copy
  BY <1>11 DEF Copy, slotVars
<1>12. CASE ReadReturns
  BY <1>12 DEF ReadReturns, Return, slotVars
<1>13. CASE PeekByte
  BY <1>13 DEF PeekByte, HasByte, Return, slotVars
<1>14. CASE GetByte
  BY <1>14 DEF GetByte, HasByte, Return, slotVars
<1>15. CASE Resubmit
  BY <1>15 DEF Resubmit, SubmitBlock, NextSlot, Return
<1>16. CASE ResubmitSkipped
  BY <1>16 DEF ResubmitSkipped, SubmitBlock, NextSlot
<1>17. CASE ResubmitFails
  BY <1>17 DEF ResubmitFails, SubmitFails, Throw, slotVars
<1>18. CASE CloseNotifies
  BY <1>18 DEF CloseNotifies, Woken
<1>19. CASE Drain
  BY <1>19 DEF Drain, Drained, MoreSlots, ClientTypeOK
<1>20. CASE Release
  BY <1>20 DEF Release, Return
<1>21. CASE Reset
  BY <1>21 DEF Reset, ResetRing, Return
<1>22. CASE ResetFails
  BY <1>22 DEF ResetFails, ResetRing, Return
<1>23. ASSUME NEW n \in ReadSizes, CallRead(n)
      PROVE  LiveHasFuture'
  BY <1>23 DEF CallRead, slotVars
<1>24. ASSUME NEW f \in {"get", "peek"}, CallGet(f)
      PROVE  LiveHasFuture'
  BY <1>24 DEF CallGet, slotVars
<1>25. ASSUME NEW b \in 1..(NbBlocks + 1), CallSeek(b)
      PROVE  LiveHasFuture'
  BY <1>25 DEF CallSeek, slotVars
<1>26. ASSUME NEW f \in {"close", "destroy"}, CallClose(f)
      PROVE  LiveHasFuture'
  BY <1>26 DEF CallClose, slotVars
<1> QED
  BY <1>1, <1>2, <1>3, <1>4, <1>5, <1>6, <1>7, <1>8, <1>9, <1>10, <1>11,
     <1>12, <1>13, <1>14, <1>15, <1>16, <1>17, <1>18, <1>19, <1>20, <1>21,
     <1>22, <1>23, <1>24, <1>25, <1>26
  DEF ClientStep, ClientCall

LEMMA CurrentClient ==
  ASSUME NoByteOfRange, Ownership, ClientCall \/ ClientStep
  PROVE  CurrentCollected'
<1> USE ConstantsAssumption DEF Ownership, CurrentCollected, RingTypeOK
<1>1. CASE ReadHeader
  BY <1>1 DEF ReadHeader, Wanted, slotVars
<1>2. CASE ReadHeaderFails
  BY <1>2 DEF ReadHeaderFails, Wanted, Throw, slotVars
<1>3. CASE Boot
  BY <1>3 DEF Boot, SubmitBlock, MoreSlots, Return, BootInOrder, ClientTypeOK
<1>4. CASE BootFails
  BY <1>4 DEF BootFails, SubmitFails, Throw, slotVars, BootInOrder
<1>5. CASE GetOnClosed
  BY <1>5 DEF GetOnClosed, NeedsBlock, Wanted, Throw, slotVars
<1>6. CASE NoFuture
  BY <1>6 DEF NoFuture, MayCollect, NeedsBlock, Wanted, Return, slotVars
<1>7. CASE CollectBlock
  BY <1>7
  DEF CollectBlock, Collects, MayCollect, NeedsBlock, Wanted, Length,
      CallMatchesPlace
<1>8. CASE CollectEnd
  BY <1>8 DEF CollectEnd, Collects, MayCollect, NeedsBlock, Wanted, Return
<1>9. CASE CollectError
  BY <1>9 DEF CollectError, Collects, MayCollect, NeedsBlock, Wanted, Throw
<1>10. CASE CollectSkipped
  BY <1>10
  DEF CollectSkipped, Collects, MayCollect, NeedsBlock, Wanted,
      CallMatchesPlace
<1>11. CASE Copy
  BY <1>11 DEF Copy, slotVars, ClientTypeOK
<1>12. CASE ReadReturns
  BY <1>12 DEF ReadReturns, Return, slotVars
<1>13. CASE PeekByte
  BY <1>13 DEF PeekByte, HasByte, Return, slotVars
<1>14. CASE GetByte
  BY <1>14 DEF GetByte, HasByte, Return, slotVars, CallMatchesPlace
<1>15. CASE Resubmit
  BY <1>15, NextSlotInSlots DEF Resubmit, SubmitBlock, NextSlot, Return
<1>16. CASE ResubmitSkipped
  BY <1>16 DEF ResubmitSkipped, SubmitBlock, NextSlot, CallMatchesPlace
<1>17. CASE ResubmitFails
  BY <1>17 DEF ResubmitFails, SubmitFails, Throw, slotVars, CallMatchesPlace
<1>18. CASE CloseNotifies
  BY <1>18 DEF CloseNotifies, Woken
<1>19. CASE Drain
  BY <1>19 DEF Drain, Drained, MoreSlots, ClientTypeOK
<1>20. CASE Release
  BY <1>20 DEF Release, Return
<1>21. CASE Reset
  BY <1>21 DEF Reset, ResetRing, Return, BootInOrder
<1>22. CASE ResetFails
  BY <1>22 DEF ResetFails, ResetRing, Return
<1>23. ASSUME NEW n \in ReadSizes, CallRead(n)
      PROVE  CurrentCollected'
  BY <1>23 DEF CallRead, slotVars
<1>24. ASSUME NEW f \in {"get", "peek"}, CallGet(f)
      PROVE  CurrentCollected'
  BY <1>24 DEF CallGet, slotVars
<1>25. ASSUME NEW b \in 1..(NbBlocks + 1), CallSeek(b)
      PROVE  CurrentCollected'
  BY <1>25 DEF CallSeek, slotVars
<1>26. ASSUME NEW f \in {"close", "destroy"}, CallClose(f)
      PROVE  CurrentCollected'
  BY <1>26 DEF CallClose, slotVars
<1> QED
  BY <1>1, <1>2, <1>3, <1>4, <1>5, <1>6, <1>7, <1>8, <1>9, <1>10, <1>11,
     <1>12, <1>13, <1>14, <1>15, <1>16, <1>17, <1>18, <1>19, <1>20, <1>21,
     <1>22, <1>23, <1>24, <1>25, <1>26
  DEF ClientStep, ClientCall

LEMMA BootClient ==
  ASSUME Ownership, ClientCall \/ ClientStep
  PROVE  BootInOrder'
<1> USE ConstantsAssumption DEF Ownership, BootInOrder, RingTypeOK
<1>1. CASE ReadHeader
  BY <1>1 DEF ReadHeader, Wanted, slotVars, FreshRing
<1>2. CASE ReadHeaderFails
  BY <1>2 DEF ReadHeaderFails, Wanted, Throw, slotVars
<1>3. CASE Boot
  <2>1. available = 0 /\ bufferId = 0 /\ available' = 0 /\ bufferId' = 0
    BY <1>3 DEF Boot, SubmitBlock
  <2>2. ASSUME mpc' = "boot", NEW s \in Slots, s >= count' PROVE futures'[s] = 0
    <3>1. count \in Nat /\ count' = count + 1 /\ s \in Nat
      BY <2>2, <1>3 DEF Boot, MoreSlots, Return, ClientTypeOK, Slots
    <3>2. s # count /\ s >= count
      BY <2>2, <3>1
    <3> QED
      BY <3>2, <2>2, <1>3 DEF Boot, SubmitBlock
  <2> QED
    BY <2>1, <2>2
<1>4. CASE BootFails
  BY <1>4 DEF BootFails, SubmitFails, Throw, slotVars
<1>5. CASE GetOnClosed
  BY <1>5 DEF GetOnClosed, NeedsBlock, Wanted, Throw, slotVars
<1>6. CASE NoFuture
  BY <1>6 DEF NoFuture, MayCollect, NeedsBlock, Wanted, Return, slotVars
<1>7. CASE CollectBlock
  BY <1>7 DEF CollectBlock, Collects, MayCollect, NeedsBlock, Wanted
<1>8. CASE CollectEnd
  BY <1>8 DEF CollectEnd, Collects, MayCollect, NeedsBlock, Wanted, Return
<1>9. CASE CollectError
  BY <1>9 DEF CollectError, Collects, MayCollect, NeedsBlock, Wanted, Throw
<1>10. CASE CollectSkipped
  BY <1>10 DEF CollectSkipped, Collects, MayCollect, NeedsBlock, Wanted
<1>11. CASE Copy
  BY <1>11 DEF Copy, slotVars
<1>12. CASE ReadReturns
  BY <1>12 DEF ReadReturns, Return, slotVars
<1>13. CASE PeekByte
  BY <1>13 DEF PeekByte, HasByte, Return, slotVars
<1>14. CASE GetByte
  BY <1>14 DEF GetByte, HasByte, Return, slotVars
<1>15. CASE Resubmit
  BY <1>15 DEF Resubmit, SubmitBlock, NextSlot, Return
<1>16. CASE ResubmitSkipped
  BY <1>16 DEF ResubmitSkipped, SubmitBlock, NextSlot
<1>17. CASE ResubmitFails
  BY <1>17 DEF ResubmitFails, SubmitFails, Throw, slotVars
<1>18. CASE CloseNotifies
  BY <1>18 DEF CloseNotifies, Woken
<1>19. CASE Drain
  BY <1>19 DEF Drain, Drained, MoreSlots
<1>20. CASE Release
  BY <1>20 DEF Release, Return
<1>21. CASE Reset
  BY <1>21 DEF Reset, ResetRing, Return, DrainInOrder, Slots
<1>22. CASE ResetFails
  BY <1>22 DEF ResetFails, ResetRing, Return
<1>23. ASSUME NEW n \in ReadSizes, CallRead(n)
      PROVE  BootInOrder'
  BY <1>23 DEF CallRead, slotVars
<1>24. ASSUME NEW f \in {"get", "peek"}, CallGet(f)
      PROVE  BootInOrder'
  BY <1>24 DEF CallGet, slotVars
<1>25. ASSUME NEW b \in 1..(NbBlocks + 1), CallSeek(b)
      PROVE  BootInOrder'
  BY <1>25 DEF CallSeek, slotVars
<1>26. ASSUME NEW f \in {"close", "destroy"}, CallClose(f)
      PROVE  BootInOrder'
  BY <1>26 DEF CallClose, slotVars
<1> QED
  BY <1>1, <1>2, <1>3, <1>4, <1>5, <1>6, <1>7, <1>8, <1>9, <1>10, <1>11,
     <1>12, <1>13, <1>14, <1>15, <1>16, <1>17, <1>18, <1>19, <1>20, <1>21,
     <1>22, <1>23, <1>24, <1>25, <1>26
  DEF ClientStep, ClientCall

LEMMA DrainClient ==
  ASSUME Ownership, ClientCall \/ ClientStep
  PROVE  DrainInOrder'
<1> USE ConstantsAssumption DEF Ownership, DrainInOrder, RingTypeOK
<1>1. CASE ReadHeader
  BY <1>1 DEF ReadHeader, Wanted, slotVars
<1>2. CASE ReadHeaderFails
  BY <1>2 DEF ReadHeaderFails, Wanted, Throw, slotVars
<1>3. CASE Boot
  BY <1>3 DEF Boot, SubmitBlock, MoreSlots, Return
<1>4. CASE BootFails
  BY <1>4 DEF BootFails, SubmitFails, Throw, slotVars
<1>5. CASE GetOnClosed
  BY <1>5 DEF GetOnClosed, NeedsBlock, Wanted, Throw, slotVars
<1>6. CASE NoFuture
  BY <1>6 DEF NoFuture, MayCollect, NeedsBlock, Wanted, Return, slotVars
<1>7. CASE CollectBlock
  BY <1>7 DEF CollectBlock, Collects, MayCollect, NeedsBlock, Wanted
<1>8. CASE CollectEnd
  BY <1>8 DEF CollectEnd, Collects, MayCollect, NeedsBlock, Wanted, Return
<1>9. CASE CollectError
  BY <1>9 DEF CollectError, Collects, MayCollect, NeedsBlock, Wanted, Throw
<1>10. CASE CollectSkipped
  BY <1>10 DEF CollectSkipped, Collects, MayCollect, NeedsBlock, Wanted
<1>11. CASE Copy
  BY <1>11 DEF Copy, slotVars
<1>12. CASE ReadReturns
  BY <1>12 DEF ReadReturns, Return, slotVars
<1>13. CASE PeekByte
  BY <1>13 DEF PeekByte, HasByte, Return, slotVars
<1>14. CASE GetByte
  BY <1>14 DEF GetByte, HasByte, Return, slotVars
<1>15. CASE Resubmit
  BY <1>15 DEF Resubmit, SubmitBlock, NextSlot, Return
<1>16. CASE ResubmitSkipped
  BY <1>16 DEF ResubmitSkipped, SubmitBlock, NextSlot
<1>17. CASE ResubmitFails
  BY <1>17 DEF ResubmitFails, SubmitFails, Throw, slotVars
<1>18. CASE CloseNotifies
  BY <1>18 DEF CloseNotifies, Woken, Slots
<1>19. CASE Drain
  BY <1>19 DEF Drain, Drained, MoreSlots, ClientTypeOK, Slots
<1>20. CASE Release
  BY <1>20 DEF Release, Return
<1>21. CASE Reset
  BY <1>21 DEF Reset, ResetRing, Return
<1>22. CASE ResetFails
  BY <1>22 DEF ResetFails, ResetRing, Return
<1>23. ASSUME NEW n \in ReadSizes, CallRead(n)
      PROVE  DrainInOrder'
  BY <1>23 DEF CallRead, slotVars
<1>24. ASSUME NEW f \in {"get", "peek"}, CallGet(f)
      PROVE  DrainInOrder'
  BY <1>24 DEF CallGet, slotVars
<1>25. ASSUME NEW b \in 1..(NbBlocks + 1), CallSeek(b)
      PROVE  DrainInOrder'
  BY <1>25 DEF CallSeek, slotVars, Slots
<1>26. ASSUME NEW f \in {"close", "destroy"}, CallClose(f)
      PROVE  DrainInOrder'
  BY <1>26 DEF CallClose, slotVars, Slots
<1> QED
  BY <1>1, <1>2, <1>3, <1>4, <1>5, <1>6, <1>7, <1>8, <1>9, <1>10, <1>11,
     <1>12, <1>13, <1>14, <1>15, <1>16, <1>17, <1>18, <1>19, <1>20, <1>21,
     <1>22, <1>23, <1>24, <1>25, <1>26
  DEF ClientStep, ClientCall

LEMMA FreshClient ==
  ASSUME NoByteOfRange, Ownership, ClientCall \/ ClientStep
  PROVE  FreshRing'
<1> USE ConstantsAssumption DEF Ownership, FreshRing, RingTypeOK, Slots
<1>1. CASE ReadHeader
  BY <1>1 DEF ReadHeader, Wanted, slotVars
<1>2. CASE ReadHeaderFails
  BY <1>2 DEF ReadHeaderFails, Wanted, Throw, slotVars
<1>3. CASE Boot
  BY <1>3 DEF Boot, SubmitBlock, MoreSlots, Return
<1>4. CASE BootFails
  BY <1>4 DEF BootFails, SubmitFails, Throw, slotVars
<1>5. CASE GetOnClosed
  BY <1>5 DEF GetOnClosed, NeedsBlock, Wanted, Throw, slotVars
<1>6. CASE NoFuture
  BY <1>6 DEF NoFuture, MayCollect, NeedsBlock, Wanted, Return, slotVars
<1>7. CASE CollectBlock
  BY <1>7 DEF CollectBlock, Collects, MayCollect, NeedsBlock, Wanted
<1>8. CASE CollectEnd
  BY <1>8 DEF CollectEnd, Collects, MayCollect, NeedsBlock, Wanted, Return
<1>9. CASE CollectError
  BY <1>9 DEF CollectError, Collects, MayCollect, NeedsBlock, Wanted, Throw
<1>10. CASE CollectSkipped
  BY <1>10 DEF CollectSkipped, Collects, MayCollect, NeedsBlock, Wanted
<1>11. CASE Copy
  BY <1>11 DEF Copy, slotVars, ClientTypeOK
<1>12. CASE ReadReturns
  BY <1>12 DEF ReadReturns, Return, slotVars
<1>13. CASE PeekByte
  BY <1>13 DEF PeekByte, HasByte, Return, slotVars
<1>14. CASE GetByte
  BY <1>14 DEF GetByte, HasByte, Return, slotVars, CallMatchesPlace
<1>15. CASE Resubmit
  BY <1>15 DEF Resubmit, SubmitBlock, NextSlot, Return
<1>16. CASE ResubmitSkipped
  BY <1>16 DEF ResubmitSkipped, SubmitBlock, NextSlot, CallMatchesPlace
<1>17. CASE ResubmitFails
  BY <1>17 DEF ResubmitFails, SubmitFails, Throw, slotVars
<1>18. CASE CloseNotifies
  BY <1>18 DEF CloseNotifies, Woken
<1>19. CASE Drain
  BY <1>19 DEF Drain, Drained, MoreSlots, ClientTypeOK
<1>20. CASE Release
  BY <1>20 DEF Release, Return
<1>21. CASE Reset
  BY <1>21 DEF Reset, ResetRing, Return, DrainInOrder
<1>22. CASE ResetFails
  BY <1>22 DEF ResetFails, ResetRing, Return, DrainInOrder
<1>23. ASSUME NEW n \in ReadSizes, CallRead(n)
      PROVE  FreshRing'
  BY <1>23 DEF CallRead, slotVars
<1>24. ASSUME NEW f \in {"get", "peek"}, CallGet(f)
      PROVE  FreshRing'
  BY <1>24 DEF CallGet, slotVars
<1>25. ASSUME NEW b \in 1..(NbBlocks + 1), CallSeek(b)
      PROVE  FreshRing'
  BY <1>25 DEF CallSeek, slotVars
<1>26. ASSUME NEW f \in {"close", "destroy"}, CallClose(f)
      PROVE  FreshRing'
  BY <1>26 DEF CallClose, slotVars
<1> QED
  BY <1>1, <1>2, <1>3, <1>4, <1>5, <1>6, <1>7, <1>8, <1>9, <1>10, <1>11,
     <1>12, <1>13, <1>14, <1>15, <1>16, <1>17, <1>18, <1>19, <1>20, <1>21,
     <1>22, <1>23, <1>24, <1>25, <1>26
  DEF ClientStep, ClientCall

LEMMA OwnershipNext ==
  ASSUME NoByteOfRange, Ownership, [Next]_vars
  PROVE  Ownership'
<1>1. CASE ClientCall \/ ClientStep
  BY <1>1, ClientTypeClient, RingTypeClient, TaskTypeClient, PlaceClient,
     SkipsClient, LiveClient, CurrentClient, BootClient, DrainClient,
     FreshClient
  DEF Ownership
<1>2. ASSUME NEW k \in Slots, TaskStep(k) PROVE Ownership'
  BY <1>2, OwnershipTask
<1>3. CASE UNCHANGED vars
  BY <1>3
  DEF Ownership, ClientTypeOK, RingTypeOK, TaskTypeOK, CallMatchesPlace,
      SkipsInRange, LiveHasFuture, CurrentCollected, BootInOrder,
      DrainInOrder, FreshRing, Live, vars, clientVars, slotVars
<1> QED
  BY <1>1, <1>2, <1>3 DEF Next, Terminated

THEOREM OwnershipHolds ==
  ASSUME NoByteOfRange
  PROVE  Spec => []Ownership
<1>1. Ownership /\ [Next]_vars => Ownership'
  BY OwnershipNext
<1> QED
  BY <1>1, OwnershipInit, PTL DEF Spec

-----------------------------------------------------------------------------
(* The units delivered have the right type.                                *)

LEMMA UnitsType ==
  ASSUME Ownership, NEW i \in Nat, NEW n \in Nat, i + n <= BlockSize
  PROVE  Units(i, n) \in Seq((0..NbBlocks) \X (0..BlockSize))
<1> DEFINE U == (0..NbBlocks) \X (0..BlockSize)
<1>1. \A j \in 1..n : Units(i, n)[j] \in U
  BY ConstantsAssumption DEF Ownership, RingTypeOK, Units, Garbage
<1>2. Units(i, n) = [j \in 1..n |-> Units(i, n)[j]]
  BY DEF Units
<1> QED
  BY <1>1, <1>2

LEMMA AppendUnits ==
  ASSUME Ownership, DeliveredTypeOK, NEW i \in Nat, NEW n \in Nat,
         i + n <= BlockSize, delivered' = delivered \o Units(i, n)
  PROVE  DeliveredTypeOK'
<1>1. \A D : \A s, t \in Seq(D) : s \o t \in Seq(D)
  OBVIOUS
<1> QED
  BY <1>1, UnitsType DEF DeliveredTypeOK

LEMMA DeliveredTypeNext ==
  ASSUME NoByteOfRange, Ownership, DeliveredTypeOK, [Next]_vars
  PROVE  DeliveredTypeOK'
<1>1. CASE Copy
  <2> DEFINE n == IF remaining < available THEN remaining ELSE available
  <2>1. n \in Nat /\ n > 0 /\ n <= available
    BY <1>1 DEF Copy, Ownership, ClientTypeOK, RingTypeOK
  <2>2. index[bufferId] \in Nat /\ index[bufferId] + n <= BlockSize
    BY <2>1, ConstantsAssumption DEF Ownership, RingTypeOK, CurrentCollected
  <2> QED
    BY <1>1, <2>1, <2>2, AppendUnits DEF Copy
<1>2. CASE GetByte
  <2>1. CASE available = 1
    BY <1>2, <2>1 DEF GetByte, DeliveredTypeOK
  <2>2. CASE available # 1
    <3>1. index[bufferId] \in Nat /\ index[bufferId] + 1 <= BlockSize
      BY <1>2, ConstantsAssumption
      DEF GetByte, HasByte, Ownership, CallMatchesPlace, RingTypeOK,
          CurrentCollected
    <3>2. delivered' = delivered \o Units(index[bufferId], 1)
      BY <1>2, <2>2 DEF GetByte
    <3> QED
      BY <3>1, <3>2, AppendUnits
  <2> QED
    BY <2>1, <2>2
<1>3. CASE Resubmit
  <2>1. CASE call = "read"
    BY <1>3, <2>1 DEF Resubmit, DeliveredTypeOK
  <2>2. CASE call # "read"
    <3>1. index[bufferId] - 1 \in Nat /\ index[bufferId] - 1 + 1 <= BlockSize
      BY <1>3, <2>2, ConstantsAssumption
      DEF Resubmit, Ownership, CallMatchesPlace, RingTypeOK, CurrentCollected
    <3>2. delivered' = delivered \o Units(index[bufferId] - 1, 1)
      BY <1>3, <2>2 DEF Resubmit
    <3> QED
      BY <3>1, <3>2, AppendUnits
  <2> QED
    BY <2>1, <2>2
<1>4. CASE Reset
  BY <1>4 DEF Reset, DeliveredTypeOK
<1>5. CASE (ClientCall \/ ClientStep) /\ ~Copy /\ ~GetByte /\ ~Resubmit /\ ~Reset
  <2>1. UNCHANGED delivered
    BY <1>5
    DEF ClientCall, ClientStep, CallRead, CallGet, CallSeek, CallClose,
        ReadHeader, ReadHeaderFails, Boot, BootFails, SubmitFails,
        GetOnClosed, NoFuture, CollectBlock, CollectEnd, CollectError,
        CollectSkipped, ReadReturns, PeekByte, ResubmitSkipped,
        ResubmitFails, CloseNotifies, Drain, Release, ResetFails
  <2> QED
    BY <2>1 DEF DeliveredTypeOK
<1>6. ASSUME NEW k \in Slots, TaskStep(k) PROVE DeliveredTypeOK'
  BY <1>6, TaskFrame DEF Ownership, DeliveredTypeOK, clientVars
<1>7. CASE UNCHANGED vars
  BY <1>7 DEF DeliveredTypeOK, vars, clientVars
<1> QED
  BY <1>1, <1>2, <1>3, <1>4, <1>5, <1>6, <1>7 DEF Next, Terminated

\* No state of the stream is ill-typed; in particular the count of the units
\* left in a buffer never gets negative nor leaves the buffer.
THEOREM TypeCorrect ==
  ASSUME NoByteOfRange
  PROVE  Spec => []TypeOK
<1>1. Init => DeliveredTypeOK
  BY DEF Init, DeliveredTypeOK
<1>2. Ownership /\ DeliveredTypeOK /\ [Next]_vars => DeliveredTypeOK'
  BY DeliveredTypeNext
<1>3. Ownership /\ DeliveredTypeOK => TypeOK
  BY TypeParts DEF Ownership
<1> QED
  BY <1>1, <1>2, <1>3, OwnershipHolds, PTL DEF Spec

-----------------------------------------------------------------------------
(* A closed stream is quiet.                                               *)

Quiet == \A s \in Slots : futures[s] = 0

ClosedForGood ==
  /\ closed = 1 => call = "destroy" \/ "close" \in Calls
  /\ closed = 1 /\ ~Headless /\ mpc \notin {"cnotify", "drain", "release"}
       => Quiet /\ available = 0 /\ mpc \notin {"boot", "resubmit"}
  /\ mpc = "dead" => Quiet

LEMMA ClosedClient ==
  ASSUME NoByteOfRange, NoTaskAfterClose, Ownership, ClosedForGood,
         ClientCall \/ ClientStep
  PROVE  ClosedForGood'
<1> USE DEF Ownership, ClosedForGood, Quiet, RingTypeOK, CallMatchesPlace,
    ClientTypeOK
<1>1. CASE ReadHeader
  BY <1>1 DEF ReadHeader, Wanted, slotVars, HeaderReadable
<1>2. CASE ReadHeaderFails
  BY <1>2 DEF ReadHeaderFails, Wanted, Throw, slotVars
<1>3. CASE Boot
  BY <1>3 DEF Boot, SubmitBlock, MoreSlots, Return
<1>4. CASE BootFails
  BY <1>4 DEF BootFails, SubmitFails, Throw, slotVars
<1>5. CASE GetOnClosed
  BY <1>5 DEF GetOnClosed, NeedsBlock, Wanted, Throw, slotVars
<1>6. CASE NoFuture
  BY <1>6 DEF NoFuture, MayCollect, NeedsBlock, Wanted, Return, slotVars
<1>7. CASE CollectBlock
  BY <1>7 DEF CollectBlock, Collects, MayCollect, NeedsBlock, Wanted, Length
<1>8. CASE CollectEnd
  BY <1>8 DEF CollectEnd, Collects, MayCollect, NeedsBlock, Wanted, Return
<1>9. CASE CollectError
  BY <1>9 DEF CollectError, Collects, MayCollect, NeedsBlock, Wanted, Throw
<1>10. CASE CollectSkipped
  BY <1>10 DEF CollectSkipped, Collects, MayCollect, NeedsBlock, Wanted
<1>11. CASE Copy
  BY <1>11 DEF Copy, slotVars
<1>12. CASE ReadReturns
  BY <1>12 DEF ReadReturns, Return, slotVars
<1>13. CASE PeekByte
  BY <1>13 DEF PeekByte, HasByte, Return, slotVars
<1>14. CASE GetByte
  BY <1>14 DEF GetByte, HasByte, Return, slotVars
<1>15. CASE Resubmit
  BY <1>15 DEF Resubmit, SubmitBlock, NextSlot, Return
<1>16. CASE ResubmitSkipped
  BY <1>16 DEF ResubmitSkipped, SubmitBlock, NextSlot
<1>17. CASE ResubmitFails
  BY <1>17 DEF ResubmitFails, SubmitFails, Throw, slotVars
<1>18. CASE CloseNotifies
  BY <1>18 DEF CloseNotifies, Woken
<1>19. CASE Drain
  BY <1>19 DEF Drain, Drained, MoreSlots
<1>20. CASE Release
  BY <1>20 DEF Release, Return, DrainInOrder
<1>21. CASE Reset
  BY <1>21 DEF Reset, ResetRing, Return, DrainInOrder
<1>22. CASE ResetFails
  BY <1>22 DEF ResetFails, ResetRing, Return, DrainInOrder
<1>23. ASSUME NEW n \in ReadSizes, CallRead(n)
      PROVE  ClosedForGood'
  BY <1>23 DEF CallRead, slotVars
<1>24. ASSUME NEW f \in {"get", "peek"}, CallGet(f)
      PROVE  ClosedForGood'
  BY <1>24 DEF CallGet, slotVars
<1>25. ASSUME NEW b \in 1..(NbBlocks + 1), CallSeek(b)
      PROVE  ClosedForGood'
  BY <1>25 DEF CallSeek, slotVars
<1>26. ASSUME NEW f \in {"close", "destroy"}, CallClose(f)
      PROVE  ClosedForGood'
  BY <1>26 DEF CallClose, slotVars, NoTaskAfterClose
<1> QED
  BY <1>1, <1>2, <1>3, <1>4, <1>5, <1>6, <1>7, <1>8, <1>9, <1>10, <1>11,
     <1>12, <1>13, <1>14, <1>15, <1>16, <1>17, <1>18, <1>19, <1>20, <1>21,
     <1>22, <1>23, <1>24, <1>25, <1>26
  DEF ClientStep, ClientCall

LEMMA ClosedHolds ==
  ASSUME NoByteOfRange, NoTaskAfterClose
  PROVE  Spec => []ClosedForGood
<1>1. Init => ClosedForGood
  BY DEF Init, ClosedForGood
<1>2. Ownership /\ ClosedForGood /\ [Next]_vars => ClosedForGood'
  <2> SUFFICES ASSUME Ownership, ClosedForGood, [Next]_vars
               PROVE  ClosedForGood'
    OBVIOUS
  <2>1. CASE ClientCall \/ ClientStep
    BY <2>1, ClosedClient
  <2>2. ASSUME NEW k \in Slots, TaskStep(k) PROVE ClosedForGood'
    BY <2>2, TaskFrame DEF Ownership, ClosedForGood, Quiet, clientVars, Slots
  <2>3. CASE UNCHANGED vars
    BY <2>3 DEF ClosedForGood, Quiet, vars, clientVars, slotVars
  <2> QED
    BY <2>1, <2>2, <2>3 DEF Next, Terminated
<1> QED
  BY <1>1, <1>2, OwnershipHolds, PTL DEF Spec

\* The client takes nothing from a buffer that a task may still write, and
\* seek(), close() and the destructor leave no task behind.
THEOREM BufferExclusiveHolds ==
  ASSUME NoByteOfRange, NoTaskAfterClose
  PROVE  Spec => []BufferExclusive
<1>1. Ownership /\ ClosedForGood => BufferExclusive
  BY DEF Ownership, ClosedForGood, Quiet, BufferExclusive, HasByte,
         LiveHasFuture, CurrentCollected, DrainInOrder, CallMatchesPlace,
         RingTypeOK
<1> QED
  BY <1>1, OwnershipHolds, ClosedHolds, PTL
=============================================================================
