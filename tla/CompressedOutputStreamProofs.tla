-------------------- MODULE CompressedOutputStreamProofs --------------------
(***************************************************************************)
(* Theorems about CompressedOutputStream, for every number of slots, block *)
(* size, number of blocks, write size and choice of faults.                *)
(***************************************************************************)
EXTENDS CompressedOutputStream, TLAPS

-----------------------------------------------------------------------------
(* The ring of buffers: who owns a slot.                                   *)

\* A buffer's index stays within what has been written to it, and that stays
\* within the buffer.
IndexInArray ==
  \A s \in Slots : index[s] <= Len(array[s]) /\ Len(array[s]) <= BlockSize

\* Blocks are numbered in the order in which they are launched.
LaunchedBlocks == \A k \in Blocks : pc[k] # "none" <=> k <= inputBlockId

\* A slot's future belongs to a block of that slot.
FuturesMatchSlots ==
  \A s \in Slots : futures[s] # 0 =>
    /\ slot[futures[s]] = s
    /\ futures[s] <= inputBlockId

LiveHasFuture ==
  mpc # "dead" => \A k \in Blocks : Live(k) => futures[slot[k]] = k

\* Outside the rotation and close(), the current slot has no pending result.
CurrentSlotFree ==
  mpc \in {"idle", "write", "put", "submit"} /\ closed = 0 => futures[bufferId] = 0

CallMatchesPlace ==
  /\ mpc \in {"write", "put"} => call = mpc
  /\ mpc = "put" => closed = 0 /\ index[bufferId] < BlockSize
  /\ mpc = "submit" => call # "none"
  /\ mpc = "submit" /\ call \in {"close", "destroy"} => closed = 0
  /\ mpc \in {"await", "drain", "seal", "release"} => closed = 0
  /\ mpc = "await" => call \in {"write", "put"}
  /\ mpc \in {"drain", "seal", "release"} => call \in {"close", "destroy"}

Ownership ==
  /\ TypeOK
  /\ IndexInArray
  /\ LaunchedBlocks
  /\ FuturesMatchSlots
  /\ LiveHasFuture
  /\ CurrentSlotFree
  /\ CallMatchesPlace

LEMMA OwnershipInit == Init => Ownership
<1> SUFFICES ASSUME Init PROVE Ownership
  OBVIOUS
<1> USE ConstantsAssumption DEF Init, Slots
<1>1. ClientTypeOK
  BY DEF ClientTypeOK
<1>2. RingTypeOK /\ IndexInArray
  BY DEF RingTypeOK, IndexInArray
<1>3. TaskTypeOK
  BY DEF TaskTypeOK, CANCEL
<1>4. StreamTypeOK
  BY DEF StreamTypeOK
<1>5. LaunchedBlocks /\ FuturesMatchSlots
  BY DEF LaunchedBlocks, FuturesMatchSlots, Blocks
<1>6. LiveHasFuture
  BY DEF LiveHasFuture, Live
<1>7. CurrentSlotFree /\ CallMatchesPlace
  BY DEF CurrentSlotFree, CallMatchesPlace
<1> QED
  BY <1>1, <1>2, <1>3, <1>4, <1>5, <1>6, <1>7 DEF Ownership, TypeOK

LEMMA NextSlotInSlots == \A s \in Slots : (s + 1) % Jobs \in Slots
  BY ConstantsAssumption DEF Slots

\* Every item the code appends has the right shape.
LEMMA ItemTypes ==
  /\ Header \in Items
  /\ EndMarker \in Items
  /\ \A k \in Blocks : SizeOf(k) \in Items
  /\ \A k \in Blocks, u \in Seq(Nat) : DataOf(k, u) \in Items
  BY ConstantsAssumption DEF Items, Header, EndMarker, SizeOf, DataOf, Blocks

\* A prefix of a sequence of units is one.
LEMMA PrefixType ==
  ASSUME NEW s \in Seq(Nat), NEW n \in 0..Len(s)
  PROVE  /\ SubSeq(s, 1, n) \in Seq(Nat)
         /\ Len(SubSeq(s, 1, n)) = n
  OBVIOUS

LEMMA ConcatType ==
  ASSUME NEW s \in Seq(Nat), NEW t \in Seq(Nat)
  PROVE  s \o t \in Seq(Nat) /\ Len(s \o t) = Len(s) + Len(t)
  OBVIOUS

\* Appending the next units to the current buffer.
LEMMA FillType ==
  ASSUME Ownership, NEW n \in Nat, index[bufferId] + n <= BlockSize, Fill(n)
  PROVE  /\ array' \in [Slots -> Seq(Nat)]
         /\ index' \in [Slots -> 0..BlockSize]
         /\ accepted' \in Nat
         /\ IndexInArray'
<1> DEFINE old == SubSeq(array[bufferId], 1, index[bufferId])
           new == [i \in 1..n |-> accepted + i]
           s   == bufferId
<1> USE ConstantsAssumption DEF Ownership, TypeOK, RingTypeOK, IndexInArray
<1>1. old \in Seq(Nat) /\ Len(old) = index[s]
  BY PrefixType
<1>2. new \in Seq(Nat) /\ Len(new) = n
  OBVIOUS
<1>3. old \o new \in Seq(Nat) /\ Len(old \o new) = index[s] + n
  BY <1>1, <1>2, ConcatType
<1>4. array' = [array EXCEPT ![s] = old \o new]
  BY DEF Fill
<1>5. index' = [index EXCEPT ![s] = @ + n] /\ accepted' = accepted + n
  BY DEF Fill
<1>6. \A r \in Slots : array'[r] = IF r = s THEN old \o new ELSE array[r]
  <2> HIDE DEF old, new
  <2> QED
    BY <1>4
<1> HIDE DEF old, new
<1>7. array' \in [Slots -> Seq(Nat)]
  BY <1>3, <1>4
<1>8. index' \in [Slots -> 0..BlockSize]
  BY <1>5
<1>9. IndexInArray'
  <2> SUFFICES ASSUME NEW r \in Slots
               PROVE  index'[r] <= Len(array'[r]) /\ Len(array'[r]) <= BlockSize
    OBVIOUS
  <2>1. CASE r = s
    <3>1. array'[r] = old \o new
      BY <2>1, <1>6
    <3>2. index'[r] = index[s] + n
      BY <2>1, <1>5
    <3> QED
      BY <3>1, <3>2, <1>3
  <2>2. CASE r # s
    BY <2>2, <1>5, <1>6
  <2> QED
    BY <2>1, <2>2
<1> QED
  BY <1>5, <1>7, <1>8, <1>9

\* What a launch does to the ring, and to the tasks.
LEMMA NewTaskRing ==
  ASSUME Ownership, NEW state, NewTask(state)
  PROVE  /\ mpc = "submit" /\ closed = 0
         /\ inputBlockId' = inputBlockId + 1
         /\ inputBlockId + 1 \in Blocks
         /\ index' = [index EXCEPT ![bufferId] = 0]
         /\ initialized' \in {0, 1}
  BY DEF NewTask, WriteHeader, Ownership, TypeOK, ClientTypeOK

LEMMA NewTaskTasks ==
  ASSUME Ownership, NEW state, NewTask(state)
  PROVE  /\ pc' = [pc EXCEPT ![inputBlockId + 1] = state]
         /\ slot' = [slot EXCEPT ![inputBlockId + 1] = bufferId]
         /\ content' \in [Blocks -> Seq(Nat)]
<1>1. pc' = [pc EXCEPT ![inputBlockId + 1] = state]
  BY DEF NewTask
<1>2. slot' = [slot EXCEPT ![inputBlockId + 1] = bufferId]
  BY DEF NewTask
<1>3. SubSeq(array[bufferId], 1, index[bufferId]) \in Seq(Nat)
  BY PrefixType, ConstantsAssumption
  DEF Ownership, TypeOK, RingTypeOK, IndexInArray
<1>4. content' = [content EXCEPT ![inputBlockId + 1] =
                    SubSeq(array[bufferId], 1, index[bufferId])]
  BY DEF NewTask
<1> QED
  BY <1>1, <1>2, <1>3, <1>4 DEF Ownership, TypeOK, TaskTypeOK

\* The loop of close() stays within the slots.
LEMMA DrainType ==
  ASSUME drain \in Slots, Drain
  PROVE  drain' \in Slots
<1> USE ConstantsAssumption DEF Slots
<1>1. CASE drain + 1 < Jobs
  <2>1. drain' = drain + 1
    BY <1>1 DEF Drain, MoreToDrain
  <2> QED
    BY <1>1, <2>1
<1>2. CASE ~(drain + 1 < Jobs)
  <2>1. drain' = drain
    BY <1>2 DEF Drain, MoreToDrain
  <2> QED
    BY <2>1
<1> QED
  BY <1>1, <1>2

\* Where the client goes after a submission.
LEMMA AfterSubmitType ==
  ASSUME Ownership, AfterSubmit
  PROVE  /\ mpc' \in {"await", "drain"}
         /\ mpc' = "drain" => call \in {"close", "destroy"}
         /\ mpc' = "await" => call \notin {"close", "destroy"}
         /\ drain' \in Slots
         /\ bufferId' \in Slots
<1> USE ConstantsAssumption
    DEF AfterSubmit, Ownership, TypeOK, ClientTypeOK, RingTypeOK, Slots
<1>1. CASE call \in {"close", "destroy"}
  BY <1>1
<1>2. CASE call \notin {"close", "destroy"}
  BY <1>2, NextSlotInSlots
<1> QED
  BY <1>1, <1>2

\* What a task leaves alone: everything of the client's, except the index of
\* its buffer, and, outside the two emissions, the stream.
LEMMA TaskFrame ==
  ASSUME NEW k \in Blocks, TaskStep(k)
  PROVE  /\ UNCHANGED <<mpc, call, errMsg, remaining, drain, bufferId, array, futures,
                    initialized, closed, inputBlockId, iostate, accepted,
                    thrown, slot, content>>
         /\ ~EncodeFails(k) => UNCHANGED index
         /\ ~EmitSize(k) /\ ~EmitData(k) => UNCHANGED out
<1> USE DEF clientVars
<1>1. CASE Start(k)
  BY <1>1 DEF Start
<1>2. CASE Encode(k)
  BY <1>2 DEF Encode
<1>3. CASE EncodeFails(k)
  BY <1>3 DEF EncodeFails
<1>4. CASE CheckTurn(k)
  BY <1>4 DEF CheckTurn
<1>5. CASE Recheck(k)
  BY <1>5 DEF Recheck, Canceled
<1>6. CASE EmitSize(k)
  BY <1>6 DEF EmitSize
<1>7. CASE EmitData(k)
  BY <1>7 DEF EmitData
<1>8. CASE EmitFails(k)
  BY <1>8 DEF EmitFails
<1>9. CASE Publish(k)
  BY <1>9 DEF Publish
<1>10. CASE Cancel(k)
  BY <1>10 DEF Cancel
<1>11. CASE Notify(k)
  BY <1>11 DEF Notify, Woken
<1>12. CASE Listen(k)
  BY <1>12 DEF Listen
<1>13. CASE ListenFails(k)
  BY <1>13 DEF ListenFails
<1>14. CASE SpuriousWake(k)
  BY <1>14 DEF SpuriousWake
<1> QED
  BY <1>1, <1>2, <1>3, <1>4, <1>5, <1>6, <1>7, <1>8, <1>9, <1>10, <1>11,
     <1>12, <1>13, <1>14
  DEF TaskStep, TaskRuns


LEMMA TaskTypeTask ==
  ASSUME Ownership, NEW k \in Blocks, TaskStep(k)
  PROVE  TaskTypeOK'
<1> USE DEF Ownership, TypeOK, TaskTypeOK, AllFaultPoints, Blocks, Goto
<1>1. CASE Start(k)
  BY <1>1 DEF Start
<1>2. CASE Encode(k)
  BY <1>2 DEF Encode
<1>3. CASE EncodeFails(k)
  BY <1>3 DEF EncodeFails
<1>4. CASE CheckTurn(k)
  BY <1>4 DEF CheckTurn
<1>5. CASE Recheck(k)
  BY <1>5 DEF Recheck, Canceled
<1>6. CASE EmitSize(k)
  BY <1>6 DEF EmitSize
<1>7. CASE EmitData(k)
  BY <1>7 DEF EmitData
<1>8. CASE EmitFails(k)
  BY <1>8 DEF EmitFails
<1>9. CASE Publish(k)
  BY <1>9 DEF Publish
<1>10. CASE Cancel(k)
  BY <1>10 DEF Cancel
<1>11. CASE Notify(k)
  BY <1>11 DEF Notify, Woken
<1>12. CASE Listen(k)
  BY <1>12 DEF Listen
<1>13. CASE ListenFails(k)
  BY <1>13 DEF ListenFails
<1>14. CASE SpuriousWake(k)
  BY <1>14 DEF SpuriousWake
<1> QED
  BY <1>1, <1>2, <1>3, <1>4, <1>5, <1>6, <1>7, <1>8, <1>9, <1>10, <1>11,
     <1>12, <1>13, <1>14
  DEF TaskStep, TaskRuns


LEMMA RingTask ==
  ASSUME Ownership, NEW k \in Blocks, TaskStep(k)
  PROVE  LaunchedBlocks' /\ FuturesMatchSlots' /\ LiveHasFuture'
<1> USE DEF Ownership, TypeOK, RingTypeOK, TaskTypeOK, LaunchedBlocks,
        FuturesMatchSlots, LiveHasFuture, Live, Blocks, Goto, clientVars
<1>1. CASE Start(k)
  BY <1>1 DEF Start
<1>2. CASE Encode(k)
  BY <1>2 DEF Encode
<1>3. CASE EncodeFails(k)
  BY <1>3 DEF EncodeFails
<1>4. CASE CheckTurn(k)
  BY <1>4 DEF CheckTurn
<1>5. CASE Recheck(k)
  BY <1>5 DEF Recheck, Canceled
<1>6. CASE EmitSize(k)
  BY <1>6 DEF EmitSize
<1>7. CASE EmitData(k)
  BY <1>7 DEF EmitData
<1>8. CASE EmitFails(k)
  BY <1>8 DEF EmitFails
<1>9. CASE Publish(k)
  BY <1>9 DEF Publish
<1>10. CASE Cancel(k)
  BY <1>10 DEF Cancel
<1>11. CASE Notify(k)
  BY <1>11 DEF Notify, Woken
<1>12. CASE Listen(k)
  BY <1>12 DEF Listen
<1>13. CASE ListenFails(k)
  BY <1>13 DEF ListenFails
<1>14. CASE SpuriousWake(k)
  BY <1>14 DEF SpuriousWake
<1> QED
  BY <1>1, <1>2, <1>3, <1>4, <1>5, <1>6, <1>7, <1>8, <1>9, <1>10, <1>11,
     <1>12, <1>13, <1>14
  DEF TaskStep, TaskRuns

\* Only a launch touches the tasks.
LEMMA ClientFrame ==
  ASSUME ClientStep \/ ClientCall
  PROVE  Launch \/ LaunchFails \/ UNCHANGED taskVars
<1>1. CASE WriteChunk
  BY <1>1 DEF WriteChunk, Fill, Room, Threshold
<1>2. CASE WriteFull
  BY <1>2 DEF WriteFull, Threshold
<1>3. CASE WriteReturns
  BY <1>3 DEF WriteReturns
<1>4. CASE PutUnit
  BY <1>4 DEF PutUnit, Fill
<1>5. CASE SubmitOnClosed
  BY <1>5 DEF SubmitOnClosed, Throw
<1>6. CASE SubmitNothing
  BY <1>6 DEF SubmitNothing, WriteHeader, AfterSubmit
<1>7. CASE Launch
  BY <1>7 DEF Launch, NewTask, WriteHeader, AfterSubmit
<1>8. CASE LaunchFails
  BY <1>8 DEF LaunchFails, NewTask, WriteHeader, Throw
<1>9. CASE Await
  BY <1>9 DEF Await, Collected
<1>10. CASE AwaitFails
  BY <1>10 DEF AwaitFails, CollectFails, Throw
<1>11. CASE Drain
  BY <1>11 DEF Drain, MoreToDrain, Collected
<1>12. CASE DrainFails
  BY <1>12 DEF DrainFails, CollectFails, Throw
<1>13. CASE Seal
  BY <1>13 DEF Seal
<1>14. CASE SealFails
  BY <1>14 DEF SealFails, Throw
<1>15. CASE Release
  BY <1>15 DEF Release
<1>16. CASE Free
  BY <1>16 DEF Free
<1>17. CASE CallPut
  BY <1>17 DEF CallPut, Threshold
<1>18. CASE CallClose
  BY <1>18 DEF CallClose
<1>19. CASE CallDestroy
  BY <1>19 DEF CallDestroy
<1>20. ASSUME NEW n \in WriteSizes, CallWrite(n)
     PROVE  Launch \/ LaunchFails \/ UNCHANGED taskVars
  BY <1>20 DEF CallWrite
<1> QED
  BY <1>1, <1>2, <1>3, <1>4, <1>5, <1>6, <1>7, <1>8, <1>9, <1>10, <1>11,
     <1>12, <1>13, <1>14, <1>15, <1>16, <1>17, <1>18, <1>19, <1>20
  DEF ClientStep, ClientCall


LEMMA ClientTypeClient ==
  ASSUME Ownership, ClientStep \/ ClientCall
  PROVE  ClientTypeOK'
<1> USE ConstantsAssumption
    DEF Ownership, TypeOK, ClientTypeOK, RingTypeOK, TaskTypeOK, Slots,
        clientVars
<1>1. CASE WriteChunk
  <2>1. remaining' \in Nat
    BY <1>1 DEF WriteChunk, Room, Threshold
  <2> QED
    BY <1>1, <2>1 DEF WriteChunk
<1>2. CASE WriteFull
  BY <1>2 DEF WriteFull, Threshold
<1>3. CASE WriteReturns
  BY <1>3 DEF WriteReturns
<1>4. CASE PutUnit
  BY <1>4 DEF PutUnit, Fill
<1>5. CASE SubmitOnClosed
  BY <1>5 DEF SubmitOnClosed, Throw
<1>6. CASE SubmitNothing
  BY <1>6 DEF SubmitNothing, WriteHeader, AfterSubmit
<1>7. CASE Launch
  <2>1. initialized' \in {0, 1}
    BY <1>7, NewTaskRing DEF Launch
  <2>2. mpc' \in {"await", "drain"} /\ drain' \in Slots
    BY <1>7, AfterSubmitType DEF Launch
  <2> QED
    BY <1>7, <2>1, <2>2 DEF Launch
<1>8. CASE LaunchFails
  BY <1>8 DEF LaunchFails, NewTask, WriteHeader, Throw
<1>9. CASE Await
  BY <1>9 DEF Await, CallMatchesPlace
<1>10. CASE AwaitFails
  BY <1>10 DEF AwaitFails, CollectFails, Throw
<1>11. CASE Drain
  <2>1. mpc' \in {"drain", "seal"}
    BY <1>11 DEF Drain, MoreToDrain
  <2>2. drain' \in Slots
    BY <1>11, DrainType
  <2> QED
    BY <1>11, <2>1, <2>2 DEF Drain, MoreToDrain
<1>12. CASE DrainFails
  BY <1>12 DEF DrainFails, CollectFails, Throw
<1>13. CASE Seal
  BY <1>13 DEF Seal
<1>14. CASE SealFails
  BY <1>14 DEF SealFails, Throw
<1>15. CASE Release
  BY <1>15 DEF Release
<1>16. CASE Free
  BY <1>16 DEF Free
<1>17. CASE CallPut
  BY <1>17 DEF CallPut, Threshold
<1>18. CASE CallClose
  BY <1>18 DEF CallClose
<1>19. CASE CallDestroy
  BY <1>19 DEF CallDestroy
<1>20. ASSUME NEW n \in WriteSizes, CallWrite(n)
     PROVE  ClientTypeOK'
  BY <1>20 DEF CallWrite
<1> QED
  BY <1>1, <1>2, <1>3, <1>4, <1>5, <1>6, <1>7, <1>8, <1>9, <1>10, <1>11,
     <1>12, <1>13, <1>14, <1>15, <1>16, <1>17, <1>18, <1>19, <1>20
  DEF ClientStep, ClientCall


LEMMA RingTypeClient ==
  ASSUME Ownership, ClientStep \/ ClientCall
  PROVE  RingTypeOK' /\ IndexInArray'
<1> USE ConstantsAssumption, NextSlotInSlots
    DEF Ownership, TypeOK, ClientTypeOK, RingTypeOK, TaskTypeOK, IndexInArray
<1>1. CASE WriteChunk
  <2> DEFINE n == IF remaining < Room THEN remaining ELSE Room
  <2>1. n \in Nat /\ index[bufferId] + n <= BlockSize
    BY <1>1 DEF WriteChunk, Room, Threshold
  <2>2. Fill(n) /\ UNCHANGED <<bufferId, futures, inputBlockId>>
    BY <1>1 DEF WriteChunk
  <2> QED
    BY <2>1, <2>2, FillType
<1>2. CASE WriteFull
  BY <1>2 DEF WriteFull, Threshold
<1>3. CASE WriteReturns
  BY <1>3 DEF WriteReturns
<1>4. CASE PutUnit
  <2> DEFINE n == 1
  <2>1. n \in Nat /\ index[bufferId] + n <= BlockSize
    BY <1>4 DEF PutUnit, CallMatchesPlace
  <2>2. Fill(n) /\ UNCHANGED <<bufferId, futures, inputBlockId>>
    BY <1>4 DEF PutUnit
  <2> QED
    BY <2>1, <2>2, FillType
<1>5. CASE SubmitOnClosed
  BY <1>5 DEF SubmitOnClosed, Throw
<1>6. CASE SubmitNothing
  BY <1>6 DEF SubmitNothing, WriteHeader, AfterSubmit
<1>7. CASE Launch
  <2>1. /\ inputBlockId' = inputBlockId + 1
        /\ inputBlockId + 1 \in Blocks
        /\ index' = [index EXCEPT ![bufferId] = 0]
    BY <1>7, NewTaskRing DEF Launch
  <2>2. bufferId' \in Slots
    BY <1>7, AfterSubmitType DEF Launch
  <2>3. futures' = [futures EXCEPT ![bufferId] = inputBlockId + 1]
    BY <1>7 DEF Launch
  <2>4. UNCHANGED <<array, accepted>>
    BY <1>7 DEF Launch
  <2> QED
    BY <2>1, <2>2, <2>3, <2>4 DEF Blocks
<1>8. CASE LaunchFails
  <2>1. /\ inputBlockId' = inputBlockId + 1
        /\ inputBlockId + 1 \in Blocks
        /\ index' = [index EXCEPT ![bufferId] = 0]
    BY <1>8, NewTaskRing DEF LaunchFails
  <2>2. UNCHANGED <<array, accepted, bufferId, futures>>
    BY <1>8 DEF LaunchFails
  <2> QED
    BY <2>1, <2>2 DEF Blocks
<1>9. CASE Await
  BY <1>9 DEF Await, Collected
<1>10. CASE AwaitFails
  BY <1>10 DEF AwaitFails, CollectFails, Throw
<1>11. CASE Drain
  BY <1>11 DEF Drain, MoreToDrain, Collected
<1>12. CASE DrainFails
  BY <1>12 DEF DrainFails, CollectFails, Throw
<1>13. CASE Seal
  BY <1>13 DEF Seal
<1>14. CASE SealFails
  BY <1>14 DEF SealFails, Throw
<1>15. CASE Release
  BY <1>15 DEF Release
<1>16. CASE Free
  BY <1>16 DEF Free
<1>17. CASE CallPut
  BY <1>17 DEF CallPut, Threshold
<1>18. CASE CallClose
  BY <1>18 DEF CallClose
<1>19. CASE CallDestroy
  BY <1>19 DEF CallDestroy
<1>20. ASSUME NEW n \in WriteSizes, CallWrite(n)
     PROVE  RingTypeOK' /\ IndexInArray'
  BY <1>20 DEF CallWrite
<1> QED
  BY <1>1, <1>2, <1>3, <1>4, <1>5, <1>6, <1>7, <1>8, <1>9, <1>10, <1>11,
     <1>12, <1>13, <1>14, <1>15, <1>16, <1>17, <1>18, <1>19, <1>20
  DEF ClientStep, ClientCall


LEMMA RingClient ==
  ASSUME Ownership, ClientStep \/ ClientCall
  PROVE  LaunchedBlocks' /\ FuturesMatchSlots' /\ LiveHasFuture'
<1> USE NextSlotInSlots
    DEF Ownership, TypeOK, ClientTypeOK, RingTypeOK, TaskTypeOK, LaunchedBlocks,
        FuturesMatchSlots, LiveHasFuture, Live, Blocks, taskVars
<1>1. CASE WriteChunk
  BY <1>1 DEF WriteChunk, Fill, Room, Threshold
<1>2. CASE WriteFull
  BY <1>2 DEF WriteFull, Threshold
<1>3. CASE WriteReturns
  BY <1>3 DEF WriteReturns
<1>4. CASE PutUnit
  BY <1>4 DEF PutUnit, Fill
<1>5. CASE SubmitOnClosed
  BY <1>5 DEF SubmitOnClosed, Throw
<1>6. CASE SubmitNothing
  BY <1>6 DEF SubmitNothing, WriteHeader, AfterSubmit
<1>7. CASE Launch
  <2>1. /\ inputBlockId' = inputBlockId + 1
        /\ inputBlockId + 1 \in Blocks
        /\ mpc = "submit" /\ closed = 0
    BY <1>7, NewTaskRing DEF Launch
  <2>2. /\ pc' = [pc EXCEPT ![inputBlockId + 1] = "queued"]
        /\ slot' = [slot EXCEPT ![inputBlockId + 1] = bufferId]
    BY <1>7, NewTaskTasks DEF Launch
  <2>3. futures' = [futures EXCEPT ![bufferId] = inputBlockId + 1]
    BY <1>7 DEF Launch
  <2>4. futures[bufferId] = 0
    BY <2>1 DEF CurrentSlotFree
  <2>5. LaunchedBlocks'
    BY <2>1, <2>2
  <2>6. FuturesMatchSlots'
    BY <2>1, <2>2, <2>3
  <2>7. LiveHasFuture'
    BY <2>1, <2>2, <2>3, <2>4
  <2> QED
    BY <2>5, <2>6, <2>7
<1>8. CASE LaunchFails
  BY <1>8 DEF LaunchFails, NewTask, WriteHeader, Throw
<1>9. CASE Await
  BY <1>9 DEF Await, Collected
<1>10. CASE AwaitFails
  BY <1>10 DEF AwaitFails, CollectFails, Throw
<1>11. CASE Drain
  BY <1>11 DEF Drain, MoreToDrain, Collected
<1>12. CASE DrainFails
  BY <1>12 DEF DrainFails, CollectFails, Throw
<1>13. CASE Seal
  BY <1>13 DEF Seal
<1>14. CASE SealFails
  BY <1>14 DEF SealFails, Throw
<1>15. CASE Release
  BY <1>15 DEF Release
<1>16. CASE Free
  BY <1>16 DEF Free
<1>17. CASE CallPut
  BY <1>17 DEF CallPut, Threshold
<1>18. CASE CallClose
  BY <1>18 DEF CallClose
<1>19. CASE CallDestroy
  BY <1>19 DEF CallDestroy
<1>20. ASSUME NEW n \in WriteSizes, CallWrite(n)
     PROVE  LaunchedBlocks' /\ FuturesMatchSlots' /\ LiveHasFuture'
  BY <1>20 DEF CallWrite
<1> QED
  BY <1>1, <1>2, <1>3, <1>4, <1>5, <1>6, <1>7, <1>8, <1>9, <1>10, <1>11,
     <1>12, <1>13, <1>14, <1>15, <1>16, <1>17, <1>18, <1>19, <1>20
  DEF ClientStep, ClientCall


LEMMA PlaceClient ==
  ASSUME Ownership, ClientStep \/ ClientCall
  PROVE  CurrentSlotFree' /\ CallMatchesPlace'
<1> USE ConstantsAssumption, NextSlotInSlots
    DEF Ownership, TypeOK, ClientTypeOK, RingTypeOK, TaskTypeOK,
        CurrentSlotFree, CallMatchesPlace
<1>1. CASE WriteChunk
  BY <1>1 DEF WriteChunk, Fill, Room, Threshold
<1>2. CASE WriteFull
  BY <1>2 DEF WriteFull, Threshold
<1>3. CASE WriteReturns
  BY <1>3 DEF WriteReturns
<1>4. CASE PutUnit
  BY <1>4 DEF PutUnit, Fill
<1>5. CASE SubmitOnClosed
  BY <1>5 DEF SubmitOnClosed, Throw
<1>6. CASE SubmitNothing
  BY <1>6 DEF SubmitNothing, WriteHeader, AfterSubmit
<1>7. CASE Launch
  <2>1. closed = 0
    BY <1>7, NewTaskRing DEF Launch
  <2>2. /\ mpc' \in {"await", "drain"}
        /\ mpc' = "drain" => call \in {"close", "destroy"}
        /\ mpc' = "await" => call \notin {"close", "destroy"}
    BY <1>7, AfterSubmitType DEF Launch
  <2>3. call \in {"write", "put", "close", "destroy"} /\ UNCHANGED <<call, closed>>
    BY <1>7 DEF Launch, NewTask
  <2> QED
    BY <2>1, <2>2, <2>3
<1>8. CASE LaunchFails
  BY <1>8 DEF LaunchFails, NewTask, WriteHeader, Throw
<1>9. CASE Await
  BY <1>9 DEF Await, Collected
<1>10. CASE AwaitFails
  BY <1>10 DEF AwaitFails, CollectFails, Throw
<1>11. CASE Drain
  BY <1>11 DEF Drain, MoreToDrain, Collected
<1>12. CASE DrainFails
  BY <1>12 DEF DrainFails, CollectFails, Throw
<1>13. CASE Seal
  BY <1>13 DEF Seal
<1>14. CASE SealFails
  BY <1>14 DEF SealFails, Throw
<1>15. CASE Release
  BY <1>15 DEF Release
<1>16. CASE Free
  BY <1>16 DEF Free
<1>17. CASE CallPut
  BY <1>17 DEF CallPut, Threshold
<1>18. CASE CallClose
  BY <1>18 DEF CallClose
<1>19. CASE CallDestroy
  BY <1>19 DEF CallDestroy
<1>20. ASSUME NEW n \in WriteSizes, CallWrite(n)
     PROVE  CurrentSlotFree' /\ CallMatchesPlace'
  BY <1>20 DEF CallWrite
<1> QED
  BY <1>1, <1>2, <1>3, <1>4, <1>5, <1>6, <1>7, <1>8, <1>9, <1>10, <1>11,
     <1>12, <1>13, <1>14, <1>15, <1>16, <1>17, <1>18, <1>19, <1>20
  DEF ClientStep, ClientCall

LEMMA ClientTypeTask ==
  ASSUME Ownership, NEW k \in Blocks, TaskStep(k)
  PROVE  ClientTypeOK'
  BY TaskFrame DEF Ownership, TypeOK, ClientTypeOK

\* A failing task may move the index of its own buffer, within its contents.
LEMMA RingTypeTask ==
  ASSUME Ownership, NEW k \in Blocks, TaskStep(k)
  PROVE  RingTypeOK' /\ IndexInArray'
<1> USE ConstantsAssumption
    DEF Ownership, TypeOK, RingTypeOK, TaskTypeOK, IndexInArray
<1>1. CASE EncodeFails(k)
  BY <1>1 DEF EncodeFails
<1>2. CASE UNCHANGED index
  BY <1>2, TaskFrame
<1> QED
  BY <1>1, <1>2, TaskFrame

\* That buffer is not the one the client fills.
LEMMA PlaceTask ==
  ASSUME Ownership, NEW k \in Blocks, TaskStep(k)
  PROVE  CurrentSlotFree' /\ CallMatchesPlace'
<1> USE DEF Ownership, CurrentSlotFree, CallMatchesPlace
<1>1. CASE EncodeFails(k)
  <2>1. mpc = "put" => slot[k] # bufferId
    BY <1>1, ConstantsAssumption
    DEF EncodeFails, LiveHasFuture, Live, Blocks
  <2> QED
    BY <1>1, <2>1 DEF EncodeFails, TypeOK, RingTypeOK
<1>2. CASE UNCHANGED index
  BY <1>2, TaskFrame
<1> QED
  BY <1>1, <1>2, TaskFrame

LEMMA StreamTypeTask ==
  ASSUME Ownership, NEW k \in Blocks, TaskStep(k)
  PROVE  StreamTypeOK'
<1> USE DEF Ownership, TypeOK, StreamTypeOK
<1>1. CASE EmitSize(k)
  <2>1. SizeOf(k) \in Items
    BY ItemTypes
  <2> QED
    BY <1>1, <2>1 DEF EmitSize
<1>2. CASE EmitData(k)
  <2>1. DataOf(k, array[slot[k]]) \in Items
    BY ItemTypes DEF RingTypeOK, TaskTypeOK
  <2> QED
    BY <1>2, <2>1 DEF EmitData
<1>3. CASE UNCHANGED out
  BY <1>3
<1> QED
  BY <1>1, <1>2, <1>3, TaskFrame

\* The client appends a header when it submits, and the end marker.
LEMMA ClientOutput ==
  ASSUME ClientStep \/ ClientCall
  PROVE  out' \in {out, Append(out, Header), Append(out, EndMarker)}
<1>1. CASE WriteChunk
  BY <1>1 DEF WriteChunk
<1>2. CASE WriteFull
  BY <1>2 DEF WriteFull
<1>3. CASE WriteReturns
  BY <1>3 DEF WriteReturns
<1>4. CASE PutUnit
  BY <1>4 DEF PutUnit
<1>5. CASE SubmitOnClosed
  BY <1>5 DEF SubmitOnClosed
<1>6. CASE SubmitNothing
  BY <1>6 DEF SubmitNothing, WriteHeader
<1>7. CASE Launch
  BY <1>7 DEF Launch, NewTask, WriteHeader
<1>8. CASE LaunchFails
  BY <1>8 DEF LaunchFails, NewTask, WriteHeader
<1>9. CASE Await
  BY <1>9 DEF Await
<1>10. CASE AwaitFails
  BY <1>10 DEF AwaitFails
<1>11. CASE Drain
  BY <1>11 DEF Drain, MoreToDrain
<1>12. CASE DrainFails
  BY <1>12 DEF DrainFails
<1>13. CASE Seal
  BY <1>13 DEF Seal
<1>14. CASE SealFails
  BY <1>14 DEF SealFails
<1>15. CASE Release
  BY <1>15 DEF Release
<1>16. CASE Free
  BY <1>16 DEF Free
<1>17. CASE CallPut
  BY <1>17 DEF CallPut
<1>18. CASE CallClose
  BY <1>18 DEF CallClose
<1>19. CASE CallDestroy
  BY <1>19 DEF CallDestroy
<1>20. ASSUME NEW n \in WriteSizes, CallWrite(n)
       PROVE  UNCHANGED out
  BY <1>20 DEF CallWrite
<1> QED
  BY <1>1, <1>2, <1>3, <1>4, <1>5, <1>6, <1>7, <1>8, <1>9, <1>10, <1>11,
     <1>12, <1>13, <1>14, <1>15, <1>16, <1>17, <1>18, <1>19, <1>20
  DEF ClientStep, ClientCall

LEMMA StreamTypeClient ==
  ASSUME Ownership, ClientStep \/ ClientCall
  PROVE  StreamTypeOK'
  BY ClientOutput, ItemTypes DEF Ownership, TypeOK, StreamTypeOK

LEMMA TaskTypeClient ==
  ASSUME Ownership, ClientStep \/ ClientCall
  PROVE  TaskTypeOK'
<1> USE DEF Ownership, TypeOK, TaskTypeOK, AllFaultPoints
<1>1. CASE Launch
  <2>1. /\ inputBlockId + 1 \in Blocks
        /\ pc' = [pc EXCEPT ![inputBlockId + 1] = "queued"]
        /\ slot' = [slot EXCEPT ![inputBlockId + 1] = bufferId]
        /\ content' \in [Blocks -> Seq(Nat)]
    BY <1>1, NewTaskRing, NewTaskTasks DEF Launch
  <2>2. UNCHANGED <<blockId, cause>>
    BY <1>1 DEF Launch
  <2> QED
    BY <2>1, <2>2 DEF RingTypeOK
<1>2. CASE LaunchFails
  <2>1. /\ inputBlockId + 1 \in Blocks
        /\ pc' = [pc EXCEPT ![inputBlockId + 1] = "lost"]
        /\ slot' = [slot EXCEPT ![inputBlockId + 1] = bufferId]
        /\ content' \in [Blocks -> Seq(Nat)]
    BY <1>2, NewTaskRing, NewTaskTasks DEF LaunchFails
  <2>2. /\ cause' = [cause EXCEPT ![inputBlockId + 1] = "launch"]
        /\ UNCHANGED blockId
    BY <1>2 DEF LaunchFails
  <2> QED
    BY <2>1, <2>2 DEF RingTypeOK
<1>3. CASE UNCHANGED taskVars
  BY <1>3 DEF taskVars
<1> QED
  BY <1>1, <1>2, <1>3, ClientFrame

LEMMA OwnershipNext == Ownership /\ [Next]_vars => Ownership'
<1> SUFFICES ASSUME Ownership, [Next]_vars PROVE Ownership'
  OBVIOUS
<1>1. CASE ClientStep \/ ClientCall
  BY <1>1, ClientTypeClient, RingTypeClient, TaskTypeClient, StreamTypeClient,
     RingClient, PlaceClient
  DEF Ownership, TypeOK
<1>2. ASSUME NEW k \in Blocks, TaskStep(k) PROVE Ownership'
  BY <1>2, ClientTypeTask, RingTypeTask, TaskTypeTask, StreamTypeTask,
     RingTask, PlaceTask
  DEF Ownership, TypeOK
<1>3. CASE UNCHANGED vars
  BY <1>3
  DEF vars, clientVars, taskVars, Ownership, TypeOK, ClientTypeOK, RingTypeOK,
      TaskTypeOK, StreamTypeOK, IndexInArray, LaunchedBlocks,
      FuturesMatchSlots, LiveHasFuture, CurrentSlotFree, CallMatchesPlace,
      Live
<1> QED
  BY <1>1, <1>2, <1>3 DEF Next, Terminated

\* Every reachable state satisfies the ownership discipline of the ring.
THEOREM OwnershipHolds == Spec => []Ownership
  BY OwnershipInit, OwnershipNext, PTL DEF Spec

\* No state of the stream is ill-typed; in particular no buffer's index leaves
\* the buffer.
THEOREM TypeCorrect == Spec => []TypeOK
<1>1. Ownership => TypeOK
  BY DEF Ownership
<1> QED
  BY <1>1, OwnershipHolds, PTL

\* No future is overwritten or consumed while its task runs.
THEOREM FutureOwnsLiveHolds == Spec => []FutureOwnsLive
<1>1. Ownership => FutureOwnsLive
  BY DEF Ownership, LiveHasFuture, FutureOwnsLive
<1> QED
  BY <1>1, OwnershipHolds, PTL

-----------------------------------------------------------------------------
(* The turns.  As long as blocks only fail while they hold the turn, the   *)
(* tasks that have been passed are behind _blockId, the one that may write *)
(* is the next, and all others wait; once CANCEL is stored nobody writes.  *)

Passed(k)  == pc[k] \in {"notify", "listen", "done"}
Waiting(k) == pc[k] \in {"none", "queued", "encode", "wait", "asleep"}

TurnsInOrder ==
  FailsInTurnOnly /\ blockId # CANCEL =>
    \A k \in Blocks :
      /\ k <= blockId => Passed(k)
      /\ k > blockId => \/ Waiting(k)
                        \/ /\ k = blockId + 1
                           /\ pc[k] \in {"recheck", "size", "data", "publish",
                                         "cancel"}

NoTurnAfterCancel ==
  FailsInTurnOnly /\ blockId = CANCEL =>
    \A k \in Blocks : pc[k] \notin {"size", "data", "publish", "cancel"}

\* A fault is the end of its block.
FaultEndsBlock ==
  \A k \in Blocks :
    cause[k] # "none" => pc[k] \in {"lost", "cancel", "cnotify", "failed"}

Turns == TurnsInOrder /\ NoTurnAfterCancel /\ FaultEndsBlock

LEMMA TurnsInit == Init => Turns
  BY ConstantsAssumption
  DEF Init, Turns, TurnsInOrder, NoTurnAfterCancel, FaultEndsBlock, Waiting,
      Blocks, CANCEL

\* The task that may write is the one of the next block.
LEMMA HolderIsNext ==
  ASSUME Ownership, TurnsInOrder, FailsInTurnOnly, blockId # CANCEL,
         NEW k \in Blocks, pc[k] \in {"size", "data", "publish", "cancel"}
  PROVE  k = blockId + 1
<1>1. ~Passed(k) /\ ~Waiting(k)
  BY DEF Passed, Waiting
<1>2. k \in Nat /\ blockId \in Nat
  BY ConstantsAssumption
  DEF Blocks, Ownership, TypeOK, TaskTypeOK, CANCEL
<1>3. ~(k <= blockId)
  BY <1>1 DEF TurnsInOrder
<1>4. k > blockId
  BY <1>2, <1>3
<1> QED
  BY <1>1, <1>4 DEF TurnsInOrder

LEMMA FaultEndsBlockTask ==
  ASSUME Ownership, Turns, NEW k \in Blocks, TaskStep(k)
  PROVE  FaultEndsBlock'
<1> USE DEF Ownership, TypeOK, TaskTypeOK, Turns, FaultEndsBlock, Goto
<1>1. CASE Start(k)
  BY <1>1 DEF Start
<1>2. CASE Encode(k)
  BY <1>2 DEF Encode
<1>3. CASE EncodeFails(k)
  BY <1>3 DEF EncodeFails
<1>4. CASE CheckTurn(k)
  BY <1>4 DEF CheckTurn
<1>5. CASE Recheck(k)
  BY <1>5 DEF Recheck, Canceled
<1>6. CASE EmitSize(k)
  BY <1>6 DEF EmitSize
<1>7. CASE EmitData(k)
  BY <1>7 DEF EmitData
<1>8. CASE EmitFails(k)
  BY <1>8 DEF EmitFails
<1>9. CASE Publish(k)
  BY <1>9 DEF Publish
<1>10. CASE Cancel(k)
  BY <1>10 DEF Cancel
<1>11. CASE Notify(k)
  BY <1>11 DEF Notify, Woken
<1>12. CASE Listen(k)
  BY <1>12 DEF Listen
<1>13. CASE ListenFails(k)
  BY <1>13 DEF ListenFails
<1>14. CASE SpuriousWake(k)
  BY <1>14 DEF SpuriousWake
<1> QED
  BY <1>1, <1>2, <1>3, <1>4, <1>5, <1>6, <1>7, <1>8, <1>9, <1>10, <1>11,
     <1>12, <1>13, <1>14
  DEF TaskStep, TaskRuns

\* Faults are never forgotten.
LEMMA FaultsStay ==
  ASSUME Ownership, Turns, NEW k \in Blocks, TaskStep(k), FailsInTurnOnly'
  PROVE  FailsInTurnOnly
<1> USE DEF Ownership, TypeOK, TaskTypeOK, Turns, FaultEndsBlock, FailsInTurnOnly
<1>1. CASE Start(k)
  BY <1>1 DEF Start
<1>2. CASE Encode(k)
  BY <1>2 DEF Encode
<1>3. CASE EncodeFails(k)
  BY <1>3 DEF EncodeFails
<1>4. CASE CheckTurn(k)
  BY <1>4 DEF CheckTurn
<1>5. CASE Recheck(k)
  BY <1>5 DEF Recheck, Canceled
<1>6. CASE EmitSize(k)
  BY <1>6 DEF EmitSize
<1>7. CASE EmitData(k)
  BY <1>7 DEF EmitData
<1>8. CASE EmitFails(k)
  BY <1>8 DEF EmitFails
<1>9. CASE Publish(k)
  BY <1>9 DEF Publish
<1>10. CASE Cancel(k)
  BY <1>10 DEF Cancel
<1>11. CASE Notify(k)
  BY <1>11 DEF Notify, Woken
<1>12. CASE Listen(k)
  BY <1>12 DEF Listen
<1>13. CASE ListenFails(k)
  BY <1>13 DEF ListenFails
<1>14. CASE SpuriousWake(k)
  BY <1>14 DEF SpuriousWake
<1> QED
  BY <1>1, <1>2, <1>3, <1>4, <1>5, <1>6, <1>7, <1>8, <1>9, <1>10, <1>11,
     <1>12, <1>13, <1>14
  DEF TaskStep, TaskRuns

LEMMA TurnsTask ==
  ASSUME Ownership, Turns, NEW k \in Blocks, TaskStep(k), FailsInTurnOnly,
         FailsInTurnOnly'
  PROVE  TurnsInOrder' /\ NoTurnAfterCancel'
<1> USE ConstantsAssumption
    DEF Ownership, TypeOK, TaskTypeOK, Turns, TurnsInOrder, NoTurnAfterCancel,
        Passed, Waiting, Blocks, CANCEL, Goto
<1>1. CASE Start(k)
  BY <1>1 DEF Start
<1>2. CASE Encode(k)
  BY <1>2 DEF Encode
<1>3. CASE EncodeFails(k)
  BY <1>3 DEF EncodeFails, FailsInTurnOnly
<1>4. CASE CheckTurn(k)
  <2>1. pc[k] = "wait" /\ UNCHANGED <<blockId, cause>>
    BY <1>4 DEF CheckTurn
  <2>2. CASE MayProceed(k)
    <3>1. pc' = [pc EXCEPT ![k] = "recheck"]
      BY <1>4, <2>2 DEF CheckTurn
    <3>2. blockId = CANCEL \/ k = blockId + 1
      BY <2>2 DEF MayProceed
    <3> QED
      BY <2>1, <3>1, <3>2
  <2>3. CASE ~MayProceed(k)
    <3>1. pc' = [pc EXCEPT ![k] = "asleep"]
      BY <1>4, <2>3 DEF CheckTurn
    <3> QED
      BY <2>1, <3>1
  <2> QED
    BY <2>2, <2>3
<1>5. CASE Recheck(k)
  BY <1>5 DEF Recheck, Canceled
<1>6. CASE EmitSize(k)
  BY <1>6 DEF EmitSize
<1>7. CASE EmitData(k)
  BY <1>7 DEF EmitData
<1>8. CASE EmitFails(k)
  BY <1>8 DEF EmitFails
<1>9. CASE Publish(k)
  <2>1. /\ pc[k] = "publish"
        /\ blockId' = k
        /\ pc' = [pc EXCEPT ![k] = "notify"]
    BY <1>9 DEF Publish
  <2>2. blockId # CANCEL
    BY <2>1
  <2>3. k = blockId + 1
    BY <2>1, <2>2, HolderIsNext
  <2>4. \A j \in Blocks : j # k => pc'[j] = pc[j]
    BY <2>1
  <2>5. \A j \in Blocks : j < k => Passed(j)
    BY <2>2, <2>3
  <2>6. \A j \in Blocks : j > k => Waiting(j)
    BY <2>2, <2>3
  <2>7. pc'[k] = "notify"
    BY <2>1
  <2> QED
    BY <2>1, <2>4, <2>5, <2>6, <2>7
<1>10. CASE Cancel(k)
  <2>1. /\ pc[k] = "cancel"
        /\ blockId' = CANCEL
        /\ pc' = [pc EXCEPT ![k] = "cnotify"]
    BY <1>10 DEF Cancel
  <2>2. blockId # CANCEL
    BY <2>1
  <2>3. k = blockId + 1
    BY <2>1, <2>2, HolderIsNext
  <2>4. \A j \in Blocks : j # k => Passed(j) \/ Waiting(j)
    BY <2>2, <2>3
  <2> QED
    BY <2>1, <2>4
<1>11. CASE Notify(k)
  BY <1>11 DEF Notify, Woken
<1>12. CASE Listen(k)
  BY <1>12 DEF Listen
<1>13. CASE ListenFails(k)
  BY <1>13 DEF ListenFails, FailsInTurnOnly
<1>14. CASE SpuriousWake(k)
  BY <1>14 DEF SpuriousWake, FailsInTurnOnly
<1> QED
  BY <1>1, <1>2, <1>3, <1>4, <1>5, <1>6, <1>7, <1>8, <1>9, <1>10, <1>11,
     <1>12, <1>13, <1>14
  DEF TaskStep, TaskRuns

LEMMA TurnsClient ==
  ASSUME Ownership, Turns, ClientStep \/ ClientCall
  PROVE  Turns'
<1> USE ConstantsAssumption
    DEF Ownership, TypeOK, TaskTypeOK, RingTypeOK, LaunchedBlocks, Turns,
        TurnsInOrder, NoTurnAfterCancel, FaultEndsBlock, FailsInTurnOnly,
        Passed, Waiting, Blocks, CANCEL
<1>1. CASE Launch
  <2>1. /\ inputBlockId + 1 \in Blocks
        /\ pc' = [pc EXCEPT ![inputBlockId + 1] = "queued"]
    BY <1>1, NewTaskRing, NewTaskTasks DEF Launch
  <2>2. UNCHANGED <<blockId, cause>>
    BY <1>1 DEF Launch
  <2>3. pc[inputBlockId + 1] = "none"
    BY <2>1
  <2>4. TurnsInOrder'
    BY <2>1, <2>2, <2>3
  <2>5. NoTurnAfterCancel' /\ FaultEndsBlock'
    BY <2>1, <2>2, <2>3
  <2> QED
    BY <2>4, <2>5
<1>2. CASE LaunchFails
  <2>1. /\ inputBlockId + 1 \in Blocks
        /\ pc' = [pc EXCEPT ![inputBlockId + 1] = "lost"]
    BY <1>2, NewTaskRing, NewTaskTasks DEF LaunchFails
  <2>2. /\ cause' = [cause EXCEPT ![inputBlockId + 1] = "launch"]
        /\ UNCHANGED blockId
    BY <1>2 DEF LaunchFails
  <2>3. ~FailsInTurnOnly'
    BY <2>1, <2>2
  <2>4. FaultEndsBlock'
    BY <2>1, <2>2
  <2> QED
    BY <2>3, <2>4
<1>3. CASE UNCHANGED taskVars
  BY <1>3 DEF taskVars
<1> QED
  BY <1>1, <1>2, <1>3, ClientFrame

LEMMA TurnsNext == Ownership /\ Turns /\ [Next]_vars => Turns'
<1> SUFFICES ASSUME Ownership, Turns, [Next]_vars PROVE Turns'
  OBVIOUS
<1>1. CASE ClientStep \/ ClientCall
  BY <1>1, TurnsClient
<1>2. ASSUME NEW k \in Blocks, TaskStep(k) PROVE Turns'
  <2>1. CASE FailsInTurnOnly'
    BY <1>2, <2>1, FaultsStay, TurnsTask, FaultEndsBlockTask DEF Turns
  <2>2. CASE ~FailsInTurnOnly'
    BY <1>2, <2>2, FaultEndsBlockTask
    DEF Turns, TurnsInOrder, NoTurnAfterCancel
  <2> QED
    BY <2>1, <2>2
<1>3. CASE UNCHANGED vars
  BY <1>3
  DEF vars, taskVars, Turns, TurnsInOrder, NoTurnAfterCancel, FaultEndsBlock,
      FailsInTurnOnly, Passed, Waiting
<1> QED
  BY <1>1, <1>2, <1>3 DEF Next, Terminated

LEMMA TurnsHold == Spec => [](Ownership /\ Turns)
<1>1. Ownership /\ Turns /\ [Next]_vars => Ownership' /\ Turns'
  BY OwnershipNext, TurnsNext
<1> QED
  BY <1>1, OwnershipInit, TurnsInit, PTL DEF Spec

\* At most one task is between the second load of _blockId and the store that
\* passes the turn on, as long as blocks fail in their turn only.
THEOREM SingleWriterHolds == Spec => []SingleWriter
<1>1. Ownership /\ Turns => SingleWriter
  <2> SUFFICES ASSUME Ownership, Turns, FailsInTurnOnly,
                      NEW j \in Blocks, NEW k \in Blocks,
                      Writing(j), Writing(k)
               PROVE  j = k
    BY DEF SingleWriter
  <2>1. blockId # CANCEL
    BY DEF Turns, NoTurnAfterCancel, Writing
  <2>2. j = blockId + 1 /\ k = blockId + 1
    BY <2>1, HolderIsNext DEF Turns, Writing
  <2> QED
    BY <2>2
<1> QED
  BY <1>1, TurnsHold, PTL

\* Which faults can happen decides which do.
LEMMA FailsInTurnOnlyNext ==
  ASSUME FaultPoints \subseteq {"emit", "seal"}, TaskTypeOK, FailsInTurnOnly,
         [Next]_vars
  PROVE  FailsInTurnOnly'
<1> USE DEF FailsInTurnOnly
<1>1. CASE ClientStep \/ ClientCall
  BY <1>1, ClientFrame DEF Launch, LaunchFails, taskVars
<1>2. ASSUME NEW k \in Blocks, TaskStep(k) PROVE FailsInTurnOnly'
  <2>1. UNCHANGED cause \/ cause' = [cause EXCEPT ![k] = "emit"]
    BY <1>2
    DEF TaskStep, TaskRuns, SpuriousWake, Start, Encode, EncodeFails,
        CheckTurn, Recheck, EmitSize, EmitData, EmitFails, Publish, Cancel,
        Notify, Listen, ListenFails
  <2> QED
    BY <2>1 DEF TaskTypeOK
<1>3. CASE UNCHANGED vars
  BY <1>3 DEF vars, taskVars
<1> QED
  BY <1>1, <1>2, <1>3 DEF Next, Terminated

\* When faults can only hit the task that has the turn, CANCEL is never
\* overwritten.
THEOREM CancelIsFinalHolds ==
  ASSUME FaultPoints \subseteq {"emit", "seal"}
  PROVE  Spec => CancelIsFinal
<1>1. Init => FailsInTurnOnly
  BY DEF Init, FailsInTurnOnly
<1>2. TaskTypeOK /\ FailsInTurnOnly /\ [Next]_vars => FailsInTurnOnly'
  BY FailsInTurnOnlyNext
<1>3. Ownership /\ Turns /\ FailsInTurnOnly /\ [Next]_vars
        => [blockId = CANCEL => blockId' = CANCEL]_vars
  <2> SUFFICES ASSUME Ownership, Turns, FailsInTurnOnly, [Next]_vars,
                      blockId = CANCEL
               PROVE  blockId' = CANCEL
    OBVIOUS
  <2>1. CASE ClientStep \/ ClientCall
    BY <2>1, ClientFrame DEF Launch, LaunchFails, taskVars
  <2>2. ASSUME NEW k \in Blocks, TaskStep(k) PROVE blockId' = CANCEL
    <3>1. pc[k] # "publish"
      BY DEF Turns, NoTurnAfterCancel
    <3> QED
      BY <2>2, <3>1
      DEF TaskStep, TaskRuns, SpuriousWake, Start, Encode, EncodeFails,
          CheckTurn, Recheck, EmitSize, EmitData, EmitFails, Publish, Cancel,
          Notify, Listen, ListenFails
  <2>3. CASE UNCHANGED vars
    BY <2>3 DEF vars, taskVars
  <2> QED
    BY <2>1, <2>2, <2>3 DEF Next, Terminated
<1>4. Ownership => TaskTypeOK
  BY DEF Ownership, TypeOK
<1> QED
  BY <1>1, <1>2, <1>3, <1>4, OwnershipInit, TurnsInit, OwnershipNext,
     TurnsNext, PTL
  DEF Spec, CancelIsFinal

-----------------------------------------------------------------------------
(* What close() leaves behind, whatever steps fail: one that has not       *)
(* failed has waited for every task, and nothing follows the end marker.   *)
(* Its loop has consumed the futures of the slots before drain.            *)

DrainedSoFar ==
  mpc = "drain" => \A s \in Slots : s < drain => futures[s] = 0

DrainedAll ==
  mpc = "seal" \/ (mpc = "release" /\ errMsg = "none") =>
    \A s \in Slots : futures[s] = 0

Drainage == DrainedSoFar /\ DrainedAll

LEMMA DrainageInit == Init => Drainage
  BY DEF Init, Drainage, DrainedSoFar, DrainedAll

\* One turn of the loop.
LEMMA DrainageDrain ==
  ASSUME Ownership, Drainage, Drain
  PROVE  Drainage'
<1> USE ConstantsAssumption
    DEF Ownership, TypeOK, ClientTypeOK, RingTypeOK, Drainage, DrainedSoFar,
        DrainedAll, Slots
<1>1. /\ mpc = "drain"
      /\ \A s \in Slots : s <= drain => futures'[s] = 0
  BY DEF Drain
<1>2. CASE drain + 1 < Jobs
  <2>1. drain' = drain + 1 /\ mpc' = "drain"
    BY <1>1, <1>2 DEF Drain, MoreToDrain
  <2> QED
    BY <1>1, <2>1
<1>3. CASE ~(drain + 1 < Jobs)
  <2>1. mpc' = "seal"
    BY <1>3 DEF Drain, MoreToDrain
  <2>2. \A s \in Slots : s <= drain
    BY <1>3
  <2> QED
    BY <1>1, <2>1, <2>2
<1> QED
  BY <1>2, <1>3

LEMMA DrainageClient ==
  ASSUME Ownership, Drainage, ClientStep \/ ClientCall
  PROVE  Drainage'
<1> USE ConstantsAssumption DEF Drainage, DrainedSoFar, DrainedAll
<1>1. CASE WriteChunk
  BY <1>1 DEF WriteChunk
<1>2. CASE WriteFull
  BY <1>2 DEF WriteFull
<1>3. CASE WriteReturns
  BY <1>3 DEF WriteReturns
<1>4. CASE PutUnit
  BY <1>4 DEF PutUnit
<1>5. CASE SubmitOnClosed
  BY <1>5 DEF SubmitOnClosed, Throw
<1>6. CASE SubmitNothing
  BY <1>6 DEF SubmitNothing, AfterSubmit, Slots
<1>7. CASE Launch
  BY <1>7 DEF Launch, AfterSubmit, Slots
<1>8. CASE LaunchFails
  BY <1>8 DEF LaunchFails, Throw
<1>9. CASE Await
  <2>1. call \in {"write", "put"}
    BY <1>9 DEF Await, Ownership, CallMatchesPlace
  <2> QED
    BY <1>9, <2>1 DEF Await
<1>10. CASE AwaitFails
  BY <1>10 DEF AwaitFails, Throw
<1>11. CASE Drain
  BY <1>11, DrainageDrain
<1>12. CASE DrainFails
  BY <1>12 DEF DrainFails, Throw
<1>13. CASE Seal
  BY <1>13 DEF Seal
<1>14. CASE SealFails
  BY <1>14 DEF SealFails, Throw
<1>15. CASE Release
  BY <1>15 DEF Release
<1>16. CASE Free
  BY <1>16 DEF Free
<1>17. CASE CallPut
  BY <1>17 DEF CallPut
<1>18. CASE CallClose
  BY <1>18 DEF CallClose
<1>19. CASE CallDestroy
  BY <1>19 DEF CallDestroy
<1>20. ASSUME NEW n \in WriteSizes, CallWrite(n)
     PROVE  Drainage'
  BY <1>20 DEF CallWrite
<1> QED
  BY <1>1, <1>2, <1>3, <1>4, <1>5, <1>6, <1>7, <1>8, <1>9, <1>10, <1>11,
     <1>12, <1>13, <1>14, <1>15, <1>16, <1>17, <1>18, <1>19, <1>20
  DEF ClientStep, ClientCall

LEMMA DrainageNext == Ownership /\ Drainage /\ [Next]_vars => Drainage'
<1> SUFFICES ASSUME Ownership, Drainage, [Next]_vars PROVE Drainage'
  OBVIOUS
<1>1. CASE ClientStep \/ ClientCall
  BY <1>1, DrainageClient
<1>2. ASSUME NEW k \in Blocks, TaskStep(k) PROVE Drainage'
  BY <1>2, TaskFrame DEF Drainage, DrainedSoFar, DrainedAll
<1>3. CASE UNCHANGED vars
  BY <1>3 DEF vars, clientVars, Drainage, DrainedSoFar, DrainedAll
<1> QED
  BY <1>1, <1>2, <1>3 DEF Next, Terminated

LEMMA DrainageHolds == Spec => [](Ownership /\ Drainage)
<1>1. Ownership /\ Drainage /\ [Next]_vars => Ownership' /\ Drainage'
  BY OwnershipNext, DrainageNext
<1> QED
  BY <1>1, OwnershipInit, DrainageInit, PTL DEF Spec

\* Where no slot has a future no task is left.
LEMMA NoFutureNoTask ==
  ASSUME Ownership, mpc # "dead", \A s \in Slots : futures[s] = 0
  PROVE  \A k \in Blocks : ~Live(k)
<1> SUFFICES ASSUME NEW k \in Blocks, Live(k) PROVE FALSE
  OBVIOUS
<1>1. futures[slot[k]] = k
  BY DEF Ownership, LiveHasFuture
<1>2. slot[k] \in Slots
  BY DEF Ownership, TypeOK, TaskTypeOK
<1>3. k # 0
  BY ConstantsAssumption DEF Blocks
<1> QED
  BY <1>1, <1>2, <1>3

\* The client never fills or submits a buffer that a task still uses, and a
\* close() that has met no error frees the buffers when no task is left.
THEOREM BufferExclusiveHolds == Spec => []BufferExclusive
<1>1. Ownership /\ Drainage => BufferExclusive
  <2> SUFFICES ASSUME Ownership, Drainage, NEW k \in Blocks, Live(k)
               PROVE  /\ mpc \in {"write", "put", "submit"} /\ closed = 0
                           => slot[k] # bufferId
                      /\ mpc = "release" => errMsg # "none"
    BY DEF BufferExclusive
  <2>1. ASSUME mpc \in {"write", "put", "submit"}, closed = 0
        PROVE  slot[k] # bufferId
    <3>1. futures[slot[k]] = k /\ futures[bufferId] = 0
      BY <2>1 DEF Ownership, LiveHasFuture, CurrentSlotFree
    <3> QED
      BY <3>1, ConstantsAssumption DEF Blocks
  <2>2. ASSUME mpc = "release", errMsg = "none" PROVE FALSE
    BY <2>2, NoFutureNoTask DEF Drainage, DrainedAll
  <2> QED
    BY <2>1, <2>2
<1> QED
  BY <1>1, DrainageHolds, PTL

-----------------------------------------------------------------------------
(* The end marker is the last thing the stream ever gets.                  *)

\* Once it is there no task is left, and the client can launch no other.
SealedForGood ==
  Sealed => /\ \A k \in Blocks : ~Live(k)
            /\ mpc = "release" \/ closed = 1

\* Only the end marker is an end marker.
LEMMA OtherItems ==
  /\ Header # EndMarker
  /\ \A k, u : SizeOf(k) # EndMarker /\ DataOf(k, u) # EndMarker
  BY DEF Header, SizeOf, DataOf, EndMarker

LEMMA SealedByMarkerOnly ==
  ASSUME Ownership, NEW item \in Items, item # EndMarker, ~Sealed,
         out' = Append(out, item)
  PROVE  ~Sealed'
  BY DEF Ownership, TypeOK, StreamTypeOK, Sealed

LEMMA SealedForGoodInit == Init => SealedForGood
  BY DEF Init, SealedForGood, Sealed

\* No task can move behind the end marker.
LEMMA SealedStopsTasks ==
  ASSUME SealedForGood, Sealed, NEW k \in Blocks
  PROVE  ~TaskStep(k)
  BY DEF SealedForGood, Live, TaskStep, TaskRuns, SpuriousWake, Start, Encode,
         EncodeFails, CheckTurn, Recheck, EmitSize, EmitData, EmitFails,
         Publish, Cancel, Notify, Listen, ListenFails

LEMMA SealedForGoodTask ==
  ASSUME Ownership, SealedForGood, NEW k \in Blocks, TaskStep(k)
  PROVE  ~Sealed /\ ~Sealed'
<1>1. ~Sealed
  BY SealedStopsTasks
<1>2. CASE EmitSize(k)
  BY <1>1, <1>2, SealedByMarkerOnly, ItemTypes, OtherItems DEF EmitSize
<1>3. CASE EmitData(k)
  <2>1. array[slot[k]] \in Seq(Nat)
    BY DEF Ownership, TypeOK, RingTypeOK, TaskTypeOK
  <2> QED
    BY <1>1, <1>3, <2>1, SealedByMarkerOnly, ItemTypes, OtherItems
    DEF EmitData
<1>4. CASE UNCHANGED out
  BY <1>1, <1>4 DEF Sealed
<1> QED
  BY <1>1, <1>2, <1>3, <1>4, TaskFrame

\* writeHeader() appends no end marker.
LEMMA HeaderSealsNothing ==
  ASSUME Ownership, ~Sealed, WriteHeader
  PROVE  ~Sealed'
<1>1. CASE out' = out
  BY <1>1 DEF Sealed
<1>2. CASE out' = Append(out, Header)
  BY <1>2, SealedByMarkerOnly, ItemTypes, OtherItems
<1> QED
  BY <1>1, <1>2 DEF WriteHeader

LEMMA SealedForGoodClient ==
  ASSUME Ownership, Drainage, SealedForGood, ClientStep \/ ClientCall
  PROVE  SealedForGood' /\ (Sealed => out' = out)
<1> USE DEF SealedForGood
<1>1. CASE Seal \/ SealFails
  <2>1. mpc = "seal" /\ closed = 0
    BY <1>1 DEF Seal, SealFails, Ownership, CallMatchesPlace
  <2>2. \A k \in Blocks : ~Live(k)
    BY <2>1, NoFutureNoTask DEF Drainage, DrainedAll
  <2>3. ~Sealed
    BY <2>1
  <2>4. mpc' = "release"
    <3>1. call \in {"close", "destroy"}
      BY <2>1 DEF Ownership, CallMatchesPlace
    <3> QED
      BY <1>1, <3>1 DEF Seal, SealFails, Throw
  <2>5. UNCHANGED pc
    BY <1>1 DEF Seal, SealFails, taskVars
  <2> QED
    BY <2>2, <2>3, <2>4, <2>5 DEF Live
<1>2. CASE SubmitNothing \/ Launch \/ LaunchFails
  <2>1. mpc = "submit" /\ closed = 0 /\ WriteHeader
    BY <1>2 DEF SubmitNothing, Launch, LaunchFails, NewTask
  <2>2. ~Sealed
    BY <2>1
  <2> QED
    BY <2>1, <2>2, HeaderSealsNothing
<1>3. CASE UNCHANGED <<out, taskVars>> /\ (mpc = "release" => closed' = 1)
           /\ (closed = 1 => closed' = 1)
  BY <1>3 DEF Sealed, taskVars, Live
<1>4. CASE Release
  BY <1>4, <1>3 DEF Release
<1>5. ASSUME NEW n \in WriteSizes, CallWrite(n)
      PROVE  SealedForGood' /\ (Sealed => out' = out)
  BY <1>5, <1>3 DEF CallWrite
<1>6. CASE CallPut \/ CallClose \/ CallDestroy
  BY <1>6, <1>3 DEF CallPut, CallClose, CallDestroy
<1>7. CASE WriteChunk \/ WriteFull \/ WriteReturns \/ PutUnit
  BY <1>7, <1>3 DEF WriteChunk, WriteFull, WriteReturns, PutUnit
<1>8. CASE SubmitOnClosed \/ Await \/ AwaitFails
  BY <1>8, <1>3 DEF SubmitOnClosed, Await, AwaitFails
<1>9. CASE Drain \/ DrainFails \/ Free
  BY <1>9, <1>3 DEF Drain, DrainFails, Free
<1> QED
  BY <1>1, <1>2, <1>4, <1>5, <1>6, <1>7, <1>8, <1>9 DEF ClientStep, ClientCall

LEMMA SealedForGoodNext ==
  Ownership /\ Drainage /\ SealedForGood /\ [Next]_vars
    => SealedForGood' /\ (Sealed => out' = out)
<1> SUFFICES ASSUME Ownership, Drainage, SealedForGood, [Next]_vars
             PROVE  SealedForGood' /\ (Sealed => out' = out)
  OBVIOUS
<1>1. CASE ClientStep \/ ClientCall
  BY <1>1, SealedForGoodClient
<1>2. ASSUME NEW k \in Blocks, TaskStep(k)
      PROVE  SealedForGood' /\ (Sealed => out' = out)
  BY <1>2, SealedForGoodTask DEF SealedForGood
<1>3. CASE UNCHANGED vars
  BY <1>3 DEF vars, clientVars, taskVars, SealedForGood, Sealed, Live
<1> QED
  BY <1>1, <1>2, <1>3 DEF Next, Terminated

\* Nothing reaches the bitstream behind the end marker, whatever calls the
\* client makes and whatever steps fail.
THEOREM SealedIsFinalHolds == Spec => SealedIsFinal
<1>1. Ownership /\ Drainage /\ SealedForGood /\ [Next]_vars
        => SealedForGood' /\ [Sealed => out' = out]_vars
  BY SealedForGoodNext
<1> QED
  BY <1>1, SealedForGoodInit, DrainageHolds, PTL DEF Spec, SealedIsFinal
=============================================================================
