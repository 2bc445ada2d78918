------------------ MODULE CompressedOutputStreamOrderProofs ------------------
(***************************************************************************)
(* What the compressed stream contains, for every value of the constants:  *)
(* well-formed, in the order in which the blocks were submitted (the       *)
(* refinement of BlockStream) and, when nothing was reported as failed,    *)
(* every unit that was accepted.                                           *)
(***************************************************************************)
EXTENDS CompressedOutputStreamProofs, FiniteSetTheorems

-----------------------------------------------------------------------------
(* No failure goes unnoticed: whatever step fails, the block remembers it, *)
(* and either its future still holds the error or a call has reported it.  *)

BrokenHasCause ==
  \A k \in Blocks :
    pc[k] \in {"lost", "cancel", "cnotify", "failed"} => cause[k] # "none"

CancelHasCause == blockId = CANCEL => \E k \in Blocks : cause[k] # "none"

Reported == thrown # {} \/ errMsg = "error"

FailureKept ==
  \A k \in Blocks :
    /\ pc[k] = "lost" => Reported
    /\ pc[k] = "failed" => futures[slot[k]] = k \/ Reported \/ mpc = "dead"

\* Only close() keeps an error, and it ends with the stream closed.
ErrorEnds == errMsg # "none" => mpc = "release" \/ closed = 1

Faults == BrokenHasCause /\ CancelHasCause /\ FailureKept /\ ErrorEnds

LEMMA FaultsInit == Init => Faults
  BY ConstantsAssumption
  DEF Init, Faults, BrokenHasCause, CancelHasCause, FailureKept, ErrorEnds,
      Blocks, CANCEL

\* What has been reported stays reported.
LEMMA ReportedStays ==
  ASSUME Ownership, ClientStep \/ ClientCall, Reported
  PROVE  Reported'
<1> USE DEF Reported
<1>1. CASE WriteChunk
  BY <1>1 DEF WriteChunk
<1>2. CASE WriteFull
  BY <1>2 DEF WriteFull
<1>3. CASE WriteReturns
  BY <1>3 DEF WriteReturns
<1>4. CASE PutUnit
  BY <1>4 DEF PutUnit
<1>5. CASE SubmitOnClosed
  BY <1>5 DEF SubmitOnClosed, Throw
<1>6. CASE SubmitNothing
  BY <1>6 DEF SubmitNothing
<1>7. CASE Launch
  BY <1>7 DEF Launch
<1>8. CASE LaunchFails
  BY <1>8 DEF LaunchFails, Throw
<1>9. CASE Await
  BY <1>9 DEF Await
<1>10. CASE AwaitFails
  BY <1>10 DEF AwaitFails, Throw, CollectFails
<1>11. CASE Drain
  BY <1>11 DEF Drain
<1>12. CASE DrainFails
  BY <1>12 DEF DrainFails, Throw, CollectFails
<1>13. CASE Seal
  BY <1>13 DEF Seal
<1>14. CASE SealFails
  BY <1>14 DEF SealFails, Throw
<1>15. CASE Release
  BY <1>15 DEF Release
<1>16. CASE Free
  BY <1>16 DEF Free
<1>17. CASE CallPut
  BY <1>17 DEF CallPut
<1>18. CASE CallClose
  BY <1>18 DEF CallClose
<1>19. CASE CallDestroy
  BY <1>19 DEF CallDestroy
<1>20. ASSUME NEW n \in WriteSizes, CallWrite(n)
      PROVE  Reported'
  BY <1>20 DEF CallWrite
<1> QED
  BY <1>1, <1>2, <1>3, <1>4, <1>5, <1>6, <1>7, <1>8, <1>9, <1>10, <1>11,
     <1>12, <1>13, <1>14, <1>15, <1>16, <1>17, <1>18, <1>19, <1>20
  DEF ClientStep, ClientCall

\* Throw reports: through the exception, or in errMsg.
LEMMA ThrowReports ==
  ASSUME Ownership, mpc \in {"submit", "await", "drain", "seal"}, Throw
  PROVE  /\ Reported'
         /\ errMsg' # errMsg => mpc' = "release"
         /\ mpc' # "dead"
  BY DEF Ownership, TypeOK, ClientTypeOK, CallMatchesPlace, Throw, Reported

LEMMA FaultsTask ==
  ASSUME Ownership, Turns, Faults, NEW k \in Blocks, TaskStep(k)
  PROVE  Faults'
<1> USE DEF Ownership, TypeOK, TaskTypeOK, Faults, BrokenHasCause,
        CancelHasCause, FailureKept, Reported, ErrorEnds, Goto, clientVars
<1>1. CASE Start(k)
  BY <1>1 DEF Start
<1>2. CASE Encode(k)
  BY <1>2 DEF Encode
<1>3. CASE EncodeFails(k)
  BY <1>3 DEF EncodeFails
<1>4. CASE CheckTurn(k)
  BY <1>4 DEF CheckTurn
<1>5. CASE Recheck(k)
  BY <1>5 DEF Recheck, Canceled
<1>6. CASE EmitSize(k)
  BY <1>6 DEF EmitSize
<1>7. CASE EmitData(k)
  BY <1>7 DEF EmitData
<1>8. CASE EmitFails(k)
  BY <1>8 DEF EmitFails
<1>9. CASE Publish(k)
  BY <1>9, ConstantsAssumption DEF Publish, Blocks, CANCEL
<1>10. CASE Cancel(k)
  BY <1>10 DEF Cancel
<1>11. CASE Notify(k)
  <2>1. pc[k] = "cnotify" => futures[slot[k]] = k \/ mpc = "dead"
    BY DEF LiveHasFuture, Live
  <2> QED
    BY <1>11, <2>1 DEF Notify, Woken
<1>12. CASE Listen(k)
  BY <1>12 DEF Listen
<1>13. CASE ListenFails(k)
  BY <1>13 DEF ListenFails
<1>14. CASE SpuriousWake(k)
  BY <1>14 DEF SpuriousWake
<1> QED
  BY <1>1, <1>2, <1>3, <1>4, <1>5, <1>6, <1>7, <1>8, <1>9, <1>10, <1>11,
     <1>12, <1>13, <1>14
  DEF TaskStep, TaskRuns

LEMMA FaultsClient ==
  ASSUME Ownership, Turns, Faults, ClientStep \/ ClientCall
  PROVE  Faults'
<1> USE DEF Faults
<1>1. CASE Launch
  <2>1. /\ inputBlockId + 1 \in Blocks
        /\ pc' = [pc EXCEPT ![inputBlockId + 1] = "queued"]
        /\ slot' = [slot EXCEPT ![inputBlockId + 1] = bufferId]
        /\ futures' = [futures EXCEPT ![bufferId] = inputBlockId + 1]
        /\ UNCHANGED <<blockId, cause, thrown, errMsg, closed>>
        /\ mpc = "submit" /\ closed = 0
    BY <1>1, NewTaskRing, NewTaskTasks DEF Launch
  <2>2. futures[bufferId] = 0
    BY <2>1 DEF Ownership, CurrentSlotFree
  <2>3. \A j \in Blocks : j # inputBlockId + 1 /\ futures[slot[j]] = j
                            => slot'[j] = slot[j] /\ futures'[slot'[j]] = j
    BY <2>1, <2>2, ConstantsAssumption
    DEF Ownership, TypeOK, TaskTypeOK, RingTypeOK, Blocks
  <2>4. BrokenHasCause' /\ CancelHasCause'
    BY <2>1
    DEF BrokenHasCause, CancelHasCause, Ownership, TypeOK, TaskTypeOK
  <2>5. FailureKept'
    BY <2>1, <2>3
    DEF FailureKept, Reported, Ownership, TypeOK, TaskTypeOK
  <2>6. ErrorEnds'
    BY <2>1 DEF ErrorEnds
  <2> QED
    BY <2>4, <2>5, <2>6
<1>2. CASE LaunchFails
  <2>1. /\ inputBlockId + 1 \in Blocks
        /\ pc' = [pc EXCEPT ![inputBlockId + 1] = "lost"]
        /\ slot' = [slot EXCEPT ![inputBlockId + 1] = bufferId]
        /\ cause' = [cause EXCEPT ![inputBlockId + 1] = "launch"]
        /\ UNCHANGED <<blockId, futures, closed>>
        /\ mpc = "submit" /\ closed = 0 /\ Throw
    BY <1>2, NewTaskRing, NewTaskTasks DEF LaunchFails
  <2>2. Reported' /\ (errMsg' # errMsg => mpc' = "release")
    BY <2>1, ThrowReports
  <2> QED
    BY <2>1, <2>2
    DEF BrokenHasCause, CancelHasCause, FailureKept, ErrorEnds, Ownership,
        TypeOK, TaskTypeOK
<1>3. CASE UNCHANGED taskVars
  <2>1. BrokenHasCause' /\ CancelHasCause'
    BY <1>3 DEF BrokenHasCause, CancelHasCause, taskVars
  <2>2. FailureKept' /\ ErrorEnds'
    <3>1. CASE Reported' /\ ErrorEnds'
      BY <1>3, <3>1 DEF FailureKept
    <3>2. CASE ErrorEnds' /\ mpc' = "dead"
      BY <1>3, <3>2, ReportedStays DEF FailureKept, taskVars
    <3>3. CASE /\ ErrorEnds'
               /\ mpc # "dead" \/ mpc' = "dead"
               /\ \A s \in Slots : \/ futures'[s] = futures[s]
                                   \/ pc[futures[s]] # "failed"
      BY <1>3, <3>3, ReportedStays
      DEF FailureKept, taskVars, Ownership, TypeOK, TaskTypeOK
    <3>4. CASE AwaitFails \/ DrainFails \/ SubmitOnClosed
      BY <3>1, <3>4, ThrowReports
      DEF AwaitFails, DrainFails, SubmitOnClosed, ErrorEnds
    <3>5. CASE SealFails
      BY <3>1, <3>5, ThrowReports DEF SealFails, ErrorEnds
    <3>6. CASE Await \/ Drain
      <4>1. \A s \in Slots : \/ futures'[s] = futures[s]
                             \/ pc[futures[s]] # "failed"
        BY <3>6 DEF Await, Drain, Collected, Ownership, TypeOK, RingTypeOK
      <4> QED
        BY <3>3, <3>6, <4>1
        DEF Await, Drain, ErrorEnds, Ownership, CallMatchesPlace
    <3>7. CASE Free
      BY <3>2, <3>7 DEF Free, ErrorEnds
    <3>8. CASE Release
      BY <3>3, <3>8 DEF Release, ErrorEnds
    <3>9. CASE WriteChunk \/ WriteFull \/ WriteReturns \/ PutUnit
      BY <3>3, <3>9 DEF WriteChunk, WriteFull, WriteReturns, PutUnit, ErrorEnds
    <3>10. CASE SubmitNothing \/ Seal
      BY <3>3, <3>10 DEF SubmitNothing, Seal, ErrorEnds
    <3>11. CASE CallPut \/ CallClose \/ CallDestroy
      BY <3>3, <3>11 DEF CallPut, CallClose, CallDestroy, ErrorEnds
    <3>12. ASSUME NEW n \in WriteSizes, CallWrite(n)
           PROVE  FailureKept' /\ ErrorEnds'
      BY <3>3, <3>12 DEF CallWrite, ErrorEnds
    <3> QED
      BY <1>1, <1>2, <3>4, <3>5, <3>6, <3>7, <3>8, <3>9, <3>10, <3>11, <3>12
      DEF ClientStep, ClientCall
  <2> QED
    BY <2>1, <2>2
<1> QED
  BY <1>1, <1>2, <1>3, ClientFrame

LEMMA FaultsNext == Ownership /\ Turns /\ Faults /\ [Next]_vars => Faults'
<1> SUFFICES ASSUME Ownership, Turns, Faults, [Next]_vars PROVE Faults'
  OBVIOUS
<1>1. CASE ClientStep \/ ClientCall
  BY <1>1, FaultsClient
<1>2. ASSUME NEW k \in Blocks, TaskStep(k) PROVE Faults'
  BY <1>2, FaultsTask
<1>3. CASE UNCHANGED vars
  BY <1>3
  DEF vars, clientVars, taskVars, Faults, BrokenHasCause, CancelHasCause,
      FailureKept, Reported, ErrorEnds
<1> QED
  BY <1>1, <1>2, <1>3 DEF Next, Terminated


-----------------------------------------------------------------------------
(* The last item tells whose turn it is.                                   *)

\* The header is there as soon as a block can be.
HeaderFirst ==
  /\ Headless => initialized = 0
  /\ ~Headless => (initialized = 1 <=> out # <<>>)
  /\ inputBlockId > 0 \/ mpc \in {"await", "drain", "seal"} =>
       Headless \/ initialized = 1

EndsWith(part, k) ==
  /\ out # <<>>
  /\ out[Len(out)].part = part
  /\ out[Len(out)].blk = k

EndsBlock(n) ==
  IF n = 0 THEN out \in {<<>>, <<Header>>} ELSE EndsWith("data", n)

HolderAt(place) == blockId + 1 \in Blocks /\ pc[blockId + 1] = place

LastItem ==
  FailsInTurnOnly /\ blockId # CANCEL /\ ~Sealed =>
    /\ HolderAt("data") => EndsWith("size", blockId + 1)
    /\ HolderAt("publish") => EndsWith("data", blockId + 1)
    /\ \/ HolderAt("data") \/ HolderAt("publish") \/ HolderAt("cancel")
       \/ EndsBlock(blockId)

EndIsMarker == \A i \in 1..Len(out) : out[i].part = "end" => out[i] = EndMarker

Output == HeaderFirst /\ LastItem /\ WellFormedOutput /\ EndIsMarker

LEMMA OutputInit == Init => Output
  BY ConstantsAssumption
  DEF Init, Output, HeaderFirst, LastItem, EndsBlock, HolderAt,
      WellFormedOutput, EndIsMarker, Blocks

\* The blocks a task works on have been launched.
LEMMA TaskLaunched ==
  ASSUME Ownership, NEW k \in Blocks, pc[k] # "none"
  PROVE  inputBlockId > 0
  BY ConstantsAssumption DEF Ownership, TypeOK, RingTypeOK, LaunchedBlocks, Blocks

LEMMA HeaderFirstTask ==
  ASSUME Ownership, HeaderFirst, NEW k \in Blocks, TaskStep(k)
  PROVE  HeaderFirst'
<1>1. UNCHANGED <<mpc, initialized, inputBlockId>>
  BY TaskFrame
<1>2. CASE UNCHANGED out
  BY <1>1, <1>2 DEF HeaderFirst
<1>3. CASE EmitSize(k) \/ EmitData(k)
  <2>1. out' # <<>>
    <3>1. array[slot[k]] \in Seq(Nat)
      BY DEF Ownership, TypeOK, RingTypeOK, TaskTypeOK
    <3> QED
      BY <1>3, <3>1, ItemTypes
      DEF EmitSize, EmitData, Ownership, TypeOK, StreamTypeOK
  <2>2. inputBlockId > 0
    BY <1>3, TaskLaunched DEF EmitSize, EmitData
  <2> QED
    BY <1>1, <2>1, <2>2 DEF HeaderFirst
<1> QED
  BY <1>2, <1>3, TaskFrame

\* writeHeader() leaves the stream with its header, and touches nothing else.
LEMMA HeaderWritten ==
  ASSUME Ownership, HeaderFirst, WriteHeader
  PROVE  /\ Headless => initialized' = 0
         /\ ~Headless => initialized' = 1 /\ out' # <<>>
         /\ out' # out => out = <<>> /\ out' = <<Header>> /\ inputBlockId = 0
<1>1. CASE initialized = 1 \/ Headless
  BY <1>1 DEF WriteHeader, HeaderFirst
<1>2. CASE ~(initialized = 1 \/ Headless)
  <2>1. out = <<>> /\ out' = Append(out, Header) /\ initialized' = 1
    BY <1>2
    DEF WriteHeader, HeaderFirst, Ownership, TypeOK, ClientTypeOK, StreamTypeOK
  <2>2. ~(inputBlockId > 0)
    BY <1>2 DEF HeaderFirst
  <2>3. out' = <<Header>>
    BY <2>1
  <2> QED
    BY <1>2, <2>1, <2>2, <2>3 DEF Ownership, TypeOK, RingTypeOK
<1> QED
  BY <1>1, <1>2

LEMMA HeaderFirstClient ==
  ASSUME Ownership, HeaderFirst, ClientStep \/ ClientCall
  PROVE  HeaderFirst'
<1>1. CASE SubmitNothing \/ Launch \/ LaunchFails
  <2>1. WriteHeader
    BY <1>1 DEF SubmitNothing, Launch, LaunchFails, NewTask
  <2> QED
    BY <2>1, HeaderWritten DEF HeaderFirst
<1>2. CASE Seal \/ SealFails
  <2>1. mpc = "seal" /\ UNCHANGED <<initialized, inputBlockId>>
    BY <1>2 DEF Seal, SealFails
  <2>2. out' = out \/ out' # <<>>
    BY <1>2, ItemTypes DEF Seal, SealFails, Ownership, TypeOK, StreamTypeOK
  <2> QED
    BY <2>1, <2>2 DEF HeaderFirst
<1>3. CASE /\ UNCHANGED <<out, initialized, inputBlockId>>
           /\ mpc' \in {"await", "drain", "seal"} =>
                mpc \in {"await", "drain", "seal"}
  BY <1>3 DEF HeaderFirst
<1>4. CASE WriteChunk \/ WriteFull \/ WriteReturns \/ PutUnit
  BY <1>3, <1>4 DEF WriteChunk, WriteFull, WriteReturns, PutUnit
<1>5. CASE SubmitOnClosed \/ Await \/ AwaitFails
  BY <1>3, <1>5 DEF SubmitOnClosed, Await, AwaitFails, Throw
<1>6. CASE Drain \/ DrainFails \/ Release \/ Free
  BY <1>3, <1>6 DEF Drain, DrainFails, Release, Free, Throw
<1>7. CASE CallPut \/ CallClose \/ CallDestroy
  BY <1>3, <1>7 DEF CallPut, CallClose, CallDestroy
<1>8. ASSUME NEW n \in WriteSizes, CallWrite(n)
      PROVE  HeaderFirst'
  BY <1>3, <1>8 DEF CallWrite
<1> QED
  BY <1>1, <1>2, <1>4, <1>5, <1>6, <1>7, <1>8 DEF ClientStep, ClientCall

\* Appending an item that follows the last one.
LEMMA AppendKeepsForm ==
  ASSUME Ownership, WellFormedOutput, FailsInTurnOnly, NEW item \in Items,
         out' = Append(out, item),
         out = <<>> => \/ ~Headless /\ item = Header
                       \/ Headless /\ item \in {SizeOf(1), EndMarker},
         out # <<>> => Follows(item, out[Len(out)])
  PROVE  WellFormedOutput'
<1>1. out \in Seq(Items)
  BY DEF Ownership, TypeOK, StreamTypeOK
<1>2. /\ Len(out') = Len(out) + 1
      /\ out'[Len(out) + 1] = item
      /\ \A i \in 1..Len(out) : out'[i] = out[i]
  BY <1>1
<1>3. out # <<>> => \/ ~Headless /\ out[1] = Header
                    \/ Headless /\ out[1] \in {SizeOf(1), EndMarker}
  BY DEF WellFormedOutput
<1>4. \/ ~Headless /\ out'[1] = Header
      \/ Headless /\ out'[1] \in {SizeOf(1), EndMarker}
  <2>1. CASE out = <<>>
    BY <1>2, <2>1
  <2>2. CASE out # <<>>
    <3>1. 1 \in 1..Len(out)
      BY <1>1, <2>2
    <3> QED
      BY <1>2, <1>3, <2>2, <3>1
  <2> QED
    BY <2>1, <2>2
<1>5. ASSUME NEW i \in 2..Len(out') PROVE Follows(out'[i], out'[i-1])
  <2>1. CASE i = Len(out) + 1
    <3>1. out # <<>> /\ i - 1 = Len(out) /\ i - 1 \in 1..Len(out)
      BY <1>1, <1>2, <2>1
    <3> QED
      BY <1>2, <2>1, <3>1
  <2>2. CASE i # Len(out) + 1
    <3>1. i \in 2..Len(out) /\ i \in 1..Len(out) /\ i - 1 \in 1..Len(out)
      BY <1>1, <1>2, <2>2
    <3> QED
      BY <1>2, <3>1 DEF WellFormedOutput
  <2> QED
    BY <2>1, <2>2
<1> QED
  BY <1>4, <1>5 DEF WellFormedOutput

LEMMA FormStays ==
  ASSUME WellFormedOutput, UNCHANGED out, FailsInTurnOnly' => FailsInTurnOnly
  PROVE  WellFormedOutput'
  BY DEF WellFormedOutput

\* What a task's two items say of themselves.
LEMMA ItemFields ==
  ASSUME NEW k, NEW u
  PROVE  /\ SizeOf(k).part = "size" /\ SizeOf(k).blk = k
         /\ DataOf(k, u).part = "data" /\ DataOf(k, u).blk = k
         /\ DataOf(k, u).units = u
         /\ Header.part = "header" /\ EndMarker.part = "end"
  BY DEF SizeOf, DataOf, Header, EndMarker

\* The holder of the turn, and the place of every other task.
LEMMA HolderEmits ==
  ASSUME Ownership, Turns, FailsInTurnOnly, NEW k \in Blocks,
         pc[k] \in {"size", "data", "publish"}
  PROVE  blockId # CANCEL /\ k = blockId + 1
<1>1. blockId # CANCEL
  BY DEF Turns, NoTurnAfterCancel
<1> QED
  BY <1>1, HolderIsNext DEF Turns

LEMMA EndIsMarkerAppend ==
  ASSUME Ownership, EndIsMarker, NEW item \in Items,
         item.part = "end" => item = EndMarker, out' = Append(out, item)
  PROVE  EndIsMarker'
  BY DEF Ownership, TypeOK, StreamTypeOK, EndIsMarker

LEMMA EndIsMarkerNext ==
  ASSUME Ownership, EndIsMarker, [Next]_vars
  PROVE  EndIsMarker'
<1>1. CASE UNCHANGED out
  BY <1>1 DEF EndIsMarker
<1>2. CASE ClientStep \/ ClientCall
  BY <1>1, <1>2, ClientOutput, ItemTypes, ItemFields, EndIsMarkerAppend
<1>3. ASSUME NEW k \in Blocks, TaskStep(k) PROVE EndIsMarker'
  <2>1. CASE EmitSize(k)
    BY <2>1, ItemTypes, ItemFields, EndIsMarkerAppend DEF EmitSize
  <2>2. CASE EmitData(k)
    <3>1. array[slot[k]] \in Seq(Nat)
      BY DEF Ownership, TypeOK, RingTypeOK, TaskTypeOK
    <3>2. DataOf(k, array[slot[k]]).part # "end"
      BY ItemFields
    <3> QED
      BY <2>2, <3>1, <3>2, ItemTypes, EndIsMarkerAppend DEF EmitData
  <2> QED
    BY <1>1, <1>3, <2>1, <2>2, TaskFrame
<1> QED
  BY <1>1, <1>2, <1>3 DEF Next, Terminated, vars

LEMMA EmitSizeOutput ==
  ASSUME Ownership, Turns, Output, SealedForGood, FailsInTurnOnly,
         NEW k \in Blocks, EmitSize(k)
  PROVE  LastItem' /\ WellFormedOutput'
<1>1. /\ pc[k] = "size"
      /\ out' = Append(out, SizeOf(k))
      /\ pc' = [pc EXCEPT ![k] = "data"]
      /\ UNCHANGED <<blockId, cause>>
  BY DEF EmitSize, Goto
<1>2. blockId # CANCEL /\ k = blockId + 1
  BY <1>1, HolderEmits
<1>3. ~Sealed
  BY SealedForGoodTask DEF TaskStep, TaskRuns
<1>4. EndsBlock(blockId)
  BY <1>1, <1>2, <1>3 DEF Output, LastItem, HolderAt
<1>5. out \in Seq(Items) /\ SizeOf(k) \in Items
  BY ItemTypes DEF Ownership, TypeOK, StreamTypeOK
<1>6. LastItem'
  <2>1. EndsWith("size", k)'
    BY <1>1, <1>5, ItemFields DEF EndsWith
  <2>2. pc'[k] = "data"
    BY <1>1 DEF Ownership, TypeOK, TaskTypeOK
  <2> QED
    BY <1>1, <1>2, <2>1, <2>2 DEF LastItem, HolderAt
<1>7. WellFormedOutput'
  <2>1. CASE blockId = 0
    <3>1. out = <<>> => Headless
      BY <1>1, TaskLaunched DEF Output, HeaderFirst
    <3>2. out # <<>> => out[Len(out)] = Header
      BY <1>4, <2>1 DEF EndsBlock
    <3>3. k = 1
      BY <1>2, <2>1
    <3>4. Follows(SizeOf(k), Header)
      BY <3>3, ItemFields DEF Follows
    <3> QED
      BY <1>1, <1>5, <3>1, <3>2, <3>3, <3>4, AppendKeepsForm DEF Output
  <2>2. CASE blockId # 0
    <3>1. EndsWith("data", blockId)
      BY <1>4, <2>2 DEF EndsBlock
    <3>2. Follows(SizeOf(k), out[Len(out)])
      BY <1>2, <3>1, ItemFields DEF Follows, EndsWith
    <3> QED
      BY <1>1, <1>5, <3>1, <3>2, AppendKeepsForm DEF Output, EndsWith
  <2> QED
    BY <2>1, <2>2
<1> QED
  BY <1>6, <1>7

LEMMA EmitDataOutput ==
  ASSUME Ownership, Turns, Output, SealedForGood, FailsInTurnOnly,
         NEW k \in Blocks, EmitData(k)
  PROVE  LastItem' /\ WellFormedOutput'
<1> DEFINE item == DataOf(k, array[slot[k]])
<1>1. /\ pc[k] = "data"
      /\ out' = Append(out, item)
      /\ pc' = [pc EXCEPT ![k] = "publish"]
      /\ UNCHANGED <<blockId, cause>>
  BY DEF EmitData, Goto
<1>2. blockId # CANCEL /\ k = blockId + 1
  BY <1>1, HolderEmits
<1>3. ~Sealed
  BY SealedForGoodTask DEF TaskStep, TaskRuns
<1>4. EndsWith("size", k)
  BY <1>1, <1>2, <1>3 DEF Output, LastItem, HolderAt
<1>5. out \in Seq(Items) /\ item \in Items
  BY ItemTypes
  DEF Ownership, TypeOK, StreamTypeOK, RingTypeOK, TaskTypeOK
<1>6. item.part = "data" /\ item.blk = k
  BY ItemFields
<1> HIDE DEF item
<1>7. LastItem'
  <2>1. EndsWith("data", k)'
    BY <1>1, <1>5, <1>6 DEF EndsWith
  <2>2. pc'[k] = "publish"
    BY <1>1 DEF Ownership, TypeOK, TaskTypeOK
  <2> QED
    BY <1>1, <1>2, <2>1, <2>2 DEF LastItem, HolderAt
<1>8. WellFormedOutput'
  <2>1. Follows(item, out[Len(out)])
    BY <1>4, <1>6 DEF Follows, EndsWith
  <2> QED
    BY <1>1, <1>4, <1>5, <2>1, AppendKeepsForm DEF Output, EndsWith
<1> QED
  BY <1>7, <1>8

\* The other steps leave the stream alone; the holder either keeps its turn
\* or passes it on.
LEMMA OtherTaskOutput ==
  ASSUME Ownership, Turns, Output, FailsInTurnOnly, FailsInTurnOnly',
         NEW k \in Blocks, TaskStep(k), ~EmitSize(k), ~EmitData(k)
  PROVE  LastItem' /\ WellFormedOutput'
<1>1. UNCHANGED out
  BY TaskFrame
<1>2. WellFormedOutput'
  BY <1>1, FormStays DEF Output
<1>3. SUFFICES ASSUME blockId' # CANCEL, ~Sealed' PROVE LastItem'
  BY <1>2 DEF LastItem
<1>4. Sealed' = Sealed
  BY <1>1 DEF Sealed
<1> USE DEF HolderAt
<1>5. CASE Publish(k)
  <2>1. /\ pc[k] = "publish" /\ blockId' = k
        /\ pc' = [pc EXCEPT ![k] = "notify"]
    BY <1>5 DEF Publish, Goto
  <2>2. blockId # CANCEL /\ k = blockId + 1
    BY <2>1, HolderEmits
  <2>3. EndsWith("data", k)
    BY <1>3, <1>4, <2>1, <2>2 DEF Output, LastItem
  <2>4. k # 0
    BY ConstantsAssumption DEF Blocks
  <2>5. EndsBlock(k)'
    BY <1>1, <2>3, <2>4 DEF EndsBlock, EndsWith
  <2>6. ASSUME k + 1 \in Blocks PROVE Waiting(k + 1) /\ pc'[k + 1] = pc[k + 1]
    <3>1. k + 1 > blockId /\ k + 1 # blockId + 1 /\ k + 1 # k
      BY <2>2, <2>6 DEF Ownership, TypeOK, TaskTypeOK, Blocks, CANCEL
    <3>2. Waiting(k + 1)
      BY <2>2, <2>6, <3>1 DEF Turns, TurnsInOrder
    <3> QED
      BY <2>1, <2>6, <3>1, <3>2 DEF Ownership, TypeOK, TaskTypeOK
  <2> QED
    BY <2>1, <2>5, <2>6 DEF LastItem, Waiting
<1>6. CASE Cancel(k)
  BY <1>3, <1>6 DEF Cancel
<1> DEFINE Steady ==
      /\ UNCHANGED blockId
      /\ pc'[k] \notin {"data", "publish"}
      /\ pc[k] \in {"data", "publish", "cancel"} => pc'[k] = "cancel"
      /\ \A j \in Blocks \ {k} :
           pc'[j] = pc[j] \/ (pc[j] = "asleep" /\ pc'[j] = "wait")
<1>7. CASE Steady
  <2>1. LastItem
    BY DEF Output
  <2>2. /\ HolderAt("data")' => HolderAt("data")
        /\ HolderAt("publish")' => HolderAt("publish")
        /\ HolderAt("data") \/ HolderAt("publish") \/ HolderAt("cancel") =>
             HolderAt("data")' \/ HolderAt("publish")' \/ HolderAt("cancel")'
    BY <1>7
  <2> QED
    BY <1>1, <1>3, <1>4, <1>7, <2>1, <2>2 DEF LastItem, EndsWith, EndsBlock
<1> USE DEF Ownership, TypeOK, TaskTypeOK
<1>8. CASE Notify(k)
  <2>1. Steady
    BY <1>8 DEF Notify, Woken
  <2> QED
    BY <1>7, <2>1
<1>9. CASE Start(k) \/ Encode(k) \/ Listen(k) \/ SpuriousWake(k)
  <2>1. Steady
    BY <1>9 DEF Start, Encode, Listen, SpuriousWake, Goto
  <2> QED
    BY <1>7, <2>1
<1>10. CASE CheckTurn(k) \/ Recheck(k)
  <2>1. Steady
    BY <1>10 DEF CheckTurn, Recheck, Goto
  <2> QED
    BY <1>7, <2>1
<1>11. CASE EmitFails(k) \/ EncodeFails(k) \/ ListenFails(k)
  <2>1. Steady
    BY <1>11 DEF EmitFails, EncodeFails, ListenFails, Goto
  <2> QED
    BY <1>7, <2>1
<1> QED
  BY <1>5, <1>6, <1>8, <1>9, <1>10, <1>11 DEF TaskStep, TaskRuns

LEMMA OutputTask ==
  ASSUME Ownership, Turns, Output, SealedForGood, NEW k \in Blocks, TaskStep(k)
  PROVE  HeaderFirst' /\ LastItem' /\ WellFormedOutput'
<1>1. HeaderFirst'
  BY HeaderFirstTask DEF Output
<1>2. CASE ~FailsInTurnOnly'
  BY <1>1, <1>2 DEF Output, LastItem, WellFormedOutput
<1>3. CASE FailsInTurnOnly'
  <2>1. FailsInTurnOnly
    BY <1>3, FaultsStay
  <2> QED
    BY <1>1, <1>3, <2>1, EmitSizeOutput, EmitDataOutput, OtherTaskOutput
    DEF Output
<1> QED
  BY <1>2, <1>3

\* A launch starts no turn.
LEMMA LastItemClient ==
  ASSUME Ownership, Turns, LastItem, ClientStep \/ ClientCall,
         UNCHANGED out \/ (inputBlockId = 0 /\ out' = <<Header>>)
  PROVE  LastItem'
<1>1. SUFFICES ASSUME FailsInTurnOnly', blockId' # CANCEL, ~Sealed'
               PROVE  LastItem'
  BY DEF LastItem
<1>2. ~LaunchFails
  BY <1>1, NewTaskRing DEF LaunchFails, FailsInTurnOnly, Ownership, TypeOK, TaskTypeOK
<1>3. UNCHANGED <<blockId, cause>>
  BY <1>2, ClientFrame DEF Launch, taskVars
<1>4. /\ HolderAt("data")' = HolderAt("data")
      /\ HolderAt("publish")' = HolderAt("publish")
      /\ HolderAt("cancel")' = HolderAt("cancel")
  <2>1. CASE Launch
    <3>1. /\ inputBlockId + 1 \in Blocks
          /\ pc' = [pc EXCEPT ![inputBlockId + 1] = "queued"]
      BY <2>1, NewTaskRing, NewTaskTasks DEF Launch
    <3>2. pc[inputBlockId + 1] = "none"
      BY <3>1 DEF Ownership, TypeOK, RingTypeOK, LaunchedBlocks, TaskTypeOK
    <3> QED
      BY <1>3, <3>1, <3>2 DEF HolderAt, Ownership, TypeOK, TaskTypeOK
  <2>2. CASE UNCHANGED taskVars
    BY <2>2 DEF taskVars, HolderAt
  <2> QED
    BY <1>2, <2>1, <2>2, ClientFrame
<1>5. CASE UNCHANGED out
  BY <1>1, <1>3, <1>4, <1>5
  DEF LastItem, FailsInTurnOnly, Sealed, EndsWith, EndsBlock
<1>6. CASE inputBlockId = 0 /\ out' = <<Header>>
  <2>1. \A k \in Blocks : pc[k] = "none"
    BY <1>6, TaskLaunched
  <2>2. FailsInTurnOnly /\ blockId # CANCEL
    BY <1>1, <1>3 DEF FailsInTurnOnly
  <2>3. blockId \notin Blocks
    BY <2>1, <2>2 DEF Turns, TurnsInOrder, Passed, Blocks
  <2>4. blockId = 0
    BY <2>2, <2>3, ConstantsAssumption
    DEF Ownership, TypeOK, TaskTypeOK, Blocks
  <2>5. EndsBlock(blockId)'
    BY <1>3, <1>6, <2>4 DEF EndsBlock
  <2>6. ~HolderAt("data") /\ ~HolderAt("publish")
    BY <2>1 DEF HolderAt
  <2> QED
    BY <1>4, <2>5, <2>6 DEF LastItem
<1> QED
  BY <1>5, <1>6

\* When the client appends, and what.
LEMMA ClientAppends ==
  ASSUME ClientStep \/ ClientCall
  PROVE  \/ UNCHANGED out
         \/ WriteHeader
         \/ (Seal \/ SealFails) /\ out' = Append(out, EndMarker)
<1>1. CASE WriteChunk
  BY <1>1 DEF WriteChunk
<1>2. CASE WriteFull
  BY <1>2 DEF WriteFull
<1>3. CASE WriteReturns
  BY <1>3 DEF WriteReturns
<1>4. CASE PutUnit
  BY <1>4 DEF PutUnit
<1>5. CASE SubmitOnClosed
  BY <1>5 DEF SubmitOnClosed, Throw
<1>6. CASE SubmitNothing
  BY <1>6 DEF SubmitNothing
<1>7. CASE Launch
  BY <1>7 DEF Launch, NewTask
<1>8. CASE LaunchFails
  BY <1>8 DEF LaunchFails, Throw, NewTask
<1>9. CASE Await
  BY <1>9 DEF Await
<1>10. CASE AwaitFails
  BY <1>10 DEF AwaitFails, Throw, CollectFails
<1>11. CASE Drain
  BY <1>11 DEF Drain
<1>12. CASE DrainFails
  BY <1>12 DEF DrainFails, Throw, CollectFails
<1>13. CASE Seal
  BY <1>13 DEF Seal
<1>14. CASE SealFails
  BY <1>14 DEF SealFails, Throw
<1>15. CASE Release
  BY <1>15 DEF Release
<1>16. CASE Free
  BY <1>16 DEF Free
<1>17. CASE CallPut
  BY <1>17 DEF CallPut
<1>18. CASE CallClose
  BY <1>18 DEF CallClose
<1>19. CASE CallDestroy
  BY <1>19 DEF CallDestroy
<1>20. ASSUME NEW n \in WriteSizes, CallWrite(n)
      PROVE  UNCHANGED out
  BY <1>20 DEF CallWrite
<1> QED
  BY <1>1, <1>2, <1>3, <1>4, <1>5, <1>6, <1>7, <1>8, <1>9, <1>10, <1>11,
     <1>12, <1>13, <1>14, <1>15, <1>16, <1>17, <1>18, <1>19, <1>20
  DEF ClientStep, ClientCall

\* The client's items: the header before everything else, the end marker on
\* an open stream.
LEMMA OutputClient ==
  ASSUME Ownership, Turns, Drainage, SealedForGood, Output,
         ClientStep \/ ClientCall
  PROVE  HeaderFirst' /\ LastItem' /\ WellFormedOutput'
<1>1. HeaderFirst'
  BY HeaderFirstClient DEF Output
<1>2. CASE ~FailsInTurnOnly'
  BY <1>1, <1>2 DEF Output, LastItem, WellFormedOutput
<1>3. CASE FailsInTurnOnly'
  <2>1. FailsInTurnOnly
    <3>1. ~LaunchFails
      BY <1>3, NewTaskRing
      DEF LaunchFails, FailsInTurnOnly, Ownership, TypeOK, TaskTypeOK
    <3> QED
      BY <1>3, <3>1, ClientFrame DEF Launch, taskVars, FailsInTurnOnly
  <2>2. CASE UNCHANGED out
    BY <1>1, <2>1, <2>2, LastItemClient, FormStays DEF Output
  <2>3. CASE WriteHeader
    <3>1. \/ UNCHANGED out
          \/ out = <<>> /\ out' = <<Header>> /\ inputBlockId = 0 /\ ~Headless
      BY <2>3, HeaderWritten DEF Output, WriteHeader
    <3>2. CASE out = <<>> /\ out' = <<Header>> /\ inputBlockId = 0 /\ ~Headless
      <4>1. LastItem'
        BY <3>2, LastItemClient DEF Output
      <4>2. WellFormedOutput'
        BY <3>2 DEF WellFormedOutput
      <4> QED
        BY <1>1, <4>1, <4>2 DEF Output
    <3> QED
      BY <2>2, <3>1, <3>2
  <2>4. CASE (Seal \/ SealFails) /\ out' = Append(out, EndMarker)
    <3>1. mpc = "seal" /\ closed = 0
      BY <2>4 DEF Seal, SealFails, Ownership, CallMatchesPlace
    <3>2. ~Sealed
      BY <3>1 DEF SealedForGood
    <3>3. out \in Seq(Items)
      BY DEF Ownership, TypeOK, StreamTypeOK
    <3>4. out = <<>> => Headless
      BY <3>1 DEF Output, HeaderFirst
    <3>5. out # <<>> => Follows(EndMarker, out[Len(out)])
      <4> SUFFICES ASSUME out # <<>> PROVE Follows(EndMarker, out[Len(out)])
        OBVIOUS
      <4>1. Len(out) \in 1..Len(out)
        BY <3>3
      <4>2. out[Len(out)].part # "end"
        BY <3>2, <4>1 DEF Output, EndIsMarker, Sealed
      <4> QED
        BY <4>2, ItemFields DEF Follows
    <3>6. WellFormedOutput'
      BY <2>1, <2>4, <3>4, <3>5, ItemTypes, AppendKeepsForm DEF Output
    <3>7. Sealed'
      <4>1. out'[Len(out')] = EndMarker /\ Len(out') \in 1..Len(out')
        BY <2>4, <3>3
      <4> QED
        BY <4>1 DEF Sealed
    <3> QED
      BY <1>1, <3>6, <3>7 DEF Output, LastItem
  <2> QED
    BY <2>2, <2>3, <2>4, ClientAppends
<1> QED
  BY <1>2, <1>3


LEMMA OutputNext ==
  Ownership /\ Turns /\ Drainage /\ SealedForGood /\ Output /\ [Next]_vars
    => Output'
<1> SUFFICES ASSUME Ownership, Turns, Drainage, SealedForGood, Output,
                    [Next]_vars
             PROVE  Output'
  OBVIOUS
<1>1. EndIsMarker'
  BY EndIsMarkerNext DEF Output
<1>2. CASE ClientStep \/ ClientCall
  BY <1>1, <1>2, OutputClient DEF Output
<1>3. ASSUME NEW k \in Blocks, TaskStep(k) PROVE Output'
  BY <1>1, <1>3, OutputTask DEF Output
<1>4. CASE UNCHANGED vars
  <2>1. UNCHANGED <<out, mpc, initialized, inputBlockId, pc, cause, blockId>>
    BY <1>4 DEF vars, clientVars, taskVars
  <2>2. HeaderFirst' /\ WellFormedOutput'
    BY <2>1 DEF Output, HeaderFirst, WellFormedOutput, FailsInTurnOnly
  <2>3. LastItem'
    BY <2>1
    DEF Output, LastItem, FailsInTurnOnly, HolderAt, EndsWith, EndsBlock, Sealed
  <2> QED
    BY <1>1, <2>2, <2>3 DEF Output
<1> QED
  BY <1>2, <1>3, <1>4 DEF Next, Terminated

\* All that is known of the stream so far, in one invariant.
StreamInv ==
  Ownership /\ Turns /\ Drainage /\ SealedForGood /\ Faults /\ Output

LEMMA StreamInvHolds == Spec => []StreamInv
<1>1. Init => StreamInv
  BY OwnershipInit, TurnsInit, DrainageInit, SealedForGoodInit, FaultsInit,
     OutputInit
  DEF StreamInv
<1>2. StreamInv /\ [Next]_vars => StreamInv'
  BY OwnershipNext, TurnsNext, DrainageNext, SealedForGoodNext, FaultsNext,
     OutputNext
  DEF StreamInv
<1> QED
  BY <1>1, <1>2, PTL DEF Spec

\* The bitstream is what the decoder needs it to be: the header, unless the
\* stream is headless, then the blocks 1, 2, 3 ... each as its size followed
\* by its data, nothing between them and nothing twice, the end marker last;
\* as long as blocks fail in their turn only.
THEOREM WellFormedOutputHolds == Spec => []WellFormedOutput
<1>1. StreamInv => WellFormedOutput
  BY DEF StreamInv, Output
<1> QED
  BY <1>1, StreamInvHolds, PTL

-----------------------------------------------------------------------------
(* The n-th element of a finite set of positions.                          *)

RankIn(S, i) == Cardinality({j \in S : j <= i})
NthOf(S, n) == CHOOSE i \in S : RankIn(S, i) = n

\* Every rank up to the size of S is somebody's.
RanksFilled(S) ==
  \A n \in 1..Cardinality(S) : \E i \in S : RankIn(S, i) = n

LEMMA RankType ==
  ASSUME NEW S \in SUBSET Nat, IsFiniteSet(S), NEW i \in S
  PROVE  RankIn(S, i) \in 1..Cardinality(S)
<1> DEFINE U == {j \in S : j <= i}
<1>1. IsFiniteSet(U) /\ Cardinality(U) <= Cardinality(S)
  BY FS_Subset
<1>2. Cardinality(U) \in Nat /\ Cardinality(S) \in Nat
  BY <1>1, FS_CardinalityType
<1>3. Cardinality(U) # 0
  BY <1>1, FS_EmptySet
<1> QED
  BY <1>1, <1>2, <1>3 DEF RankIn

LEMMA RankStrict ==
  ASSUME NEW S \in SUBSET Nat, IsFiniteSet(S), NEW i \in S, NEW j \in S, i < j
  PROVE  RankIn(S, i) < RankIn(S, j)
<1> DEFINE U == {k \in S : k <= i}
           V == {k \in S : k <= j}
<1>1. IsFiniteSet(V)
  BY FS_Subset
<1>2. IsFiniteSet(V \ {j}) /\ Cardinality(V \ {j}) = Cardinality(V) - 1
  <2>1. j \in V
    OBVIOUS
  <2> HIDE DEF V
  <2> QED
    BY <1>1, <2>1, FS_RemoveElement
<1>3. U \subseteq V \ {j}
  <2> SUFFICES ASSUME NEW k \in S, k <= i PROVE k <= j /\ k # j
    OBVIOUS
  <2>1. k \in Nat /\ i \in Nat /\ j \in Nat
    OBVIOUS
  <2> QED
    BY <2>1
<1>4. IsFiniteSet(U) /\ Cardinality(U) <= Cardinality(V) - 1
  BY <1>2, <1>3, FS_Subset
<1>5. Cardinality(U) \in Nat /\ Cardinality(V) \in Nat
  BY <1>1, <1>4, FS_CardinalityType
<1> QED
  BY <1>4, <1>5 DEF RankIn

\* The rank names the element.
LEMMA NthIs ==
  ASSUME NEW S \in SUBSET Nat, IsFiniteSet(S), NEW i \in S
  PROVE  NthOf(S, RankIn(S, i)) = i
<1> DEFINE j == NthOf(S, RankIn(S, i))
<1>1. j \in S /\ RankIn(S, j) = RankIn(S, i)
  BY DEF NthOf
<1>2. RankIn(S, i) \in Int
  BY RankType
<1> HIDE DEF j
<1>3. ~(i < j)
  BY <1>1, <1>2, RankStrict
<1>4. ~(j < i)
  BY <1>1, <1>2, RankStrict
<1>5. i \in Nat /\ j \in Nat
  BY <1>1
<1> QED
  BY <1>3, <1>4, <1>5 DEF j

\* A position behind all others gets the next rank and moves nobody.
LEMMA AddLast ==
  ASSUME NEW S \in SUBSET Nat, IsFiniteSet(S), RanksFilled(S),
         NEW m \in Nat, \A i \in S : i < m
  PROVE  /\ IsFiniteSet(S \cup {m})
         /\ Cardinality(S \cup {m}) = Cardinality(S) + 1
         /\ RanksFilled(S \cup {m})
         /\ \A n \in 1..Cardinality(S) :
              NthOf(S, n) \in S /\ NthOf(S \cup {m}, n) = NthOf(S, n)
         /\ NthOf(S \cup {m}, Cardinality(S) + 1) = m
<1> DEFINE R == S \cup {m}
           c == Cardinality(S)
<1>1. IsFiniteSet(R) /\ Cardinality(R) = c + 1 /\ c \in Nat
  BY FS_AddElement, FS_CardinalityType
<1>2. \A i \in S : RankIn(R, i) = RankIn(S, i)
  <2> SUFFICES ASSUME NEW i \in S PROVE RankIn(R, i) = RankIn(S, i)
    OBVIOUS
  <2>1. {j \in R : j <= i} = {j \in S : j <= i}
    OBVIOUS
  <2> QED
    BY <2>1 DEF RankIn
<1>3. RankIn(R, m) = c + 1
  <2>1. \A j \in R : j <= m
    <3> SUFFICES ASSUME NEW j \in S PROVE j <= m
      OBVIOUS
    <3>1. j \in Nat /\ j < m
      OBVIOUS
    <3> QED
      BY <3>1
  <2>2. {j \in R : j <= m} = R
    BY <2>1
  <2> QED
    BY <1>1, <2>2 DEF RankIn
<1>4. \A n \in 1..c : /\ NthOf(S, n) \in S
                      /\ RankIn(S, NthOf(S, n)) = n
  BY DEF RanksFilled, NthOf
<1>5. \A n \in 1..c : NthOf(R, n) = NthOf(S, n)
  <2> SUFFICES ASSUME NEW n \in 1..c PROVE NthOf(R, n) = NthOf(S, n)
    OBVIOUS
  <2> DEFINE i == NthOf(S, n)
  <2>1. i \in S /\ RankIn(R, i) = n
    BY <1>2, <1>4
  <2>2. R \in SUBSET Nat /\ i \in R
    BY <2>1
  <2>3. NthOf(R, RankIn(R, i)) = i
    BY <1>1, <2>2, NthIs
  <2> QED
    BY <2>1, <2>3
<1>6. NthOf(R, c + 1) = m
  BY <1>1, <1>3, NthIs
<1>7. RanksFilled(R)
  <2> SUFFICES ASSUME NEW n \in 1..(c + 1)
               PROVE  \E i \in R : RankIn(R, i) = n
    BY <1>1 DEF RanksFilled
  <2>1. CASE n = c + 1
    BY <1>3, <2>1
  <2>2. CASE n # c + 1
    <3>1. n \in 1..c
      BY <1>1, <2>2
    <3> QED
      BY <1>2, <1>4, <3>1
  <2> QED
    BY <2>1, <2>2
<1> QED
  BY <1>1, <1>4, <1>5, <1>6, <1>7

-----------------------------------------------------------------------------
(* What Emitted is, step by step.                                          *)

Count == Cardinality(DataAt)

Positions == IsFiniteSet(DataAt) /\ RanksFilled(DataAt)

LEMMA PositionsInit == Init => Positions /\ DataAt = {} /\ Count = 0
<1> SUFFICES ASSUME Init PROVE Positions /\ DataAt = {} /\ Count = 0
  OBVIOUS
<1>1. DataAt = {}
  BY DEF Init, DataAt
<1>2. IsFiniteSet(DataAt) /\ Cardinality(DataAt) = 0
  BY <1>1, FS_EmptySet
<1> QED
  BY <1>1, <1>2 DEF Positions, RanksFilled, Count

LEMMA CountType == ASSUME Positions PROVE Count \in Nat
  BY FS_CardinalityType DEF Positions, Count

LEMMA EmittedIs ==
  /\ Emitted = [n \in 1..Count |-> out[NthOf(DataAt, n)].units]
  /\ DOMAIN Emitted = 1..Count
  BY DEF Emitted, NthData, NthOf, RankIn, Count

LEMMA PositionInStream ==
  ASSUME Positions, NEW n \in 1..Count
  PROVE  NthOf(DataAt, n) \in DataAt
  BY DEF Positions, RanksFilled, NthOf, Count

\* A stream that does not change, or gets an item without data.
LEMMA EmittedSame ==
  ASSUME Positions, DataAt' = DataAt, \A i \in DataAt : out'[i] = out[i]
  PROVE  Positions' /\ Count' = Count /\ Emitted' = Emitted
<1>1. Positions' /\ Count' = Count
  BY DEF Positions, Count
<1>2. Emitted' = [n \in 1..Count' |-> out'[NthOf(DataAt', n)].units]
  BY DEF Emitted, NthData, NthOf, RankIn, Count
<1>3. \A n \in 1..Count : out'[NthOf(DataAt', n)] = out[NthOf(DataAt, n)]
  BY PositionInStream
<1> QED
  BY <1>1, <1>2, <1>3, EmittedIs

LEMMA NoDataAppended ==
  ASSUME Ownership, Positions, NEW item \in Items, item.part # "data",
         out' = Append(out, item)
  PROVE  Positions' /\ Count' = Count /\ Emitted' = Emitted
<1>1. out \in Seq(Items)
  BY DEF Ownership, TypeOK, StreamTypeOK
<1>2. /\ Len(out') = Len(out) + 1
      /\ out'[Len(out) + 1] = item
      /\ \A i \in 1..Len(out) : out'[i] = out[i]
  BY <1>1
<1>3. DataAt' = DataAt
  BY <1>1, <1>2 DEF DataAt
<1>4. \A i \in DataAt : out'[i] = out[i]
  BY <1>2 DEF DataAt
<1> QED
  BY <1>3, <1>4, EmittedSame

LEMMA DataAppended ==
  ASSUME Ownership, Positions, NEW item \in Items, item.part = "data",
         out' = Append(out, item)
  PROVE  /\ Positions'
         /\ Count' = Count + 1
         /\ \A n \in 1..Count : Emitted'[n] = Emitted[n]
         /\ Emitted'[Count + 1] = item.units
         /\ DOMAIN Emitted' = 1..(Count + 1)
<1> DEFINE m == Len(out) + 1
<1>1. out \in Seq(Items) /\ m \in Nat
  BY DEF Ownership, TypeOK, StreamTypeOK
<1>2. /\ Len(out') = Len(out) + 1
      /\ out'[Len(out) + 1] = item
      /\ \A i \in 1..Len(out) : out'[i] = out[i]
  BY <1>1
<1>3. DataAt' = DataAt \cup {m}
  BY <1>1, <1>2 DEF DataAt
<1>4. DataAt \in SUBSET Nat /\ \A i \in DataAt : i < m
  BY <1>1 DEF DataAt
<1> HIDE DEF m
<1>5. /\ IsFiniteSet(DataAt \cup {m})
      /\ Cardinality(DataAt \cup {m}) = Count + 1
      /\ RanksFilled(DataAt \cup {m})
      /\ \A n \in 1..Count : /\ NthOf(DataAt, n) \in DataAt
                             /\ NthOf(DataAt \cup {m}, n) = NthOf(DataAt, n)
      /\ NthOf(DataAt \cup {m}, Count + 1) = m
  BY <1>1, <1>4, AddLast DEF Positions, Count
<1>6. Positions' /\ Count' = Count + 1
  BY <1>3, <1>5 DEF Positions, Count
<1>7. /\ Emitted' = [n \in 1..Count' |-> out'[NthOf(DataAt', n)].units]
      /\ DOMAIN Emitted' = 1..Count'
  BY DEF Emitted, NthData, NthOf, RankIn, Count
<1>8. Count \in Nat
  BY CountType
<1>9. \A n \in 1..Count : Emitted'[n] = Emitted[n]
  <2> SUFFICES ASSUME NEW n \in 1..Count PROVE Emitted'[n] = Emitted[n]
    OBVIOUS
  <2>1. Emitted'[n] = out'[NthOf(DataAt, n)].units
    <3>1. n \in 1..Count'
      BY <1>6, <1>8
    <3>2. Emitted'[n] = out'[NthOf(DataAt', n)].units
      BY <1>7, <3>1
    <3>3. NthOf(DataAt', n) = NthOf(DataAt, n)
      BY <1>3, <1>5
    <3> QED
      BY <3>2, <3>3
  <2>2. NthOf(DataAt, n) \in 1..Len(out)
    BY <1>5 DEF DataAt
  <2>3. Emitted[n] = out[NthOf(DataAt, n)].units
    BY EmittedIs
  <2> QED
    BY <1>2, <2>1, <2>2, <2>3
<1>10. Emitted'[Count + 1] = item.units
  <2>1. Emitted'[Count + 1] = out'[m].units
    <3>1. Count + 1 \in 1..Count'
      BY <1>6, <1>8
    <3>2. Emitted'[Count + 1] = out'[NthOf(DataAt', Count + 1)].units
      BY <1>7, <3>1
    <3>3. NthOf(DataAt', Count + 1) = m
      BY <1>3, <1>5
    <3> QED
      BY <3>2, <3>3
  <2> QED
    BY <1>2, <2>1 DEF m
<1> QED
  BY <1>6, <1>7, <1>9, <1>10

-----------------------------------------------------------------------------
(* The buffers: what a task will append is what its block was launched     *)
(* with.                                                                   *)

\* A buffer is either all to be submitted or to be filled anew.
AllOrNone == \A s \in Slots : index[s] \in {0, Len(array[s])}

\* close() frees the buffers only behind the last task, or after a failure.
ReleaseSafe ==
  FailsInTurnOnly /\ blockId # CANCEL /\ mpc = "release" =>
    \A s \in Slots : futures[s] = 0

\* Where a task has its block still to write.
BeforeData ==
  {"queued", "encode", "wait", "asleep", "recheck", "size", "data"}

KeptContents ==
  FailsInTurnOnly /\ blockId # CANCEL =>
    \A k \in Blocks : pc[k] \in BeforeData => array[slot[k]] = content[k]

Contents == AllOrNone /\ ReleaseSafe /\ KeptContents

LEMMA ContentsInit == Init => Contents
  BY DEF Init, Contents, AllOrNone, ReleaseSafe, KeptContents, BeforeData

LEMMA ConcatUnits ==
  ASSUME NEW s \in Seq(Nat), NEW t \in Seq(Nat)
  PROVE  /\ Len(s \o t) = Len(s) + Len(t)
         /\ \A i \in 1..Len(s) : (s \o t)[i] = s[i]
         /\ \A i \in 1..Len(t) : (s \o t)[Len(s) + i] = t[i]
  OBVIOUS

\* What filling does to the buffers, unit by unit.
LEMMA FillUnits ==
  ASSUME Ownership, NEW n \in Nat, index[bufferId] + n <= BlockSize, Fill(n)
  PROVE  /\ \A s \in Slots \ {bufferId} :
              array'[s] = array[s] /\ index'[s] = index[s]
         /\ index'[bufferId] = index[bufferId] + n
         /\ Len(array'[bufferId]) = index[bufferId] + n
         /\ \A i \in 1..index[bufferId] :
              array'[bufferId][i] = array[bufferId][i]
         /\ \A i \in 1..n : array'[bufferId][index[bufferId] + i] = accepted + i
         /\ accepted' = accepted + n
<1> DEFINE old == SubSeq(array[bufferId], 1, index[bufferId])
           new == [i \in 1..n |-> accepted + i]
<1> USE ConstantsAssumption DEF Ownership, TypeOK, RingTypeOK, IndexInArray
<1>1. /\ old \in Seq(Nat) /\ Len(old) = index[bufferId]
      /\ \A i \in 1..index[bufferId] : old[i] = array[bufferId][i]
  OBVIOUS
<1>2. new \in Seq(Nat) /\ Len(new) = n /\ \A i \in 1..n : new[i] = accepted + i
  OBVIOUS
<1>3. array' = [array EXCEPT ![bufferId] = old \o new]
  BY DEF Fill
<1>4. index' = [index EXCEPT ![bufferId] = @ + n] /\ accepted' = accepted + n
  BY DEF Fill
<1> HIDE DEF old, new
<1>5. /\ Len(old \o new) = index[bufferId] + n
      /\ \A i \in 1..index[bufferId] : (old \o new)[i] = old[i]
      /\ \A i \in 1..n : (old \o new)[index[bufferId] + i] = new[i]
  <2>1. /\ Len(old \o new) = Len(old) + Len(new)
        /\ \A i \in 1..Len(old) : (old \o new)[i] = old[i]
        /\ \A i \in 1..Len(new) : (old \o new)[Len(old) + i] = new[i]
    BY <1>1, <1>2, ConcatUnits
  <2> QED
    BY <1>1, <1>2, <2>1
<1> QED
  BY <1>1, <1>2, <1>3, <1>4, <1>5

\* The two places where the client fills a buffer.
LEMMA WhenFilling ==
  ASSUME Ownership, WriteChunk \/ PutUnit
  PROVE  /\ mpc \in {"write", "put"} /\ closed = 0
         /\ \E n \in Nat : n > 0 /\ index[bufferId] + n <= BlockSize /\ Fill(n)
         /\ UNCHANGED <<bufferId, futures, inputBlockId, closed, taskVars, out,
                        iostate, thrown, errMsg>>
<1> USE ConstantsAssumption
    DEF Ownership, TypeOK, RingTypeOK, ClientTypeOK, CallMatchesPlace
<1>1. CASE WriteChunk
  <2> DEFINE n == IF remaining < Room THEN remaining ELSE Room
  <2>1. Fill(n) /\ n > 0 /\ mpc = "write"
    BY <1>1 DEF WriteChunk
  <2>2. closed = 0 /\ n \in Nat /\ index[bufferId] + n <= BlockSize
    BY <2>1 DEF Room, Threshold
  <2> HIDE DEF n
  <2> QED
    BY <1>1, <2>1, <2>2 DEF WriteChunk
<1>2. CASE PutUnit
  <2>1. Fill(1) /\ mpc = "put" /\ closed = 0 /\ index[bufferId] + 1 <= BlockSize
    BY <1>2 DEF PutUnit
  <2> QED
    BY <1>2, <2>1 DEF PutUnit
<1> QED
  BY <1>1, <1>2

\* No task still works on the current buffer while it is filled or submitted.
LEMMA CurrentSlotIdle ==
  ASSUME Ownership, mpc \in {"write", "put", "submit"}, closed = 0,
         NEW k \in Blocks, Live(k)
  PROVE  slot[k] # bufferId
  BY ConstantsAssumption
  DEF Ownership, LiveHasFuture, CurrentSlotFree, Blocks

\* A cancellation is final as long as blocks fail in their turn only.
LEMMA CancelStays ==
  ASSUME Ownership, Turns, FailsInTurnOnly, NEW k \in Blocks, TaskStep(k),
         blockId' # CANCEL
  PROVE  blockId # CANCEL
<1> SUFFICES ASSUME blockId = CANCEL PROVE FALSE
  OBVIOUS
<1>1. pc[k] # "publish"
  BY DEF Turns, NoTurnAfterCancel
<1> QED
  BY <1>1
  DEF TaskStep, TaskRuns, SpuriousWake, Start, Encode, EncodeFails, CheckTurn,
      Recheck, EmitSize, EmitData, EmitFails, Publish, Cancel, Notify, Listen,
      ListenFails

LEMMA BeforeDataTask ==
  ASSUME Ownership, NEW k \in Blocks, TaskStep(k), NEW j \in Blocks,
         pc'[j] \in BeforeData
  PROVE  pc[j] \in BeforeData
<1> USE DEF Ownership, TypeOK, TaskTypeOK, BeforeData, Goto
<1>1. CASE Start(k)
  BY <1>1 DEF Start
<1>2. CASE Encode(k)
  BY <1>2 DEF Encode
<1>3. CASE EncodeFails(k)
  BY <1>3 DEF EncodeFails
<1>4. CASE CheckTurn(k)
  BY <1>4 DEF CheckTurn
<1>5. CASE Recheck(k)
  BY <1>5 DEF Recheck, Canceled
<1>6. CASE EmitSize(k)
  BY <1>6 DEF EmitSize
<1>7. CASE EmitData(k)
  BY <1>7 DEF EmitData
<1>8. CASE EmitFails(k)
  BY <1>8 DEF EmitFails
<1>9. CASE Publish(k)
  BY <1>9 DEF Publish
<1>10. CASE Cancel(k)
  BY <1>10 DEF Cancel
<1>11. CASE Notify(k)
  BY <1>11 DEF Notify, Woken
<1>12. CASE Listen(k)
  BY <1>12 DEF Listen
<1>13. CASE ListenFails(k)
  BY <1>13 DEF ListenFails
<1>14. CASE SpuriousWake(k)
  BY <1>14 DEF SpuriousWake
<1> QED
  BY <1>1, <1>2, <1>3, <1>4, <1>5, <1>6, <1>7, <1>8, <1>9, <1>10, <1>11,
     <1>12, <1>13, <1>14
  DEF TaskStep, TaskRuns

LEMMA ContentsTask ==
  ASSUME Ownership, Turns, Contents, NEW k \in Blocks, TaskStep(k)
  PROVE  Contents'
<1>1. UNCHANGED <<array, slot, content, futures, mpc>>
  BY TaskFrame
<1>2. AllOrNone'
  <2>1. CASE EncodeFails(k)
    BY <1>1, <2>1
    DEF EncodeFails, Contents, AllOrNone, Ownership, TypeOK, RingTypeOK
  <2>2. CASE ~EncodeFails(k)
    BY <1>1, <2>2, TaskFrame DEF Contents, AllOrNone
  <2> QED
    BY <2>1, <2>2
<1>3. SUFFICES ASSUME FailsInTurnOnly', blockId' # CANCEL
               PROVE  ReleaseSafe' /\ KeptContents'
  BY <1>2 DEF Contents, ReleaseSafe, KeptContents
<1>4. FailsInTurnOnly /\ blockId # CANCEL
  BY <1>3, FaultsStay, CancelStays
<1> QED
  BY <1>1, <1>4, BeforeDataTask DEF Contents, ReleaseSafe, KeptContents

LEMMA AllOrNoneClient ==
  ASSUME Ownership, AllOrNone, ClientStep \/ ClientCall
  PROVE  AllOrNone'
<1> USE DEF AllOrNone
<1>1. CASE WriteChunk
  <2>1. PICK n \in Nat : index[bufferId] + n <= BlockSize /\ Fill(n)
    BY <1>1, WhenFilling
  <2>2. UNCHANGED bufferId
    BY <1>1 DEF WriteChunk
  <2> QED
    BY <2>1, <2>2, FillUnits
<1>2. CASE WriteFull
  BY <1>2 DEF WriteFull
<1>3. CASE WriteReturns
  BY <1>3 DEF WriteReturns
<1>4. CASE PutUnit
  <2>1. PICK n \in Nat : index[bufferId] + n <= BlockSize /\ Fill(n)
    BY <1>4, WhenFilling
  <2>2. UNCHANGED bufferId
    BY <1>4 DEF PutUnit
  <2> QED
    BY <2>1, <2>2, FillUnits
<1>5. CASE SubmitOnClosed
  BY <1>5 DEF SubmitOnClosed, Throw
<1>6. CASE SubmitNothing
  BY <1>6 DEF SubmitNothing
<1>7. CASE Launch
  BY <1>7, NewTaskRing DEF Launch, Ownership, TypeOK, RingTypeOK
<1>8. CASE LaunchFails
  BY <1>8, NewTaskRing DEF LaunchFails, Ownership, TypeOK, RingTypeOK
<1>9. CASE Await
  BY <1>9 DEF Await, Ownership, TypeOK, RingTypeOK
<1>10. CASE AwaitFails
  BY <1>10 DEF AwaitFails, Throw, CollectFails
<1>11. CASE Drain
  BY <1>11 DEF Drain
<1>12. CASE DrainFails
  BY <1>12 DEF DrainFails, Throw, CollectFails
<1>13. CASE Seal
  BY <1>13 DEF Seal
<1>14. CASE SealFails
  BY <1>14 DEF SealFails, Throw
<1>15. CASE Release
  BY <1>15 DEF Release
<1>16. CASE Free
  BY <1>16 DEF Free
<1>17. CASE CallPut
  BY <1>17 DEF CallPut
<1>18. CASE CallClose
  BY <1>18 DEF CallClose
<1>19. CASE CallDestroy
  BY <1>19 DEF CallDestroy
<1>20. ASSUME NEW n \in WriteSizes, CallWrite(n)
      PROVE  AllOrNone'
  BY <1>20 DEF CallWrite
<1> QED
  BY <1>1, <1>2, <1>3, <1>4, <1>5, <1>6, <1>7, <1>8, <1>9, <1>10, <1>11,
     <1>12, <1>13, <1>14, <1>15, <1>16, <1>17, <1>18, <1>19, <1>20
  DEF ClientStep, ClientCall

LEMMA ReleaseSafeClient ==
  ASSUME Ownership, Turns, Drainage, ReleaseSafe, ClientStep \/ ClientCall
  PROVE  ReleaseSafe'
<1>1. SUFFICES ASSUME FailsInTurnOnly', blockId' # CANCEL, mpc' = "release"
               PROVE  \A s \in Slots : futures'[s] = 0
  BY DEF ReleaseSafe
<1>2. ~Launch
  BY <1>1 DEF Launch, AfterSubmit
<1>3. ~LaunchFails
  BY <1>1, NewTaskRing
  DEF LaunchFails, FailsInTurnOnly, Ownership, TypeOK, TaskTypeOK
<1>4. UNCHANGED <<pc, blockId, cause>>
  BY <1>2, <1>3, ClientFrame DEF taskVars
<1>5. FailsInTurnOnly /\ blockId # CANCEL
  BY <1>1, <1>4 DEF FailsInTurnOnly
<1>6. CASE Seal \/ SealFails
  BY <1>6 DEF Seal, SealFails, Drainage, DrainedAll
<1>7. CASE DrainFails
  <2>1. futures[drain] \in Blocks /\ pc[futures[drain]] = "failed"
    BY <1>7, ConstantsAssumption
    DEF DrainFails, CollectFails, Ownership, TypeOK, RingTypeOK, ClientTypeOK,
        Blocks
  <2>2. ~Passed(futures[drain]) /\ ~Waiting(futures[drain])
    BY <2>1 DEF Passed, Waiting
  <2>3. futures[drain] <= blockId \/ futures[drain] > blockId
    BY <2>1, <1>5, ConstantsAssumption
    DEF Blocks, Ownership, TypeOK, TaskTypeOK, CANCEL
  <2> QED
    BY <1>5, <2>1, <2>2, <2>3 DEF Turns, TurnsInOrder
<1>8. CASE SubmitOnClosed
  BY <1>1, <1>8 DEF SubmitOnClosed, Throw, Ownership, CallMatchesPlace
<1>9. CASE AwaitFails
  BY <1>1, <1>9 DEF AwaitFails, Throw, Ownership, CallMatchesPlace
<1>10. CASE WriteChunk \/ WriteFull \/ WriteReturns \/ PutUnit
  BY <1>1, <1>10 DEF WriteChunk, WriteFull, WriteReturns, PutUnit
<1>11. CASE SubmitNothing \/ Drain
  BY <1>1, <1>11 DEF SubmitNothing, AfterSubmit, Drain
<1>12. CASE Await
  BY <1>1, <1>12 DEF Await, Ownership, CallMatchesPlace
<1>13. CASE Release \/ Free
  BY <1>1, <1>13 DEF Release, Free
<1>14. CASE CallPut \/ CallClose \/ CallDestroy
  BY <1>1, <1>14 DEF CallPut, CallClose, CallDestroy
<1>15. ASSUME NEW n \in WriteSizes, CallWrite(n) PROVE FALSE
  BY <1>1, <1>15 DEF CallWrite
<1> QED
  BY <1>2, <1>3, <1>6, <1>7, <1>8, <1>9, <1>10, <1>11, <1>12, <1>13, <1>14,
     <1>15
  DEF ClientStep, ClientCall

\* When the client changes the contents of buffers.
LEMMA ClientArray ==
  ASSUME ClientStep \/ ClientCall
  PROVE  WriteChunk \/ PutUnit \/ Release \/ UNCHANGED array
<1>1. CASE WriteChunk
  BY <1>1
<1>2. CASE WriteFull
  BY <1>2 DEF WriteFull
<1>3. CASE WriteReturns
  BY <1>3 DEF WriteReturns
<1>4. CASE PutUnit
  BY <1>4
<1>5. CASE SubmitOnClosed
  BY <1>5 DEF SubmitOnClosed, Throw
<1>6. CASE SubmitNothing
  BY <1>6 DEF SubmitNothing
<1>7. CASE Launch
  BY <1>7 DEF Launch
<1>8. CASE LaunchFails
  BY <1>8 DEF LaunchFails, Throw
<1>9. CASE Await
  BY <1>9 DEF Await
<1>10. CASE AwaitFails
  BY <1>10 DEF AwaitFails, Throw, CollectFails
<1>11. CASE Drain
  BY <1>11 DEF Drain
<1>12. CASE DrainFails
  BY <1>12 DEF DrainFails, Throw, CollectFails
<1>13. CASE Seal
  BY <1>13 DEF Seal
<1>14. CASE SealFails
  BY <1>14 DEF SealFails, Throw
<1>15. CASE Release
  BY <1>15
<1>16. CASE Free
  BY <1>16 DEF Free
<1>17. CASE CallPut
  BY <1>17 DEF CallPut
<1>18. CASE CallClose
  BY <1>18 DEF CallClose
<1>19. CASE CallDestroy
  BY <1>19 DEF CallDestroy
<1>20. ASSUME NEW n \in WriteSizes, CallWrite(n)
      PROVE  UNCHANGED array
  BY <1>20 DEF CallWrite
<1> QED
  BY <1>1, <1>2, <1>3, <1>4, <1>5, <1>6, <1>7, <1>8, <1>9, <1>10, <1>11,
     <1>12, <1>13, <1>14, <1>15, <1>16, <1>17, <1>18, <1>19, <1>20
  DEF ClientStep, ClientCall

LEMMA KeptContentsClient ==
  ASSUME Ownership, Turns, Contents, ClientStep \/ ClientCall
  PROVE  KeptContents'
<1>1. SUFFICES ASSUME FailsInTurnOnly', blockId' # CANCEL,
                      NEW k \in Blocks, pc'[k] \in BeforeData
               PROVE  array'[slot'[k]] = content'[k]
  BY DEF KeptContents
<1>2. CASE Launch
  <2> DEFINE n == inputBlockId + 1
             b == bufferId
  <2>1. /\ n \in Blocks
        /\ index[b] > 0
        /\ UNCHANGED <<array, blockId, cause>>
        /\ pc' = [pc EXCEPT ![n] = "queued"]
        /\ slot' = [slot EXCEPT ![n] = b]
        /\ content' = [content EXCEPT ![n] = SubSeq(array[b], 1, index[b])]
    BY <1>2, NewTaskRing DEF Launch, NewTask
  <2>2. CASE k = n
    <3>1. b \in Slots /\ index[b] = Len(array[b]) /\ array[b] \in Seq(Nat)
      BY <2>1 DEF Contents, AllOrNone, Ownership, TypeOK, RingTypeOK
    <3>2. SubSeq(array[b], 1, index[b]) = array[b]
      BY <3>1
    <3> QED
      BY <2>1, <2>2, <3>2 DEF Ownership, TypeOK, TaskTypeOK
  <2>3. CASE k # n
    <3>1. slot'[k] = slot[k] /\ content'[k] = content[k] /\ pc'[k] = pc[k]
      BY <2>1, <2>3 DEF Ownership, TypeOK, TaskTypeOK
    <3> QED
      BY <1>1, <2>1, <3>1 DEF Contents, KeptContents, FailsInTurnOnly
  <2> QED
    BY <2>2, <2>3
<1>3. ~LaunchFails
  BY <1>1, NewTaskRing
  DEF LaunchFails, FailsInTurnOnly, Ownership, TypeOK, TaskTypeOK
<1>4. CASE UNCHANGED taskVars
  <2>1. array[slot[k]] = content[k] /\ pc[k] \in BeforeData
    BY <1>1, <1>4 DEF Contents, KeptContents, FailsInTurnOnly, taskVars
  <2>2. Live(k)
    BY <2>1 DEF BeforeData, Live
  <2>3. slot[k] \in Slots
    BY DEF Ownership, TypeOK, TaskTypeOK
  <2>4. CASE WriteChunk \/ PutUnit
    <3>1. slot[k] # bufferId
      BY <2>2, <2>4, WhenFilling, CurrentSlotIdle
    <3>2. array'[slot[k]] = array[slot[k]]
      BY <2>3, <2>4, <3>1, WhenFilling, FillUnits
    <3> QED
      BY <1>4, <2>1, <3>2 DEF taskVars
  <2>5. CASE Release
    <3>1. mpc = "release" /\ FailsInTurnOnly /\ blockId # CANCEL
      BY <1>1, <1>4, <2>5 DEF Release, FailsInTurnOnly, taskVars
    <3>2. \A s \in Slots : futures[s] = 0
      BY <3>1 DEF Contents, ReleaseSafe
    <3> QED
      BY <2>2, <3>1, <3>2, NoFutureNoTask
  <2>6. CASE UNCHANGED array
    BY <1>4, <2>1, <2>6 DEF taskVars
  <2> QED
    BY <2>4, <2>5, <2>6, ClientArray
<1> QED
  BY <1>2, <1>3, <1>4, ClientFrame

LEMMA ContentsNext ==
  Ownership /\ Turns /\ Drainage /\ Contents /\ [Next]_vars => Contents'
<1> SUFFICES ASSUME Ownership, Turns, Drainage, Contents, [Next]_vars
             PROVE  Contents'
  OBVIOUS
<1>1. CASE ClientStep \/ ClientCall
  BY <1>1, AllOrNoneClient, ReleaseSafeClient, KeptContentsClient DEF Contents
<1>2. ASSUME NEW k \in Blocks, TaskStep(k) PROVE Contents'
  BY <1>2, ContentsTask
<1>3. CASE UNCHANGED vars
  BY <1>3
  DEF vars, clientVars, taskVars, Contents, AllOrNone, ReleaseSafe,
      KeptContents, FailsInTurnOnly
<1> QED
  BY <1>1, <1>2, <1>3 DEF Next, Terminated

-----------------------------------------------------------------------------
(* The blocks reach the stream in the order of their submission.           *)

InOrder ==
  FailsInTurnOnly =>
    /\ Count <= inputBlockId
    /\ \A n \in 1..Count : Emitted[n] = content[n]
    /\ blockId # CANCEL =>
         Count = IF HolderAt("publish") THEN blockId + 1 ELSE blockId

LEMMA InOrderInit == Init => InOrder
<1> SUFFICES ASSUME Init PROVE InOrder
  OBVIOUS
<1>1. Count = 0
  BY PositionsInit
<1> QED
  BY <1>1, ConstantsAssumption DEF Init, InOrder, HolderAt, Blocks

LEMMA PositionsNext ==
  ASSUME Ownership, Positions, [Next]_vars
  PROVE  Positions' /\ (ClientStep \/ ClientCall => Count' = Count /\ Emitted' = Emitted)
<1>1. CASE UNCHANGED out
  <2>1. DataAt' = DataAt /\ \A i \in DataAt : out'[i] = out[i]
    BY <1>1 DEF DataAt
  <2> QED
    BY <2>1, EmittedSame
<1>2. CASE ClientStep \/ ClientCall
  <2>1. Header.part # "data" /\ EndMarker.part # "data"
    BY ItemFields
  <2> QED
    BY <1>1, <1>2, <2>1, ClientOutput, ItemTypes, NoDataAppended
<1>3. ASSUME NEW k \in Blocks, EmitSize(k)
      PROVE  Positions' /\ Count' = Count /\ Emitted' = Emitted
  <2>1. SizeOf(k) \in Items /\ SizeOf(k).part # "data"
    BY ItemTypes, ItemFields
  <2> QED
    BY <1>3, <2>1, NoDataAppended DEF EmitSize
<1>4. ASSUME NEW k \in Blocks, EmitData(k)
      PROVE  Positions'
  <2>1. array[slot[k]] \in Seq(Nat)
    BY DEF Ownership, TypeOK, RingTypeOK, TaskTypeOK
  <2>2. DataOf(k, array[slot[k]]) \in Items
    BY <2>1, ItemTypes
  <2>3. DataOf(k, array[slot[k]]).part = "data"
    BY ItemFields
  <2> QED
    BY <1>4, <2>2, <2>3, DataAppended DEF EmitData
<1>5. ASSUME NEW k \in Blocks, TaskStep(k)
      PROVE  UNCHANGED out \/ EmitSize(k) \/ EmitData(k)
  BY <1>5, TaskFrame
<1>6. ~(ClientStep \/ ClientCall) => Positions'
  BY <1>1, <1>3, <1>4, <1>5 DEF Next, Terminated, vars
<1> QED
  BY <1>2, <1>6

\* What EmitData appends.
LEMMA EmitDataCounts ==
  ASSUME StreamInv, Positions, Contents, InOrder, FailsInTurnOnly,
         NEW k \in Blocks, EmitData(k)
  PROVE  /\ k = blockId + 1 /\ Count = blockId
         /\ blockId # CANCEL
         /\ k <= inputBlockId
         /\ Count' = k
         /\ \A n \in 1..Count : Emitted'[n] = Emitted[n]
         /\ Emitted'[k] = content[k]
         /\ DOMAIN Emitted' = 1..k
<1> USE DEF StreamInv
<1>1. /\ pc[k] = "data"
      /\ out' = Append(out, DataOf(k, array[slot[k]]))
  BY DEF EmitData
<1>2. blockId # CANCEL /\ k = blockId + 1
  BY <1>1, HolderEmits
<1>3. Count = blockId
  BY <1>1, <1>2 DEF InOrder, HolderAt
<1>4. array[slot[k]] = content[k]
  BY <1>1, <1>2 DEF Contents, KeptContents, BeforeData
<1>5. k <= inputBlockId
  BY <1>1 DEF Ownership, LaunchedBlocks
<1>6. /\ array[slot[k]] \in Seq(Nat)
      /\ DataOf(k, array[slot[k]]) \in Items
  BY ItemTypes DEF Ownership, TypeOK, RingTypeOK, TaskTypeOK
<1>7. /\ DataOf(k, array[slot[k]]).part = "data"
      /\ DataOf(k, array[slot[k]]).units = array[slot[k]]
  BY ItemFields
<1>8. /\ Count' = Count + 1
      /\ \A n \in 1..Count : Emitted'[n] = Emitted[n]
      /\ Emitted'[Count + 1] = array[slot[k]]
      /\ DOMAIN Emitted' = 1..(Count + 1)
  BY <1>1, <1>6, <1>7, DataAppended
<1> QED
  BY <1>2, <1>3, <1>4, <1>5, <1>8

\* Every other step of a task leaves Emitted alone.
LEMMA OtherTaskCounts ==
  ASSUME Ownership, Positions, NEW k \in Blocks, TaskStep(k), ~EmitData(k)
  PROVE  Count' = Count /\ Emitted' = Emitted
<1>1. CASE UNCHANGED out
  <2>1. DataAt' = DataAt /\ \A i \in DataAt : out'[i] = out[i]
    BY <1>1 DEF DataAt
  <2> QED
    BY <2>1, EmittedSame
<1>2. CASE EmitSize(k)
  <2>1. SizeOf(k) \in Items /\ SizeOf(k).part # "data"
    BY ItemTypes, ItemFields
  <2> QED
    BY <1>2, <2>1, NoDataAppended DEF EmitSize
<1> QED
  BY <1>1, <1>2, TaskFrame

\* Only EmitData and Publish enter or leave the place before the store.
LEMMA PublishPlace ==
  ASSUME Ownership, NEW k \in Blocks, TaskStep(k), ~EmitData(k), ~Publish(k),
         ~Cancel(k)
  PROVE  /\ UNCHANGED blockId
         /\ \A j \in Blocks : pc'[j] = "publish" <=> pc[j] = "publish"
<1> USE DEF Ownership, TypeOK, TaskTypeOK, Goto
<1>1. CASE Start(k) \/ Encode(k) \/ Listen(k) \/ SpuriousWake(k)
  BY <1>1 DEF Start, Encode, Listen, SpuriousWake
<1>2. CASE CheckTurn(k) \/ Recheck(k)
  BY <1>2 DEF CheckTurn, Recheck
<1>3. CASE EmitSize(k)
  BY <1>3 DEF EmitSize
<1>4. CASE EmitFails(k) \/ EncodeFails(k) \/ ListenFails(k)
  BY <1>4 DEF EmitFails, EncodeFails, ListenFails
<1>5. CASE Notify(k)
  BY <1>5 DEF Notify, Woken
<1> QED
  BY <1>1, <1>2, <1>3, <1>4, <1>5 DEF TaskStep, TaskRuns

LEMMA InOrderTask ==
  ASSUME StreamInv, Positions, Contents, InOrder, NEW k \in Blocks, TaskStep(k)
  PROVE  InOrder'
<1> USE DEF StreamInv
<1>1. SUFFICES ASSUME FailsInTurnOnly' PROVE InOrder'
  BY DEF InOrder
<1>2. FailsInTurnOnly
  BY <1>1, FaultsStay
<1>3. UNCHANGED <<inputBlockId, content>>
  BY TaskFrame
<1>4. CASE EmitData(k)
  <2>1. pc'[k] = "publish" /\ UNCHANGED blockId
    BY <1>4 DEF EmitData, Goto, Ownership, TypeOK, TaskTypeOK
  <2>2. HolderAt("publish")'
    BY <1>2, <1>4, <2>1, EmitDataCounts DEF HolderAt
  <2>3. Count' = k /\ k = blockId + 1 /\ k <= inputBlockId /\ Count = blockId
    BY <1>2, <1>4, EmitDataCounts
  <2>4. \A n \in 1..Count' : Emitted'[n] = content'[n]
    <3> SUFFICES ASSUME NEW n \in 1..k PROVE Emitted'[n] = content[n]
      BY <1>3, <2>3
    <3>1. CASE n = k
      BY <1>2, <1>4, <3>1, EmitDataCounts
    <3>2. CASE n # k
      <4>1. n \in 1..Count
        BY <2>3, <3>2, CountType DEF Blocks
      <4> QED
        BY <1>2, <1>4, <4>1, EmitDataCounts DEF InOrder
    <3> QED
      BY <3>1, <3>2
  <2> QED
    BY <1>3, <2>1, <2>2, <2>3, <2>4 DEF InOrder
<1>5. CASE ~EmitData(k)
  <2>1. Count' = Count /\ Emitted' = Emitted
    BY <1>5, OtherTaskCounts
  <2>2. /\ Count' <= inputBlockId'
        /\ \A n \in 1..Count' : Emitted'[n] = content'[n]
    BY <1>2, <1>3, <2>1 DEF InOrder
  <2>3. ASSUME blockId' # CANCEL
        PROVE  Count' = IF HolderAt("publish")' THEN blockId' + 1 ELSE blockId'
    <3>1. blockId # CANCEL
      BY <1>2, <2>3, CancelStays
    <3>2. CASE Publish(k)
      <4>1. /\ pc[k] = "publish" /\ blockId' = k
            /\ pc' = [pc EXCEPT ![k] = "notify"]
        BY <3>2 DEF Publish, Goto
      <4>2. k = blockId + 1
        BY <1>2, <4>1, HolderEmits
      <4>3. Count = k
        BY <1>2, <3>1, <4>1, <4>2 DEF InOrder, HolderAt
      <4>4. ~HolderAt("publish")'
        <5> SUFFICES ASSUME k + 1 \in Blocks PROVE pc'[k + 1] # "publish"
          BY <4>1 DEF HolderAt
        <5>1. k + 1 > blockId /\ k + 1 # blockId + 1 /\ k + 1 # k
          BY <3>1, <4>2 DEF Ownership, TypeOK, TaskTypeOK, Blocks, CANCEL
        <5>2. Waiting(k + 1)
          BY <1>2, <3>1, <5>1 DEF Turns, TurnsInOrder
        <5> QED
          BY <4>1, <5>1, <5>2 DEF Waiting, Ownership, TypeOK, TaskTypeOK
      <4> QED
        BY <2>1, <4>1, <4>3, <4>4
    <3>3. CASE Cancel(k)
      BY <2>3, <3>3 DEF Cancel
    <3>4. CASE ~Publish(k) /\ ~Cancel(k)
      <4>1. UNCHANGED blockId /\ HolderAt("publish")' = HolderAt("publish")
        BY <1>5, <3>4, PublishPlace DEF HolderAt
      <4> QED
        BY <1>2, <2>1, <3>1, <4>1 DEF InOrder
    <3> QED
      BY <3>2, <3>3, <3>4
  <2> QED
    BY <2>2, <2>3 DEF InOrder
<1> QED
  BY <1>4, <1>5

\* Blocks are numbered by the launches only.
LEMMA ClientLaunches ==
  ASSUME ClientStep \/ ClientCall
  PROVE  Launch \/ LaunchFails \/ UNCHANGED inputBlockId
<1>1. CASE WriteChunk
  BY <1>1 DEF WriteChunk
<1>2. CASE WriteFull
  BY <1>2 DEF WriteFull
<1>3. CASE WriteReturns
  BY <1>3 DEF WriteReturns
<1>4. CASE PutUnit
  BY <1>4 DEF PutUnit
<1>5. CASE SubmitOnClosed
  BY <1>5 DEF SubmitOnClosed, Throw
<1>6. CASE SubmitNothing
  BY <1>6 DEF SubmitNothing
<1>7. CASE Launch
  BY <1>7
<1>8. CASE LaunchFails
  BY <1>8
<1>9. CASE Await
  BY <1>9 DEF Await
<1>10. CASE AwaitFails
  BY <1>10 DEF AwaitFails, Throw, CollectFails
<1>11. CASE Drain
  BY <1>11 DEF Drain
<1>12. CASE DrainFails
  BY <1>12 DEF DrainFails, Throw, CollectFails
<1>13. CASE Seal
  BY <1>13 DEF Seal
<1>14. CASE SealFails
  BY <1>14 DEF SealFails, Throw
<1>15. CASE Release
  BY <1>15 DEF Release
<1>16. CASE Free
  BY <1>16 DEF Free
<1>17. CASE CallPut
  BY <1>17 DEF CallPut
<1>18. CASE CallClose
  BY <1>18 DEF CallClose
<1>19. CASE CallDestroy
  BY <1>19 DEF CallDestroy
<1>20. ASSUME NEW n \in WriteSizes, CallWrite(n)
      PROVE  UNCHANGED inputBlockId
  BY <1>20 DEF CallWrite
<1> QED
  BY <1>1, <1>2, <1>3, <1>4, <1>5, <1>6, <1>7, <1>8, <1>9, <1>10, <1>11,
     <1>12, <1>13, <1>14, <1>15, <1>16, <1>17, <1>18, <1>19, <1>20
  DEF ClientStep, ClientCall

\* A launch writes the contents of the new block only.
LEMMA ClientContents ==
  ASSUME Ownership, ClientStep \/ ClientCall
  PROVE  /\ inputBlockId' \in {inputBlockId, inputBlockId + 1}
         /\ \A n \in 1..inputBlockId : content'[n] = content[n]
         /\ HolderAt("publish")' = HolderAt("publish") \/ blockId' # blockId
<1> USE ConstantsAssumption DEF Ownership, TypeOK, RingTypeOK, TaskTypeOK, Blocks
<1>1. ASSUME NEW state, NewTask(state)
      PROVE  /\ inputBlockId' = inputBlockId + 1
             /\ \A n \in 1..inputBlockId : content'[n] = content[n]
             /\ state # "publish" => HolderAt("publish")' = HolderAt("publish") \/ blockId' # blockId
  <2> DEFINE m == inputBlockId + 1
  <2>2. m \in Blocks /\ inputBlockId' = m
    BY <1>1, NewTaskRing
  <2>3. /\ content' = [content EXCEPT ![m] =
                         SubSeq(array[bufferId], 1, index[bufferId])]
        /\ pc' = [pc EXCEPT ![m] = state]
    BY <1>1 DEF NewTask
  <2>4. pc[m] = "none"
    BY <2>2 DEF LaunchedBlocks
  <2>5. \A n \in 1..inputBlockId : content'[n] = content[n]
    BY <2>2, <2>3
  <2>6. ASSUME state # "publish", blockId' = blockId
        PROVE  HolderAt("publish")' = HolderAt("publish")
    BY <2>6, <2>2, <2>3, <2>4 DEF HolderAt
  <2> QED
    BY <2>2, <2>5, <2>6
<1>2. CASE Launch
  BY <1>1, <1>2 DEF Launch
<1>3. CASE LaunchFails
  BY <1>1, <1>3 DEF LaunchFails
<1>4. CASE UNCHANGED taskVars /\ UNCHANGED inputBlockId
  BY <1>4 DEF taskVars, HolderAt
<1> QED
  BY <1>2, <1>3, <1>4, ClientFrame, ClientLaunches

LEMMA InOrderClient ==
  ASSUME StreamInv, Positions, InOrder, ClientStep \/ ClientCall
  PROVE  InOrder'
<1> USE DEF StreamInv
<1>1. SUFFICES ASSUME FailsInTurnOnly' PROVE InOrder'
  BY DEF InOrder
<1>2. ~LaunchFails
  BY <1>1, NewTaskRing
  DEF LaunchFails, FailsInTurnOnly, Ownership, TypeOK, TaskTypeOK
<1>3. UNCHANGED <<blockId, cause>>
  BY <1>2, ClientFrame DEF Launch, taskVars
<1>4. FailsInTurnOnly
  BY <1>1, <1>3 DEF FailsInTurnOnly
<1>5. Count' = Count /\ Emitted' = Emitted /\ Count \in Nat
  BY PositionsNext, CountType DEF Next
<1>6. Count <= inputBlockId /\ inputBlockId \in Nat /\ inputBlockId' \in Nat
  BY <1>4, ClientContents, ConstantsAssumption
  DEF InOrder, Ownership, TypeOK, RingTypeOK
<1>7. \A n \in 1..Count : n \in 1..inputBlockId
  BY <1>5, <1>6
<1>8. Count' <= inputBlockId' /\ \A n \in 1..Count' : Emitted'[n] = content'[n]
  BY <1>4, <1>5, <1>6, <1>7, ClientContents DEF InOrder
<1>9. blockId' # CANCEL =>
        Count' = IF HolderAt("publish")' THEN blockId' + 1 ELSE blockId'
  BY <1>3, <1>4, <1>5, ClientContents DEF InOrder
<1> QED
  BY <1>8, <1>9 DEF InOrder

\* All that is known of the order of the stream.
OrderInv == StreamInv /\ Positions /\ Contents /\ InOrder

LEMMA OrderInvNext == OrderInv /\ [Next]_vars => OrderInv'
<1> SUFFICES ASSUME OrderInv, [Next]_vars PROVE OrderInv'
  OBVIOUS
<1>1. StreamInv'
  BY OwnershipNext, TurnsNext, DrainageNext, SealedForGoodNext, FaultsNext,
     OutputNext
  DEF OrderInv, StreamInv
<1>2. Positions' /\ Contents'
  BY PositionsNext, ContentsNext DEF OrderInv, StreamInv
<1>3. InOrder'
  <2>1. CASE ClientStep \/ ClientCall
    BY <2>1, InOrderClient DEF OrderInv
  <2>2. ASSUME NEW k \in Blocks, TaskStep(k) PROVE InOrder'
    BY <2>2, InOrderTask DEF OrderInv
  <2>3. CASE UNCHANGED vars
    <3>1. UNCHANGED <<out, pc, content, inputBlockId, blockId, cause>>
      BY <2>3 DEF vars, clientVars, taskVars
    <3>2. DataAt' = DataAt /\ \A i \in DataAt : out'[i] = out[i]
      BY <3>1 DEF DataAt
    <3>3. Count' = Count /\ Emitted' = Emitted
      BY <3>2, EmittedSame DEF OrderInv
    <3> QED
      BY <3>1, <3>3 DEF OrderInv, InOrder, HolderAt, FailsInTurnOnly
  <2> QED
    BY <2>1, <2>2, <2>3 DEF Next, Terminated
<1> QED
  BY <1>1, <1>2, <1>3 DEF OrderInv

LEMMA OrderInvHolds == Spec => []OrderInv
<1>1. Init => OrderInv
  BY OwnershipInit, TurnsInit, DrainageInit, SealedForGoodInit, FaultsInit,
     OutputInit, PositionsInit, ContentsInit, InOrderInit
  DEF OrderInv, StreamInv
<1> QED
  BY <1>1, OrderInvNext, PTL DEF Spec

-----------------------------------------------------------------------------
(* The refinement of BlockStream.                                          *)

Faultless == \A k \in Blocks : cause[k] = "none"

\* A close() that gets as far as the end marker, with no call having thrown,
\* has every block behind it.
LEMMA NothingFailed ==
  ASSUME OrderInv, thrown = {},
         mpc = "seal" \/ (mpc = "release" /\ errMsg = "none")
  PROVE  /\ Faultless
         /\ \A k \in 1..inputBlockId : pc[k] = "done"
         /\ Count = inputBlockId
<1> USE DEF OrderInv, StreamInv
<1>1. errMsg = "none" /\ mpc # "dead"
  BY DEF Faults, ErrorEnds, Ownership, CallMatchesPlace
<1>2. \A s \in Slots : futures[s] = 0
  BY <1>1 DEF Drainage, DrainedAll
<1>3. \A k \in Blocks : ~Live(k)
  BY <1>1, <1>2, NoFutureNoTask
<1>4. ASSUME NEW k \in Blocks
      PROVE  pc[k] \notin {"lost", "failed", "cancel", "cnotify"}
  <2>1. futures[slot[k]] # k
    BY <1>2, ConstantsAssumption DEF Ownership, TypeOK, TaskTypeOK, Blocks
  <2> QED
    BY <1>1, <1>3, <2>1 DEF Faults, FailureKept, Reported, Live
<1>5. Faultless
  BY <1>4 DEF Turns, FaultEndsBlock, Faultless
<1>6. FailsInTurnOnly /\ blockId # CANCEL
  BY <1>5 DEF Faultless, FailsInTurnOnly, Faults, CancelHasCause
<1>7. /\ inputBlockId \in Nat /\ blockId \in Nat
      /\ 1..inputBlockId \subseteq Blocks
      /\ blockId # 0 => blockId \in Blocks
  BY <1>6, ConstantsAssumption
  DEF Ownership, TypeOK, RingTypeOK, TaskTypeOK, Blocks, CANCEL
<1>8. ASSUME NEW k \in 1..inputBlockId
      PROVE  pc[k] = "done" /\ k <= blockId
  <2>1. k \in Blocks /\ pc[k] # "none" /\ k \in Nat
    BY <1>7 DEF Ownership, LaunchedBlocks
  <2>2. pc[k] \in {"done", "canceled"}
    BY <1>3, <1>4, <2>1 DEF Live
  <2>3. ~Waiting(k)
       /\ pc[k] \notin {"recheck", "size", "data", "publish", "cancel"}
    BY <2>2 DEF Waiting
  <2>4. k <= blockId
    BY <1>6, <1>7, <2>1, <2>3 DEF Turns, TurnsInOrder
  <2>5. Passed(k)
    BY <1>6, <2>1, <2>4 DEF Turns, TurnsInOrder
  <2> QED
    BY <2>2, <2>4, <2>5 DEF Passed
<1>9. blockId = inputBlockId
  <2>1. inputBlockId <= blockId
    <3>1. CASE inputBlockId = 0
      BY <1>7, <3>1
    <3>2. CASE inputBlockId # 0
      <4>1. inputBlockId \in 1..inputBlockId
        BY <1>7, <3>2
      <4> QED
        BY <1>8, <4>1
    <3> QED
      BY <3>1, <3>2
  <2>2. ASSUME blockId # 0 PROVE blockId <= inputBlockId
    <3>1. blockId \in Blocks /\ blockId <= blockId
      BY <1>7, <2>2
    <3>2. Passed(blockId)
      BY <1>6, <3>1 DEF Turns, TurnsInOrder
    <3> QED
      BY <3>1, <3>2 DEF Passed, Ownership, LaunchedBlocks
  <2> QED
    BY <1>7, <2>1, <2>2
<1>10. ~HolderAt("publish")
  BY <1>3 DEF HolderAt, Live
<1> QED
  BY <1>5, <1>6, <1>8, <1>9, <1>10 DEF InOrder

\* Exceptions are not taken back.
LEMMA ThrownGrows ==
  ASSUME ClientStep \/ ClientCall, thrown # {}
  PROVE  thrown' # {}
<1>1. CASE WriteChunk
  BY <1>1 DEF WriteChunk
<1>2. CASE WriteFull
  BY <1>2 DEF WriteFull
<1>3. CASE WriteReturns
  BY <1>3 DEF WriteReturns
<1>4. CASE PutUnit
  BY <1>4 DEF PutUnit
<1>5. CASE SubmitOnClosed
  BY <1>5 DEF SubmitOnClosed, Throw
<1>6. CASE SubmitNothing
  BY <1>6 DEF SubmitNothing
<1>7. CASE Launch
  BY <1>7 DEF Launch
<1>8. CASE LaunchFails
  BY <1>8 DEF LaunchFails, Throw
<1>9. CASE Await
  BY <1>9 DEF Await
<1>10. CASE AwaitFails
  BY <1>10 DEF AwaitFails, Throw, CollectFails
<1>11. CASE Drain
  BY <1>11 DEF Drain
<1>12. CASE DrainFails
  BY <1>12 DEF DrainFails, Throw, CollectFails
<1>13. CASE Seal
  BY <1>13 DEF Seal
<1>14. CASE SealFails
  BY <1>14 DEF SealFails, Throw
<1>15. CASE Release
  BY <1>15 DEF Release
<1>16. CASE Free
  BY <1>16 DEF Free
<1>17. CASE CallPut
  BY <1>17 DEF CallPut
<1>18. CASE CallClose
  BY <1>18 DEF CallClose
<1>19. CASE CallDestroy
  BY <1>19 DEF CallDestroy
<1>20. ASSUME NEW n \in WriteSizes, CallWrite(n)
      PROVE  thrown' # {}
  BY <1>20 DEF CallWrite
<1> QED
  BY <1>1, <1>2, <1>3, <1>4, <1>5, <1>6, <1>7, <1>8, <1>9, <1>10, <1>11,
     <1>12, <1>13, <1>14, <1>15, <1>16, <1>17, <1>18, <1>19, <1>20
  DEF ClientStep, ClientCall

LEMMA EmittedType ==
  ASSUME OrderInv, FailsInTurnOnly
  PROVE  /\ Emitted \in Seq(Seq(Nat))
         /\ Len(Emitted) = Count
         /\ Count \in Nat
         /\ Count <= inputBlockId
         /\ \A n \in 1..Count : Emitted[n] = content[n]
<1> USE ConstantsAssumption DEF OrderInv, StreamInv
<1>1. Count \in Nat /\ Count <= inputBlockId
  BY CountType DEF InOrder
<1>2. \A n \in 1..Count : Emitted[n] = content[n] /\ content[n] \in Seq(Nat)
  BY <1>1
  DEF InOrder, Ownership, TypeOK, RingTypeOK, TaskTypeOK, Blocks
<1>3. Emitted \in [1..Count -> Seq(Nat)]
  BY <1>2, EmittedIs
<1> QED
  BY <1>1, <1>2, <1>3

LEMMA SubmittedType ==
  ASSUME Ownership
  PROVE  /\ Len(Submitted) = inputBlockId
         /\ inputBlockId \in Nat
         /\ \A n \in 1..inputBlockId : Submitted[n] = content[n]
  BY ConstantsAssumption DEF Ownership, TypeOK, RingTypeOK, Submitted

\* EmitData is an Emit of BlockStream.
LEMMA EmitDataEmits ==
  ASSUME OrderInv, FailsInTurnOnly, NEW k \in Blocks, EmitData(k)
  PROVE  Abstract!Emit
<1> USE DEF OrderInv, StreamInv
<1>1. /\ k = blockId + 1 /\ Count = blockId
      /\ k <= inputBlockId
      /\ Emitted'[k] = content[k]
      /\ DOMAIN Emitted' = 1..k
      /\ \A n \in 1..Count : Emitted'[n] = Emitted[n]
  BY EmitDataCounts
<1>2. /\ Emitted \in Seq(Seq(Nat)) /\ Len(Emitted) = Count
      /\ Count \in Nat
  BY EmittedType
<1>3. /\ Len(Submitted) = inputBlockId
      /\ Submitted[k] = content[k]
  <2>1. k \in 1..inputBlockId
    BY <1>1, ConstantsAssumption DEF Blocks
  <2> QED
    BY <2>1, SubmittedType
<1>4. content[k] \in Seq(Nat)
  BY DEF Ownership, TypeOK, TaskTypeOK
<1>5. Emitted' = Append(Emitted, content[k])
  <2> DEFINE A == Append(Emitted, content[k])
  <2>1. /\ A \in Seq(Seq(Nat)) /\ Len(A) = k
        /\ A[k] = content[k]
        /\ \A n \in 1..Count : A[n] = Emitted[n]
    BY <1>1, <1>2, <1>4
  <2>2. \A n \in 1..k : n = k \/ n \in 1..Count
    BY <1>1, <1>2
  <2>3. Emitted' = [n \in 1..k |-> Emitted'[n]]
    BY <1>1 DEF Emitted
  <2>4. A = [n \in 1..k |-> A[n]]
    BY <2>1
  <2>5. \A n \in 1..k : Emitted'[n] = A[n]
    BY <1>1, <2>1, <2>2
  <2> HIDE DEF A
  <2>6. Emitted' = A
    BY <2>3, <2>4, <2>5
  <2> QED
    BY <2>6 DEF A
<1>6. ~Sealed /\ ~Sealed'
  BY SealedForGoodTask DEF TaskStep, TaskRuns
<1>7. UNCHANGED <<inputBlockId, content, thrown>>
  BY DEF EmitData, clientVars
<1>8. Submitted' = Submitted
  BY <1>7 DEF Submitted
<1>9. Sealed' = Sealed /\ (thrown # {})' = (thrown # {})
  <2>1. Sealed' = Sealed
    BY <1>6 DEF Sealed
  <2> QED
    BY <1>7, <2>1
<1>10. /\ Len(Emitted) < Len(Submitted)
       /\ Emitted' = Append(Emitted, Submitted[Len(Emitted) + 1])
  <2>1. k = Len(Emitted) + 1 /\ inputBlockId \in Nat
    BY <1>1, <1>2, SubmittedType
  <2>2. Len(Emitted) < Len(Submitted)
    BY <1>1, <1>2, <1>3, <2>1
  <2>3. Emitted' = Append(Emitted, Submitted[k])
    BY <1>3, <1>5
  <2> QED
    BY <2>1, <2>2, <2>3
<1> QED
  BY <1>6, <1>8, <1>9, <1>10 DEF Abstract!Emit

\* A launch is a Submit.
LEMMA LaunchSubmits ==
  ASSUME OrderInv, Launch
  PROVE  Abstract!Submit
<1> USE DEF OrderInv, StreamInv
<1>1. /\ mpc = "submit" /\ closed = 0 /\ WriteHeader
      /\ inputBlockId' = inputBlockId + 1
      /\ UNCHANGED thrown
  BY NewTaskRing DEF Launch, NewTask
<1>2. ~Sealed /\ ~Sealed'
  BY <1>1, HeaderSealsNothing DEF SealedForGood
<1>3. Emitted' = Emitted
  BY PositionsNext DEF ClientStep, Next
<1>4. /\ Len(Submitted) = inputBlockId /\ inputBlockId \in Nat
      /\ \A n \in 1..inputBlockId : Submitted[n] = content[n]
  BY SubmittedType
<1>5. Submitted' = [n \in 1..(inputBlockId + 1) |-> content'[n]]
  BY <1>1 DEF Submitted
<1>6. \A n \in 1..inputBlockId : content'[n] = content[n]
  BY ClientContents DEF ClientStep
<1>7. /\ Len(Submitted') = inputBlockId + 1
      /\ \A n \in 1..inputBlockId : Submitted'[n] = Submitted[n]
  BY <1>4, <1>5, <1>6
<1>8. Sealed' = Sealed /\ (thrown # {})' = (thrown # {})
  <2>1. Sealed' = Sealed
    BY <1>2 DEF Sealed
  <2> QED
    BY <1>1, <2>1
<1>9. /\ Len(Submitted') = Len(Submitted) + 1
      /\ \A n \in 1..Len(Submitted) : Submitted'[n] = Submitted[n]
  BY <1>4, <1>7
<1> QED
  BY <1>2, <1>3, <1>8, <1>9 DEF Abstract!Submit

\* The end marker is a Seal.
LEMMA SealSeals ==
  ASSUME OrderInv, FailsInTurnOnly, Seal \/ SealFails,
         out' = Append(out, EndMarker)
  PROVE  Abstract!Seal
<1> USE DEF OrderInv, StreamInv
<1>1. mpc = "seal" /\ closed = 0 /\ UNCHANGED <<inputBlockId, content, thrown>>
  BY DEF Seal, SealFails, Throw, Ownership, CallMatchesPlace, taskVars
<1>2. ~Sealed
  BY <1>1 DEF SealedForGood
<1>3. Sealed'
  <2>1. out \in Seq(Items)
    BY DEF Ownership, TypeOK, StreamTypeOK
  <2>2. Len(out') \in 1..Len(out') /\ out'[Len(out')] = EndMarker
    BY <2>1
  <2> QED
    BY <2>2 DEF Sealed
<1>4. Emitted' = Emitted
  BY PositionsNext DEF ClientStep, Next
<1>5. Submitted' = Submitted
  BY <1>1 DEF Submitted
<1>6. thrown = {} => Emitted = Submitted
  <2> SUFFICES ASSUME thrown = {} PROVE Emitted = Submitted
    OBVIOUS
  <2>1. Count = inputBlockId
    BY <1>1, NothingFailed
  <2>2. /\ Emitted = [n \in 1..Count |-> out[NthOf(DataAt, n)].units]
        /\ \A n \in 1..Count : Emitted[n] = content[n]
    BY EmittedIs, EmittedType
  <2> QED
    BY <2>1, <2>2 DEF Submitted
<1> QED
  BY <1>1, <1>2, <1>3, <1>4, <1>5, <1>6 DEF Abstract!Seal, Abstract!Complete

LEMMA RefinesNext ==
  ASSUME OrderInv, FailsInTurnOnly, FailsInTurnOnly', [Next]_vars
  PROVE  [Abstract!Next]_(Abstract!blockStreamVars)
<1> USE DEF OrderInv, StreamInv
<1>1. CASE ClientStep \/ ClientCall
  <2>1. CASE Launch
    BY <2>1, LaunchSubmits DEF Abstract!Next
  <2>2. ~LaunchFails
    BY NewTaskRing
    DEF LaunchFails, FailsInTurnOnly, Ownership, TypeOK, TaskTypeOK
  <2>3. CASE (Seal \/ SealFails) /\ out' = Append(out, EndMarker)
    BY <2>3, SealSeals DEF Abstract!Next
  <2>4. CASE ~Launch /\ (UNCHANGED out \/ WriteHeader)
    <3>1. UNCHANGED taskVars
      BY <1>1, <2>2, <2>4, ClientFrame
    <3>2. UNCHANGED inputBlockId
      BY <1>1, <2>2, <2>4, ClientLaunches
    <3>3. Submitted' = Submitted /\ Emitted' = Emitted
      BY <1>1, <3>1, <3>2, PositionsNext DEF Submitted, taskVars
    <3>4. Sealed' = Sealed
      <4>1. CASE UNCHANGED out
        BY <4>1 DEF Sealed
      <4>2. CASE ~Sealed /\ WriteHeader
        BY <4>2, HeaderSealsNothing DEF Sealed
      <4>3. CASE Sealed
        <5>1. UNCHANGED out
          BY <1>1, <4>3, SealedForGoodClient
        <5> QED
          BY <5>1 DEF Sealed
      <4> QED
        BY <2>4, <4>1, <4>2, <4>3
    <3>5. (thrown # {})' = (thrown # {}) \/ (thrown # {})'
      BY <1>1, ThrownGrows
    <3> QED
      BY <3>3, <3>4, <3>5
      DEF Abstract!Next, Abstract!Report, Abstract!blockStreamVars
  <2> QED
    BY <1>1, <2>1, <2>2, <2>3, <2>4, ClientAppends
<1>2. ASSUME NEW k \in Blocks, TaskStep(k)
      PROVE  [Abstract!Next]_(Abstract!blockStreamVars)
  <2>1. CASE EmitData(k)
    BY <2>1, EmitDataEmits DEF Abstract!Next
  <2>2. CASE ~EmitData(k)
    <3>1. Emitted' = Emitted
      BY <1>2, <2>2, OtherTaskCounts
    <3>2. ~Sealed /\ ~Sealed'
      BY <1>2, SealedForGoodTask
    <3>3. UNCHANGED <<inputBlockId, content, thrown>>
      BY <1>2, TaskFrame
    <3>4. Submitted' = Submitted
      BY <3>3 DEF Submitted
    <3>5. Sealed' = Sealed /\ (thrown # {})' = (thrown # {})
      <4>1. Sealed' = Sealed
        BY <3>2 DEF Sealed
      <4> QED
        BY <3>3, <4>1
    <3> QED
      BY <3>1, <3>4, <3>5 DEF Abstract!blockStreamVars
  <2> QED
    BY <2>1, <2>2
<1>3. CASE UNCHANGED vars
  <2>1. UNCHANGED <<out, content, inputBlockId, thrown>>
    BY <1>3 DEF vars, clientVars, taskVars
  <2>2. DataAt' = DataAt /\ \A i \in DataAt : out'[i] = out[i]
    BY <2>1 DEF DataAt
  <2>3. Emitted' = Emitted
    BY <2>2, EmittedSame
  <2> QED
    BY <2>1, <2>3 DEF Abstract!blockStreamVars, Submitted, Sealed
<1> QED
  BY <1>1, <1>2, <1>3 DEF Next, Terminated

LEMMA RefinesInit == Init => Abstract!Init
<1> SUFFICES ASSUME Init PROVE Abstract!Init
  OBVIOUS
<1>1. Count = 0
  BY PositionsInit
<1>2. Emitted = <<>>
  BY <1>1, EmittedIs
<1>3. Submitted = <<>>
  BY DEF Init, Submitted
<1>4. ~Sealed /\ thrown = {}
  BY DEF Init, Sealed
<1> QED
  BY <1>2, <1>3, <1>4 DEF Abstract!Init

\* The stream keeps the promise of BlockStream, for any number of slots and
\* blocks, when faults can only hit the task that has the turn or the end
\* marker: the blocks reach it in the order of their submission, each once,
\* none skipped, and the end marker goes behind all of them unless a call has
\* thrown.
THEOREM ImplementsBlockStreamHolds ==
  ASSUME FaultPoints \subseteq {"emit", "seal"}
  PROVE  Spec => ImplementsBlockStream
<1>1. Init => FailsInTurnOnly
  BY DEF Init, FailsInTurnOnly
<1>2. OrderInv /\ FailsInTurnOnly /\ [Next]_vars => FailsInTurnOnly'
  BY FailsInTurnOnlyNext DEF OrderInv, StreamInv, Ownership, TypeOK
<1>3. OrderInv /\ FailsInTurnOnly /\ FailsInTurnOnly' /\ [Next]_vars
        => [Abstract!Next]_(Abstract!blockStreamVars)
  BY RefinesNext
<1> QED
  BY <1>1, <1>2, <1>3, RefinesInit, OrderInvHolds, PTL
  DEF Spec, ImplementsBlockStream, Abstract!Spec

-----------------------------------------------------------------------------
(* No unit is lost or doubled on its way into a block.                     *)

\* The units of the blocks launched so far end here.
Taken == LastUnit(content, inputBlockId)

\* As long as nothing has failed only the current buffer holds units, and
\* none while the client waits or closes.
OthersEmpty ==
  \A s \in Slots :
    s # bufferId \/ mpc \in {"await", "drain", "seal", "release"} =>
      index[s] = 0

BlocksTile ==
  \A k \in 1..inputBlockId :
    /\ content[k] # <<>>
    /\ \A i \in 1..Len(content[k]) :
         content[k][i] = LastUnit(content, k - 1) + i

BufferTiles ==
  /\ accepted = Taken + index[bufferId]
  /\ \A i \in 1..index[bufferId] : array[bufferId][i] = Taken + i

Units == Faultless => OthersEmpty /\ BlocksTile /\ BufferTiles

LEMMA UnitsInit == Init => Units
  BY ConstantsAssumption
  DEF Init, Units, OthersEmpty, BlocksTile, BufferTiles, Taken, LastUnit, Slots

LEMMA LastType ==
  ASSUME NEW s \in Seq(Nat), s # <<>>
  PROVE  s[Len(s)] \in Nat
<1>1. Len(s) \in 1..Len(s)
  OBVIOUS
<1> QED
  BY <1>1

LEMMA TakenType ==
  ASSUME Ownership, BlocksTile
  PROVE  Taken \in Nat /\ \A n \in 0..inputBlockId : LastUnit(content, n) \in Nat
<1> USE ConstantsAssumption
    DEF Ownership, TypeOK, RingTypeOK, TaskTypeOK, Blocks
<1>1. ASSUME NEW n \in 0..inputBlockId PROVE LastUnit(content, n) \in Nat
  <2>1. CASE n = 0
    BY <2>1 DEF LastUnit
  <2>2. CASE n # 0
    <3>1. n \in 1..inputBlockId /\ n \in Blocks
      BY <2>2
    <3>2. content[n] \in Seq(Nat) /\ content[n] # <<>>
      BY <3>1 DEF BlocksTile
    <3>3. content[n][Len(content[n])] \in Nat
      BY <3>2, LastType
    <3> QED
      BY <2>2, <3>3 DEF LastUnit
  <2> QED
    BY <2>1, <2>2
<1> QED
  BY <1>1 DEF Taken

LEMMA UnitsTask ==
  ASSUME Ownership, Units, NEW k \in Blocks, TaskStep(k)
  PROVE  Units'
<1>1. UNCHANGED <<mpc, bufferId, array, inputBlockId, content, accepted>>
  BY TaskFrame
<1>2. SUFFICES ASSUME Faultless' PROVE Units'
  BY DEF Units
<1>3. ~EncodeFails(k)
  BY <1>2 DEF EncodeFails, Faultless, Ownership, TypeOK, TaskTypeOK
<1>4. UNCHANGED index
  BY <1>3, TaskFrame
<1>5. Faultless
  <2>1. UNCHANGED cause \/ \E f \in AllFaultPoints : cause' = [cause EXCEPT ![k] = f]
    BY DEF TaskStep, TaskRuns, SpuriousWake, Start, Encode, EncodeFails,
       CheckTurn, Recheck, EmitSize, EmitData, EmitFails, Publish, Cancel,
       Notify, Listen, ListenFails, AllFaultPoints
  <2>2. \A f \in AllFaultPoints : f # "none"
    BY DEF AllFaultPoints
  <2> QED
    BY <1>2, <2>1, <2>2 DEF Faultless, Ownership, TypeOK, TaskTypeOK
<1> QED
  BY <1>1, <1>4, <1>5
  DEF Units, OthersEmpty, BlocksTile, BufferTiles, Taken

\* Filling continues where the blocks end.
LEMMA UnitsFill ==
  ASSUME Ownership, OthersEmpty, BlocksTile, BufferTiles, WriteChunk \/ PutUnit
  PROVE  OthersEmpty' /\ BlocksTile' /\ BufferTiles'
<1> DEFINE b == bufferId
<1>1. PICK n \in Nat : index[b] + n <= BlockSize /\ Fill(n)
  BY WhenFilling
<1>2. /\ UNCHANGED <<bufferId, inputBlockId, content>>
      /\ mpc \in {"write", "put"}
  BY WhenFilling DEF taskVars
<1>3. mpc' \notin {"await", "drain", "seal", "release"}
  BY DEF WriteChunk, PutUnit
<1>4. /\ \A s \in Slots \ {b} : index'[s] = index[s]
      /\ index'[b] = index[b] + n
      /\ \A i \in 1..index[b] : array'[b][i] = array[b][i]
      /\ \A i \in 1..n : array'[b][index[b] + i] = accepted + i
      /\ accepted' = accepted + n
  BY <1>1, FillUnits
<1>5. OthersEmpty'
  BY <1>2, <1>3, <1>4 DEF OthersEmpty
<1>6. BlocksTile' /\ Taken' = Taken
  BY <1>2 DEF BlocksTile, Taken
<1>7. Taken \in Nat /\ index[b] \in Nat /\ accepted = Taken + index[b]
  BY TakenType DEF BufferTiles, Ownership, TypeOK, RingTypeOK
<1>8. BufferTiles'
  <2>1. accepted' = Taken' + index'[bufferId']
    BY <1>2, <1>4, <1>6, <1>7
  <2>2. ASSUME NEW i \in 1..(index[b] + n) PROVE array'[b][i] = Taken + i
    <3>1. CASE i <= index[b]
      BY <1>4, <1>7, <3>1 DEF BufferTiles
    <3>2. CASE ~(i <= index[b])
      <4> DEFINE j == i - index[b]
      <4>1. j \in 1..n /\ index[b] + j = i
        BY <1>7, <3>2
      <4>2. array'[b][index[b] + j] = accepted + j
        BY <1>4, <4>1
      <4> QED
        BY <1>7, <4>1, <4>2
    <3> QED
      BY <3>1, <3>2
  <2> QED
    BY <1>2, <1>4, <1>6, <2>1, <2>2 DEF BufferTiles
<1> QED
  BY <1>5, <1>6, <1>8

\* A launch turns the buffer's units into the next block.
LEMMA UnitsLaunch ==
  ASSUME Ownership, OthersEmpty, BlocksTile, BufferTiles, Launch
  PROVE  OthersEmpty' /\ BlocksTile' /\ BufferTiles'
<1> DEFINE b == bufferId
           n == inputBlockId + 1
           u == SubSeq(array[b], 1, index[b])
<1> USE ConstantsAssumption
<1>1. /\ n \in Blocks /\ inputBlockId' = n /\ inputBlockId \in Nat
      /\ index[b] > 0
      /\ index' = [index EXCEPT ![b] = 0]
      /\ content' = [content EXCEPT ![n] = u]
      /\ UNCHANGED <<array, accepted>>
      /\ bufferId' \in Slots
  BY NewTaskRing, AfterSubmitType
  DEF Launch, NewTask, Ownership, TypeOK, RingTypeOK
<1>2. \A s \in Slots : index'[s] = 0
  BY <1>1 DEF OthersEmpty, Launch, NewTask, Ownership, TypeOK, RingTypeOK
<1>3. /\ array[b] \in Seq(Nat) /\ index[b] \in 1..Len(array[b])
      /\ Taken \in Nat
  BY <1>1, TakenType
  DEF Ownership, TypeOK, RingTypeOK, IndexInArray
<1>4. /\ u \in Seq(Nat) /\ Len(u) = index[b]
      /\ \A i \in 1..index[b] : u[i] = array[b][i]
  BY <1>3
<1> HIDE DEF u
<1>5. /\ content'[n] = u
      /\ \A k \in Blocks \ {n} : content'[k] = content[k]
  BY <1>1 DEF Ownership, TypeOK, TaskTypeOK
<1>6. \A k \in 0..inputBlockId : LastUnit(content', k) = LastUnit(content, k)
  <2> SUFFICES ASSUME NEW k \in 1..inputBlockId
               PROVE  content'[k] = content[k]
    BY <1>1 DEF LastUnit
  <2> QED
    BY <1>1, <1>5 DEF Blocks
<1>7. \A i \in 1..Len(u) : u[i] = Taken + i
  BY <1>4 DEF BufferTiles
<1>8. BlocksTile'
  <2> SUFFICES ASSUME NEW k \in 1..n
               PROVE  /\ content'[k] # <<>>
                      /\ \A i \in 1..Len(content'[k]) :
                           content'[k][i] = LastUnit(content', k - 1) + i
    BY <1>1 DEF BlocksTile
  <2>1. CASE k = n
    <3>1. LastUnit(content', k - 1) = Taken
      <4>1. k - 1 = inputBlockId /\ inputBlockId \in 0..inputBlockId
        BY <1>1, <2>1
      <4>2. LastUnit(content', inputBlockId) = LastUnit(content, inputBlockId)
        BY <1>6, <4>1
      <4> QED
        BY <4>1, <4>2 DEF Taken
    <3>2. content'[k] = u /\ u # <<>>
      BY <1>1, <1>4, <1>5, <2>1
    <3> QED
      BY <1>7, <3>1, <3>2
  <2>2. CASE k # n
    <3>1. k \in 1..inputBlockId /\ k - 1 \in 0..inputBlockId /\ k \in Blocks \ {n}
      BY <1>1, <2>2 DEF Blocks
    <3> QED
      BY <1>5, <1>6, <3>1 DEF BlocksTile
  <2> QED
    BY <2>1, <2>2
<1>9. Taken' = accepted
  <2>1. Taken' = u[index[b]]
    BY <1>1, <1>4, <1>5 DEF Taken, LastUnit
  <2> QED
    BY <1>3, <1>4, <1>7, <2>1 DEF BufferTiles
<1>10. accepted \in Nat
  BY DEF Ownership, TypeOK, RingTypeOK
<1>11. BufferTiles'
  BY <1>1, <1>2, <1>9, <1>10 DEF BufferTiles
<1>12. OthersEmpty'
  BY <1>2 DEF OthersEmpty
<1> QED
  BY <1>8, <1>11, <1>12

\* Every other step keeps the buffers' indexes and the units.
LEMMA UnitsKept ==
  ASSUME Ownership, OthersEmpty, BlocksTile, BufferTiles, ClientStep \/ ClientCall,
         ~WriteChunk, ~PutUnit, ~Launch, ~LaunchFails, ~AwaitFails, ~DrainFails
  PROVE  OthersEmpty' /\ BlocksTile' /\ BufferTiles'
<1>1. UNCHANGED <<content, inputBlockId>>
  BY ClientFrame, ClientLaunches DEF taskVars
<1>2. BlocksTile' /\ Taken' = Taken /\ Taken \in Nat
  BY <1>1, TakenType DEF BlocksTile, Taken
<1>3. CASE /\ UNCHANGED <<bufferId, index, array, accepted>>
           /\ mpc' \in {"await", "drain", "seal", "release"} =>
                mpc \in {"await", "drain", "seal", "release"}
  BY <1>2, <1>3 DEF OthersEmpty, BufferTiles
<1>4. CASE /\ \A s \in Slots : index[s] = 0 /\ index'[s] = 0
           /\ bufferId' \in Slots /\ UNCHANGED accepted
  BY <1>2, <1>4
  DEF OthersEmpty, BufferTiles, Ownership, TypeOK, RingTypeOK
<1>5. CASE Await
  BY <1>4, <1>5 DEF Await, OthersEmpty, Ownership, TypeOK, RingTypeOK
<1>6. CASE Release
  BY <1>4, <1>6 DEF Release, OthersEmpty, Ownership, TypeOK, RingTypeOK
<1>7. CASE SubmitNothing
  <2>1. \A s \in Slots : index[s] = 0
    BY <1>7 DEF SubmitNothing, OthersEmpty, Ownership, TypeOK, RingTypeOK
  <2>2. bufferId' \in Slots
    BY <1>7, AfterSubmitType DEF SubmitNothing
  <2> QED
    BY <1>4, <1>7, <2>1, <2>2 DEF SubmitNothing
<1>8. CASE SubmitOnClosed
  BY <1>3, <1>8 DEF SubmitOnClosed, Throw, Ownership, CallMatchesPlace
<1>9. CASE WriteFull \/ WriteReturns
  BY <1>3, <1>9 DEF WriteFull, WriteReturns
<1>10. CASE Drain \/ Free
  BY <1>3, <1>10 DEF Drain, Free
<1>11. CASE Seal \/ SealFails
  BY <1>3, <1>11 DEF Seal, SealFails, Throw
<1>12. CASE CallPut \/ CallClose \/ CallDestroy
  BY <1>3, <1>12 DEF CallPut, CallClose, CallDestroy
<1>13. ASSUME NEW n \in WriteSizes, CallWrite(n)
       PROVE  OthersEmpty' /\ BlocksTile' /\ BufferTiles'
  BY <1>3, <1>13 DEF CallWrite
<1> QED
  BY <1>5, <1>6, <1>7, <1>8, <1>9, <1>10, <1>11, <1>12, <1>13
  DEF ClientStep, ClientCall

LEMMA UnitsClient ==
  ASSUME Ownership, Faults, Units, ClientStep \/ ClientCall
  PROVE  Units'
<1>1. SUFFICES ASSUME Faultless' PROVE Units'
  BY DEF Units
<1>2. ~LaunchFails
  BY <1>1, NewTaskRing DEF LaunchFails, Faultless, Ownership, TypeOK, TaskTypeOK
<1>3. Faultless
  BY <1>1, <1>2, ClientFrame DEF Launch, taskVars, Faultless
<1>4. ASSUME NEW s \in Slots, CollectFails(s) PROVE FALSE
  <2>1. futures[s] \in Blocks /\ pc[futures[s]] = "failed"
    BY <1>4, ConstantsAssumption
    DEF CollectFails, Ownership, TypeOK, RingTypeOK, Blocks
  <2> QED
    BY <1>3, <2>1 DEF Faults, BrokenHasCause, Faultless
<1>5. ~AwaitFails /\ ~DrainFails
  BY <1>4
  DEF AwaitFails, DrainFails, Ownership, TypeOK, RingTypeOK, ClientTypeOK
<1> QED
  BY <1>2, <1>3, <1>5, UnitsFill, UnitsLaunch, UnitsKept DEF Units

-----------------------------------------------------------------------------
(* What a close() that has succeeded leaves behind.                        *)

Marked == out # <<>> /\ out[Len(out)] = EndMarker

MarkedAtRelease == mpc = "release" /\ errMsg = "none" => Marked

EofMeansAll ==
  "eof" \in iostate /\ thrown = {} =>
    /\ closed = 1
    /\ Marked
    /\ Faultless
    /\ Count = inputBlockId
    /\ \A k \in 1..inputBlockId : pc[k] = "done"
    /\ \A s \in Slots : index[s] = 0

Completeness == Units /\ MarkedAtRelease /\ EofMeansAll

LEMMA MarkedIsSealed == ASSUME Ownership, Marked PROVE Sealed
<1>1. out \in Seq(Items) /\ out # <<>>
  BY DEF Ownership, TypeOK, StreamTypeOK, Marked
<1>2. Len(out) \in 1..Len(out)
  BY <1>1
<1> QED
  BY <1>2 DEF Marked, Sealed

LEMMA MarkedClient ==
  ASSUME Ownership, Drainage, SealedForGood, MarkedAtRelease,
         ClientStep \/ ClientCall
  PROVE  MarkedAtRelease'
<1> USE DEF MarkedAtRelease
<1>1. CASE Seal
  <2>1. out \in Seq(Items)
    BY DEF Ownership, TypeOK, StreamTypeOK
  <2> QED
    BY <1>1, <2>1, ItemTypes DEF Seal, Marked
<1>2. CASE SubmitNothing \/ Launch
  BY <1>2 DEF SubmitNothing, Launch, AfterSubmit
<1>3. CASE Throw
  BY <1>3 DEF Throw
<1>4. CASE SubmitOnClosed \/ LaunchFails \/ AwaitFails \/ DrainFails \/ SealFails
  BY <1>3, <1>4 DEF SubmitOnClosed, LaunchFails, AwaitFails, DrainFails, SealFails
<1>5. CASE WriteChunk \/ WriteFull \/ WriteReturns \/ PutUnit
  BY <1>5 DEF WriteChunk, WriteFull, WriteReturns, PutUnit
<1>6. CASE Await
  BY <1>6 DEF Await, Ownership, CallMatchesPlace
<1>7. CASE Drain \/ Release \/ Free
  BY <1>7 DEF Drain, Release, Free
<1>8. CASE CallPut \/ CallClose \/ CallDestroy
  BY <1>8 DEF CallPut, CallClose, CallDestroy
<1>9. ASSUME NEW n \in WriteSizes, CallWrite(n) PROVE MarkedAtRelease'
  BY <1>9 DEF CallWrite
<1> QED
  BY <1>1, <1>2, <1>4, <1>5, <1>6, <1>7, <1>8, <1>9 DEF ClientStep, ClientCall

\* A closed stream keeps what it has.
LEMMA ClosedKeeps ==
  ASSUME Ownership, closed = 1, ClientStep \/ ClientCall
  PROVE  UNCHANGED <<index, accepted, closed, inputBlockId, taskVars>>
<1> USE DEF taskVars
<1>1. ~WriteChunk /\ ~PutUnit /\ ~Launch /\ ~LaunchFails
  BY WhenFilling DEF Launch, LaunchFails, NewTask
<1>2. mpc \notin {"await", "drain", "seal", "release"}
  BY DEF Ownership, CallMatchesPlace
<1>3. CASE WriteChunk
  BY <1>1, <1>3
<1>4. CASE WriteFull
  BY <1>4 DEF WriteFull
<1>5. CASE WriteReturns
  BY <1>5 DEF WriteReturns
<1>6. CASE PutUnit
  BY <1>1, <1>6
<1>7. CASE SubmitOnClosed
  BY <1>7 DEF SubmitOnClosed, Throw
<1>8. CASE SubmitNothing
  BY <1>8 DEF SubmitNothing
<1>9. CASE Launch
  BY <1>1, <1>9
<1>10. CASE LaunchFails
  BY <1>1, <1>10
<1>11. CASE Await
  BY <1>2, <1>11 DEF Await
<1>12. CASE AwaitFails
  BY <1>12 DEF AwaitFails, Throw, CollectFails
<1>13. CASE Drain
  BY <1>13 DEF Drain
<1>14. CASE DrainFails
  BY <1>14 DEF DrainFails, Throw, CollectFails
<1>15. CASE Seal
  BY <1>15 DEF Seal
<1>16. CASE SealFails
  BY <1>16 DEF SealFails, Throw
<1>17. CASE Release
  BY <1>2, <1>17 DEF Release
<1>18. CASE Free
  BY <1>18 DEF Free
<1>19. CASE CallPut
  BY <1>19 DEF CallPut
<1>20. CASE CallClose
  BY <1>20 DEF CallClose
<1>21. CASE CallDestroy
  BY <1>21 DEF CallDestroy
<1>22. ASSUME NEW n \in WriteSizes, CallWrite(n)
      PROVE  UNCHANGED <<index, accepted, closed, inputBlockId, taskVars>>
  BY <1>22 DEF CallWrite
<1> QED
  BY <1>3, <1>4, <1>5, <1>6, <1>7, <1>8, <1>9, <1>10, <1>11, <1>12, <1>13,
     <1>14, <1>15, <1>16, <1>17, <1>18, <1>19, <1>20, <1>21, <1>22
  DEF ClientStep, ClientCall

\* When the end of file is set.
LEMMA WhenEof ==
  ASSUME ClientStep \/ ClientCall
  PROVE  \/ "eof" \in iostate' => "eof" \in iostate
         \/ Release /\ errMsg = "none"
<1>1. CASE WriteChunk
  BY <1>1 DEF WriteChunk
<1>2. CASE WriteFull
  BY <1>2 DEF WriteFull
<1>3. CASE WriteReturns
  BY <1>3 DEF WriteReturns
<1>4. CASE PutUnit
  BY <1>4 DEF PutUnit
<1>5. CASE SubmitOnClosed
  BY <1>5 DEF SubmitOnClosed, Throw
<1>6. CASE SubmitNothing
  BY <1>6 DEF SubmitNothing
<1>7. CASE Launch
  BY <1>7 DEF Launch
<1>8. CASE LaunchFails
  BY <1>8 DEF LaunchFails, Throw
<1>9. CASE Await
  BY <1>9 DEF Await
<1>10. CASE AwaitFails
  BY <1>10 DEF AwaitFails, Throw, CollectFails
<1>11. CASE Drain
  BY <1>11 DEF Drain
<1>12. CASE DrainFails
  BY <1>12 DEF DrainFails, Throw, CollectFails
<1>13. CASE Seal
  BY <1>13 DEF Seal
<1>14. CASE SealFails
  BY <1>14 DEF SealFails, Throw
<1>15. CASE Release
  BY <1>15 DEF Release
<1>16. CASE Free
  BY <1>16 DEF Free
<1>17. CASE CallPut
  BY <1>17 DEF CallPut
<1>18. CASE CallClose
  BY <1>18 DEF CallClose
<1>19. CASE CallDestroy
  BY <1>19 DEF CallDestroy
<1>20. ASSUME NEW n \in WriteSizes, CallWrite(n)
      PROVE  "eof" \in iostate' => "eof" \in iostate
  BY <1>20 DEF CallWrite
<1> QED
  BY <1>1, <1>2, <1>3, <1>4, <1>5, <1>6, <1>7, <1>8, <1>9, <1>10, <1>11,
     <1>12, <1>13, <1>14, <1>15, <1>16, <1>17, <1>18, <1>19, <1>20
  DEF ClientStep, ClientCall

LEMMA EofClient ==
  ASSUME OrderInv, Completeness, ClientStep \/ ClientCall
  PROVE  EofMeansAll'
<1> USE DEF OrderInv, StreamInv, Completeness
<1>1. SUFFICES ASSUME "eof" \in iostate', thrown' = {} PROVE EofMeansAll'
  BY DEF EofMeansAll
<1>2. thrown = {}
  BY <1>1, ThrownGrows
<1>3. Count' = Count
  BY PositionsNext DEF Next
<1>4. CASE "eof" \in iostate
  <2>1. closed = 1 /\ Marked
    BY <1>2, <1>4 DEF EofMeansAll
  <2>2. UNCHANGED <<index, closed, inputBlockId, pc, cause>>
    BY <2>1, ClosedKeeps DEF taskVars
  <2>3. UNCHANGED out
    BY <2>1, MarkedIsSealed, SealedForGoodClient
  <2> QED
    BY <1>2, <1>3, <1>4, <2>2, <2>3 DEF EofMeansAll, Marked, Faultless
<1>5. CASE Release /\ errMsg = "none"
  <2>1. mpc = "release" /\ closed' = 1 /\ \A s \in Slots : index'[s] = 0
    BY <1>5 DEF Release
  <2>2. UNCHANGED <<out, inputBlockId, pc, cause>>
    BY <1>5 DEF Release, taskVars
  <2>3. Marked
    BY <1>5, <2>1 DEF MarkedAtRelease
  <2>4. /\ Faultless
        /\ \A k \in 1..inputBlockId : pc[k] = "done"
        /\ Count = inputBlockId
    BY <1>2, <1>5, <2>1, NothingFailed
  <2> QED
    BY <1>3, <2>1, <2>2, <2>3, <2>4 DEF EofMeansAll, Marked, Faultless
<1> QED
  BY <1>1, <1>4, <1>5, WhenEof

LEMMA CompletenessNext ==
  OrderInv /\ Completeness /\ [Next]_vars => Completeness'
<1> SUFFICES ASSUME OrderInv, Completeness, [Next]_vars PROVE Completeness'
  OBVIOUS
<1> USE DEF OrderInv, StreamInv
<1>1. CASE ClientStep \/ ClientCall
  BY <1>1, UnitsClient, MarkedClient, EofClient DEF Completeness
<1>2. ASSUME NEW k \in Blocks, TaskStep(k) PROVE Completeness'
  <2>1. UNCHANGED <<mpc, errMsg, iostate, thrown>>
    BY <1>2, TaskFrame
  <2>2. ~Marked
    BY <1>2, SealedForGoodTask, MarkedIsSealed
  <2> QED
    BY <1>2, <2>1, <2>2, UnitsTask
    DEF Completeness, MarkedAtRelease, EofMeansAll
<1>3. CASE UNCHANGED vars
  <2>1. UNCHANGED <<clientVars, taskVars, out>>
    BY <1>3 DEF vars
  <2>2. DataAt' = DataAt /\ Count' = Count
    BY <2>1 DEF DataAt, Count
  <2>3. Units'
    BY <2>1
    DEF Completeness, Units, Faultless, OthersEmpty, BlocksTile, BufferTiles,
        Taken, clientVars, taskVars
  <2>4. MarkedAtRelease' /\ EofMeansAll'
    BY <2>1, <2>2
    DEF Completeness, MarkedAtRelease, EofMeansAll, Marked, Faultless,
        clientVars, taskVars
  <2> QED
    BY <2>3, <2>4 DEF Completeness
<1> QED
  BY <1>1, <1>2, <1>3 DEF Next, Terminated

\* When close() has succeeded and no call has thrown, the stream holds exactly
\* the units that were accepted, in order, then the end marker, and every task
\* has returned; for any number of slots and blocks, any write sizes, and
\* wherever steps fail: a failure is always reported or keeps the stream from
\* being closed as good.
THEOREM LosslessCloseHolds == Spec => []LosslessClose
<1>1. OrderInv /\ Completeness => LosslessClose
  <2> SUFFICES ASSUME OrderInv, Completeness, "eof" \in iostate, thrown = {}
               PROVE  /\ Tile(Emitted, accepted)
                      /\ out[Len(out)] = EndMarker
                      /\ \A k \in 1..inputBlockId : pc[k] = "done"
    BY DEF LosslessClose
  <2>1. /\ Marked /\ Faultless /\ Count = inputBlockId
        /\ \A k \in 1..inputBlockId : pc[k] = "done"
        /\ \A s \in Slots : index[s] = 0
    BY DEF Completeness, EofMeansAll
  <2>2. FailsInTurnOnly
    BY <2>1 DEF Faultless, FailsInTurnOnly
  <2>3. /\ Len(Emitted) = inputBlockId /\ inputBlockId \in Nat
        /\ \A n \in 1..inputBlockId : Emitted[n] = content[n]
    BY <2>1, <2>2, EmittedType
  <2>4. \A n \in 0..inputBlockId : LastUnit(Emitted, n) = LastUnit(content, n)
    BY <2>3 DEF LastUnit
  <2>5. BlocksTile /\ BufferTiles
    BY <2>1 DEF Completeness, Units
  <2>6. accepted = Taken
    <3>1. index[bufferId] = 0 /\ Taken \in Nat
      BY <2>1, <2>5, TakenType
      DEF OrderInv, StreamInv, Ownership, TypeOK, RingTypeOK
    <3> QED
      BY <2>5, <3>1 DEF BufferTiles
  <2>7. ASSUME NEW k \in 1..Len(Emitted)
        PROVE  /\ Emitted[k] # <<>>
               /\ \A i \in 1..Len(Emitted[k]) :
                    Emitted[k][i] = LastUnit(Emitted, k - 1) + i
    <3>1. k \in 1..inputBlockId /\ k - 1 \in 0..inputBlockId
      BY <2>3
    <3> QED
      BY <2>3, <2>4, <2>5, <3>1 DEF BlocksTile
  <2>8. LastUnit(Emitted, Len(Emitted)) = accepted
    BY <2>3, <2>4, <2>6 DEF Taken
  <2> QED
    BY <2>1, <2>7, <2>8 DEF Tile, Marked
<1>2. Init => Completeness
  BY UnitsInit
  DEF Init, Completeness, MarkedAtRelease, EofMeansAll
<1>3. OrderInv /\ Completeness /\ [Next]_vars => Completeness'
  BY CompletenessNext
<1> QED
  BY <1>1, <1>2, <1>3, OrderInvHolds, PTL DEF Spec
=============================================================================
