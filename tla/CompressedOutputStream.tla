----------------------- MODULE CompressedOutputStream -----------------------
(***************************************************************************)
(* kanzi::CompressedOutputStream and its EncodingTasks.                    *)
(*                                                                         *)
(* One client thread fills the buffers of a ring of Jobs slots and launches *)
(* one task per full buffer.  The tasks encode their blocks concurrently   *)
(* and then take turns, through the shared counter _blockId, to append     *)
(* their block to the shared bitstream.  A failing task stores CANCEL in   *)
(* _blockId.  The client collects a slot's result, through its future,     *)
(* before it reuses the slot and, for all slots, when it closes.           *)
(*                                                                         *)
(* Data are abstract: the client writes units, numbered 1, 2, 3 ... in the *)
(* order in which they are accepted; a buffer holds BlockSize units; the   *)
(* coded form of a buffer is the units it was coded from.                  *)
(***************************************************************************)
EXTENDS Integers, Sequences, FiniteSets

CONSTANTS Jobs,         \* _jobs: number of slots
          BlockSize,    \* _blockSize, in units
          MaxBlocks,    \* bound: number of blocks the client may launch
          WriteSizes,   \* lengths, in units, the client passes to write()
          FaultPoints,  \* where a step may fail, see AllFaultPoints
          Headless,     \* _headless
          Pooled,       \* _pool # nullptr; otherwise one thread per task
          Workers       \* threads of the pool

\* "launch": std::async or ThreadPool::schedule throws
\* "encode": a transform, an entropy coder, an allocation or a listener fails
\*           before the task has the turn
\* "emit"  : the shared bitstream throws while the task has the turn
\* "listen": a listener throws after the task has passed the turn on
\* "seal"  : the shared bitstream throws when the end marker is written
AllFaultPoints == {"launch", "encode", "emit", "listen", "seal"}

ASSUME ConstantsAssumption ==
  /\ Jobs \in Nat \ {0}
  /\ BlockSize \in Nat \ {0}
  /\ MaxBlocks \in Nat
  /\ WriteSizes \subseteq Nat
  /\ FaultPoints \subseteq AllFaultPoints
  /\ Headless \in BOOLEAN
  /\ Pooled \in BOOLEAN
  /\ Workers \in Nat \ {0}

VARIABLES
  (* the client thread *)
  mpc,           \* where it is
  call,          \* the member function it is in
  errMsg,        \* errMsg of close(), "none" if empty
  remaining,     \* units write() has not copied yet
  drain,         \* loop counter of close()
  bufferId,      \* _bufferId
  index,         \* slot |-> _buffers[slot]->_index
  array,         \* slot |-> contents of _buffers[slot]->_array
  futures,       \* slot |-> block whose result the future gives, 0 if invalid
  initialized,   \* _initialized
  closed,        \* _closed
  inputBlockId,  \* _inputBlockId
  iostate,       \* the bits set with setstate()
  (* the tasks *)
  pc,            \* block |-> where its task is
  slot,          \* block |-> slot of its buffer
  content,       \* block |-> the units it was launched with
  blockId,       \* _blockId: last block emitted, or CANCEL
  (* the shared bitstream *)
  out,           \* the items appended to it
  (* history *)
  accepted,      \* number of units copied into buffers so far
  cause,         \* block |-> the fault that hit it
  thrown         \* the member functions that have thrown

clientVars == <<mpc, call, errMsg, remaining, drain, bufferId, index, array,
                futures, initialized, closed, inputBlockId, iostate, accepted,
                thrown>>
taskVars == <<pc, slot, content, blockId, cause>>
vars == <<clientVars, taskVars, out>>

CANCEL == -1
Slots  == 0..(Jobs - 1)
Blocks == 1..MaxBlocks

\* _bufferThreshold: close() sets it to 0.
Threshold == IF closed = 1 THEN 0 ELSE BlockSize

\* A task the code has handed to a thread or to the pool and that has not
\* returned yet.
Live(k) == pc[k] \notin {"none", "lost", "done", "canceled", "failed"}
Running(k) == Live(k) /\ pc[k] # "queued"
Finished(k) == pc[k] \in {"done", "canceled", "failed"}

Items == [part : {"header", "size", "data", "end"},
          blk : 0..MaxBlocks, units : Seq(Nat)]

Header      == [part |-> "header", blk |-> 0, units |-> <<>>]
SizeOf(k)   == [part |-> "size", blk |-> k, units |-> <<>>]
DataOf(k,u) == [part |-> "data", blk |-> k, units |-> u]
EndMarker   == [part |-> "end", blk |-> 0, units |-> <<>>]

ClientTypeOK ==
  /\ mpc \in {"idle", "write", "put", "submit", "await", "drain", "seal",
              "release", "free", "dead"}
  /\ call \in {"none", "write", "put", "close", "destroy"}
  /\ remaining \in Nat
  /\ drain \in Slots
  /\ iostate \subseteq {"bad", "eof"}
  /\ initialized \in {0, 1}
  /\ closed \in {0, 1}
  /\ errMsg \in {"none", "error"}
  /\ thrown \subseteq {"write", "put", "close"}

RingTypeOK ==
  /\ bufferId \in Slots
  /\ index \in [Slots -> 0..BlockSize]
  /\ array \in [Slots -> Seq(Nat)]
  /\ futures \in [Slots -> 0..MaxBlocks]
  /\ inputBlockId \in 0..MaxBlocks
  /\ accepted \in Nat

TaskTypeOK ==
  /\ pc \in [Blocks -> {"none", "lost", "queued", "encode", "wait", "asleep",
                        "recheck", "size", "data", "publish", "notify",
                        "listen", "cancel", "cnotify", "done", "canceled",
                        "failed"}]
  /\ slot \in [Blocks -> Slots]
  /\ content \in [Blocks -> Seq(Nat)]
  /\ blockId \in {CANCEL} \cup 0..MaxBlocks
  /\ cause \in [Blocks -> {"none"} \cup AllFaultPoints]

StreamTypeOK == out \in Seq(Items)

TypeOK == ClientTypeOK /\ RingTypeOK /\ TaskTypeOK /\ StreamTypeOK

Init ==
  /\ mpc = "idle"
  /\ call = "none"
  /\ errMsg = "none"
  /\ remaining = 0
  /\ drain = 0
  /\ bufferId = 0
  /\ index = [s \in Slots |-> 0]
  /\ array = [s \in Slots |-> <<>>]
  /\ futures = [s \in Slots |-> 0]
  /\ initialized = 0
  /\ closed = 0
  /\ inputBlockId = 0
  /\ iostate = {}
  /\ pc = [k \in Blocks |-> "none"]
  /\ slot = [k \in Blocks |-> 0]
  /\ content = [k \in Blocks |-> <<>>]
  /\ blockId = 0
  /\ out = <<>>
  /\ accepted = 0
  /\ cause = [k \in Blocks |-> "none"]
  /\ thrown = {}

-----------------------------------------------------------------------------
(* The client thread.                                                      *)

\* write() and put() let the exception out, put() after setting badbit;
\* close() keeps it until it has released the buffers.
Throw ==
  /\ mpc' = IF call \in {"close", "destroy"} THEN "release" ELSE "idle"
  /\ call' = IF call \in {"close", "destroy"} THEN call ELSE "none"
  /\ errMsg' = IF call \in {"close", "destroy"} THEN "error" ELSE errMsg
  /\ thrown' = thrown \cup ({call} \cap {"write", "put"})
  /\ iostate' = IF call = "write" THEN iostate ELSE iostate \cup {"bad"}

\* The bound: a call may only start if the blocks it can launch, and the
\* partial block of the close() to come, fit in MaxBlocks.
RoomFor(n) ==
  inputBlockId + ((index[bufferId] + n) \div BlockSize) < MaxBlocks

CallWrite(n) ==
  /\ mpc = "idle"
  /\ RoomFor(n)
  /\ mpc' = "write"
  /\ call' = "write"
  /\ remaining' = n
  /\ UNCHANGED <<drain, bufferId, index, array, futures, initialized, closed,
                 inputBlockId, iostate, accepted, thrown, errMsg, taskVars,
                 out>>

CallPut ==
  /\ mpc = "idle"
  /\ RoomFor(1)
  /\ mpc' = IF index[bufferId] >= Threshold THEN "submit" ELSE "put"
  /\ call' = "put"
  /\ UNCHANGED <<remaining, drain, bufferId, index, array, futures,
                 initialized, closed, inputBlockId, iostate, accepted, thrown,
                 errMsg, taskVars, out>>

\* close() returns at once when the stream is closed already.
CallClose ==
  /\ mpc = "idle"
  /\ closed = 0
  /\ mpc' = "submit"
  /\ call' = "close"
  /\ UNCHANGED <<remaining, drain, bufferId, index, array, futures,
                 initialized, closed, inputBlockId, iostate, accepted, thrown,
                 errMsg, taskVars, out>>

\* The destructor calls close() and then frees everything.
CallDestroy ==
  /\ mpc = "idle"
  /\ mpc' = IF closed = 1 THEN "free" ELSE "submit"
  /\ call' = "destroy"
  /\ UNCHANGED <<remaining, drain, bufferId, index, array, futures,
                 initialized, closed, inputBlockId, iostate, accepted, thrown,
                 errMsg, taskVars, out>>

\* Append n units, the next ones, to the current buffer.
Fill(n) ==
  LET s == bufferId
  IN  /\ array' = [array EXCEPT ![s] = SubSeq(@, 1, index[s])
                                         \o [i \in 1..n |-> accepted + i]]
      /\ index' = [index EXCEPT ![s] = @ + n]
      /\ accepted' = accepted + n

\* Room left in the current buffer.
RoomOneTooMany == Threshold - index[bufferId] + 1
Room == Threshold - index[bufferId]

\* The loop of write(): a chunk is what is left of the data or of the buffer.
WriteChunk ==
  LET n == IF remaining < Room THEN remaining ELSE Room
  IN  /\ mpc = "write"
      /\ remaining > 0
      /\ n > 0
      /\ Fill(n)
      /\ remaining' = remaining - n
      /\ mpc' = IF index[bufferId] + n >= Threshold THEN "submit" ELSE "write"
      /\ UNCHANGED <<call, drain, bufferId, futures, initialized, closed,
                 inputBlockId, iostate, thrown, errMsg, taskVars, out>>

\* Full buffer or closed stream.
WriteFull ==
  /\ mpc = "write"
  /\ remaining > 0
  /\ index[bufferId] >= Threshold
  /\ mpc' = "submit"
  /\ UNCHANGED <<call, remaining, drain, bufferId, index, array, futures,
                 initialized, closed, inputBlockId, iostate, accepted, thrown,
                 errMsg, taskVars, out>>

WriteReturns ==
  /\ mpc = "write"
  /\ remaining = 0
  /\ mpc' = "idle"
  /\ call' = "none"
  /\ UNCHANGED <<remaining, drain, bufferId, index, array, futures,
                 initialized, closed, inputBlockId, iostate, accepted, thrown,
                 errMsg, taskVars, out>>

PutUnit ==
  /\ mpc = "put"
  /\ Fill(1)
  /\ mpc' = "idle"
  /\ call' = "none"
  /\ UNCHANGED <<remaining, drain, bufferId, futures, initialized, closed,
                 inputBlockId, iostate, thrown, errMsg, taskVars, out>>

(* submitBlock() *)

SubmitOnClosed ==
  /\ mpc = "submit"
  /\ closed = 1
  /\ Throw
  /\ UNCHANGED <<remaining, drain, bufferId, index, array, futures,
                 initialized, closed, inputBlockId, accepted, taskVars, out>>

\* writeHeader()
WriteHeader ==
  /\ initialized' = IF Headless THEN initialized ELSE 1
  /\ out' = IF initialized = 1 \/ Headless THEN out ELSE Append(out, Header)

\* What the callers do next: processBuffer() and put() rotate, close()
\* collects the results.
AfterSubmit ==
  IF call \in {"close", "destroy"}
    THEN /\ mpc' = "drain"
         /\ drain' = 0
         /\ UNCHANGED bufferId
    ELSE /\ mpc' = "await"
         /\ bufferId' = (bufferId + 1) % Jobs
         /\ UNCHANGED drain

SubmitNothing ==
  /\ mpc = "submit"
  /\ closed = 0
  /\ index[bufferId] = 0
  /\ WriteHeader
  /\ AfterSubmit
  /\ UNCHANGED <<call, remaining, index, array, futures, closed, inputBlockId,
                 iostate, accepted, thrown, errMsg, taskVars>>

\* The part that comes before the thread or the pool is asked for.
NewTask(state) ==
  LET k == inputBlockId + 1
  IN  /\ mpc = "submit"
      /\ closed = 0
      /\ index[bufferId] > 0
      /\ k \in Blocks
      /\ WriteHeader
      /\ inputBlockId' = k
      /\ index' = [index EXCEPT ![bufferId] = 0]
      /\ pc' = [pc EXCEPT ![k] = state]
      /\ slot' = [slot EXCEPT ![k] = bufferId]
      /\ content' = [content EXCEPT ![k] =
                       SubSeq(array[bufferId], 1, index[bufferId])]

Launch ==
  /\ NewTask("queued")
  /\ futures' = [futures EXCEPT ![bufferId] = inputBlockId + 1]
  /\ AfterSubmit
  /\ UNCHANGED <<call, remaining, array, closed, iostate, accepted, thrown,
                 errMsg, blockId, cause>>

LaunchFails ==
  /\ "launch" \in FaultPoints
  /\ NewTask("lost")
  /\ cause' = [cause EXCEPT ![inputBlockId + 1] = "launch"]
  /\ Throw
  /\ UNCHANGED <<remaining, drain, bufferId, array, futures, closed, accepted,
                 blockId>>

(* Waiting for the task that used the next buffer: processBuffer(), put() *)

\* get() returns a result whose _error is 0.
CollectedUnchecked(s) == futures[s] # 0 => Finished(futures[s])
CollectedAtOnce(s) == TRUE
Collected(s) == futures[s] # 0 => pc[futures[s]] \in {"done", "canceled"}

CollectFails(s) == futures[s] # 0 /\ pc[futures[s]] = "failed"

Await ==
  /\ mpc = "await"
  /\ Collected(bufferId)
  /\ futures' = [futures EXCEPT ![bufferId] = 0]
  /\ index' = [index EXCEPT ![bufferId] = 0]
  /\ mpc' = call
  /\ UNCHANGED <<call, remaining, drain, bufferId, array, initialized, closed,
                 inputBlockId, iostate, accepted, thrown, errMsg, taskVars,
                 out>>

AwaitFails ==
  /\ mpc = "await"
  /\ CollectFails(bufferId)
  /\ futures' = [futures EXCEPT ![bufferId] = 0]
  /\ Throw
  /\ UNCHANGED <<remaining, drain, bufferId, index, array, initialized,
                 closed, inputBlockId, accepted, taskVars, out>>

(* close() *)

MoreToDrainOneLess == drain + 2 < Jobs
MoreToDrain == drain + 1 < Jobs

Drain ==
  /\ mpc = "drain"
  /\ Collected(drain)
  /\ futures' = [futures EXCEPT ![drain] = 0]
  /\ IF MoreToDrain
       THEN drain' = drain + 1 /\ UNCHANGED mpc
       ELSE mpc' = "seal" /\ UNCHANGED drain
  /\ UNCHANGED <<call, remaining, bufferId, index, array, initialized, closed,
                 inputBlockId, iostate, accepted, thrown, errMsg, taskVars,
                 out>>

DrainFails ==
  /\ mpc = "drain"
  /\ CollectFails(drain)
  /\ futures' = [futures EXCEPT ![drain] = 0]
  /\ Throw
  /\ UNCHANGED <<remaining, drain, bufferId, index, array, initialized,
                 closed, inputBlockId, accepted, taskVars, out>>

Seal ==
  /\ mpc = "seal"
  /\ out' = Append(out, EndMarker)
  /\ mpc' = "release"
  /\ UNCHANGED <<call, remaining, drain, bufferId, index, array, futures,
                 initialized, closed, inputBlockId, iostate, accepted, thrown,
                 errMsg, taskVars>>

\* writeBits() throws, or the flush in _obs->close() does.
SealFails ==
  /\ "seal" \in FaultPoints
  /\ mpc = "seal"
  /\ out' \in {out, Append(out, EndMarker)}
  /\ Throw
  /\ UNCHANGED <<remaining, drain, bufferId, index, array, futures,
                 initialized, closed, inputBlockId, accepted, taskVars>>

\* The rest of close(): the buffers go, then the error is raised or eofbit
\* set.  The destructor swallows the error.
Release ==
  /\ mpc = "release"
  /\ closed' = 1
  /\ index' = [s \in Slots |-> 0]
  /\ array' = [s \in Slots |-> <<>>]
  /\ iostate' = IF errMsg # "none" THEN iostate ELSE iostate \cup {"eof"}
  /\ thrown' = IF errMsg # "none" THEN thrown \cup ({call} \cap {"close"}) ELSE thrown
  /\ mpc' = IF call = "destroy" THEN "free" ELSE "idle"
  /\ call' = IF call = "destroy" THEN "destroy" ELSE "none"
  /\ UNCHANGED <<remaining, drain, bufferId, futures, initialized,
                 inputBlockId, accepted, errMsg, taskVars, out>>

\* The futures of std::async block until their task has returned; those of
\* the pool do not.
Free ==
  /\ mpc = "free"
  /\ Pooled \/ \A s \in Slots : futures[s] # 0 => Finished(futures[s])
  /\ mpc' = "dead"
  /\ futures' = [s \in Slots |-> 0]
  /\ UNCHANGED <<call, remaining, drain, bufferId, index, array, initialized,
                 closed, inputBlockId, iostate, accepted, thrown, errMsg,
                 taskVars, out>>

ClientStep ==
  \/ WriteChunk \/ WriteFull \/ WriteReturns \/ PutUnit
  \/ SubmitOnClosed \/ SubmitNothing \/ Launch \/ LaunchFails
  \/ Await \/ AwaitFails \/ Drain \/ DrainFails
  \/ Seal \/ SealFails \/ Release \/ Free

ClientCall ==
  \/ \E n \in WriteSizes : CallWrite(n)
  \/ CallPut \/ CallClose \/ CallDestroy

-----------------------------------------------------------------------------
(* EncodingTask::run() for block k.                                        *)

Goto(k, state) == pc' = [pc EXCEPT ![k] = state]

\* Tasks leave the pool's queue in the order in which they entered it.
AnyInQueue(k) == TRUE
FirstInQueue(k) == \A j \in Blocks : j < k => pc[j] # "queued"

\* A thread of its own, or the pool's first free worker.
Start(k) ==
  /\ pc[k] = "queued"
  /\ Pooled => /\ FirstInQueue(k)
               /\ Cardinality({j \in Blocks : Running(j)}) < Workers
  /\ Goto(k, "encode")
  /\ UNCHANGED <<clientVars, slot, content, blockId, cause, out>>

\* Transform and entropy coding, back into the slot's buffer.
Encode(k) ==
  /\ pc[k] = "encode"
  /\ Goto(k, "wait")
  /\ UNCHANGED <<clientVars, slot, content, blockId, cause, out>>

\* The transform leaves _index at the end of the block, later steps at 0.
EncodeFails(k) ==
  /\ "encode" \in FaultPoints
  /\ pc[k] = "encode"
  /\ Goto(k, "cancel")
  /\ cause' = [cause EXCEPT ![k] = "encode"]
  /\ \E i \in {0, Len(array[slot[k]])} :
       index' = [index EXCEPT ![slot[k]] = i]
  /\ UNCHANGED <<mpc, call, remaining, drain, bufferId, array, futures,
                 initialized, closed, inputBlockId, iostate, accepted, thrown,
                 errMsg, slot, content, blockId, out>>

\* _blockCondition->wait: the predicate is evaluated with the lock held.
MayProceedOneEarly(k) == blockId \in {CANCEL, k - 1, k - 2}
MayProceed(k) == blockId \in {CANCEL, k - 1}

CheckTurn(k) ==
  /\ pc[k] = "wait"
  /\ Goto(k, IF MayProceed(k) THEN "recheck" ELSE "asleep")
  /\ UNCHANGED <<clientVars, slot, content, blockId, cause, out>>

\* The second load of _blockId, with no lock held, only looks for CANCEL.
CanceledNever == FALSE
Canceled == blockId = CANCEL

Recheck(k) ==
  /\ pc[k] = "recheck"
  /\ Goto(k, IF Canceled THEN "canceled" ELSE "size")
  /\ UNCHANGED <<clientVars, slot, content, blockId, cause, out>>

EmitSize(k) ==
  /\ pc[k] = "size"
  /\ out' = Append(out, SizeOf(k))
  /\ Goto(k, "data")
  /\ UNCHANGED <<clientVars, slot, content, blockId, cause>>

EmitData(k) ==
  /\ pc[k] = "data"
  /\ out' = Append(out, DataOf(k, array[slot[k]]))
  /\ Goto(k, "publish")
  /\ UNCHANGED <<clientVars, slot, content, blockId, cause>>

EmitFails(k) ==
  /\ "emit" \in FaultPoints
  /\ pc[k] \in {"size", "data"}
  /\ Goto(k, "cancel")
  /\ cause' = [cause EXCEPT ![k] = "emit"]
  /\ UNCHANGED <<clientVars, slot, content, blockId, out>>

\* storeProcessedBlockId(): the store, under the lock, then notify_all().
Publish(k) ==
  /\ pc[k] = "publish"
  /\ blockId' = k
  /\ Goto(k, "notify")
  /\ UNCHANGED <<clientVars, slot, content, cause, out>>

Cancel(k) ==
  /\ pc[k] = "cancel"
  /\ blockId' = CANCEL
  /\ Goto(k, "cnotify")
  /\ UNCHANGED <<clientVars, slot, content, cause, out>>

\* Who is woken: every task that sleeps.
WokenOne(j) == /\ pc[j] = "asleep"
                 /\ \A i \in Blocks : i > j => pc[i] # "asleep"
Woken(j) == pc[j] = "asleep"

Notify(k) ==
  /\ pc[k] \in {"notify", "cnotify"}
  /\ pc' = [j \in Blocks |->
              IF j = k THEN (IF pc[k] = "notify" THEN "listen" ELSE "failed")
              ELSE IF Woken(j) THEN "wait" ELSE pc[j]]
  /\ UNCHANGED <<clientVars, slot, content, blockId, cause, out>>

\* The AFTER_ENTROPY and BLOCK_INFO events.
Listen(k) ==
  /\ pc[k] = "listen"
  /\ Goto(k, "done")
  /\ UNCHANGED <<clientVars, slot, content, blockId, cause, out>>

ListenFails(k) ==
  /\ "listen" \in FaultPoints
  /\ pc[k] = "listen"
  /\ Goto(k, "cancel")
  /\ cause' = [cause EXCEPT ![k] = "listen"]
  /\ UNCHANGED <<clientVars, slot, content, blockId, out>>

\* A condition variable may wake a thread that nobody has notified.
SpuriousWake(k) ==
  /\ pc[k] = "asleep"
  /\ Goto(k, "wait")
  /\ UNCHANGED <<clientVars, slot, content, blockId, cause, out>>

TaskRuns(k) ==
  \/ Start(k) \/ Encode(k) \/ EncodeFails(k) \/ CheckTurn(k) \/ Recheck(k)
  \/ EmitSize(k) \/ EmitData(k) \/ EmitFails(k) \/ Publish(k) \/ Cancel(k)
  \/ Notify(k) \/ Listen(k) \/ ListenFails(k)

TaskStep(k) == TaskRuns(k) \/ SpuriousWake(k)

-----------------------------------------------------------------------------

\* Nothing is left to do once the stream is destroyed and its tasks are over.
Terminated ==
  /\ mpc = "dead"
  /\ \A k \in Blocks : ~Live(k)
  /\ UNCHANGED vars

Next == \/ ClientCall
        \/ ClientStep
        \/ \E k \in Blocks : TaskStep(k)
        \/ Terminated

\* A thread that can run does; the client need not make another call.
Fairness == /\ WF_vars(ClientStep)
            /\ \A k \in Blocks : WF_vars(TaskRuns(k))

Spec == Init /\ [][Next]_vars
FairSpec == Spec /\ Fairness

-----------------------------------------------------------------------------
(* Properties.                                                             *)

Sealed == \E i \in 1..Len(out) : out[i] = EndMarker

\* What the stream has been given and what it holds, for BlockStream.
Submitted == [k \in 1..inputBlockId |-> content[k]]

\* The data items of the bitstream, and the n-th of them.
DataAt == {i \in 1..Len(out) : out[i].part = "data"}
NthData(n) ==
  CHOOSE i \in DataAt : Cardinality({j \in DataAt : j <= i}) = n

Emitted == [n \in 1..Cardinality(DataAt) |-> out[NthData(n)].units]

Abstract == INSTANCE BlockStream
              WITH submitted <- Submitted, emitted <- Emitted,
                   sealed <- Sealed, reported <- thrown # {}

\* The stream keeps the promise of BlockStream: blocks in the order of their
\* submission, no gap, no repetition, the end marker behind a complete
\* sequence unless an error was raised.  Checked with faults that hit the
\* task that has the turn, or the end marker.
ImplementsBlockStream == Abstract!Spec

\* Blocks only ever fail while they hold the turn: no block is lost between
\* submitBlock() and its turn, and no listener fails behind the turn.
FailsInTurnOnly == \A k \in Blocks : cause[k] \in {"none", "emit"}

\* The shared bitstream is not thread-safe: never two tasks between the
\* second load of _blockId and the store that passes the turn on.
Writing(k) == pc[k] \in {"size", "data", "publish"}

SingleWriter ==
  FailsInTurnOnly =>
    \A j, k \in Blocks : Writing(j) /\ Writing(k) => j = k

\* The items of the bitstream as the decoder needs them: the header (unless
\* headless), then the blocks 1, 2, 3 ... each as its size and its data, with
\* no gap; the end marker, if any, comes last.
Follows(q, p) ==
  CASE q.part = "header" -> FALSE
    [] q.part = "size"   -> \/ p.part = "header" /\ q.blk = 1
                            \/ p.part = "data" /\ q.blk = p.blk + 1
    [] q.part = "data"   -> p.part = "size" /\ q.blk = p.blk
    [] q.part = "end"    -> p.part # "end"

WellFormedOutput ==
  FailsInTurnOnly =>
    /\ out # <<>> => \/ ~Headless /\ out[1] = Header
                     \/ Headless /\ out[1] \in {SizeOf(1), EndMarker}
    /\ \A i \in 2..Len(out) : Follows(out[i], out[i-1])

\* The last unit of the n-th block; 0 stands before the first one.
LastUnit(blocks, n) ==
  IF n = 0 THEN 0 ELSE blocks[n][Len(blocks[n])]

\* The blocks, none of them empty, are the units 1, 2, 3 ... n one after the
\* other.
Tile(blocks, n) ==
  /\ \A k \in 1..Len(blocks) :
       /\ blocks[k] # <<>>
       /\ \A i \in 1..Len(blocks[k]) :
            blocks[k][i] = LastUnit(blocks, k - 1) + i
  /\ LastUnit(blocks, Len(blocks)) = n

\* When close() has succeeded and no call has thrown, the stream holds every
\* unit that was accepted, in order, and the end marker; wherever steps fail.
LosslessClose ==
  "eof" \in iostate /\ thrown = {} =>
    /\ Tile(Emitted, accepted)
    /\ out[Len(out)] = EndMarker
    /\ \A k \in 1..inputBlockId : pc[k] = "done"

\* The client never fills or submits a buffer a task still works on, and a
\* close() that has not failed leaves no task behind when it frees them.
BufferExclusive ==
  \A k \in Blocks : Live(k) =>
    /\ mpc \in {"write", "put", "submit"} /\ closed = 0 => slot[k] # bufferId
    /\ mpc = "release" => errMsg # "none"

\* Every live task can still be waited for: no future is overwritten or
\* consumed while its task runs.
FutureOwnsLive ==
  mpc # "dead" => \A k \in Blocks : Live(k) => futures[slot[k]] = k

\* A cancellation is never undone: no task that waits for a failed block can
\* miss it.
CancelIsFinal == [][blockId = CANCEL => blockId' = CANCEL]_vars

\* Nothing reaches the bitstream behind the end marker.
SealedIsFinal == [][Sealed => out' = out]_vars

\* close() does not free the buffers before every task has returned
\* ("Wait for ALL pending tasks to complete").
CloseWaitsForAll == closed = 1 => \A k \in Blocks : ~Live(k)

\* Only the task of the next block is let through: when a task starts to
\* write, every earlier block is in the stream ("It unblocks the task
\* processing the next block").
OnlyNextUnblocked ==
  \A k \in Blocks : pc[k] = "size" =>
    \A j \in 1..(k-1) :
      \E i \in 1..Len(out) : out[i].part = "data" /\ out[i].blk = j

\* Every call returns.
CallsReturn == (mpc # "idle") ~> (mpc \in {"idle", "dead"})

\* Every task that has been launched returns; in particular a failing task
\* gets those that wait for its block to give up ("Cancel any in-flight task
\* waiting on this block").
TasksFinish == \A k \in Blocks : Live(k) ~> ~Live(k)

=============================================================================
