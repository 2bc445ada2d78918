------------------------ MODULE CompressedInputStream ------------------------
(***************************************************************************)
(* kanzi::CompressedInputStream and its DecodingTasks.                     *)
(*                                                                         *)
(* One client thread keeps a task in each of Jobs slots.  The tasks take   *)
(* turns, through the shared counter _blockId, to read one block each from *)
(* the shared bitstream, then decode it concurrently into the buffer of    *)
(* their slot.  The client collects the slots' results in a circle, copies *)
(* the decoded units out and gives the slot a new task.  A task that finds *)
(* the end marker or an error stores CANCEL in _blockId; so do seek() and  *)
(* close(), which then wait for every task.                                *)
(*                                                                         *)
(* Data are abstract: the compressed stream holds the blocks 1..NbBlocks,  *)
(* each as a size and a data part, and an end marker; unit i of block b is *)
(* <<b, i>>; what a buffer holds while a task may write it is Garbage.     *)
(***************************************************************************)
EXTENDS Integers, Sequences, FiniteSets

CONSTANTS Jobs,         \* _jobs: number of slots
          NbBlocks,     \* blocks in the compressed stream
          BlockSize,    \* units in a block
          LastSize,     \* units in the last block
          ReadSizes,    \* lengths, in units, the client passes to read()
          Calls,        \* the member functions the client calls
          From,         \* the "from" option: first block to decode
          To,           \* the "to" option: first block not to decode
          FaultPoints,  \* where a step may fail, see AllFaultPoints
          Headless,     \* _headless
          Pooled,       \* _pool # nullptr; otherwise one thread per task
          Workers       \* threads of the pool

\* "launch": std::async or ThreadPool::schedule throws
\* "header": the header of the stream is invalid
\* "read"  : the shared bitstream throws, or a size is invalid
\* "decode": a task fails after it has passed the turn on
\* "listen": a listener throws in the client thread
\* "seek"  : the underlying stream cannot be positioned
AllFaultPoints == {"launch", "header", "read", "decode", "listen", "seek"}
AllCalls == {"read", "get", "peek", "seek", "close", "destroy"}

ASSUME ConstantsAssumption ==
  /\ Jobs \in Nat \ {0}
  /\ NbBlocks \in Nat
  /\ BlockSize \in Nat \ {0}
  /\ LastSize \in 1..BlockSize
  /\ ReadSizes \subseteq Nat
  /\ Calls \subseteq AllCalls
  /\ From \in Nat \ {0}
  /\ To \in Nat \ {0}
  /\ FaultPoints \subseteq AllFaultPoints
  /\ Headless \in BOOLEAN
  /\ Pooled \in BOOLEAN
  /\ Workers \in Nat \ {0}

VARIABLES
  (* the client thread *)
  mpc,            \* where it is
  call,           \* the member function it is in
  remaining,      \* units read() has not copied yet
  target,         \* the block seek() is asked for
  count,          \* loop counter of the submit and drain loops
  bufferId,       \* _bufferId
  available,      \* _available
  index,          \* slot |-> _buffers[slot]->_index
  array,          \* slot |-> the block decoded in _buffers[slot]->_array, or 0
  futures,        \* slot |-> 1 if _futures[slot] is valid
  initialized,    \* _initialized
  closed,         \* _closed
  submitBlockId,  \* _submitBlockId
  iostate,        \* the bits set with setstate()
  (* the task of each slot *)
  pc,             \* slot |-> where it is
  id,             \* slot |-> its blockId
  got,            \* slot |-> the block of the stream it has read, or 0
  result,         \* slot |-> what it returns
  blockId,        \* _blockId: last block read, or CANCEL
  (* the shared bitstream *)
  cursor,         \* what comes next in it
  (* history *)
  base,           \* the block at which reading started or to which it moved
  delivered,      \* the units delivered since then
  reported        \* the member functions that have failed since then

clientVars == <<mpc, call, remaining, target, count, bufferId, available,
                index, initialized, closed, iostate, base, delivered,
                reported>>
slotVars == <<array, futures, submitBlockId, pc, id, got, result>>
vars == <<clientVars, slotVars, blockId, cursor>>

CANCEL == -1
Slots  == 0..(Jobs - 1)
Garbage == <<0, 0>>

\* streamPerTask
OwnStream == Jobs > 1

Length(b) == IF b = NbBlocks THEN LastSize ELSE BlockSize

\* The parts of the bitstream; block NbBlocks + 1 is the end marker.
Positions == [blk : 0..(NbBlocks + 2), part : {"header", "size", "data"}]
At(b, p) == [blk |-> b, part |-> p]

\* A task that has been launched and has not returned yet.
Live(s) == pc[s] \notin {"none", "over"}
Running(s) == Live(s) /\ pc[s] # "queued"

TypeOK ==
  /\ mpc \in {"idle", "read", "get", "byte", "boot", "resubmit", "skip",
              "cnotify", "drain", "release", "reset", "dead"}
  /\ call \in AllCalls \cup {"none"}
  /\ remaining \in Nat
  /\ target \in 0..(NbBlocks + 1)
  /\ count \in Slots
  /\ bufferId \in Slots
  /\ available \in 0..BlockSize
  /\ index \in [Slots -> 0..BlockSize]
  /\ array \in [Slots -> 0..NbBlocks]
  /\ futures \in [Slots -> {0, 1}]
  /\ initialized \in {0, 1}
  /\ closed \in {0, 1}
  /\ submitBlockId \in Nat
  /\ iostate \subseteq {"bad", "eof"}
  /\ pc \in [Slots -> {"none", "queued", "wait", "asleep", "recheck",
                       "size", "data", "publish", "notify", "decode", "cancel", "cnotify",
                       "over"}]
  /\ id \in [Slots -> Nat]
  /\ got \in [Slots -> 0..NbBlocks]
  /\ result \in [Slots -> {"none", "decoded", "skipped", "end", "canceled",
                           "error"}]
  /\ blockId \in Nat \cup {CANCEL}
  /\ cursor \in Positions
  /\ base \in 1..(NbBlocks + 1)
  /\ delivered \in Seq((0..NbBlocks) \X (0..BlockSize))
  /\ reported \subseteq AllCalls

Init ==
  /\ mpc = "idle"
  /\ call = "none"
  /\ remaining = 0
  /\ target = 0
  /\ count = 0
  /\ bufferId = 0
  /\ available = 0
  /\ index = [s \in Slots |-> 0]
  /\ array = [s \in Slots |-> 0]
  /\ futures = [s \in Slots |-> 0]
  /\ initialized = 0
  /\ closed = 0
  /\ submitBlockId = 0
  /\ iostate = {}
  /\ pc = [s \in Slots |-> "none"]
  /\ id = [s \in Slots |-> 0]
  /\ got = [s \in Slots |-> 0]
  /\ result = [s \in Slots |-> "none"]
  /\ blockId = 0
  /\ cursor = IF Headless THEN At(1, "size") ELSE At(0, "header")
  /\ base = 1
  /\ delivered = <<>>
  /\ reported = {}

-----------------------------------------------------------------------------
(* The client thread: read(), get() and peek().                            *)

\* get() and peek() set badbit before they let an exception out; read() and
\* seek() do not.
Throw ==
  /\ mpc' = "idle"
  /\ call' = "none"
  /\ reported' = reported \cup {call}
  /\ iostate' = IF call \in {"get", "peek"} THEN iostate \cup {"bad"}
                                            ELSE iostate

Return ==
  /\ mpc' = "idle"
  /\ call' = "none"

CallRead(n) ==
  /\ mpc = "idle"
  /\ "read" \in Calls
  /\ mpc' = "read"
  /\ call' = "read"
  /\ remaining' = n
  /\ UNCHANGED <<target, count, bufferId, available, index, initialized,
                 closed, iostate, base, delivered, reported, slotVars,
                 blockId, cursor>>

\* _get(1) and _get(0)
CallGet(f) ==
  /\ mpc = "idle"
  /\ f \in Calls
  /\ mpc' = "get"
  /\ call' = f
  /\ UNCHANGED <<remaining, target, count, bufferId, available, index,
                 initialized, closed, iostate, base, delivered, reported,
                 slotVars, blockId, cursor>>

\* The loop of read() goes on, or the body of _get() is entered.
Wanted == mpc = "get" \/ (mpc = "read" /\ remaining > 0)

\* readHeader() sets _initialized first, whatever the header is; it reads
\* wherever the bitstream is, and throws when that is closed.  After a failure
\* nothing reads on from there, so the cursor may stay.
HeaderReadable == Headless \/ (cursor = At(0, "header") /\ closed = 0)

ReadHeader ==
  /\ Wanted
  /\ initialized = 0
  /\ HeaderReadable
  /\ initialized' = 1
  /\ cursor' = IF Headless THEN cursor ELSE At(1, "size")
  /\ mpc' = "boot"
  /\ count' = 0
  /\ UNCHANGED <<call, remaining, target, bufferId, available, index, closed,
                 iostate, base, delivered, reported, slotVars, blockId>>

ReadHeaderFails ==
  /\ Wanted
  /\ initialized = 0
  /\ ~Headless
  /\ "header" \in FaultPoints \/ ~HeaderReadable
  /\ initialized' = 1
  /\ Throw
  /\ UNCHANGED <<remaining, target, count, bufferId, available, index,
                 closed, base, delivered, slotVars, blockId, cursor>>

\* submitBlock(s)
SubmitBlock(s) ==
  /\ submitBlockId' = submitBlockId + 1
  /\ futures' = [futures EXCEPT ![s] = 1]
  /\ array' = [array EXCEPT ![s] = 0]
  /\ index' = [index EXCEPT ![s] = 0]
  /\ pc' = [pc EXCEPT ![s] = IF Pooled THEN "queued" ELSE "wait"]
  /\ id' = [id EXCEPT ![s] = submitBlockId + 1]
  /\ got' = [got EXCEPT ![s] = 0]
  /\ result' = [result EXCEPT ![s] = "none"]

\* The loop that gives every slot its first task, in read(), _get(), seek().
MoreSlotsOneMore == count < Jobs
MoreSlots == count + 1 < Jobs

Boot ==
  /\ mpc = "boot"
  /\ SubmitBlock(count)
  /\ IF MoreSlots
       THEN count' = count + 1 /\ UNCHANGED <<mpc, call>>
       ELSE /\ UNCHANGED count
            /\ CASE call = "read" -> mpc' = "read" /\ UNCHANGED call
                 [] call = "seek" -> Return
                 [] OTHER -> mpc' = "get" /\ UNCHANGED call
  /\ UNCHANGED <<remaining, target, bufferId, available, initialized, closed,
                 iostate, base, delivered, reported, blockId, cursor>>

SubmitFails(s) ==
  /\ "launch" \in FaultPoints
  /\ Throw
  /\ index' = [index EXCEPT ![s] = 0]
  /\ UNCHANGED <<remaining, target, count, bufferId, available, initialized,
                 closed, base, delivered, slotVars, blockId, cursor>>

BootFails ==
  /\ mpc = "boot"
  /\ SubmitFails(count)

\* Nothing decoded is left: the result of the next slot is asked for.
NeedsBlock == Wanted /\ initialized = 1 /\ available = 0

\* _get(), unlike read(), looks at _closed.
GetOnClosed ==
  /\ NeedsBlock
  /\ mpc = "get"
  /\ closed = 1
  /\ Throw
  /\ UNCHANGED <<remaining, target, count, bufferId, available, index,
                 initialized, closed, base, delivered, slotVars, blockId,
                 cursor>>

MayCollect == NeedsBlock /\ ~(mpc = "get" /\ closed = 1)

\* No future: this is taken for the end of the stream.
NoFuture ==
  /\ MayCollect
  /\ futures[bufferId] = 0
  /\ Return
  /\ iostate' = iostate \cup {"eof"}
  /\ UNCHANGED <<remaining, target, count, bufferId, available, index,
                 initialized, closed, base, delivered, reported, slotVars,
                 blockId, cursor>>

\* _futures[_bufferId].get() returns r.
Collects(r) ==
  /\ MayCollect
  /\ futures[bufferId] = 1
  /\ pc[bufferId] = "over"
  /\ result[bufferId] = r
  /\ futures' = [futures EXCEPT ![bufferId] = 0]
  /\ UNCHANGED <<array, submitBlockId, pc, id, got, result>>

CollectBlock ==
  /\ Collects("decoded")
  /\ available' = Length(got[bufferId])
  /\ index' = [index EXCEPT ![bufferId] = 0]
  /\ UNCHANGED <<mpc, call, remaining, target, count, bufferId, initialized,
                 closed, iostate, base, delivered, reported, blockId, cursor>>

\* A result with no data that is not that of a skipped block.
CollectEnd ==
  /\ Collects("end") \/ Collects("canceled")
  /\ Return
  /\ iostate' = iostate \cup {"eof"}
  /\ index' = IF call = "read" THEN [index EXCEPT ![bufferId] = 0] ELSE index
  /\ UNCHANGED <<remaining, target, count, bufferId, available, initialized,
                 closed, base, delivered, reported, blockId, cursor>>

\* The task has failed, or a listener does.
CollectError ==
  /\ \/ Collects("error")
     \/ /\ "listen" \in FaultPoints
        /\ \E r \in {"decoded", "skipped", "end", "canceled"} : Collects(r)
  /\ Throw
  /\ UNCHANGED <<remaining, target, count, bufferId, available, index,
                 initialized, closed, base, delivered, blockId, cursor>>

\* read() submits the slot again and goes round its loop; _get() submits it
\* and then goes on to take a unit from the buffer of the next slot.
CollectSkipped ==
  /\ Collects("skipped")
  /\ mpc' = IF mpc = "read" THEN "resubmit" ELSE "skip"
  /\ index' = IF mpc = "read" THEN [index EXCEPT ![bufferId] = 0] ELSE index
  /\ UNCHANGED <<call, remaining, target, count, bufferId, available,
                 initialized, closed, iostate, base, delivered, reported,
                 blockId, cursor>>

\* The n units from index i + 1 on of the current buffer.
Units(i, n) == [j \in 1..n |-> IF array[bufferId] = 0 THEN Garbage
                               ELSE <<array[bufferId], i + j>>]

Copy ==
  LET n == IF remaining < available THEN remaining ELSE available
  IN  /\ mpc = "read"
      /\ n > 0
      /\ delivered' = delivered \o Units(index[bufferId], n)
      /\ index' = [index EXCEPT ![bufferId] = @ + n]
      /\ remaining' = remaining - n
      /\ available' = available - n
      /\ mpc' = IF available = n THEN "resubmit" ELSE "read"
      /\ UNCHANGED <<call, target, count, bufferId, initialized, closed,
                     iostate, base, reported, slotVars, blockId, cursor>>

ReadReturns ==
  /\ mpc = "read"
  /\ remaining = 0
  /\ Return
  /\ UNCHANGED <<remaining, target, count, bufferId, available, index,
                 initialized, closed, iostate, base, delivered, reported,
                 slotVars, blockId, cursor>>

\* The end of _get(), for peek() and for get().
HasByte == mpc = "byte" \/ (mpc = "get" /\ available # 0)

PeekByte ==
  /\ HasByte
  /\ call = "peek"
  /\ Return
  /\ UNCHANGED <<remaining, target, count, bufferId, available, index,
                 initialized, closed, iostate, base, delivered, reported,
                 slotVars, blockId, cursor>>

\* The last unit of a block is returned after the slot has its next task.
GetByte ==
  /\ HasByte
  /\ call = "get"
  /\ index' = [index EXCEPT ![bufferId] = @ + 1]
  /\ available' = available - 1
  /\ IF available = 1
       THEN mpc' = "resubmit" /\ UNCHANGED <<call, delivered>>
       ELSE Return /\ delivered' = delivered \o Units(index[bufferId], 1)
  /\ UNCHANGED <<remaining, target, count, bufferId, initialized, closed,
                 iostate, base, reported, slotVars, blockId, cursor>>

\* A used slot gets its next task and the ring turns.
NextSlotStuck == bufferId
NextSlot == (bufferId + 1) % Jobs

Resubmit ==
  /\ mpc = "resubmit"
  /\ SubmitBlock(bufferId)
  /\ bufferId' = NextSlot
  /\ IF call = "read"
       THEN mpc' = "read" /\ UNCHANGED <<call, delivered>>
       ELSE Return /\ delivered' = delivered \o Units(index[bufferId] - 1, 1)
  /\ UNCHANGED <<remaining, target, count, available, initialized, closed,
                 iostate, base, reported, blockId, cursor>>

\* _get() does not ask for the result of the slot it moves to.
ResubmitSkipped ==
  /\ mpc = "skip"
  /\ SubmitBlock(bufferId)
  /\ bufferId' = NextSlot
  /\ mpc' = "byte"
  /\ UNCHANGED <<call, remaining, target, count, available, initialized,
                 closed, iostate, base, delivered, reported, blockId, cursor>>

ResubmitFails ==
  /\ mpc \in {"resubmit", "skip"}
  /\ SubmitFails(bufferId)

-----------------------------------------------------------------------------
(* The client thread: seek(), close() and the destructor.                  *)

\* seek(): CANCEL is stored without the lock, and nobody is notified.
CallSeek(b) ==
  /\ mpc = "idle"
  /\ "seek" \in Calls
  /\ closed = 0
  /\ call' = "seek"
  /\ target' = b
  /\ blockId' = CANCEL
  /\ mpc' = "drain"
  /\ count' = 0
  /\ UNCHANGED <<remaining, bufferId, available, index, initialized, closed,
                 iostate, base, delivered, reported, slotVars, cursor>>

\* close() stores CANCEL under the lock; the second close() returns at once.
CallClose(f) ==
  /\ mpc = "idle"
  /\ f \in Calls
  /\ f = "close" => closed = 0
  /\ call' = f
  /\ closed' = 1
  /\ IF closed = 0
       THEN mpc' = "cnotify" /\ blockId' = CANCEL
       ELSE mpc' = "dead" /\ UNCHANGED blockId
  /\ count' = 0
  /\ UNCHANGED <<remaining, target, bufferId, available, index, initialized,
                 iostate, base, delivered, reported, slotVars, cursor>>

WokenNext(s) == pc[s] = "asleep" /\ id[s] = blockId + 1
Woken(s) == pc[s] = "asleep"

CloseNotifies ==
  /\ mpc = "cnotify"
  /\ pc' = [s \in Slots |-> IF Woken(s) THEN "wait" ELSE pc[s]]
  /\ mpc' = "drain"
  /\ UNCHANGED <<call, remaining, target, count, bufferId, available, index,
                 initialized, closed, iostate, base, delivered, reported,
                 array, futures, submitBlockId, id, got, result, blockId,
                 cursor>>

\* Waiting for the task of every slot that has a future; errors are ignored.
DrainedAtOnce(s) == TRUE
Drained(s) == futures[s] = 1 => pc[s] = "over"

Drain ==
  /\ mpc = "drain"
  /\ Drained(count)
  /\ futures' = [futures EXCEPT ![count] = 0]
  /\ IF MoreSlots
       THEN count' = count + 1 /\ UNCHANGED mpc
       ELSE /\ mpc' = IF call = "seek" THEN "reset" ELSE "release"
            /\ UNCHANGED count
  /\ UNCHANGED <<call, remaining, target, bufferId, available, index,
                 initialized, closed, iostate, base, delivered, reported,
                 array, submitBlockId, pc, id, got, result, blockId, cursor>>

\* The bitstream is closed and the buffers go.
Release ==
  /\ mpc = "release"
  /\ available' = 0
  /\ index' = [s \in Slots |-> 0]
  /\ array' = [s \in Slots |-> 0]
  /\ IF call = "destroy" THEN mpc' = "dead" /\ UNCHANGED call ELSE Return
  /\ UNCHANGED <<remaining, target, count, bufferId, initialized, closed,
                 iostate, base, delivered, reported, futures, submitBlockId,
                 pc, id, got, result, blockId, cursor>>

\* The ring starts again, numbering blocks from 1.
ResetKeepsTurn ==
  /\ mpc = "reset"
  /\ available' = 0
  /\ bufferId' = 0
  /\ submitBlockId' = 0
  /\ UNCHANGED <<remaining, target, index, closed, initialized, array,
                 futures, pc, id, got, result, blockId>>

ResetKeepsNumbers ==
  /\ mpc = "reset"
  /\ available' = 0
  /\ bufferId' = 0
  /\ blockId' = 0
  /\ UNCHANGED <<remaining, target, index, closed, initialized, array,
                 futures, submitBlockId, pc, id, got, result>>

ResetRing ==
  /\ mpc = "reset"
  /\ available' = 0
  /\ bufferId' = 0
  /\ submitBlockId' = 0
  /\ blockId' = 0
  /\ UNCHANGED <<remaining, target, index, closed, initialized, array,
                 futures, pc, id, got, result>>

Reset ==
  /\ ResetRing
  /\ cursor' = At(target, "size")
  /\ iostate' = {}
  /\ base' = target
  /\ delivered' = <<>>
  /\ reported' = {}
  /\ count' = 0
  /\ IF initialized = 1 THEN mpc' = "boot" /\ UNCHANGED call ELSE Return

\* _ibs->seek() returns false, and so does seek().
ResetFails ==
  /\ "seek" \in FaultPoints
  /\ ResetRing
  /\ Return
  /\ reported' = reported \cup {"seek"}
  /\ UNCHANGED <<count, iostate, base, delivered, cursor>>

ClientCall ==
  \/ \E n \in ReadSizes : CallRead(n)
  \/ \E f \in {"get", "peek"} : CallGet(f)
  \/ \E b \in 1..(NbBlocks + 1) : CallSeek(b)
  \/ \E f \in {"close", "destroy"} : CallClose(f)

ClientStep ==
  \/ ReadHeader \/ ReadHeaderFails \/ Boot \/ BootFails
  \/ GetOnClosed \/ NoFuture \/ CollectBlock \/ CollectEnd \/ CollectError
  \/ CollectSkipped \/ Copy \/ ReadReturns \/ PeekByte \/ GetByte
  \/ Resubmit \/ ResubmitSkipped \/ ResubmitFails
  \/ CloseNotifies \/ Drain \/ Release \/ Reset \/ ResetFails

-----------------------------------------------------------------------------
(* DecodingTask::run() for the task of slot s.                             *)

Goto(s, state) == pc' = [pc EXCEPT ![s] = state]

\* A step that leaves everything but pc alone.
OnlyPc == UNCHANGED <<clientVars, array, futures, submitBlockId, id, got,
                      result, blockId, cursor>>

\* Tasks leave the pool's queue in the order in which they entered it.
AnyInQueue(s) == TRUE
FirstInQueue(s) ==
  \A t \in Slots : pc[t] = "queued" /\ t # s => id[t] > id[s]

Start(s) ==
  /\ pc[s] = "queued"
  /\ FirstInQueue(s)
  /\ Cardinality({t \in Slots : Running(t)}) < Workers
  /\ Goto(s, "wait")
  /\ OnlyPc

\* _blockCondition->wait: the predicate is evaluated with the lock held.
MayProceedOneEarly(s) == blockId \in {CANCEL, id[s] - 1, id[s] - 2}
MayProceed(s) == blockId \in {CANCEL, id[s] - 1}

CheckTurn(s) ==
  /\ pc[s] = "wait"
  /\ Goto(s, IF MayProceed(s) THEN "recheck" ELSE "asleep")
  /\ OnlyPc

\* The task is over and its future has value r.
ReturnsFrom(s, from, r) ==
  /\ pc[s] = from
  /\ Goto(s, "over")
  /\ result' = [result EXCEPT ![s] = r]

\* Before it returns r, a failing task stores CANCEL and notifies.
CancelsSilently(s, r) ==
  /\ Goto(s, "cancel")
  /\ result' = [result EXCEPT ![s] = "end"]

CancelsWith(s, r) ==
  /\ Goto(s, "cancel")
  /\ result' = [result EXCEPT ![s] = r]

\* The second load of _blockId, with no lock held, only looks for CANCEL.
CanceledNever == FALSE
Canceled == blockId = CANCEL

RecheckCanceled(s) ==
  /\ Canceled
  /\ ReturnsFrom(s, "recheck", "canceled")
  /\ UNCHANGED <<clientVars, array, futures, submitBlockId, id, got, blockId,
                 cursor>>

Recheck(s) ==
  /\ pc[s] = "recheck"
  /\ ~Canceled
  /\ Goto(s, "size")
  /\ OnlyPc

\* The data part is read with the turn held unless the task is alone and its
\* block is wanted.
ReadsDataIfShared(s) == OwnStream
ReadsDataInTurn(s) == OwnStream \/ id[s] < From

\* The size of block b.
ReadSize(s) ==
  LET b == cursor.blk
  IN  /\ pc[s] = "size"
      /\ cursor.part = "size"
      /\ b <= NbBlocks
      /\ got' = [got EXCEPT ![s] = b]
      /\ cursor' = At(b, "data")
      /\ Goto(s, IF ReadsDataInTurn(s) THEN "data" ELSE "publish")
      /\ UNCHANGED <<clientVars, array, futures, submitBlockId, id, result,
                     blockId>>

\* A size of 0: the end marker.
ReadEnd(s) ==
  /\ pc[s] = "size"
  /\ cursor = At(NbBlocks + 1, "size")
  /\ cursor' = At(NbBlocks + 2, "size")
  /\ CancelsWith(s, "end")
  /\ UNCHANGED <<clientVars, array, futures, submitBlockId, id, got, blockId>>

\* Behind the end marker, or a fault: an invalid size, an exception.  Of the
\* block nothing is kept.
ReadFails(s) ==
  /\ \/ pc[s] \in {"size", "data"} /\ "read" \in FaultPoints
     \/ pc[s] = "size" /\ cursor.blk = NbBlocks + 2
  /\ CancelsWith(s, "error")
  /\ got' = [got EXCEPT ![s] = 0]
  /\ UNCHANGED <<clientVars, array, futures, submitBlockId, id, blockId,
                 cursor>>

\* Two tasks read at once: what this one takes for a size is another's data.
\* It may see a size, the end marker or an error.
ReadAstray(s) ==
  /\ pc[s] = "size"
  /\ cursor.part = "data"
  /\ \/ Goto(s, "data") /\ UNCHANGED result
     \/ \E r \in {"end", "error"} : CancelsWith(s, r)
  /\ UNCHANGED <<clientVars, array, futures, submitBlockId, id, got, blockId,
                 cursor>>

\* The data part; whatever comes next is taken for it.
ReadData(s) ==
  /\ pc[s] = "data"
  /\ IF cursor = At(got[s], "data")
       THEN cursor' = At(got[s] + 1, "size") /\ UNCHANGED got
       ELSE got' = [got EXCEPT ![s] = 0] /\ UNCHANGED cursor
  /\ Goto(s, "publish")
  /\ UNCHANGED <<clientVars, array, futures, submitBlockId, id, result,
                 blockId>>

\* storeProcessedBlockId(): the store, under the lock, then notify_all().
Publish(s) ==
  /\ pc[s] = "publish"
  /\ blockId' = id[s]
  /\ Goto(s, "notify")
  /\ UNCHANGED <<clientVars, array, futures, submitBlockId, id, got, result,
                 cursor>>

Cancel(s) ==
  /\ pc[s] = "cancel"
  /\ blockId' = CANCEL
  /\ Goto(s, "cnotify")
  /\ UNCHANGED <<clientVars, array, futures, submitBlockId, id, got, result,
                 cursor>>

\* Every task that sleeps is woken.  A task that has failed returns; one that
\* has read its block skips it, drops it or decodes it.
Skips(s) == id[s] < From

DropsOneLess(s) == id[s] > To
Drops(s) == id[s] >= To

AfterNotify(s) ==
  IF pc[s] = "cnotify" \/ Skips(s) \/ Drops(s) THEN "over" ELSE "decode"

ResultAtNotify(s) ==
  IF pc[s] = "cnotify" THEN result[s]
  ELSE IF Skips(s) THEN "skipped"
  ELSE IF Drops(s) THEN "end"
  ELSE "none"

Notify(s) ==
  /\ pc[s] \in {"notify", "cnotify"}
  /\ pc' = [t \in Slots |-> CASE t = s -> AfterNotify(s)
                              [] Woken(t) -> "wait"
                              [] OTHER -> pc[t]]
  /\ result' = [result EXCEPT ![s] = ResultAtNotify(s)]
  /\ UNCHANGED <<clientVars, array, futures, submitBlockId, id, got, blockId,
                 cursor>>

\* Entropy decoding, inverse transform and checksum; a task that is alone
\* reads its data here.
Decode(s) ==
  /\ ReturnsFrom(s, "decode", "decoded")
  /\ array' = [array EXCEPT ![s] = got[s]]
  /\ cursor' = IF OwnStream THEN cursor ELSE At(got[s] + 1, "size")
  /\ UNCHANGED <<clientVars, futures, submitBlockId, id, got, blockId>>

DecodeFails(s) ==
  /\ "decode" \in FaultPoints \/ got[s] = 0
  /\ pc[s] = "decode"
  /\ CancelsWith(s, "error")
  /\ UNCHANGED <<clientVars, array, futures, submitBlockId, id, got, blockId,
                 cursor>>

\* A condition variable may wake a thread that nobody has notified.
SpuriousWake(s) ==
  /\ pc[s] = "asleep"
  /\ Goto(s, "wait")
  /\ OnlyPc

TaskRuns(s) ==
  \/ Start(s) \/ CheckTurn(s) \/ RecheckCanceled(s) \/ Recheck(s)
  \/ ReadSize(s) \/ ReadEnd(s) \/ ReadFails(s) \/ ReadAstray(s) \/ ReadData(s)
  \/ Publish(s) \/ Cancel(s) \/ Notify(s) \/ Decode(s) \/ DecodeFails(s)

TaskStep(s) == TaskRuns(s) \/ SpuriousWake(s)

-----------------------------------------------------------------------------

\* Nothing is left to do once the stream is destroyed and its tasks are over.
Terminated ==
  /\ mpc = "dead"
  /\ \A s \in Slots : ~Live(s)
  /\ UNCHANGED vars

Next == \/ ClientCall
        \/ ClientStep
        \/ \E s \in Slots : TaskStep(s)
        \/ Terminated

\* A thread that can run does; the client need not make another call.
Fairness == /\ WF_vars(ClientStep)
            /\ \A s \in Slots : WF_vars(TaskRuns(s))

Spec == Init /\ [][Next]_vars
FairSpec == Spec /\ Fairness

-----------------------------------------------------------------------------
(* Properties.                                                             *)

\* The client is to get the blocks From .. To - 1, counted from the block at
\* which reading started.
FirstBlock == base + From - 1
LastBlock  == IF NbBlocks < base + To - 2 THEN NbBlocks ELSE base + To - 2

\* The unit that follows unit u in the compressed stream.
After(u) ==
  IF u[2] < Length(u[1]) THEN <<u[1], u[2] + 1>> ELSE <<u[1] + 1, 1>>

\* What read() and get() deliver is what the compressed stream holds from
\* the current position on: in order, nothing lost, nothing twice, nothing
\* made up; whichever steps fail.
DeliveredInOrder ==
  /\ delivered # <<>> => delivered[1] = <<FirstBlock, 1>>
  /\ \A i \in 1..(Len(delivered) - 1) :
       delivered[i + 1] = After(delivered[i])
  /\ \A i \in 1..Len(delivered) : delivered[i][1] \in FirstBlock..LastBlock

\* Everything has been delivered, to the last unit of the last block.
AllDelivered ==
  IF delivered = <<>>
    THEN LastBlock < FirstBlock
    ELSE delivered[Len(delivered)] = <<LastBlock, Length(LastBlock)>>

\* The end of the stream is only announced at the end of the stream, unless
\* a call has failed: a canceled task, whose result looks like that of the
\* end marker, is never mistaken for it.
EofMeansEnd ==
  "eof" \in iostate /\ reported = {} /\ closed = 0 => AllDelivered

\* A task that may touch the shared bitstream.
Reading(s) == \/ pc[s] \in {"size", "data", "publish"}
              \/ pc[s] = "decode" /\ ~OwnStream

\* A task that has failed behind its turn, in its transforms or its coder: it
\* holds a block, and stores CANCEL over the number of the turn holder, which
\* stores its own number over that.  The slot is not used again before a
\* seek(), so that what is said here of a state is said of its past too.
FailedBehind(s) == result[s] = "error" /\ got[s] # 0

\* CANCEL is stored by a task at its turn and by nobody else.
OnlyReadersCancel ==
  /\ call \notin {"seek", "close", "destroy"}
  /\ closed = 0
  /\ \A s \in Slots : ~FailedBehind(s)

\* The shared bitstream is read by one task at a time ("Read shared bitstream
\* sequentially (each task is gated by _processedBlockId)"), as long as no
\* CANCEL is stored out of turn.
SequentialReads ==
  OnlyReadersCancel => \A s, t \in Slots : Reading(s) /\ Reading(t) => s = t

\* Under the same condition the task launched as number n reads the n-th block,
\* so that the ring yields the blocks in order however the tasks are scheduled.
ReadsOwnBlock ==
  OnlyReadersCancel =>
    \A s \in Slots : futures[s] = 1 /\ got[s] # 0 => got[s] = base + id[s] - 1

\* The client never takes data from a buffer whose task is not over; no task
\* is left when seek() moves the bitstream, when close() frees the buffers
\* and when the stream is destroyed.
BufferExclusive ==
  /\ HasByte \/ (mpc = "read" /\ available > 0) => ~Live(bufferId)
  /\ mpc \in {"release", "reset", "dead"} => \A s \in Slots : ~Live(s)

\* On an open stream, calls only fail when a step has failed: no order of
\* calls breaks a sound stream.
FailsOnlyOnFault == FaultPoints = {} /\ closed = 0 => reported = {}

\* Every call returns: the turn never gets lost between the tasks.
CallsReturn == (mpc # "idle") ~> (mpc \in {"idle", "dead"})

\* Every task that has been launched returns, also when the one that has the
\* turn fails: storeProcessedBlockId() wakes all that sleep.  A CANCEL stored
\* out of turn may be lost, and then leaves a task asleep for ever.
TasksFinish == \A s \in Slots : Live(s) ~> ~Live(s) \/ ~OnlyReadersCancel

\* seek() comes back: the tasks it cancels stop ("Cancel any in-flight decode
\* pipeline tied to the previous position").
SeekReturns == (call = "seek") ~> (call # "seek")

=============================================================================
