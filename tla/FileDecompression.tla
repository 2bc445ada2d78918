------------------------- MODULE FileDecompression -------------------------
(***************************************************************************)
(* kanzi::BlockDecompressor on several files, with its FileDecompress-     *)
(* Workers, their queue of files and the thread pool their streams share.  *)
(* BlockCompressor is built the same way.                                  *)
(*                                                                         *)
(* The main thread starts one worker per job.  A worker takes files from a *)
(* queue until it is empty or a file fails.  Each file is decoded through  *)
(* a CompressedInputStream, whose tasks run in the pool; inside a task the *)
(* inverse BWT of a big block schedules more tasks in the same pool and    *)
(* waits for them while it holds its thread of the pool.                   *)
(*                                                                         *)
(* The streams are the subject of CompressedInputStream: here a task waits *)
(* for its turn, holding a thread of the pool, looks again for CANCEL,     *)
(* reads its block and passes the turn on in one step, and decodes.  A     *)
(* share of an inverse BWT, which waits for nothing, runs in one step.     *)
(***************************************************************************)
EXTENDS Integers, Sequences, FiniteSets

CONSTANTS MaxJobs,     \* bound of the "jobs" option
          MaxFiles,    \* bound of the number of files
          MaxBlocks,   \* bound of the number of blocks in the files
          FaultPoints  \* where a step may fail, see AllFaultPoints

\* "launch": std::async throws
\* "open"  : a file cannot be opened or created
\* "decode": a block cannot be decoded
\* "write" : the output cannot be written
\* "escape": an exception leaves FileDecompressTask::run()
AllFaultPoints == {"launch", "open", "decode", "write", "escape"}

ASSUME ConstantsAssumption ==
  /\ MaxJobs \in Nat \ {0, 1}
  /\ MaxFiles \in Nat \ {0, 1}
  /\ MaxBlocks \in Nat \ {0}
  /\ FaultPoints \subseteq AllFaultPoints

VARIABLES
  (* the input *)
  jobs,      \* _jobs
  nbFiles,   \* number of files
  nbBlocks,  \* number of blocks in each file
  (* the main thread, in BlockDecompressor::decompress() *)
  mpc,       \* where it is
  at,        \* loop counter: the worker it starts or waits for
  started,   \* number of workers started, results.size()
  res,       \* the code it is to return
  (* the queue of files *)
  index,     \* _index
  (* the workers *)
  wpc,       \* worker |-> where it is
  file,      \* worker |-> the file it works on, or 0
  (* the stream of each file *)
  turn,      \* file |-> _blockId
  astray,    \* file |-> a task has begun to read when it was not its turn
  current,   \* file |-> _bufferId
  submitted, \* file |-> _submitBlockId
  pc,        \* file |-> slot |-> where its task is
  id,        \* file |-> slot |-> its blockId
  result,    \* file |-> slot |-> what it returns
  shares,    \* file |-> slot |-> nested tasks it still waits for
  (* the pool *)
  queue,     \* _tasks: <<file, slot, kind>>
  (* history *)
  outcome    \* file |-> what became of it

inputVars  == <<jobs, nbFiles, nbBlocks>>
mainVars   == <<mpc, at, started, res>>
workerVars == <<wpc, file>>
streamVars == <<turn, astray, current, submitted, pc, id, result, shares>>
vars == <<inputVars, mainVars, index, workerVars, streamVars, queue, outcome>>

Files   == 1..MaxFiles
Threads == 1..MaxJobs
Slots   == 0..(MaxJobs - 1)
CANCEL  == -1

-----------------------------------------------------------------------------
(* Who gets how many jobs.                                                 *)

\* Global::computeJobsPerTask(): n jobs for k tasks.
JobsRoundedUp(n, k) ==
  [i \in 1..k |-> IF n <= k THEN 1 ELSE (n + k - 1) \div k]

JobsPerTask(n, k) ==
  [i \in 1..k |-> IF n <= k THEN 1
                  ELSE n \div k + (IF i <= n % k THEN 1 ELSE 0)]

JobsOf(f) == JobsPerTask(jobs, nbFiles)[f]

\* The jobs the task of slot s may use for its block: readHeader() deals the
\* stream's jobs out to as many slots as there are blocks.
JobsInTask(f, s) ==
  LET tasks == IF nbBlocks < JobsOf(f) THEN nbBlocks ELSE JobsOf(f)
  IN  IF s < tasks THEN JobsPerTask(JobsOf(f), tasks)[s + 1] ELSE 1

\* Threads of the pool, "+1 to avoid deadlock due to thread exhaustion".
PoolSizePerFile == jobs \div nbFiles
PoolSize == jobs + 1

\* Tasks that hold a thread of the pool.
Holding(f, s) == pc[f][s] \in {"wait", "recheck", "read", "decode", "nested"}
Busy == Cardinality({p \in Files \X Slots : Holding(p[1], p[2])})

TypeOK ==
  /\ jobs \in 2..MaxJobs
  /\ nbFiles \in 2..MaxFiles
  /\ nbBlocks \in 1..MaxBlocks
  /\ mpc \in {"start", "collect", "clear", "rescue", "waitall", "delete",
              "join", "over"}
  /\ at \in 0..MaxJobs
  /\ started \in 0..MaxJobs
  /\ res \in {"ok", "failed", "thrown"}
  /\ index \in 0..(MaxFiles + MaxJobs)
  /\ wpc \in [Threads -> {"none", "next", "open", "read", "drain", "abort",
                          "finish", "ok", "failed", "thrown"}]
  /\ file \in [Threads -> 0..MaxFiles]
  /\ turn \in [Files -> Nat \cup {CANCEL}]
  /\ current \in [Files -> Slots]
  /\ submitted \in [Files -> Nat]
  /\ astray \in [Files -> BOOLEAN]
  /\ pc \in [Files -> [Slots -> {"none", "queued", "wait", "recheck", "read",
                                 "decode", "nested", "over"}]]
  /\ id \in [Files -> [Slots -> Nat]]
  /\ result \in [Files -> [Slots -> {"none", "decoded", "end", "error"}]]
  /\ shares \in [Files -> [Slots -> 0..MaxJobs]]
  /\ queue \in Seq(Files \X Slots \X {"block", "share"})
  /\ outcome \in [Files -> {"none", "taken", "ok", "failed"}]

Init ==
  /\ jobs \in 2..MaxJobs
  /\ nbFiles \in 2..MaxFiles
  /\ nbBlocks \in 1..MaxBlocks
  /\ mpc = "start"
  /\ at = 0
  /\ started = 0
  /\ res = "ok"
  /\ index = 0
  /\ wpc = [w \in Threads |-> "none"]
  /\ file = [w \in Threads |-> 0]
  /\ turn = [f \in Files |-> 0]
  /\ astray = [f \in Files |-> FALSE]
  /\ current = [f \in Files |-> 0]
  /\ submitted = [f \in Files |-> 0]
  /\ pc = [f \in Files |-> [s \in Slots |-> "none"]]
  /\ id = [f \in Files |-> [s \in Slots |-> 0]]
  /\ result = [f \in Files |-> [s \in Slots |-> "none"]]
  /\ shares = [f \in Files |-> [s \in Slots |-> 0]]
  /\ queue = <<>>
  /\ outcome = [f \in Files |-> "none"]

-----------------------------------------------------------------------------
(* The main thread.                                                        *)

Over(w) == wpc[w] \in {"ok", "failed", "thrown"}

StartWorker ==
  /\ mpc = "start"
  /\ wpc' = [wpc EXCEPT ![at + 1] = "next"]
  /\ started' = started + 1
  /\ IF at + 1 < jobs THEN at' = at + 1 /\ UNCHANGED mpc
                      ELSE at' = 0 /\ mpc' = "collect"
  /\ UNCHANGED <<inputVars, res, index, file, streamVars, queue, outcome>>

StartFails ==
  /\ "launch" \in FaultPoints
  /\ mpc = "start"
  /\ mpc' = "rescue"
  /\ res' = "thrown"
  /\ UNCHANGED <<inputVars, at, started, index, workerVars, streamVars, queue,
                 outcome>>

MoreResultsOneLess == at + 2 < jobs
MoreResults == at + 1 < jobs

Advance ==
  IF MoreResults THEN at' = at + 1 /\ mpc' = "collect"
                 ELSE mpc' = "delete" /\ UNCHANGED at

CollectOk ==
  /\ mpc = "collect"
  /\ wpc[at + 1] = "ok"
  /\ Advance
  /\ UNCHANGED <<inputVars, started, res, index, workerVars, streamVars,
                 queue, outcome>>

CollectFailed ==
  /\ mpc = "collect"
  /\ wpc[at + 1] = "failed"
  /\ res' = "failed"
  /\ mpc' = "clear"
  /\ UNCHANGED <<inputVars, at, started, index, workerVars, streamVars, queue,
                 outcome>>

\* get() rethrows the exception that has left the worker.
CollectThrown ==
  /\ mpc = "collect"
  /\ wpc[at + 1] = "thrown"
  /\ res' = "thrown"
  /\ mpc' = "rescue"
  /\ UNCHANGED <<inputVars, at, started, index, workerVars, streamVars, queue,
                 outcome>>

\* BoundedConcurrentQueue::clear()
ClearedOneLess == nbFiles - 1
ClearedByAdding == index + nbFiles
ClearedToStart == 0
Cleared == nbFiles

Clear ==
  /\ mpc = "clear"
  /\ index' = Cleared
  /\ Advance
  /\ UNCHANGED <<inputVars, started, res, workerVars, streamVars, queue,
                 outcome>>

\* catch (...)
Rescue ==
  /\ mpc = "rescue"
  /\ index' = Cleared
  /\ mpc' = "waitall"
  /\ UNCHANGED <<inputVars, at, started, res, workerVars, streamVars, queue,
                 outcome>>

WorkersOverUnwaited == TRUE
WorkersOver == \A w \in 1..started : Over(w)

WaitAll ==
  /\ mpc = "waitall"
  /\ WorkersOver
  /\ mpc' = "delete"
  /\ UNCHANGED <<inputVars, at, started, res, index, workerVars, streamVars,
                 queue, outcome>>

\* The workers and the file tasks are deleted; then ~ThreadPool() lets its
\* threads empty the queue and joins them.
Delete ==
  /\ mpc = "delete"
  /\ mpc' = "join"
  /\ UNCHANGED <<inputVars, at, started, res, index, workerVars, streamVars,
                 queue, outcome>>

Join ==
  /\ mpc = "join"
  /\ queue = <<>>
  /\ Busy = 0
  /\ mpc' = "over"
  /\ UNCHANGED <<inputVars, at, started, res, index, workerVars, streamVars,
                 queue, outcome>>

MainStep ==
  \/ StartWorker \/ StartFails \/ CollectOk \/ CollectFailed \/ CollectThrown
  \/ Clear \/ Rescue \/ WaitAll \/ Delete \/ Join

-----------------------------------------------------------------------------
(* FileDecompressWorker::run() and FileDecompressTask::run().              *)

\* BoundedConcurrentQueue::get()
TakeFile(w) ==
  /\ wpc[w] = "next"
  /\ index' = index + 1
  /\ IF index < nbFiles
       THEN /\ wpc' = [wpc EXCEPT ![w] = "open"]
            /\ file' = [file EXCEPT ![w] = index + 1]
            /\ outcome' = [outcome EXCEPT ![index + 1] = "taken"]
       ELSE /\ wpc' = [wpc EXCEPT ![w] = "ok"]
            /\ file' = [file EXCEPT ![w] = 0]
            /\ UNCHANGED outcome
  /\ UNCHANGED <<inputVars, mainVars, streamVars, queue>>

\* The files are opened and the header read; every slot gets a task.
Open(w) ==
  LET f == file[w]
      n == JobsOf(f)
  IN  /\ wpc[w] = "open"
      /\ wpc' = [wpc EXCEPT ![w] = "read"]
      /\ pc' = [pc EXCEPT ![f] =
                  [s \in Slots |-> IF s < n THEN "queued" ELSE "none"]]
      /\ id' = [id EXCEPT ![f] = [s \in Slots |-> s + 1]]
      /\ submitted' = [submitted EXCEPT ![f] = n]
      /\ queue' = queue \o [i \in 1..n |-> <<f, i - 1, "block">>]
      /\ UNCHANGED <<inputVars, mainVars, index, file, turn, astray, current,
                     result, shares, outcome>>

\* The worker is done with its file, for good unless the file is "ok".
Leave(w, state, o) ==
  /\ wpc' = [wpc EXCEPT ![w] = state]
  /\ outcome' = [outcome EXCEPT ![file[w]] = o]
  /\ UNCHANGED <<inputVars, mainVars, index, file, streamVars, queue>>

OpenFails(w) ==
  /\ "open" \in FaultPoints
  /\ wpc[w] = "open"
  /\ Leave(w, "failed", "failed")

\* Before the first block is asked for, or behind the last one.
Escape(w) ==
  /\ "escape" \in FaultPoints
  /\ wpc[w] \in {"open", "finish"}
  /\ Leave(w, "thrown", "failed")

\* CompressedInputStream::read() has the result of the current slot.
Collects(w, r) ==
  LET f == file[w]
  IN  /\ wpc[w] = "read"
      /\ pc[f][current[f]] = "over"
      /\ result[f][current[f]] = r

\* The slot gets its next task.
CollectBlock(w) ==
  LET f == file[w]
      s == current[f]
  IN  /\ Collects(w, "decoded")
      /\ submitted' = [submitted EXCEPT ![f] = @ + 1]
      /\ pc' = [pc EXCEPT ![f][s] = "queued"]
      /\ id' = [id EXCEPT ![f][s] = submitted[f] + 1]
      /\ result' = [result EXCEPT ![f][s] = "none"]
      /\ queue' = Append(queue, <<f, s, "block">>)
      /\ current' = [current EXCEPT ![f] = (s + 1) % JobsOf(f)]
      /\ UNCHANGED <<inputVars, mainVars, index, workerVars, turn, astray,
                     shares, outcome>>

\* dispose(): CompressedInputStream::close() cancels the tasks, then waits.
CloseStream(w, state) ==
  /\ wpc' = [wpc EXCEPT ![w] = state]
  /\ turn' = [turn EXCEPT ![file[w]] = CANCEL]
  /\ UNCHANGED <<inputVars, mainVars, index, file, astray, current, submitted,
                 pc, id, result, shares, queue, outcome>>

CollectEnd(w) ==
  /\ Collects(w, "end")
  /\ CloseStream(w, "drain")

CollectError(w) ==
  /\ Collects(w, "error")
  /\ CloseStream(w, "abort")

WriteFails(w) ==
  /\ "write" \in FaultPoints
  /\ wpc[w] = "read"
  /\ CloseStream(w, "abort")

\* Every future of the stream has been waited for.
Drained(f) == \A s \in Slots : pc[f][s] \in {"none", "over"}

Drain(w) ==
  /\ wpc[w] = "drain"
  /\ Drained(file[w])
  /\ Leave(w, "finish", "taken")

Abort(w) ==
  /\ wpc[w] = "abort"
  /\ Drained(file[w])
  /\ Leave(w, "failed", "failed")

\* The worker's loop goes on while the result is 0.
Finish(w) ==
  /\ wpc[w] = "finish"
  /\ Leave(w, "next", "ok")

WorkerStep(w) ==
  \/ TakeFile(w) \/ Open(w) \/ OpenFails(w) \/ Escape(w)
  \/ CollectBlock(w) \/ CollectEnd(w) \/ CollectError(w) \/ WriteFails(w)
  \/ Drain(w) \/ Abort(w) \/ Finish(w)

-----------------------------------------------------------------------------
(* The pool and its tasks.                                                 *)

Goto(f, s, state) == pc' = [pc EXCEPT ![f][s] = state]

Returns(f, s, r) ==
  /\ Goto(f, s, "over")
  /\ result' = [result EXCEPT ![f][s] = r]

\* An idle thread of the pool takes the next task.
FromQueue(f, s, kind) ==
  /\ queue # <<>>
  /\ Head(queue) = <<f, s, kind>>
  /\ Busy < PoolSize
  /\ queue' = Tail(queue)

StartTask(f, s) ==
  /\ FromQueue(f, s, "block")
  /\ Goto(f, s, "wait")
  /\ UNCHANGED <<inputVars, mainVars, index, workerVars, turn, astray, current,
                 submitted, id, result, shares, outcome>>

\* InverseBiPSIv2Task::run()
RunShare(f, s) ==
  /\ FromQueue(f, s, "share")
  /\ shares' = [shares EXCEPT ![f][s] = @ - 1]
  /\ UNCHANGED <<inputVars, mainVars, index, workerVars, turn, astray, current,
                 submitted, pc, id, result, outcome>>

\* DecodingTask::run(): the wait for the turn, with the lock held.
CheckTurn(f, s) ==
  /\ pc[f][s] = "wait"
  /\ turn[f] \in {CANCEL, id[f][s] - 1}
  /\ Goto(f, s, "recheck")
  /\ UNCHANGED <<inputVars, mainVars, index, workerVars, turn, astray, current,
                 submitted, id, result, shares, queue, outcome>>

\* The second load of _blockId, without the lock, only looks for CANCEL.  When
\* another task has stored its number meanwhile, this one reads out of turn.
GiveUp(f, s) ==
  /\ pc[f][s] = "recheck"
  /\ turn[f] = CANCEL
  /\ Returns(f, s, "end")
  /\ UNCHANGED <<inputVars, mainVars, index, workerVars, turn, astray, current,
                 submitted, id, shares, queue, outcome>>

TakeTurn(f, s) ==
  /\ pc[f][s] = "recheck"
  /\ turn[f] # CANCEL
  /\ Goto(f, s, "read")
  /\ astray' = [astray EXCEPT ![f] = @ \/ turn[f] # id[f][s] - 1]
  /\ UNCHANGED <<inputVars, mainVars, index, workerVars, turn, current,
                 submitted, id, result, shares, queue, outcome>>

\* The bitstream yields the block of the task, or the end marker behind the
\* last one; once it has been read out of turn, it may yield anything.
WhatIsRead(f, s) ==
  IF astray[f] THEN {"block", "end", "error"}
  ELSE IF id[f][s] <= nbBlocks THEN {"block"}
  ELSE {"end"}

\* A block, and the turn goes on; the end marker or an error, and CANCEL.
Read(f, s) ==
  \E r \in WhatIsRead(f, s) :
    /\ pc[f][s] = "read"
    /\ IF r = "block"
         THEN /\ turn' = [turn EXCEPT ![f] = id[f][s]]
              /\ Goto(f, s, "decode")
              /\ UNCHANGED result
         ELSE /\ turn' = [turn EXCEPT ![f] = CANCEL]
              /\ Returns(f, s, r)
    /\ UNCHANGED <<inputVars, mainVars, index, workerVars, astray, current,
                   submitted, id, shares, queue, outcome>>

\* BWT::inverseBiPSIv2(): alone, or with a share for each job it may use.
Decode(f, s) ==
  /\ pc[f][s] = "decode"
  /\ JobsInTask(f, s) = 1
  /\ Returns(f, s, "decoded")
  /\ UNCHANGED <<inputVars, mainVars, index, workerVars, turn, astray, current,
                 submitted, id, shares, queue, outcome>>

DecodeShared(f, s) ==
  LET n == JobsInTask(f, s)
  IN  /\ pc[f][s] = "decode"
      /\ n > 1
      /\ Goto(f, s, "nested")
      /\ shares' = [shares EXCEPT ![f][s] = n]
      /\ queue' = queue \o [i \in 1..n |-> <<f, s, "share">>]
      /\ UNCHANGED <<inputVars, mainVars, index, workerVars, turn, astray, current,
                     submitted, id, result, outcome>>

Shared(f, s) ==
  /\ pc[f][s] = "nested"
  /\ shares[f][s] = 0
  /\ Returns(f, s, "decoded")
  /\ UNCHANGED <<inputVars, mainVars, index, workerVars, turn, astray, current,
                 submitted, id, shares, queue, outcome>>

DecodeFails(f, s) ==
  /\ "decode" \in FaultPoints \/ astray[f]
  /\ \/ pc[f][s] = "decode"
     \/ pc[f][s] = "nested" /\ shares[f][s] = 0
  /\ turn' = [turn EXCEPT ![f] = CANCEL]
  /\ Returns(f, s, "error")
  /\ UNCHANGED <<inputVars, mainVars, index, workerVars, astray, current,
                 submitted, id, shares, queue, outcome>>

PoolStep(f, s) ==
  \/ StartTask(f, s) \/ RunShare(f, s) \/ CheckTurn(f, s) \/ GiveUp(f, s)
  \/ TakeTurn(f, s) \/ Read(f, s) \/ Decode(f, s) \/ DecodeShared(f, s)
  \/ Shared(f, s) \/ DecodeFails(f, s)

-----------------------------------------------------------------------------

Terminated == mpc = "over" /\ UNCHANGED vars

Next == \/ MainStep
        \/ \E w \in Threads : WorkerStep(w)
        \/ \E f \in Files, s \in Slots : PoolStep(f, s)
        \/ Terminated

\* Every thread that can run does.
Fairness == /\ WF_vars(MainStep)
            /\ \A w \in Threads : WF_vars(WorkerStep(w))
            /\ \A f \in Files, s \in Slots : WF_vars(PoolStep(f, s))

Spec == Init /\ [][Next]_vars /\ Fairness

-----------------------------------------------------------------------------
(* Properties.                                                             *)

\* When the main thread reports no error, every file has been decompressed to
\* its last block: no file is forgotten by the queue, no failure by the
\* workers, and no task that gave up is taken for the end of a file.
SuccessMeansAll ==
  mpc = "over" /\ res = "ok" =>
    \A f \in 1..nbFiles :
      outcome[f] = "ok" /\ submitted[f] = JobsOf(f) + nbBlocks

\* Two workers never work on the same file.
OneWorkerPerFile ==
  \A v, w \in Threads :
    file[v] = file[w] /\ file[v] # 0 /\ ~Over(v) /\ ~Over(w) => v = w

\* The block tasks of all streams together are never more than the jobs asked
\* for, which is why a pool of one thread more always has a thread for the
\* shares they wait for.
TasksWithinJobs ==
  Cardinality({p \in Files \X Slots : pc[p[1]][p[2]] \notin {"none", "over"}})
    <= jobs

\* When the file tasks and their streams are deleted, no worker and no task
\* of the pool is left; whatever failed.
NothingInFlight ==
  mpc \in {"delete", "join", "over"} =>
    (\A w \in 1..started : Over(w)) /\ queue = <<>> /\ Busy = 0

\* After the queue has been cleared, no further file is begun ("Exit early by
\* telling the workers that the queue is empty").
Begun == {f \in Files : outcome[f] # "none"}

NoFileAfterClear ==
  [][res # "ok" /\ mpc \notin {"clear", "rescue"} => Begun' = Begun]_vars

\* An error closes a stream of three slots or more before its end.  Its tasks
\* may then wait for ever: the CANCEL of a failing task or of close() may be
\* stored over by the task whose turn it is.
ClosedEarly == \E w \in Threads : wpc[w] = "abort" /\ JobsOf(file[w]) > 2

\* Unless that happens the program comes to an end: no thread of the pool, no
\* worker and no task waits forever ("+1 to avoid deadlock due to thread
\* exhaustion").
RunReturns == <>(mpc = "over" \/ ClosedEarly)

=============================================================================
