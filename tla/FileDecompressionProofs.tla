------------------------ MODULE FileDecompressionProofs ------------------------
(***************************************************************************)
(* Theorems about FileDecompression, for any number of jobs, files and     *)
(* blocks and every choice of faults: no file is forgotten, none is        *)
(* decompressed twice, the streams together never run more block tasks     *)
(* than there are jobs, and nothing runs on when the tasks are deleted.    *)
(***************************************************************************)
EXTENDS FileDecompression, FiniteSetTheorems, TLAPS

(***************************************************************************)
(* The parts of the invariant: who has been started and has returned, who  *)
(* holds which file, where the tasks of a stream may be, what the pool's   *)
(* queue holds, in which order a stream's blocks are read, and what is     *)
(* known of each file.                                                     *)
(***************************************************************************)

InputTypeOK ==
  /\ jobs \in 2..MaxJobs
  /\ nbFiles \in 2..MaxFiles
  /\ nbBlocks \in 1..MaxBlocks

MainTypeOK ==
  /\ mpc \in {"start", "collect", "clear", "rescue", "waitall", "delete",
              "join", "over"}
  /\ at \in 0..(jobs - 1)
  /\ started \in 0..jobs
  /\ res \in {"ok", "failed", "thrown"}

WorkerTypeOK ==
  /\ index \in Nat
  /\ wpc \in [Threads -> {"none", "next", "open", "read", "drain", "abort",
                          "finish", "ok", "failed", "thrown"}]
  /\ file \in [Threads -> 0..MaxFiles]
  /\ outcome \in [Files -> {"none", "taken", "ok", "failed"}]

PlaceTypeOK ==
  /\ pc \in [Files -> [Slots -> {"none", "queued", "wait", "recheck", "read",
                                 "decode", "nested", "over"}]]
  /\ queue \in Seq(Files \X Slots \X {"block", "share"})
  /\ shares \in [Files -> [Slots -> 0..MaxJobs]]

StreamTypeOK ==
  /\ turn \in [Files -> Nat \cup {CANCEL}]
  /\ astray \in [Files -> BOOLEAN]
  /\ current \in [Files -> Slots]
  /\ submitted \in [Files -> Nat]
  /\ id \in [Files -> [Slots -> Nat]]
  /\ result \in [Files -> [Slots -> {"none", "decoded", "end", "error"}]]

\* The main thread starts all workers, or as many as it can, and goes on when
\* they are over.
Waiting ==
  /\ \A w \in Threads : wpc[w] # "none" <=> w <= started
  /\ mpc = "start" => started = at
  /\ mpc \in {"collect", "clear"} => started = jobs
  /\ mpc = "collect" => \A w \in Threads : w <= at => Over(w)
  /\ mpc = "clear" => \A w \in Threads : w <= at + 1 => Over(w)
  /\ mpc \in {"delete", "join", "over"} =>
       \A w \in Threads : w <= started => Over(w)

\* An error is known before the queue is cleared, and the queue is empty after.
Verdict ==
  /\ mpc = "start" => res = "ok"
  /\ mpc \in {"clear", "rescue", "waitall"} => res # "ok"
  /\ res # "ok" /\ mpc \notin {"clear", "rescue"} => index >= nbFiles
  /\ res = "ok" /\ mpc = "collect" =>
       \A w \in Threads : w <= at => wpc[w] = "ok"
  /\ res = "ok" /\ mpc \in {"delete", "join", "over"} =>
       /\ started = jobs
       /\ \A w \in Threads : w <= jobs => wpc[w] = "ok"

HasFile(w) == wpc[w] \in {"open", "read", "drain", "abort", "finish"}

\* Files are handed out in order, each to one worker.
Handout ==
  /\ \A w \in Threads : file[w] <= index /\ file[w] <= nbFiles
  /\ \A w \in Threads : HasFile(w) => file[w] # 0
  /\ \A w \in Threads : wpc[w] = "none" => file[w] = 0
  /\ \A v, w \in Threads : file[v] = file[w] /\ file[v] # 0 => v = w

\* The counter runs ahead of the files by the workers it has sent home.
SentHome == {w \in Threads : wpc[w] = "ok"}
Overrun  == index <= nbFiles + Cardinality(SentHome)

\* Tasks run in the streams that are open, in the slots the jobs allow.
HasStream(w) == wpc[w] \in {"read", "drain", "abort"}
Active(f, s) == pc[f][s] \notin {"none", "over"}

Tasks ==
  \A f \in Files, s \in Slots :
    /\ Active(f, s) => \E w \in Threads : file[w] = f /\ HasStream(w)
    /\ pc[f][s] # "none" => f <= nbFiles /\ s < JobsOf(f)

\* The queue of the pool holds the tasks that have not begun and the shares
\* that a task waits for, and nothing else.
Places(q, e) == {i \in 1..Len(q) : q[i] = e}
Times(e) == Cardinality(Places(queue, e))

OnQueue(f, s) == IF pc[f][s] = "queued" THEN 1 ELSE 0
Owed(f, s)    == IF pc[f][s] = "nested" THEN shares[f][s] ELSE 0

Queue ==
  \A f \in Files, s \in Slots :
    /\ Times(<<f, s, "block">>) = OnQueue(f, s)
    /\ Times(<<f, s, "share">>) = Owed(f, s)

\* The ring of a stream: its slots hold as many block ids in a row, and the
\* current slot holds the first.
First(f) == submitted[f] - JobsOf(f) + 1
Ring(f) ==
  /\ current[f] < JobsOf(f)
  /\ First(f) \in 1..(nbBlocks + 1)
  /\ turn[f] <= submitted[f]
  /\ \A s \in Slots : s < JobsOf(f) =>
       id[f][s] = First(f) + s - current[f]
                    + (IF s < current[f] THEN JobsOf(f) ELSE 0)

\* Blocks are read in order until a task breaks the order: by an error, or by
\* the end marker behind the last block.  Whatever the tasks behind it do then,
\* the client comes to this one first.
Passed(f, s) == \/ pc[f][s] \in {"decode", "nested"}
                \/ pc[f][s] = "over" /\ result[f][s] # "end"
PassedUpTo(f, b) ==
  \A s \in Slots : s < JobsOf(f) /\ id[f][s] <= b => Passed(f, s)
Breaks(f, s) == /\ s < JobsOf(f)
                /\ pc[f][s] = "over"
                /\ id[f][s] <= nbBlocks + 1
                /\ \/ result[f][s] = "error"
                   \/ result[f][s] = "end" /\ id[f][s] = nbBlocks + 1
                /\ PassedUpTo(f, id[f][s] - 1)
Broken(f) == \E s \in Slots : Breaks(f, s)

OrderlyTask(f, s) ==
  /\ pc[f][s] = "over" => result[f][s] = "decoded"
  /\ pc[f][s] \in {"recheck", "read"} => turn[f] = id[f][s] - 1
  /\ Passed(f, s) => id[f][s] <= nbBlocks /\ PassedUpTo(f, id[f][s])

Orderly(f) ==
  /\ turn[f] # CANCEL
  /\ ~astray[f]
  /\ PassedUpTo(f, turn[f])
  /\ \A s \in Slots : s < JobsOf(f) => OrderlyTask(f, s)

Filled(f) ==
  \A s \in Slots : s < JobsOf(f) =>
    /\ pc[f][s] # "none"
    /\ pc[f][s] # "over" => result[f][s] = "none"
    /\ pc[f][s] = "over" => result[f][s] # "none"

Reading(f) == Filled(f) /\ (Broken(f) \/ Orderly(f))

\* Before its file is opened a stream is as new.
Fresh(f) ==
  /\ turn[f] = 0
  /\ ~astray[f]
  /\ current[f] = 0
  /\ \A s \in Slots : pc[f][s] = "none" /\ result[f][s] = "none"

Unopened(f) ==
  outcome[f] = "none" \/ \E w \in Threads : file[w] = f /\ wpc[w] = "open"

Reader(f) == \E w \in Threads : file[w] = f /\ wpc[w] = "read"

Streams ==
  \A f \in Files :
    /\ Unopened(f) => Fresh(f)
    /\ Reader(f) => Ring(f) /\ Reading(f)

\* What is known of each file.
AllBlocks(f) == submitted[f] = JobsOf(f) + nbBlocks

Account ==
  /\ \A f \in Files : f > index \/ f > nbFiles => outcome[f] = "none"
  /\ \A f \in Files : outcome[f] = "none" /\ f <= nbFiles /\ f <= index =>
       res # "ok"
  /\ \A f \in Files : outcome[f] = "taken" <=>
       \E w \in Threads : file[w] = f /\ HasFile(w)
  /\ \A f \in Files : outcome[f] = "failed" =>
       \E w \in Threads : file[w] = f /\ wpc[w] \in {"failed", "thrown"}
  /\ \A w \in Threads : wpc[w] = "ok" => index >= nbFiles
  /\ \A w \in Threads : wpc[w] \in {"drain", "finish"} => AllBlocks(file[w])
  /\ \A f \in Files : outcome[f] = "ok" => AllBlocks(f)

-----------------------------------------------------------------------------
(* How jobs are dealt out.                                                 *)

LEMMA DivMod ==
  ASSUME NEW n \in Nat, NEW k \in Nat \ {0}
  PROVE  /\ n \div k \in Nat
         /\ n % k \in 0..(k - 1)
         /\ n % k = n - k * (n \div k)
<1>1. n \div k \in Int /\ n % k \in 0..(k - 1)
  OBVIOUS
<1>2. n % k = n - k * (n \div k)
  OBVIOUS
<1>3. n \div k >= 0
  OBVIOUS
<1> QED
  BY <1>1, <1>2, <1>3

\* Nobody gets nothing, and nobody more than there is.
LEMMA JobsPerTaskRange ==
  ASSUME NEW n \in Nat \ {0}, NEW k \in Nat \ {0}, NEW i \in 1..k
  PROVE  JobsPerTask(n, k)[i] \in 1..n
<1>1. CASE n <= k
  BY <1>1 DEF JobsPerTask
<1>2. CASE n > k
  <2> DEFINE q == n \div k
             r == n % k
  <2>1. q \in Nat /\ r \in 0..(k - 1) /\ r = n - k * q
    BY DivMod
  <2>2. JobsPerTask(n, k)[i] = q + (IF i <= r THEN 1 ELSE 0)
    BY <1>2 DEF JobsPerTask
  <2> HIDE DEF q, r
  <2>3. q >= 1
    <3>1. q = 0 => k * q = 0
      BY <2>1
    <3> QED
      BY <3>1, <2>1, <1>2
  <2>4. k * q >= q
    BY <2>1
  <2> QED
    BY <2>1, <2>2, <2>3, <2>4
<1> QED
  BY <1>1, <1>2

LEMMA JobsOfRange ==
  ASSUME InputTypeOK, NEW f \in 1..nbFiles
  PROVE  JobsOf(f) \in 1..jobs
  BY JobsPerTaskRange, ConstantsAssumption DEF JobsOf, InputTypeOK

LEMMA JobsInTaskRange ==
  ASSUME InputTypeOK, NEW f \in 1..nbFiles, NEW s \in Slots
  PROVE  JobsInTask(f, s) \in 1..MaxJobs
<1> DEFINE n == JobsOf(f)
           t == IF nbBlocks < n THEN nbBlocks ELSE n
<1>1. n \in 1..jobs /\ jobs \in 2..MaxJobs /\ nbBlocks \in Nat \ {0}
      /\ s \in Nat /\ MaxJobs \in Nat
  BY JobsOfRange, ConstantsAssumption DEF InputTypeOK, Slots
<1>2. JobsInTask(f, s) = IF s < t THEN JobsPerTask(n, t)[s + 1] ELSE 1
  BY DEF JobsInTask
<1> HIDE DEF n
<1>3. t \in Nat \ {0} /\ n \in Nat \ {0}
  BY <1>1
<1> HIDE DEF t
<1>4. s < t => JobsPerTask(n, t)[s + 1] \in 1..n
  BY <1>1, <1>3, JobsPerTaskRange
<1> QED
  BY <1>1, <1>2, <1>4

\* The streams together get as many slots as there are jobs: dealt out file by
\* file, no two slots get the same job.
Deal(f, s) == s * nbFiles + f

LEMMA DealtOnce ==
  ASSUME InputTypeOK, jobs > nbFiles,
         NEW f \in 1..nbFiles, NEW s \in Nat, s < JobsOf(f)
  PROVE  Deal(f, s) \in 1..jobs
<1> DEFINE q == jobs \div nbFiles
           r == jobs % nbFiles
           k == nbFiles
<1>1. jobs \in Nat /\ k \in Nat \ {0} /\ k <= MaxFiles
  BY ConstantsAssumption DEF InputTypeOK
<1>2. q \in Nat /\ r \in 0..(k - 1) /\ r = jobs - k * q
  BY <1>1, DivMod
<1>3. JobsOf(f) = q + (IF f <= r THEN 1 ELSE 0)
  BY <1>1 DEF JobsOf, JobsPerTask
<1> HIDE DEF q, r
<1>4. s * k \in Nat /\ (s + 1) * k = s * k + k
  BY <1>1
<1>5. CASE s + 1 <= q
  <2>1. (s + 1) * k <= k * q
    BY <1>5, <1>1, <1>2
  <2> QED
    BY <2>1, <1>1, <1>2, <1>4 DEF Deal
<1>6. CASE ~(s + 1 <= q)
  <2>1. s = q /\ f <= r
    BY <1>6, <1>2, <1>3
  <2>2. s * k = k * q
    BY <2>1, <1>1, <1>2
  <2> QED
    BY <2>1, <2>2, <1>1, <1>2 DEF Deal
<1> QED
  BY <1>5, <1>6

LEMMA DealInjective ==
  ASSUME InputTypeOK, NEW f \in 1..nbFiles, NEW g \in 1..nbFiles,
         NEW s \in Nat, NEW t \in Nat, Deal(f, s) = Deal(g, t)
  PROVE  f = g /\ s = t
<1> DEFINE k == nbFiles
<1>1. k \in Nat \ {0}
  BY ConstantsAssumption DEF InputTypeOK
<1>2. ASSUME NEW a \in Nat, NEW b \in Nat, NEW x \in 1..k, NEW y \in 1..k,
             a < b
      PROVE  a * k + x < b * k + y
  <2>1. (a + 1) * k <= b * k
    BY <1>1, <1>2
  <2>2. (a + 1) * k = a * k + k /\ a * k \in Nat /\ b * k \in Nat
    BY <1>1
  <2> QED
    BY <1>1, <2>1, <2>2
<1>3. s * k \in Nat /\ t * k \in Nat
  BY <1>1
<1>4. s * k + f = t * k + g
  BY DEF Deal
<1>5. ~(s < t) /\ ~(t < s)
  BY <1>2, <1>3, <1>4
<1>6. s = t
  BY <1>5
<1> QED
  BY <1>3, <1>4, <1>6

-----------------------------------------------------------------------------
(* How often an entry is in a queue.                                       *)

LEMMA PlacesFinite ==
  ASSUME NEW S, NEW q \in Seq(S), NEW e
  PROVE  /\ IsFiniteSet(Places(q, e))
         /\ Cardinality(Places(q, e)) \in 0..Len(q)
<1>1. Len(q) \in Nat
  OBVIOUS
<1>2. IsFiniteSet(1..Len(q)) /\ Cardinality(1..Len(q)) = Len(q)
  BY <1>1, FS_Interval
<1>3. Places(q, e) \in SUBSET (1..Len(q))
  BY DEF Places
<1> QED
  BY <1>1, <1>2, <1>3, FS_Subset, FS_CardinalityType

LEMMA NoPlaceInEmpty ==
  ASSUME NEW e
  PROVE  Cardinality(Places(<<>>, e)) = 0
<1>1. Places(<<>>, e) = {}
  BY DEF Places
<1> QED
  BY <1>1, FS_EmptySet

\* An entry is in the two halves of a queue as often as in the queue.
LEMMA PlacesJoin ==
  ASSUME NEW S, NEW q \in Seq(S), NEW r \in Seq(S), NEW e
  PROVE  Cardinality(Places(q \o r, e)) =
           Cardinality(Places(q, e)) + Cardinality(Places(r, e))
<1> DEFINE A == Places(q, e)
           B == Places(r, e)
           C == {i + Len(q) : i \in B}
           m == [i \in B |-> i + Len(q)]
<1>0. Len(q) \in Nat /\ Len(r) \in Nat /\ B \subseteq Nat
  BY DEF Places
<1>1. IsFiniteSet(A) /\ IsFiniteSet(B)
      /\ Cardinality(A) \in Nat /\ Cardinality(B) \in Nat
  BY PlacesFinite, <1>0
<1>2. m \in Bijection(B, C)
  <2>1. m \in [B -> C]
    OBVIOUS
  <2>2. \A i, j \in B : m[i] = m[j] => i = j
    BY <1>0
  <2>3. \A c \in C : \E i \in B : m[i] = c
    OBVIOUS
  <2> HIDE DEF m, B, C
  <2>4. m \in Injection(B, C)
    BY <2>1, <2>2 DEF Injection, IsInjective
  <2>5. m \in Surjection(B, C)
    BY <2>1, <2>3 DEF Surjection
  <2> QED
    BY <2>4, <2>5 DEF Bijection
<1>3. ExistsBijection(B, C)
  <2> HIDE DEF m, B, C
  <2> QED
    BY <1>2 DEF ExistsBijection
<1>4. IsFiniteSet(C) /\ Cardinality(C) = Cardinality(B)
  <2> HIDE DEF B, C
  <2> QED
    BY <1>1, <1>3, FS_Bijection
<1>5. Places(q \o r, e) = A \cup C
  <2>1. /\ Len(q \o r) = Len(q) + Len(r)
        /\ \A i \in 1..Len(q) : (q \o r)[i] = q[i]
        /\ \A i \in 1..Len(r) : (q \o r)[i + Len(q)] = r[i]
    OBVIOUS
  <2>2. ASSUME NEW i \in Places(q \o r, e) PROVE i \in A \cup C
    <3>1. i \in 1..(Len(q) + Len(r)) /\ (q \o r)[i] = e
      BY <2>1 DEF Places
    <3>2. CASE i <= Len(q)
      BY <2>1, <3>1, <3>2, <1>0 DEF Places
    <3>3. CASE i > Len(q)
      <4>1. i - Len(q) \in 1..Len(r) /\ i = (i - Len(q)) + Len(q)
        BY <3>1, <3>3, <1>0
      <4>2. i - Len(q) \in B
        BY <4>1, <3>1, <2>1 DEF Places
      <4> QED
        BY <4>1, <4>2
    <3> QED
      BY <3>1, <3>2, <3>3, <1>0
  <2>3. A \subseteq Places(q \o r, e)
    BY <2>1, <1>0 DEF Places
  <2>4. C \subseteq Places(q \o r, e)
    BY <2>1, <1>0 DEF Places
  <2> QED
    BY <2>2, <2>3, <2>4
<1>6. A \cap C = {}
  BY <1>0 DEF Places
<1>7. Cardinality(A \cap C) = 0
  BY <1>6, FS_EmptySet
<1> HIDE DEF A, B, C
<1>8. Cardinality(A \cup C) =
        Cardinality(A) + Cardinality(C) - Cardinality(A \cap C)
  BY <1>1, <1>4, FS_Union
<1>9. Cardinality(Places(q \o r, e)) = Cardinality(A) + Cardinality(B)
  BY <1>1, <1>4, <1>5, <1>7, <1>8
<1> QED
  BY <1>9 DEF A, B

LEMMA PlacesInSingle ==
  ASSUME NEW x, NEW e
  PROVE  Cardinality(Places(<<x>>, e)) = IF x = e THEN 1 ELSE 0
<1>1. Places(<<x>>, e) = IF x = e THEN {1} ELSE {}
  BY DEF Places
<1>2. Cardinality({1}) = 1 /\ Cardinality({}) = 0
  BY FS_Singleton, FS_EmptySet
<1> QED
  BY <1>1, <1>2

LEMMA PlacesAppend ==
  ASSUME NEW S, NEW q \in Seq(S), NEW x \in S, NEW e
  PROVE  Cardinality(Places(Append(q, x), e)) =
           Cardinality(Places(q, e)) + (IF x = e THEN 1 ELSE 0)
<1>1. <<x>> \in Seq(S)
  OBVIOUS
<1>2. Append(q, x) = q \o <<x>>
  OBVIOUS
<1>3. Cardinality(Places(q \o <<x>>, e)) =
        Cardinality(Places(q, e)) + Cardinality(Places(<<x>>, e))
  BY <1>1, PlacesJoin
<1> QED
  BY <1>2, <1>3, PlacesInSingle, Zenon

LEMMA PlacesPop ==
  ASSUME NEW S, NEW q \in Seq(S), q # <<>>, NEW e
  PROVE  Cardinality(Places(q, e)) =
           Cardinality(Places(Tail(q), e)) + (IF Head(q) = e THEN 1 ELSE 0)
<1> DEFINE h == Head(q)
           t == Tail(q)
<1>1. q = <<h>> \o t /\ <<h>> \in Seq(S) /\ t \in Seq(S)
  OBVIOUS
<1> HIDE DEF h, t
<1>2. Cardinality(Places(t, e)) \in Nat
  <2>1. Cardinality(Places(t, e)) \in 0..Len(t)
    BY <1>1, PlacesFinite
  <2> QED
    BY <2>1
<1>3. Cardinality(Places(<<h>> \o t, e)) =
        Cardinality(Places(<<h>>, e)) + Cardinality(Places(t, e))
  BY <1>1, PlacesJoin
<1>4. Cardinality(Places(<<h>>, e)) = IF h = e THEN 1 ELSE 0
  BY PlacesInSingle
<1>5. Cardinality(Places(q, e)) =
        Cardinality(Places(<<h>>, e)) + Cardinality(Places(t, e))
  BY <1>1, <1>3, Zenon
<1>6. Cardinality(Places(q, e)) =
        Cardinality(Places(t, e)) + (IF h = e THEN 1 ELSE 0)
  BY <1>2, <1>4, <1>5
<1> QED
  BY <1>6 DEF h, t

-----------------------------------------------------------------------------
(* Types.                                                                  *)

\* The parts of the invariant about the main thread, the workers and their
\* files.
Driver ==
  /\ InputTypeOK
  /\ MainTypeOK
  /\ WorkerTypeOK
  /\ Waiting
  /\ Verdict
  /\ Handout

LEMMA ThreadsType ==
  /\ MaxJobs \in Nat \ {0, 1} /\ MaxFiles \in Nat \ {0, 1}
  /\ \A w \in Threads : w \in Nat \ {0}
  BY ConstantsAssumption DEF Threads

LEMMA TypesMain ==
  ASSUME Driver, MainStep
  PROVE  InputTypeOK' /\ MainTypeOK' /\ WorkerTypeOK'
<1> USE ConstantsAssumption
    DEF Driver, InputTypeOK, MainTypeOK, WorkerTypeOK, Threads, Files
<1>1. CASE StartWorker
  BY <1>1 DEF StartWorker, inputVars, streamVars, Waiting
<1>2. CASE StartFails
  BY <1>2 DEF StartFails, workerVars, inputVars, streamVars, Waiting
<1>3. CASE CollectOk
  BY <1>3
  DEF CollectOk, Advance, MoreResults, workerVars, inputVars, streamVars,
      Waiting
<1>4. CASE CollectFailed
  BY <1>4 DEF CollectFailed, workerVars, inputVars, streamVars, Waiting
<1>5. CASE CollectThrown
  BY <1>5 DEF CollectThrown, workerVars, inputVars, streamVars, Waiting
<1>6. CASE Clear
  BY <1>6
  DEF Clear, Advance, MoreResults, Cleared, workerVars, inputVars,
      streamVars, Waiting
<1>7. CASE Rescue
  BY <1>7 DEF Rescue, Cleared, workerVars, inputVars, streamVars, Waiting
<1>8. CASE WaitAll
  BY <1>8 DEF WaitAll, WorkersOver, workerVars, inputVars, streamVars, Waiting
<1>9. CASE Delete
  BY <1>9 DEF Delete, workerVars, inputVars, streamVars, Waiting
<1>10. CASE Join
  BY <1>10 DEF Join, workerVars, inputVars, streamVars, Waiting
<1> QED
  BY <1>1, <1>2, <1>3, <1>4, <1>5, <1>6, <1>7, <1>8, <1>9, <1>10 DEF MainStep

LEMMA TypesWorker ==
  ASSUME NEW w \in Threads, Driver, WorkerStep(w)
  PROVE  InputTypeOK' /\ MainTypeOK' /\ WorkerTypeOK'
<1> USE ConstantsAssumption
    DEF Driver, InputTypeOK, MainTypeOK, WorkerTypeOK, Threads, Files
<1>0. HasFile(w) => file[w] \in Files
  BY DEF Handout
<1>1. CASE TakeFile(w)
  <2>1. CASE index < nbFiles
    <3>1. index + 1 \in Files
      BY <2>1
    <3>2. /\ index' = index + 1
          /\ wpc' = [wpc EXCEPT ![w] = "open"]
          /\ file' = [file EXCEPT ![w] = index + 1]
          /\ outcome' = [outcome EXCEPT ![index + 1] = "taken"]
          /\ UNCHANGED <<jobs, nbFiles, nbBlocks, mpc, at, started, res>>
      BY <1>1, <2>1 DEF TakeFile, mainVars, inputVars
    <3>3. file' \in [Threads -> 0..MaxFiles]
      BY <3>1, <3>2
    <3>4. outcome' \in [Files -> {"none", "taken", "ok", "failed"}]
      BY <3>1, <3>2
    <3> QED
      BY <3>2, <3>3, <3>4
  <2>2. CASE ~(index < nbFiles)
    BY <1>1, <2>2 DEF TakeFile, mainVars, inputVars
  <2> QED
    BY <2>1, <2>2
<1>2. CASE Open(w)
  BY <1>2, <1>0 DEF Open, mainVars, inputVars, HasFile, Collects
<1>3. CASE OpenFails(w)
  BY <1>3, <1>0
  DEF OpenFails, Leave, mainVars, inputVars, streamVars, HasFile, Collects
<1>4. CASE Escape(w)
  BY <1>4, <1>0
  DEF Escape, Leave, mainVars, inputVars, streamVars, HasFile, Collects
<1>5. CASE CollectBlock(w)
  BY <1>5, <1>0
  DEF CollectBlock, Collects, mainVars, workerVars, inputVars, HasFile
<1>6. CASE CollectEnd(w)
  BY <1>6, <1>0
  DEF CollectEnd, Collects, CloseStream, mainVars, inputVars, HasFile
<1>7. CASE CollectError(w)
  BY <1>7, <1>0
  DEF CollectError, Collects, CloseStream, mainVars, inputVars, HasFile
<1>8. CASE WriteFails(w)
  BY <1>8, <1>0
  DEF WriteFails, CloseStream, mainVars, inputVars, HasFile, Collects
<1>9. CASE Drain(w)
  BY <1>9, <1>0
  DEF Drain, Drained, Leave, mainVars, inputVars, streamVars, HasFile,
      Collects
<1>10. CASE Abort(w)
  BY <1>10, <1>0
  DEF Abort, Drained, Leave, mainVars, inputVars, streamVars, HasFile,
      Collects
<1>11. CASE Finish(w)
  BY <1>11, <1>0
  DEF Finish, Leave, mainVars, inputVars, streamVars, HasFile, Collects
<1> QED
  BY <1>1, <1>2, <1>3, <1>4, <1>5, <1>6, <1>7, <1>8, <1>9, <1>10, <1>11
  DEF WorkerStep

LEMMA TypesPool ==
  ASSUME NEW f \in Files, NEW s \in Slots, Driver, PoolStep(f, s)
  PROVE  InputTypeOK' /\ MainTypeOK' /\ WorkerTypeOK'
<1> USE ConstantsAssumption
    DEF Driver, InputTypeOK, MainTypeOK, WorkerTypeOK, Threads, Files
<1>1. CASE StartTask(f, s)
  BY <1>1 DEF StartTask, FromQueue, Goto, mainVars, workerVars, inputVars
<1>2. CASE RunShare(f, s)
  BY <1>2 DEF RunShare, FromQueue, mainVars, workerVars, inputVars
<1>3. CASE TakeTurn(f, s)
  BY <1>3 DEF TakeTurn, Goto, mainVars, workerVars, inputVars
<1>4. CASE GiveUp(f, s)
  BY <1>4 DEF GiveUp, Returns, Goto, mainVars, workerVars, inputVars
<1>5. CASE Read(f, s)
  BY <1>5 DEF Read, Returns, Goto, mainVars, workerVars, inputVars
<1>6. CASE Decode(f, s)
  BY <1>6 DEF Decode, Returns, Goto, mainVars, workerVars, inputVars
<1>7. CASE DecodeShared(f, s)
  BY <1>7 DEF DecodeShared, Goto, mainVars, workerVars, inputVars
<1>8. CASE Shared(f, s)
  BY <1>8 DEF Shared, Returns, Goto, mainVars, workerVars, inputVars
<1>9. CASE DecodeFails(f, s)
  BY <1>9 DEF DecodeFails, Returns, Goto, mainVars, workerVars, inputVars
<1>10. CASE CheckTurn(f, s)
  BY <1>10 DEF CheckTurn, Goto, mainVars, workerVars, inputVars
<1> QED
  BY <1>1, <1>2, <1>3, <1>4, <1>5, <1>6, <1>7, <1>8, <1>9, <1>10 DEF PoolStep

-----------------------------------------------------------------------------
(* The main thread waits for every worker, and knows what has failed.      *)

LEMMA WaitingMain ==
  ASSUME Driver, MainStep
  PROVE  Waiting'
<1> USE ConstantsAssumption
    DEF Driver, InputTypeOK, MainTypeOK, WorkerTypeOK, Threads, Files
<1> USE DEF Waiting, Over
<1>1. CASE StartWorker
  BY <1>1 DEF StartWorker, inputVars, streamVars
<1>2. CASE StartFails
  BY <1>2 DEF StartFails, workerVars, inputVars, streamVars
<1>3. CASE CollectOk
  <2>1. /\ UNCHANGED <<jobs, wpc, started>> /\ started = jobs
        /\ at \in 0..(jobs - 1) /\ wpc[at + 1] = "ok" /\ mpc = "collect"
    BY <1>3 DEF CollectOk, workerVars, inputVars
  <2>2. \A v \in Threads : v <= at + 1 => Over(v)
    <3> SUFFICES ASSUME NEW v \in Threads, v <= at + 1 PROVE Over(v)
      OBVIOUS
    <3>1. v <= at \/ v = at + 1
      BY <2>1
    <3> QED
      BY <2>1, <3>1
  <2>3. CASE MoreResults
    BY <1>3, <2>1, <2>2, <2>3 DEF CollectOk, Advance, MoreResults
  <2>4. CASE ~MoreResults
    BY <1>3, <2>1, <2>2, <2>4 DEF CollectOk, Advance, MoreResults
  <2> QED
    BY <2>3, <2>4
<1>4. CASE CollectFailed
  BY <1>4 DEF CollectFailed, workerVars, inputVars, streamVars
<1>5. CASE CollectThrown
  BY <1>5 DEF CollectThrown, workerVars, inputVars, streamVars
<1>6. CASE Clear
  BY <1>6
  DEF Clear, Advance, MoreResults, Cleared, workerVars, inputVars, streamVars
<1>7. CASE Rescue
  BY <1>7 DEF Rescue, Cleared, workerVars, inputVars, streamVars
<1>8. CASE WaitAll
  BY <1>8 DEF WaitAll, WorkersOver, workerVars, inputVars, streamVars
<1>9. CASE Delete
  BY <1>9 DEF Delete, workerVars, inputVars, streamVars
<1>10. CASE Join
  BY <1>10 DEF Join, workerVars, inputVars, streamVars
<1> QED
  BY <1>1, <1>2, <1>3, <1>4, <1>5, <1>6, <1>7, <1>8, <1>9, <1>10 DEF MainStep

LEMMA WaitingWorker ==
  ASSUME NEW w \in Threads, Driver, WorkerStep(w)
  PROVE  Waiting'
<1> USE ConstantsAssumption
    DEF Driver, InputTypeOK, MainTypeOK, WorkerTypeOK, Threads, Files
<1> USE DEF Waiting, Over
<1>1. CASE TakeFile(w)
  BY <1>1 DEF TakeFile, mainVars, inputVars, streamVars
<1>2. CASE Open(w)
  BY <1>2 DEF Open, mainVars, inputVars
<1>3. CASE OpenFails(w)
  BY <1>3 DEF OpenFails, Leave, mainVars, inputVars, streamVars
<1>4. CASE Escape(w)
  BY <1>4 DEF Escape, Leave, mainVars, inputVars, streamVars
<1>5. CASE CollectBlock(w)
  BY <1>5 DEF CollectBlock, Collects, mainVars, workerVars, inputVars
<1>6. CASE CollectEnd(w)
  BY <1>6 DEF CollectEnd, Collects, CloseStream, mainVars, inputVars
<1>7. CASE CollectError(w)
  BY <1>7 DEF CollectError, Collects, CloseStream, mainVars, inputVars
<1>8. CASE WriteFails(w)
  BY <1>8 DEF WriteFails, CloseStream, mainVars, inputVars
<1>9. CASE Drain(w)
  BY <1>9 DEF Drain, Drained, Leave, mainVars, inputVars, streamVars
<1>10. CASE Abort(w)
  BY <1>10 DEF Abort, Drained, Leave, mainVars, inputVars, streamVars
<1>11. CASE Finish(w)
  BY <1>11 DEF Finish, Leave, mainVars, inputVars, streamVars
<1> QED
  BY <1>1, <1>2, <1>3, <1>4, <1>5, <1>6, <1>7, <1>8, <1>9, <1>10, <1>11
  DEF WorkerStep

LEMMA WaitingPool ==
  ASSUME NEW f \in Files, NEW s \in Slots, Driver, PoolStep(f, s)
  PROVE  Waiting'
<1> USE ConstantsAssumption
    DEF Driver, InputTypeOK, MainTypeOK, WorkerTypeOK, Threads, Files
<1> USE DEF Waiting, Over
<1>1. CASE StartTask(f, s)
  BY <1>1 DEF StartTask, FromQueue, Goto, mainVars, workerVars, inputVars
<1>2. CASE RunShare(f, s)
  BY <1>2 DEF RunShare, FromQueue, mainVars, workerVars, inputVars
<1>3. CASE TakeTurn(f, s)
  BY <1>3 DEF TakeTurn, Goto, mainVars, workerVars, inputVars
<1>4. CASE GiveUp(f, s)
  BY <1>4 DEF GiveUp, Returns, Goto, mainVars, workerVars, inputVars
<1>5. CASE Read(f, s)
  BY <1>5 DEF Read, Returns, Goto, mainVars, workerVars, inputVars
<1>6. CASE Decode(f, s)
  BY <1>6 DEF Decode, Returns, Goto, mainVars, workerVars, inputVars
<1>7. CASE DecodeShared(f, s)
  BY <1>7 DEF DecodeShared, Goto, mainVars, workerVars, inputVars
<1>8. CASE Shared(f, s)
  BY <1>8 DEF Shared, Returns, Goto, mainVars, workerVars, inputVars
<1>9. CASE DecodeFails(f, s)
  BY <1>9 DEF DecodeFails, Returns, Goto, mainVars, workerVars, inputVars
<1>10. CASE CheckTurn(f, s)
  BY <1>10 DEF CheckTurn, Goto, mainVars, workerVars, inputVars
<1> QED
  BY <1>1, <1>2, <1>3, <1>4, <1>5, <1>6, <1>7, <1>8, <1>9, <1>10 DEF PoolStep

LEMMA VerdictMain ==
  ASSUME Driver, MainStep
  PROVE  Verdict'
<1> USE ConstantsAssumption
    DEF Driver, InputTypeOK, MainTypeOK, WorkerTypeOK, Threads, Files
<1> USE DEF Verdict
<1>1. CASE StartWorker
  BY <1>1 DEF StartWorker, inputVars, streamVars, Waiting, Over
<1>2. CASE StartFails
  BY <1>2 DEF StartFails, workerVars, inputVars, streamVars, Waiting, Over
<1>3. CASE CollectOk
  <2>1. /\ mpc = "collect" /\ wpc[at + 1] = "ok" /\ Advance
        /\ UNCHANGED <<jobs, nbFiles, started, res, index, wpc>>
    BY <1>3 DEF CollectOk, workerVars, inputVars
  <2>2. CASE MoreResults
    <3>1. mpc' = "collect" /\ at' = at + 1
      BY <2>1, <2>2 DEF Advance
    <3>2. res = "ok" => \A w \in Threads : w <= at + 1 => wpc[w] = "ok"
      BY <2>1
    <3> QED
      BY <2>1, <3>1, <3>2
  <2>3. CASE ~MoreResults
    <3>1. mpc' = "delete" /\ at' = at /\ jobs = at + 1
      BY <2>1, <2>3 DEF Advance, MoreResults
    <3> QED
      BY <2>1, <3>1 DEF Waiting
  <2> QED
    BY <2>2, <2>3
<1>4. CASE CollectFailed
  BY <1>4 DEF CollectFailed, workerVars, inputVars, streamVars, Waiting, Over
<1>5. CASE CollectThrown
  BY <1>5 DEF CollectThrown, workerVars, inputVars, streamVars, Waiting, Over
<1>6. CASE Clear
  BY <1>6
  DEF Clear, Advance, MoreResults, Cleared, workerVars, inputVars,
      streamVars, Waiting, Over
<1>7. CASE Rescue
  BY <1>7
  DEF Rescue, Cleared, workerVars, inputVars, streamVars, Waiting, Over
<1>8. CASE WaitAll
  BY <1>8
  DEF WaitAll, WorkersOver, workerVars, inputVars, streamVars, Waiting, Over
<1>9. CASE Delete
  BY <1>9 DEF Delete, workerVars, inputVars, streamVars, Waiting, Over
<1>10. CASE Join
  BY <1>10 DEF Join, workerVars, inputVars, streamVars, Waiting, Over
<1> QED
  BY <1>1, <1>2, <1>3, <1>4, <1>5, <1>6, <1>7, <1>8, <1>9, <1>10 DEF MainStep

LEMMA VerdictWorker ==
  ASSUME NEW w \in Threads, Driver, WorkerStep(w)
  PROVE  Verdict'
<1> USE ConstantsAssumption
    DEF Driver, InputTypeOK, MainTypeOK, WorkerTypeOK, Threads, Files
<1> USE DEF Verdict
<1>1. CASE TakeFile(w)
  BY <1>1 DEF TakeFile, mainVars, inputVars, streamVars, Waiting
<1>2. CASE Open(w)
  BY <1>2 DEF Open, mainVars, inputVars, Waiting
<1>3. CASE OpenFails(w)
  BY <1>3 DEF OpenFails, Leave, mainVars, inputVars, streamVars, Waiting
<1>4. CASE Escape(w)
  BY <1>4 DEF Escape, Leave, mainVars, inputVars, streamVars, Waiting
<1>5. CASE CollectBlock(w)
  BY <1>5 DEF CollectBlock, Collects, mainVars, workerVars, inputVars, Waiting
<1>6. CASE CollectEnd(w)
  BY <1>6 DEF CollectEnd, Collects, CloseStream, mainVars, inputVars, Waiting
<1>7. CASE CollectError(w)
  BY <1>7
  DEF CollectError, Collects, CloseStream, mainVars, inputVars, Waiting
<1>8. CASE WriteFails(w)
  BY <1>8 DEF WriteFails, CloseStream, mainVars, inputVars, Waiting
<1>9. CASE Drain(w)
  BY <1>9 DEF Drain, Drained, Leave, mainVars, inputVars, streamVars, Waiting
<1>10. CASE Abort(w)
  BY <1>10 DEF Abort, Drained, Leave, mainVars, inputVars, streamVars, Waiting
<1>11. CASE Finish(w)
  BY <1>11 DEF Finish, Leave, mainVars, inputVars, streamVars, Waiting
<1> QED
  BY <1>1, <1>2, <1>3, <1>4, <1>5, <1>6, <1>7, <1>8, <1>9, <1>10, <1>11
  DEF WorkerStep

LEMMA VerdictPool ==
  ASSUME NEW f \in Files, NEW s \in Slots, Driver, PoolStep(f, s)
  PROVE  Verdict'
<1> USE ConstantsAssumption
    DEF Driver, InputTypeOK, MainTypeOK, WorkerTypeOK, Threads, Files
<1> USE DEF Verdict
<1>1. CASE StartTask(f, s)
  BY <1>1 DEF StartTask, FromQueue, Goto, mainVars, workerVars, inputVars
<1>2. CASE RunShare(f, s)
  BY <1>2 DEF RunShare, FromQueue, mainVars, workerVars, inputVars
<1>3. CASE TakeTurn(f, s)
  BY <1>3 DEF TakeTurn, Goto, mainVars, workerVars, inputVars
<1>4. CASE GiveUp(f, s)
  BY <1>4 DEF GiveUp, Returns, Goto, mainVars, workerVars, inputVars
<1>5. CASE Read(f, s)
  BY <1>5 DEF Read, Returns, Goto, mainVars, workerVars, inputVars
<1>6. CASE Decode(f, s)
  BY <1>6 DEF Decode, Returns, Goto, mainVars, workerVars, inputVars
<1>7. CASE DecodeShared(f, s)
  BY <1>7 DEF DecodeShared, Goto, mainVars, workerVars, inputVars
<1>8. CASE Shared(f, s)
  BY <1>8 DEF Shared, Returns, Goto, mainVars, workerVars, inputVars
<1>9. CASE DecodeFails(f, s)
  BY <1>9 DEF DecodeFails, Returns, Goto, mainVars, workerVars, inputVars
<1>10. CASE CheckTurn(f, s)
  BY <1>10 DEF CheckTurn, Goto, mainVars, workerVars, inputVars
<1> QED
  BY <1>1, <1>2, <1>3, <1>4, <1>5, <1>6, <1>7, <1>8, <1>9, <1>10 DEF PoolStep

-----------------------------------------------------------------------------
(* Each file goes to one worker.                                           *)

LEMMA HandoutMain ==
  ASSUME Driver, MainStep
  PROVE  Handout'
<1> USE ConstantsAssumption
    DEF Driver, InputTypeOK, MainTypeOK, WorkerTypeOK, Threads, Files
<1> USE DEF Handout, HasFile
<1>1. CASE StartWorker
  BY <1>1 DEF StartWorker, inputVars, streamVars, Waiting
<1>2. CASE StartFails
  BY <1>2 DEF StartFails, workerVars, inputVars, streamVars, Waiting
<1>3. CASE CollectOk
  BY <1>3
  DEF CollectOk, Advance, MoreResults, workerVars, inputVars, streamVars,
      Waiting
<1>4. CASE CollectFailed
  BY <1>4 DEF CollectFailed, workerVars, inputVars, streamVars, Waiting
<1>5. CASE CollectThrown
  BY <1>5 DEF CollectThrown, workerVars, inputVars, streamVars, Waiting
<1>6. CASE Clear
  BY <1>6
  DEF Clear, Advance, MoreResults, Cleared, workerVars, inputVars,
      streamVars, Waiting
<1>7. CASE Rescue
  BY <1>7 DEF Rescue, Cleared, workerVars, inputVars, streamVars, Waiting
<1>8. CASE WaitAll
  BY <1>8 DEF WaitAll, WorkersOver, workerVars, inputVars, streamVars, Waiting
<1>9. CASE Delete
  BY <1>9 DEF Delete, workerVars, inputVars, streamVars, Waiting
<1>10. CASE Join
  BY <1>10 DEF Join, workerVars, inputVars, streamVars, Waiting
<1> QED
  BY <1>1, <1>2, <1>3, <1>4, <1>5, <1>6, <1>7, <1>8, <1>9, <1>10 DEF MainStep

LEMMA HandoutWorker ==
  ASSUME NEW w \in Threads, Driver, WorkerStep(w)
  PROVE  Handout'
<1> USE ConstantsAssumption
    DEF Driver, InputTypeOK, MainTypeOK, WorkerTypeOK, Threads, Files
<1> USE DEF Handout, HasFile
<1>1. CASE TakeFile(w)
  <2>1. CASE index < nbFiles
    <3>1. /\ index' = index + 1
          /\ wpc' = [wpc EXCEPT ![w] = "open"]
          /\ file' = [file EXCEPT ![w] = index + 1]
          /\ nbFiles' = nbFiles
      BY <1>1, <2>1 DEF TakeFile, mainVars, inputVars
    <3> QED
      BY <1>1, <2>1, <3>1 DEF TakeFile
  <2>2. CASE ~(index < nbFiles)
    <3>1. /\ index' = index + 1
          /\ wpc' = [wpc EXCEPT ![w] = "ok"]
          /\ file' = [file EXCEPT ![w] = 0]
          /\ nbFiles' = nbFiles
      BY <1>1, <2>2 DEF TakeFile, mainVars, inputVars
    <3> QED
      BY <1>1, <2>2, <3>1 DEF TakeFile
  <2> QED
    BY <2>1, <2>2
<1>2. CASE Open(w)
  BY <1>2 DEF Open, mainVars, inputVars
<1>3. CASE OpenFails(w)
  BY <1>3 DEF OpenFails, Leave, mainVars, inputVars, streamVars
<1>4. CASE Escape(w)
  BY <1>4 DEF Escape, Leave, mainVars, inputVars, streamVars
<1>5. CASE CollectBlock(w)
  BY <1>5 DEF CollectBlock, Collects, mainVars, workerVars, inputVars
<1>6. CASE CollectEnd(w)
  BY <1>6 DEF CollectEnd, Collects, CloseStream, mainVars, inputVars
<1>7. CASE CollectError(w)
  BY <1>7 DEF CollectError, Collects, CloseStream, mainVars, inputVars
<1>8. CASE WriteFails(w)
  BY <1>8 DEF WriteFails, CloseStream, mainVars, inputVars
<1>9. CASE Drain(w)
  BY <1>9 DEF Drain, Drained, Leave, mainVars, inputVars, streamVars
<1>10. CASE Abort(w)
  BY <1>10 DEF Abort, Drained, Leave, mainVars, inputVars, streamVars
<1>11. CASE Finish(w)
  BY <1>11 DEF Finish, Leave, mainVars, inputVars, streamVars
<1> QED
  BY <1>1, <1>2, <1>3, <1>4, <1>5, <1>6, <1>7, <1>8, <1>9, <1>10, <1>11
  DEF WorkerStep

LEMMA HandoutPool ==
  ASSUME NEW f \in Files, NEW s \in Slots, Driver, PoolStep(f, s)
  PROVE  Handout'
<1> USE ConstantsAssumption
    DEF Driver, InputTypeOK, MainTypeOK, WorkerTypeOK, Threads, Files
<1> USE DEF Handout, HasFile
<1>1. CASE StartTask(f, s)
  BY <1>1 DEF StartTask, FromQueue, Goto, mainVars, workerVars, inputVars
<1>2. CASE RunShare(f, s)
  BY <1>2 DEF RunShare, FromQueue, mainVars, workerVars, inputVars
<1>3. CASE TakeTurn(f, s)
  BY <1>3 DEF TakeTurn, Goto, mainVars, workerVars, inputVars
<1>4. CASE GiveUp(f, s)
  BY <1>4 DEF GiveUp, Returns, Goto, mainVars, workerVars, inputVars
<1>5. CASE Read(f, s)
  BY <1>5 DEF Read, Returns, Goto, mainVars, workerVars, inputVars
<1>6. CASE Decode(f, s)
  BY <1>6 DEF Decode, Returns, Goto, mainVars, workerVars, inputVars
<1>7. CASE DecodeShared(f, s)
  BY <1>7 DEF DecodeShared, Goto, mainVars, workerVars, inputVars
<1>8. CASE Shared(f, s)
  BY <1>8 DEF Shared, Returns, Goto, mainVars, workerVars, inputVars
<1>9. CASE DecodeFails(f, s)
  BY <1>9 DEF DecodeFails, Returns, Goto, mainVars, workerVars, inputVars
<1>10. CASE CheckTurn(f, s)
  BY <1>10 DEF CheckTurn, Goto, mainVars, workerVars, inputVars
<1> QED
  BY <1>1, <1>2, <1>3, <1>4, <1>5, <1>6, <1>7, <1>8, <1>9, <1>10 DEF PoolStep

-----------------------------------------------------------------------------
(* The counter of the queue of files.                                      *)

LEMMA SentHomeFinite ==
  /\ IsFiniteSet(SentHome) /\ Cardinality(SentHome) \in 0..MaxJobs
  /\ IsFiniteSet(SentHome') /\ Cardinality(SentHome') \in 0..MaxJobs
<1>1. IsFiniteSet(Threads) /\ Cardinality(Threads) = MaxJobs
  BY FS_Interval, ConstantsAssumption DEF Threads
<1>2. SentHome \in SUBSET Threads /\ SentHome' \in SUBSET Threads
  BY DEF SentHome
<1>3. /\ IsFiniteSet(SentHome) /\ Cardinality(SentHome) <= MaxJobs
      /\ IsFiniteSet(SentHome') /\ Cardinality(SentHome') <= MaxJobs
  BY <1>1, <1>2, FS_Subset
<1> QED
  BY <1>3, FS_CardinalityType, ConstantsAssumption

LEMMA OverrunKept ==
  ASSUME Overrun, index \in Nat, index' \in Nat, nbFiles \in Nat,
         nbFiles' = nbFiles, index' <= index \/ index' <= nbFiles,
         \A w \in Threads : wpc[w] = "ok" => wpc'[w] = "ok"
  PROVE  Overrun'
<1>1. SentHome \in SUBSET (SentHome')
  BY DEF SentHome
<1>2. Cardinality(SentHome) <= Cardinality(SentHome')
  BY <1>1, SentHomeFinite, FS_Subset
<1>3. Cardinality(SentHome) \in Nat /\ Cardinality(SentHome') \in Nat
  BY SentHomeFinite
<1> QED
  BY <1>2, <1>3 DEF Overrun

LEMMA OverrunMain ==
  ASSUME Driver, Overrun, MainStep
  PROVE  Overrun'
<1> USE ConstantsAssumption
    DEF Driver, InputTypeOK, MainTypeOK, WorkerTypeOK, Threads, Files
<1>1. CASE StartWorker
  BY <1>1, OverrunKept DEF StartWorker, inputVars, streamVars, Waiting
<1>2. CASE StartFails
  BY <1>2, OverrunKept DEF StartFails, workerVars, inputVars, streamVars
<1>3. CASE CollectOk
  BY <1>3, OverrunKept
  DEF CollectOk, Advance, MoreResults, workerVars, inputVars, streamVars
<1>4. CASE CollectFailed
  BY <1>4, OverrunKept DEF CollectFailed, workerVars, inputVars, streamVars
<1>5. CASE CollectThrown
  BY <1>5, OverrunKept DEF CollectThrown, workerVars, inputVars, streamVars
<1>6. CASE Clear
  BY <1>6, OverrunKept
  DEF Clear, Advance, MoreResults, Cleared, workerVars, inputVars, streamVars
<1>7. CASE Rescue
  BY <1>7, OverrunKept DEF Rescue, Cleared, workerVars, inputVars, streamVars
<1>8. CASE WaitAll
  BY <1>8, OverrunKept
  DEF WaitAll, WorkersOver, workerVars, inputVars, streamVars
<1>9. CASE Delete
  BY <1>9, OverrunKept DEF Delete, workerVars, inputVars, streamVars
<1>10. CASE Join
  BY <1>10, OverrunKept DEF Join, workerVars, inputVars, streamVars
<1> QED
  BY <1>1, <1>2, <1>3, <1>4, <1>5, <1>6, <1>7, <1>8, <1>9, <1>10 DEF MainStep

LEMMA OverrunWorker ==
  ASSUME NEW w \in Threads, Driver, Overrun, WorkerStep(w)
  PROVE  Overrun'
<1> USE ConstantsAssumption
    DEF Driver, InputTypeOK, MainTypeOK, WorkerTypeOK, Threads, Files
<1>1. CASE TakeFile(w)
  <2>1. CASE index < nbFiles
    <3>1. nbFiles' = nbFiles /\ index' = index + 1
      BY <1>1 DEF TakeFile, inputVars
    <3>2. Cardinality(SentHome') \in Nat
      BY SentHomeFinite
    <3> QED
      BY <2>1, <3>1, <3>2 DEF Overrun
  <2>2. CASE ~(index < nbFiles)
    <3>1. /\ nbFiles' = nbFiles /\ index' = index + 1
          /\ wpc[w] = "next" /\ wpc' = [wpc EXCEPT ![w] = "ok"]
      BY <1>1, <2>2 DEF TakeFile, inputVars
    <3>2. SentHome' = SentHome \cup {w} /\ w \notin SentHome
      BY <3>1 DEF SentHome
    <3>3. Cardinality(SentHome') = Cardinality(SentHome) + 1
      BY <3>2, SentHomeFinite, FS_AddElement
    <3>4. Cardinality(SentHome) \in Nat
      BY SentHomeFinite
    <3> QED
      BY <3>1, <3>3, <3>4 DEF Overrun
  <2> QED
    BY <2>1, <2>2
<1>2. CASE Open(w)
  BY <1>2, OverrunKept DEF Open, mainVars, inputVars
<1>3. CASE OpenFails(w)
  BY <1>3, OverrunKept DEF OpenFails, Leave, mainVars, inputVars, streamVars
<1>4. CASE Escape(w)
  BY <1>4, OverrunKept DEF Escape, Leave, mainVars, inputVars, streamVars
<1>5. CASE CollectBlock(w)
  BY <1>5, OverrunKept
  DEF CollectBlock, Collects, mainVars, workerVars, inputVars
<1>6. CASE CollectEnd(w)
  BY <1>6, OverrunKept
  DEF CollectEnd, Collects, CloseStream, mainVars, inputVars
<1>7. CASE CollectError(w)
  BY <1>7, OverrunKept
  DEF CollectError, Collects, CloseStream, mainVars, inputVars
<1>8. CASE WriteFails(w)
  BY <1>8, OverrunKept DEF WriteFails, CloseStream, mainVars, inputVars
<1>9. CASE Drain(w)
  BY <1>9, OverrunKept
  DEF Drain, Drained, Leave, mainVars, inputVars, streamVars
<1>10. CASE Abort(w)
  BY <1>10, OverrunKept
  DEF Abort, Drained, Leave, mainVars, inputVars, streamVars
<1>11. CASE Finish(w)
  BY <1>11, OverrunKept DEF Finish, Leave, mainVars, inputVars, streamVars
<1> QED
  BY <1>1, <1>2, <1>3, <1>4, <1>5, <1>6, <1>7, <1>8, <1>9, <1>10, <1>11
  DEF WorkerStep

LEMMA OverrunPool ==
  ASSUME NEW f \in Files, NEW s \in Slots, Driver, Overrun, PoolStep(f, s)
  PROVE  Overrun'
<1> USE ConstantsAssumption
    DEF Driver, InputTypeOK, MainTypeOK, WorkerTypeOK, Threads, Files
<1>1. CASE StartTask(f, s)
  BY <1>1, OverrunKept
  DEF StartTask, FromQueue, Goto, mainVars, workerVars, inputVars
<1>2. CASE RunShare(f, s)
  BY <1>2, OverrunKept
  DEF RunShare, FromQueue, mainVars, workerVars, inputVars
<1>3. CASE TakeTurn(f, s)
  BY <1>3, OverrunKept DEF TakeTurn, Goto, mainVars, workerVars, inputVars
<1>4. CASE GiveUp(f, s)
  BY <1>4, OverrunKept
  DEF GiveUp, Returns, Goto, mainVars, workerVars, inputVars
<1>5. CASE Read(f, s)
  BY <1>5, OverrunKept
  DEF Read, Returns, Goto, mainVars, workerVars, inputVars
<1>6. CASE Decode(f, s)
  BY <1>6, OverrunKept
  DEF Decode, Returns, Goto, mainVars, workerVars, inputVars
<1>7. CASE DecodeShared(f, s)
  BY <1>7, OverrunKept DEF DecodeShared, Goto, mainVars, workerVars, inputVars
<1>8. CASE Shared(f, s)
  BY <1>8, OverrunKept
  DEF Shared, Returns, Goto, mainVars, workerVars, inputVars
<1>9. CASE DecodeFails(f, s)
  BY <1>9, OverrunKept
  DEF DecodeFails, Returns, Goto, mainVars, workerVars, inputVars
<1>10. CASE CheckTurn(f, s)
  BY <1>10, OverrunKept DEF CheckTurn, Goto, mainVars, workerVars, inputVars
<1> QED
  BY <1>1, <1>2, <1>3, <1>4, <1>5, <1>6, <1>7, <1>8, <1>9, <1>10 DEF PoolStep

-----------------------------------------------------------------------------
(* Tasks run in open streams.                                              *)

LEMMA JobsSame ==
  ASSUME UNCHANGED inputVars
  PROVE  \A f \in Files : JobsOf(f)' = JobsOf(f)
  BY DEF JobsOf, inputVars

LEMMA FilesOfWorkers ==
  ASSUME Driver, NEW w \in Threads, HasFile(w)
  PROVE  file[w] \in Files /\ file[w] \in 1..nbFiles
  BY DEF Driver, WorkerTypeOK, InputTypeOK, Handout, Files, Threads

LEMMA TasksKept ==
  ASSUME Tasks, UNCHANGED inputVars,
         \A w \in Threads : HasStream(w) => HasStream(w)' /\ file'[w] = file[w],
         \A f \in Files, s \in Slots :
           /\ Active(f, s)' => Active(f, s)
           /\ pc'[f][s] # "none" => pc[f][s] # "none"
  PROVE  Tasks'
<1> SUFFICES ASSUME NEW f \in Files, NEW s \in Slots
             PROVE  /\ Active(f, s)' => \E w \in Threads :
                                          file'[w] = f /\ HasStream(w)'
                    /\ pc'[f][s] # "none" => f <= nbFiles' /\ s < JobsOf(f)'
  BY DEF Tasks
<1>1. JobsOf(f)' = JobsOf(f) /\ nbFiles' = nbFiles
  BY JobsSame DEF inputVars
<1>2. ASSUME Active(f, s)'
      PROVE  \E w \in Threads : file'[w] = f /\ HasStream(w)'
  <2>1. PICK w \in Threads : file[w] = f /\ HasStream(w)
    BY <1>2 DEF Tasks
  <2> QED
    BY <2>1
<1>3. pc[f][s] # "none" => f <= nbFiles /\ s < JobsOf(f)
  BY DEF Tasks
<1> QED
  BY <1>1, <1>2, <1>3

\* A task that the pool takes from its queue is there.
LEMMA Queued ==
  ASSUME PlaceTypeOK, Queue, NEW f \in Files, NEW s \in Slots,
         NEW k \in {"block", "share"}, queue # <<>>, Head(queue) = <<f, s, k>>
  PROVE  IF k = "block" THEN pc[f][s] = "queued"
                        ELSE pc[f][s] = "nested" /\ shares[f][s] > 0
<1>1. queue \in Seq(Files \X Slots \X {"block", "share"})
  BY DEF PlaceTypeOK
<1>2. Times(<<f, s, k>>) = Cardinality(Places(Tail(queue), <<f, s, k>>)) + 1
  BY <1>1, PlacesPop DEF Times
<1>3. Tail(queue) \in Seq(Files \X Slots \X {"block", "share"})
  BY <1>1
<1>4. Cardinality(Places(Tail(queue), <<f, s, k>>)) \in Nat
  <2>1. Cardinality(Places(Tail(queue), <<f, s, k>>)) \in 0..Len(Tail(queue))
    BY <1>3, PlacesFinite
  <2> QED
    BY <2>1
<1>5. Times(<<f, s, k>>) > 0
  BY <1>2, <1>4
<1>6. CASE k = "block"
  <2>1. Times(<<f, s, "block">>) # 0
    BY <1>5, <1>6
  <2> QED
    BY <1>6, <2>1 DEF Queue, OnQueue
<1>7. CASE k = "share"
  <2>1. Times(<<f, s, "share">>) > 0
    BY <1>5, <1>7
  <2>2. Times(<<f, s, "share">>) =
          IF pc[f][s] = "nested" THEN shares[f][s] ELSE 0
    BY DEF Queue, Owed
  <2> QED
    BY <1>7, <2>1, <2>2
<1> QED
  BY <1>6, <1>7

LEMMA TasksMain ==
  ASSUME Driver, Tasks, MainStep
  PROVE  Tasks'
<1> USE ConstantsAssumption
    DEF Driver, WorkerTypeOK, PlaceTypeOK, Threads, Files, Active, HasStream
<1>1. CASE StartWorker
  BY <1>1, TasksKept
  DEF StartWorker, inputVars, streamVars, Waiting, MainTypeOK, InputTypeOK
<1>2. CASE StartFails
  BY <1>2, TasksKept DEF StartFails, workerVars, inputVars, streamVars
<1>3. CASE CollectOk
  BY <1>3, TasksKept
  DEF CollectOk, Advance, MoreResults, workerVars, inputVars, streamVars
<1>4. CASE CollectFailed
  BY <1>4, TasksKept DEF CollectFailed, workerVars, inputVars, streamVars
<1>5. CASE CollectThrown
  BY <1>5, TasksKept DEF CollectThrown, workerVars, inputVars, streamVars
<1>6. CASE Clear
  BY <1>6, TasksKept
  DEF Clear, Advance, MoreResults, Cleared, workerVars, inputVars, streamVars
<1>7. CASE Rescue
  BY <1>7, TasksKept DEF Rescue, Cleared, workerVars, inputVars, streamVars
<1>8. CASE WaitAll
  BY <1>8, TasksKept
  DEF WaitAll, WorkersOver, workerVars, inputVars, streamVars
<1>9. CASE Delete
  BY <1>9, TasksKept DEF Delete, workerVars, inputVars, streamVars
<1>10. CASE Join
  BY <1>10, TasksKept DEF Join, workerVars, inputVars, streamVars
<1> QED
  BY <1>1, <1>2, <1>3, <1>4, <1>5, <1>6, <1>7, <1>8, <1>9, <1>10 DEF MainStep

LEMMA TasksWorker ==
  ASSUME NEW w \in Threads, Driver, PlaceTypeOK, StreamTypeOK, Tasks,
         WorkerStep(w)
  PROVE  Tasks'
<1> USE ConstantsAssumption
    DEF Driver, WorkerTypeOK, PlaceTypeOK, Threads, Files, Active, HasStream
<1>1. CASE TakeFile(w)
  BY <1>1, TasksKept DEF TakeFile, mainVars, inputVars, streamVars
<1>2. CASE Open(w)
  <2> DEFINE g == file[w]
  <2>0. HasFile(w)
    BY <1>2 DEF Open, HasFile
  <2>1. g \in Files /\ g \in 1..nbFiles
    BY <2>0, FilesOfWorkers
  <2>2. UNCHANGED inputVars /\ nbFiles' = nbFiles
        /\ file' = file /\ wpc' = [wpc EXCEPT ![w] = "read"]
        /\ pc' = [pc EXCEPT ![g] =
                    [s \in Slots |-> IF s < JobsOf(g) THEN "queued" ELSE "none"]]
    BY <1>2 DEF Open, inputVars
  <2>3. \A v \in Threads : HasStream(v) => HasStream(v)'
    BY <2>2
  <2>4. HasStream(w)'
    BY <2>2
  <2> HIDE DEF g
  <2> SUFFICES ASSUME NEW f \in Files, NEW s \in Slots
               PROVE  /\ Active(f, s)' => \E v \in Threads :
                                            file'[v] = f /\ HasStream(v)'
                      /\ pc'[f][s] # "none" => f <= nbFiles' /\ s < JobsOf(f)'
    BY DEF Tasks
  <2>5. JobsOf(f)' = JobsOf(f)
    BY <2>2, JobsSame
  <2>6. CASE f = g
    <3>1. pc'[f][s] # "none" => s < JobsOf(f)
      BY <2>2, <2>6, <2>1
    <3> QED
      BY <2>1, <2>2, <2>4, <2>5, <2>6, <3>1 DEF g
  <2>7. CASE f # g
    <3>1. pc'[f][s] = pc[f][s]
      BY <2>1, <2>2, <2>7
    <3>2. /\ Active(f, s) => \E v \in Threads : file[v] = f /\ HasStream(v)
          /\ pc[f][s] # "none" => f <= nbFiles /\ s < JobsOf(f)
      BY DEF Tasks
    <3> QED
      BY <2>2, <2>3, <2>5, <3>1, <3>2
  <2> QED
    BY <2>6, <2>7
<1>3. CASE OpenFails(w)
  BY <1>3, TasksKept DEF OpenFails, Leave, mainVars, inputVars, streamVars
<1>4. CASE Escape(w)
  BY <1>4, TasksKept DEF Escape, Leave, mainVars, inputVars, streamVars
<1>5. CASE CollectBlock(w)
  <2> DEFINE g == file[w]
             k == current[file[w]]
  <2>0. HasFile(w)
    BY <1>5 DEF CollectBlock, Collects, HasFile
  <2>1. g \in Files /\ k \in Slots
    BY <2>0, FilesOfWorkers DEF StreamTypeOK
  <2>2. /\ UNCHANGED inputVars /\ file' = file /\ wpc' = wpc
        /\ wpc[w] = "read" /\ pc[g][k] = "over" /\ nbFiles' = nbFiles
        /\ pc' = [pc EXCEPT ![g][k] = "queued"]
    BY <1>5 DEF CollectBlock, Collects, workerVars, inputVars
  <2> SUFFICES ASSUME NEW f \in Files, NEW s \in Slots
               PROVE  /\ Active(f, s)' => \E v \in Threads :
                                            file'[v] = f /\ HasStream(v)'
                      /\ pc'[f][s] # "none" => f <= nbFiles' /\ s < JobsOf(f)'
    BY DEF Tasks
  <2>3. JobsOf(f)' = JobsOf(f)
    BY <2>2, JobsSame
  <2>4. /\ Active(f, s) => \E v \in Threads : file[v] = f /\ HasStream(v)
        /\ pc[f][s] # "none" => f <= nbFiles /\ s < JobsOf(f)
    BY DEF Tasks
  <2>5. CASE f = g /\ s = k
    BY <2>2, <2>3, <2>4, <2>5
  <2>6. CASE ~(f = g /\ s = k)
    <3>1. pc'[f][s] = pc[f][s]
      BY <2>1, <2>2, <2>6
    <3> QED
      BY <2>2, <2>3, <2>4, <3>1
  <2> QED
    BY <2>5, <2>6
<1>6. CASE CollectEnd(w)
  BY <1>6, TasksKept
  DEF CollectEnd, Collects, CloseStream, mainVars, inputVars
<1>7. CASE CollectError(w)
  BY <1>7, TasksKept
  DEF CollectError, Collects, CloseStream, mainVars, inputVars
<1>8. CASE WriteFails(w)
  BY <1>8, TasksKept DEF WriteFails, CloseStream, mainVars, inputVars
<1>9. CASE Drain(w)
  <2> DEFINE g == file[w]
  <2>0. HasFile(w) /\ HasStream(w)
    BY <1>9 DEF Drain, HasFile
  <2>1. g \in Files
    BY <2>0, FilesOfWorkers
  <2>2. /\ UNCHANGED inputVars /\ nbFiles' = nbFiles /\ pc' = pc /\ file' = file
        /\ \A s \in Slots : ~Active(g, s)
        /\ \A v \in Threads : v # w => wpc'[v] = wpc[v]
    BY <1>9 DEF Drain, Leave, Drained, streamVars, inputVars
  <2> SUFFICES ASSUME NEW f \in Files, NEW s \in Slots
               PROVE  /\ Active(f, s)' => \E v \in Threads :
                                            file'[v] = f /\ HasStream(v)'
                      /\ pc'[f][s] # "none" => f <= nbFiles' /\ s < JobsOf(f)'
    BY DEF Tasks
  <2>3. JobsOf(f)' = JobsOf(f)
    BY <2>2, JobsSame
  <2>4. pc[f][s] # "none" => f <= nbFiles /\ s < JobsOf(f)
    BY DEF Tasks
  <2>5. ASSUME Active(f, s)'
        PROVE  \E v \in Threads : file'[v] = f /\ HasStream(v)'
    <3>1. Active(f, s) /\ f # g
      BY <2>2, <2>5
    <3>2. PICK v \in Threads : file[v] = f /\ HasStream(v)
      BY <3>1 DEF Tasks
    <3> QED
      BY <2>2, <3>1, <3>2
  <2> QED
    BY <2>2, <2>3, <2>4, <2>5
<1>10. CASE Abort(w)
  <2> DEFINE g == file[w]
  <2>0. HasFile(w) /\ HasStream(w)
    BY <1>10 DEF Abort, HasFile
  <2>1. g \in Files
    BY <2>0, FilesOfWorkers
  <2>2. /\ UNCHANGED inputVars /\ nbFiles' = nbFiles /\ pc' = pc /\ file' = file
        /\ \A s \in Slots : ~Active(g, s)
        /\ \A v \in Threads : v # w => wpc'[v] = wpc[v]
    BY <1>10 DEF Abort, Leave, Drained, streamVars, inputVars
  <2> SUFFICES ASSUME NEW f \in Files, NEW s \in Slots
               PROVE  /\ Active(f, s)' => \E v \in Threads :
                                            file'[v] = f /\ HasStream(v)'
                      /\ pc'[f][s] # "none" => f <= nbFiles' /\ s < JobsOf(f)'
    BY DEF Tasks
  <2>3. JobsOf(f)' = JobsOf(f)
    BY <2>2, JobsSame
  <2>4. pc[f][s] # "none" => f <= nbFiles /\ s < JobsOf(f)
    BY DEF Tasks
  <2>5. ASSUME Active(f, s)'
        PROVE  \E v \in Threads : file'[v] = f /\ HasStream(v)'
    <3>1. Active(f, s) /\ f # g
      BY <2>2, <2>5
    <3>2. PICK v \in Threads : file[v] = f /\ HasStream(v)
      BY <3>1 DEF Tasks
    <3> QED
      BY <2>2, <3>1, <3>2
  <2> QED
    BY <2>2, <2>3, <2>4, <2>5
<1>11. CASE Finish(w)
  BY <1>11, TasksKept DEF Finish, Leave, mainVars, inputVars, streamVars
<1> QED
  BY <1>1, <1>2, <1>3, <1>4, <1>5, <1>6, <1>7, <1>8, <1>9, <1>10, <1>11
  DEF WorkerStep

LEMMA TasksPool ==
  ASSUME NEW f \in Files, NEW s \in Slots, Driver, PlaceTypeOK, Queue, Tasks,
         PoolStep(f, s)
  PROVE  Tasks'
<1> USE ConstantsAssumption
    DEF Driver, WorkerTypeOK, PlaceTypeOK, Threads, Files, Active, HasStream
<1>1. CASE StartTask(f, s)
  <2>1. pc[f][s] = "queued"
    BY <1>1, Queued DEF StartTask, FromQueue
  <2>2. pc' = [pc EXCEPT ![f][s] = "wait"]
    BY <1>1 DEF StartTask, Goto
  <2>3. \A g \in Files, t \in Slots :
          pc'[g][t] = IF g = f /\ t = s THEN "wait" ELSE pc[g][t]
    BY <2>2
  <2>4. UNCHANGED <<wpc, file, inputVars>>
    BY <1>1 DEF StartTask, workerVars, inputVars
  <2> QED
    BY <2>1, <2>3, <2>4, TasksKept
<1>2. CASE RunShare(f, s)
  BY <1>2, TasksKept DEF RunShare, FromQueue, mainVars, workerVars, inputVars
<1>3. CASE TakeTurn(f, s)
  BY <1>3, TasksKept DEF TakeTurn, Goto, mainVars, workerVars, inputVars
<1>4. CASE GiveUp(f, s)
  BY <1>4, TasksKept
  DEF GiveUp, Returns, Goto, mainVars, workerVars, inputVars
<1>5. CASE Read(f, s)
  <2>1. pc[f][s] = "read" /\ UNCHANGED <<wpc, file, inputVars>>
    BY <1>5 DEF Read, workerVars, inputVars
  <2>2. PICK x \in {"decode", "over"} : pc' = [pc EXCEPT ![f][s] = x]
    BY <1>5 DEF Read, Returns, Goto
  <2>3. \A g \in Files, t \in Slots :
          pc'[g][t] = IF g = f /\ t = s THEN x ELSE pc[g][t]
    BY <2>2
  <2> QED
    BY <2>1, <2>3, TasksKept
<1>6. CASE Decode(f, s)
  BY <1>6, TasksKept
  DEF Decode, Returns, Goto, mainVars, workerVars, inputVars
<1>7. CASE DecodeShared(f, s)
  BY <1>7, TasksKept DEF DecodeShared, Goto, mainVars, workerVars, inputVars
<1>8. CASE Shared(f, s)
  BY <1>8, TasksKept
  DEF Shared, Returns, Goto, mainVars, workerVars, inputVars
<1>9. CASE DecodeFails(f, s)
  BY <1>9, TasksKept
  DEF DecodeFails, Returns, Goto, mainVars, workerVars, inputVars
<1>10. CASE CheckTurn(f, s)
  BY <1>10, TasksKept DEF CheckTurn, Goto, mainVars, workerVars, inputVars
<1> QED
  BY <1>1, <1>2, <1>3, <1>4, <1>5, <1>6, <1>7, <1>8, <1>9, <1>10 DEF PoolStep

-----------------------------------------------------------------------------
(* The queue of the pool.                                                  *)

Entries == Files \X Slots \X {"block", "share"}

LEMMA PlacesDistinct ==
  ASSUME NEW n \in Nat, NEW g, NEW e
  PROVE  Cardinality(Places([i \in 1..n |-> <<g, i - 1, "block">>], e)) =
           IF \E j \in 1..n : e = <<g, j - 1, "block">> THEN 1 ELSE 0
<1> DEFINE r == [i \in 1..n |-> <<g, i - 1, "block">>]
<1>1. Places(r, e) = {i \in 1..n : <<g, i - 1, "block">> = e}
  BY DEF Places
<1>2. CASE \E j \in 1..n : e = <<g, j - 1, "block">>
  <2>1. PICK j \in 1..n : e = <<g, j - 1, "block">>
    BY <1>2
  <2>2. Places(r, e) = {j}
    <3>1. \A i \in 1..n : <<g, i - 1, "block">> = e <=> i = j
      BY <2>1
    <3> QED
      BY <1>1, <3>1
  <2> HIDE DEF r
  <2>3. Cardinality(Places(r, e)) = 1
    BY <2>2, FS_Singleton
  <2> QED
    BY <1>2, <2>3 DEF r
<1>3. CASE ~\E j \in 1..n : e = <<g, j - 1, "block">>
  <2>1. Places(r, e) = {}
    BY <1>1, <1>3
  <2> HIDE DEF r
  <2>2. Cardinality(Places(r, e)) = 0
    BY <2>1, FS_EmptySet
  <2> QED
    BY <1>3, <2>2 DEF r
<1> QED
  BY <1>2, <1>3

Copies(n, x) == [i \in 1..n |-> x]

LEMMA PlacesCopies ==
  ASSUME NEW n \in Nat, NEW x, NEW e
  PROVE  Cardinality(Places(Copies(n, x), e)) = IF x = e THEN n ELSE 0
<1> DEFINE r == Copies(n, x)
<1>1. Places(r, e) = IF x = e THEN 1..n ELSE {}
  BY DEF Places, Copies
<1>2. Cardinality(1..n) = n
  BY FS_Interval
<1>3. Cardinality({}) = 0
  BY FS_EmptySet
<1> HIDE DEF r
<1>4. Cardinality(Places(r, e)) = IF x = e THEN n ELSE 0
  BY <1>1, <1>2, <1>3
<1> QED
  BY <1>4 DEF r

LEMMA TimesType ==
  ASSUME PlaceTypeOK, NEW e
  PROVE  Times(e) \in Nat
<1>1. queue \in Seq(Entries)
  BY DEF PlaceTypeOK, Entries
<1>2. Times(e) \in 0..Len(queue) /\ Len(queue) \in Nat
  BY <1>1, PlacesFinite DEF Times
<1> QED
  BY <1>2

LEMMA QueueKept ==
  ASSUME Queue, queue' = queue,
         \A f \in Files, s \in Slots :
           OnQueue(f, s)' = OnQueue(f, s) /\ Owed(f, s)' = Owed(f, s)
  PROVE  Queue'
<1>1. \A e : Times(e)' = Times(e)
  BY DEF Times
<1> QED
  BY <1>1 DEF Queue

LEMMA QueueMain ==
  ASSUME Queue, MainStep
  PROVE  Queue'
<1>1. UNCHANGED <<queue, pc, shares>>
  BY DEF MainStep, StartWorker, StartFails, CollectOk, CollectFailed,
         CollectThrown, Clear, Rescue, WaitAll, Delete, Join, streamVars
<1> QED
  BY <1>1, QueueKept DEF OnQueue, Owed

LEMMA QueueWorker ==
  ASSUME NEW w \in Threads, Driver, PlaceTypeOK, StreamTypeOK, Tasks, Queue,
         WorkerStep(w)
  PROVE  Queue'
<1>1. CASE TakeFile(w)
  BY <1>1, QueueKept
  DEF TakeFile, mainVars, inputVars, streamVars, OnQueue, Owed
<1>2. CASE Open(w)
  <2> DEFINE g == file[w]
             n == JobsOf(g)
             r == [i \in 1..n |-> <<g, i - 1, "block">>]
  <2>0. HasFile(w) /\ wpc[w] = "open"
    BY <1>2 DEF Open, HasFile
  <2>1. g \in Files /\ n \in 1..jobs /\ jobs \in 2..MaxJobs /\ MaxJobs \in Nat
    BY <2>0, FilesOfWorkers, JobsOfRange, ConstantsAssumption
    DEF Driver, InputTypeOK
  <2>2. \A s \in Slots : ~Active(g, s)
    BY <2>0, <2>1 DEF Tasks, HasStream, Driver, Handout, Files
  <2>3. /\ shares' = shares
        /\ pc' = [pc EXCEPT ![g] =
                    [s \in Slots |-> IF s < n THEN "queued" ELSE "none"]]
    BY <1>2 DEF Open
  <2>4. queue' = queue \o r
    BY <1>2 DEF Open
  <2> HIDE DEF g, n
  <2>5. n \in Nat /\ Slots = 0..(MaxJobs - 1)
    BY <2>1 DEF Slots
  <2>6. r \in Seq(Entries)
    <3>1. \A i \in 1..n : <<g, i - 1, "block">> \in Entries
      BY <2>1, <2>5 DEF Entries
    <3> QED
      BY <3>1, <2>5
  <2>7. \A e : Times(e)' = Times(e) + Cardinality(Places(r, e))
    <3> SUFFICES ASSUME NEW e
                 PROVE  Times(e)' = Times(e) + Cardinality(Places(r, e))
      OBVIOUS
    <3>1. queue \in Seq(Entries)
      BY DEF PlaceTypeOK, Entries
    <3> HIDE DEF r
    <3>2. Cardinality(Places(queue \o r, e)) =
            Cardinality(Places(queue, e)) + Cardinality(Places(r, e))
      BY <3>1, <2>6, PlacesJoin
    <3> QED
      BY <2>4, <3>2 DEF Times
  <2>8. \A e : Cardinality(Places(r, e)) =
                 IF \E j \in 1..n : e = <<g, j - 1, "block">> THEN 1 ELSE 0
    BY <2>5, PlacesDistinct
  <2> HIDE DEF r
  <2> SUFFICES ASSUME NEW f \in Files, NEW s \in Slots
               PROVE  /\ Times(<<f, s, "block">>)' = OnQueue(f, s)'
                      /\ Times(<<f, s, "share">>)' = Owed(f, s)'
    BY DEF Queue
  <2>9. /\ Times(<<f, s, "block">>) = OnQueue(f, s)
        /\ Times(<<f, s, "share">>) = Owed(f, s)
    BY DEF Queue
  <2>10. Times(<<f, s, "share">>)' = Times(<<f, s, "share">>)
    <3>1. Cardinality(Places(r, <<f, s, "share">>)) = 0
      BY <2>8
    <3> QED
      BY <2>7, <3>1, TimesType
  <2>11. CASE f = g
    <3>1. ~Active(f, s)
      BY <2>2, <2>11
    <3>2. OnQueue(f, s) = 0 /\ Owed(f, s) = 0
      BY <3>1 DEF Active, OnQueue, Owed
    <3>3. pc'[f][s] = IF s < n THEN "queued" ELSE "none"
      BY <2>3, <2>11, <2>1 DEF PlaceTypeOK
    <3>4. Owed(f, s)' = 0 /\ OnQueue(f, s)' = IF s < n THEN 1 ELSE 0
      BY <3>3 DEF Owed, OnQueue
    <3>5. Cardinality(Places(r, <<f, s, "block">>)) = IF s < n THEN 1 ELSE 0
      <4>1. CASE s < n
        <5>1. s + 1 \in 1..n /\ s = (s + 1) - 1
          BY <4>1, <2>5
        <5>2. \E j \in 1..n : <<f, s, "block">> = <<g, j - 1, "block">>
          BY <5>1, <2>11
        <5> QED
          BY <5>2, <4>1, <2>8
      <4>2. CASE ~(s < n)
        <5>1. ~\E j \in 1..n : <<f, s, "block">> = <<g, j - 1, "block">>
          BY <4>2, <2>5
        <5> QED
          BY <5>1, <4>2, <2>8
      <4> QED
        BY <4>1, <4>2
    <3> QED
      BY <2>7, <2>9, <2>10, <3>2, <3>4, <3>5
  <2>12. CASE f # g
    <3>1. pc'[f][s] = pc[f][s] /\ shares' = shares
      BY <2>3, <2>12 DEF PlaceTypeOK
    <3>2. Owed(f, s)' = Owed(f, s) /\ OnQueue(f, s)' = OnQueue(f, s)
      BY <3>1 DEF Owed, OnQueue
    <3>3. Cardinality(Places(r, <<f, s, "block">>)) = 0
      BY <2>8, <2>12
    <3>4. Times(<<f, s, "block">>)' = Times(<<f, s, "block">>)
      BY <2>7, <3>3, TimesType
    <3> QED
      BY <2>9, <2>10, <3>2, <3>4
  <2> QED
    BY <2>11, <2>12
<1>3. CASE OpenFails(w)
  BY <1>3, QueueKept
  DEF OpenFails, Leave, mainVars, inputVars, streamVars, OnQueue, Owed
<1>4. CASE Escape(w)
  BY <1>4, QueueKept
  DEF Escape, Leave, mainVars, inputVars, streamVars, OnQueue, Owed
<1>5. CASE CollectBlock(w)
  <2> DEFINE g == file[w]
             k == current[file[w]]
  <2>0. HasFile(w)
    BY <1>5 DEF CollectBlock, Collects, HasFile
  <2>1. g \in Files /\ k \in Slots
    BY <2>0, FilesOfWorkers DEF StreamTypeOK
  <2>2. /\ shares' = shares /\ pc[g][k] = "over"
        /\ pc' = [pc EXCEPT ![g][k] = "queued"]
        /\ queue' = Append(queue, <<g, k, "block">>)
    BY <1>5 DEF CollectBlock, Collects
  <2>3. queue \in Seq(Entries) /\ <<g, k, "block">> \in Entries
    BY <2>1 DEF PlaceTypeOK, Entries
  <2> HIDE DEF g, k
  <2>4. \A e : Times(e)' = Times(e) + (IF <<g, k, "block">> = e THEN 1 ELSE 0)
    <3> SUFFICES ASSUME NEW e
        PROVE  Times(e)' = Times(e) + (IF <<g, k, "block">> = e THEN 1 ELSE 0)
      OBVIOUS
    <3> QED
      BY <2>2, <2>3, PlacesAppend DEF Times
  <2> SUFFICES ASSUME NEW f \in Files, NEW s \in Slots
               PROVE  /\ Times(<<f, s, "block">>)' = OnQueue(f, s)'
                      /\ Times(<<f, s, "share">>)' = Owed(f, s)'
    BY DEF Queue
  <2>5. /\ Times(<<f, s, "block">>) = OnQueue(f, s)
        /\ Times(<<f, s, "share">>) = Owed(f, s)
    BY DEF Queue
  <2>6. pc'[f][s] = IF f = g /\ s = k THEN "queued" ELSE pc[f][s]
    BY <2>1, <2>2 DEF PlaceTypeOK
  <2>7. Times(<<f, s, "share">>)' = Times(<<f, s, "share">>)
    BY <2>4, TimesType
  <2>8. Owed(f, s)' = Owed(f, s)
    BY <2>2, <2>6 DEF Owed
  <2>9. CASE f = g /\ s = k
    <3>1. OnQueue(f, s) = 0 /\ OnQueue(f, s)' = 1
      BY <2>2, <2>6, <2>9 DEF OnQueue
    <3> QED
      BY <2>4, <2>5, <2>7, <2>8, <2>9, <3>1
  <2>10. CASE ~(f = g /\ s = k)
    <3>1. OnQueue(f, s)' = OnQueue(f, s)
      BY <2>6, <2>10 DEF OnQueue
    <3>2. Times(<<f, s, "block">>)' = Times(<<f, s, "block">>)
      BY <2>4, <2>10, TimesType
    <3> QED
      BY <2>5, <2>7, <2>8, <3>1, <3>2
  <2> QED
    BY <2>9, <2>10
<1>6. CASE CollectEnd(w)
  BY <1>6, QueueKept
  DEF CollectEnd, Collects, CloseStream, mainVars, inputVars, OnQueue, Owed
<1>7. CASE CollectError(w)
  BY <1>7, QueueKept
  DEF CollectError, Collects, CloseStream, mainVars, inputVars, OnQueue, Owed
<1>8. CASE WriteFails(w)
  BY <1>8, QueueKept
  DEF WriteFails, CloseStream, mainVars, inputVars, OnQueue, Owed
<1>9. CASE Drain(w)
  BY <1>9, QueueKept
  DEF Drain, Drained, Leave, mainVars, inputVars, streamVars, OnQueue, Owed
<1>10. CASE Abort(w)
  BY <1>10, QueueKept
  DEF Abort, Drained, Leave, mainVars, inputVars, streamVars, OnQueue, Owed
<1>11. CASE Finish(w)
  BY <1>11, QueueKept
  DEF Finish, Leave, mainVars, inputVars, streamVars, OnQueue, Owed
<1> QED
  BY <1>1, <1>2, <1>3, <1>4, <1>5, <1>6, <1>7, <1>8, <1>9, <1>10, <1>11
  DEF WorkerStep

LEMMA QueuePool ==
  ASSUME NEW f \in Files, NEW s \in Slots, Driver, PlaceTypeOK, Tasks, Queue,
         PoolStep(f, s)
  PROVE  Queue'
<1>1. CASE StartTask(f, s)
  <2>0. queue # <<>> /\ Head(queue) = <<f, s, "block">> /\ queue' = Tail(queue)
    BY <1>1 DEF StartTask, FromQueue
  <2>1. pc[f][s] = "queued"
    BY <2>0, Queued
  <2>2. pc' = [pc EXCEPT ![f][s] = "wait"] /\ shares' = shares
    BY <1>1 DEF StartTask, Goto
  <2>3. queue \in Seq(Entries)
    BY DEF PlaceTypeOK, Entries
  <2>4. \A e : Times(e) = Times(e)' + (IF <<f, s, "block">> = e THEN 1 ELSE 0)
    <3> SUFFICES ASSUME NEW e
        PROVE  Times(e) = Times(e)' + (IF <<f, s, "block">> = e THEN 1 ELSE 0)
      OBVIOUS
    <3> QED
      BY <2>0, <2>3, PlacesPop DEF Times
  <2>5. \A e : Times(e)' \in Nat
    <3>1. queue' \in Seq(Entries)
      BY <2>0, <2>3
    <3>2. \A e : Cardinality(Places(queue', e)) \in 0..Len(queue')
                 /\ Len(queue') \in Nat
      BY <3>1, PlacesFinite
    <3> QED
      BY <3>2 DEF Times
  <2> SUFFICES ASSUME NEW g \in Files, NEW t \in Slots
               PROVE  /\ Times(<<g, t, "block">>)' = OnQueue(g, t)'
                      /\ Times(<<g, t, "share">>)' = Owed(g, t)'
    BY DEF Queue
  <2>6. /\ Times(<<g, t, "block">>) = OnQueue(g, t)
        /\ Times(<<g, t, "share">>) = Owed(g, t)
    BY DEF Queue
  <2>7. pc'[g][t] = IF g = f /\ t = s THEN "wait" ELSE pc[g][t]
    BY <2>2 DEF PlaceTypeOK
  <2>8. Times(<<g, t, "share">>)' = Times(<<g, t, "share">>)
    BY <2>4, <2>5, TimesType
  <2>9. CASE g = f /\ t = s
    <3>1. Times(<<g, t, "block">>) = Times(<<g, t, "block">>)' + 1
      BY <2>4, <2>9
    <3> QED
      BY <2>1, <2>2, <2>5, <2>6, <2>7, <2>8, <2>9, <3>1
      DEF OnQueue, Owed
  <2>10. CASE ~(g = f /\ t = s)
    <3>1. Times(<<g, t, "block">>) = Times(<<g, t, "block">>)'
      BY <2>4, <2>5, <2>10
    <3> QED
      BY <2>2, <2>6, <2>7, <2>8, <2>10, <3>1 DEF OnQueue, Owed
  <2> QED
    BY <2>9, <2>10
<1>2. CASE RunShare(f, s)
  <2>0. queue # <<>> /\ Head(queue) = <<f, s, "share">> /\ queue' = Tail(queue)
    BY <1>2 DEF RunShare, FromQueue
  <2>1. pc[f][s] = "nested" /\ shares[f][s] > 0
    BY <2>0, Queued
  <2>2. shares' = [shares EXCEPT ![f][s] = shares[f][s] - 1] /\ pc' = pc
    BY <1>2 DEF RunShare, Goto
  <2>3. queue \in Seq(Entries)
    BY DEF PlaceTypeOK, Entries
  <2>4. \A e : Times(e) = Times(e)' + (IF <<f, s, "share">> = e THEN 1 ELSE 0)
    <3> SUFFICES ASSUME NEW e
        PROVE  Times(e) = Times(e)' + (IF <<f, s, "share">> = e THEN 1 ELSE 0)
      OBVIOUS
    <3> QED
      BY <2>0, <2>3, PlacesPop DEF Times
  <2>5. \A e : Times(e)' \in Nat
    <3>1. queue' \in Seq(Entries)
      BY <2>0, <2>3
    <3>2. \A e : Cardinality(Places(queue', e)) \in 0..Len(queue')
                 /\ Len(queue') \in Nat
      BY <3>1, PlacesFinite
    <3> QED
      BY <3>2 DEF Times
  <2> SUFFICES ASSUME NEW g \in Files, NEW t \in Slots
               PROVE  /\ Times(<<g, t, "block">>)' = OnQueue(g, t)'
                      /\ Times(<<g, t, "share">>)' = Owed(g, t)'
    BY DEF Queue
  <2>6. /\ Times(<<g, t, "block">>) = OnQueue(g, t)
        /\ Times(<<g, t, "share">>) = Owed(g, t)
    BY DEF Queue
  <2>7. /\ shares'[g][t] = IF g = f /\ t = s THEN shares[g][t] - 1
                                             ELSE shares[g][t]
        /\ shares[g][t] \in Nat
    BY <2>2 DEF PlaceTypeOK
  <2>8. Times(<<g, t, "block">>)' = Times(<<g, t, "block">>)
    BY <2>4, <2>5, TimesType
  <2>9. CASE g = f /\ t = s
    <3>1. Times(<<g, t, "share">>) = Times(<<g, t, "share">>)' + 1
      BY <2>4, <2>9
    <3> QED
      BY <2>1, <2>2, <2>5, <2>6, <2>7, <2>8, <2>9, <3>1
      DEF OnQueue, Owed
  <2>10. CASE ~(g = f /\ t = s)
    <3>1. Times(<<g, t, "share">>) = Times(<<g, t, "share">>)'
      BY <2>4, <2>5, <2>10
    <3> QED
      BY <2>2, <2>6, <2>7, <2>8, <2>10, <3>1 DEF OnQueue, Owed
  <2> QED
    BY <2>9, <2>10
<1>3. CASE TakeTurn(f, s)
  BY <1>3, QueueKept
  DEF TakeTurn, Goto, mainVars, workerVars, inputVars, OnQueue, Owed,
      PlaceTypeOK
<1>4. CASE GiveUp(f, s)
  BY <1>4, QueueKept
  DEF GiveUp, Returns, Goto, mainVars, workerVars, inputVars, OnQueue, Owed,
      PlaceTypeOK
<1>5. CASE Read(f, s)
  <2>1. pc[f][s] = "read" /\ queue' = queue /\ shares' = shares
    BY <1>5 DEF Read
  <2>2. PICK x \in {"decode", "over"} : pc' = [pc EXCEPT ![f][s] = x]
    BY <1>5 DEF Read, Returns, Goto
  <2>3. \A g \in Files, t \in Slots :
          pc'[g][t] = IF g = f /\ t = s THEN x ELSE pc[g][t]
    BY <2>2 DEF PlaceTypeOK
  <2> QED
    BY <2>1, <2>3, QueueKept DEF OnQueue, Owed
<1>6. CASE Decode(f, s)
  BY <1>6, QueueKept
  DEF Decode, Returns, Goto, mainVars, workerVars, inputVars, OnQueue, Owed,
      PlaceTypeOK
<1>7. CASE DecodeShared(f, s)
  <2> DEFINE n == JobsInTask(f, s)
             x == <<f, s, "share">>
             r == Copies(n, x)
  <2>0. /\ pc[f][s] = "decode" /\ queue' = queue \o r
        /\ shares' = [shares EXCEPT ![f][s] = n]
        /\ pc' = [pc EXCEPT ![f][s] = "nested"]
    BY <1>7 DEF DecodeShared, Goto, Copies
  <2>1. n \in 1..MaxJobs /\ MaxJobs \in Nat
    <3>1. f <= nbFiles /\ nbFiles \in Nat
      BY <2>0 DEF Tasks, Driver, InputTypeOK
    <3>2. f \in 1..nbFiles
      BY <3>1 DEF Files
    <3> QED
      BY <3>2, JobsInTaskRange, ConstantsAssumption DEF Driver
  <2> HIDE DEF n
  <2>2. queue \in Seq(Entries) /\ n \in Nat /\ x \in Entries
    BY <2>1 DEF PlaceTypeOK, Entries
  <2>3. r \in Seq(Entries)
    BY <2>2 DEF Copies
  <2>4. \A e : Times(e)' = Times(e) + (IF x = e THEN n ELSE 0)
    <3> SUFFICES ASSUME NEW e
                 PROVE  Times(e)' = Times(e) + (IF x = e THEN n ELSE 0)
      OBVIOUS
    <3>1. Cardinality(Places(r, e)) = IF x = e THEN n ELSE 0
      BY <2>2, PlacesCopies
    <3> HIDE DEF r
    <3>2. Cardinality(Places(queue \o r, e)) =
            Cardinality(Places(queue, e)) + Cardinality(Places(r, e))
      BY <2>2, <2>3, PlacesJoin
    <3> QED
      BY <2>0, <3>1, <3>2 DEF Times
  <2> HIDE DEF r
  <2> SUFFICES ASSUME NEW g \in Files, NEW t \in Slots
               PROVE  /\ Times(<<g, t, "block">>)' = OnQueue(g, t)'
                      /\ Times(<<g, t, "share">>)' = Owed(g, t)'
    BY DEF Queue
  <2>6. /\ Times(<<g, t, "block">>) = OnQueue(g, t)
        /\ Times(<<g, t, "share">>) = Owed(g, t)
    BY DEF Queue
  <2>7. /\ pc'[g][t] = IF g = f /\ t = s THEN "nested" ELSE pc[g][t]
        /\ shares'[g][t] = IF g = f /\ t = s THEN n ELSE shares[g][t]
    BY <2>0 DEF PlaceTypeOK
  <2>8. Times(<<g, t, "block">>)' = Times(<<g, t, "block">>)
    BY <2>4, TimesType
  <2>9. CASE g = f /\ t = s
    <3>1. Owed(g, t) = 0 /\ OnQueue(g, t) = 0
      BY <2>0, <2>9 DEF Owed, OnQueue
    <3>2. Owed(g, t)' = n /\ OnQueue(g, t)' = 0
      BY <2>7, <2>9 DEF Owed, OnQueue
    <3> QED
      BY <2>4, <2>2, <2>6, <2>8, <2>9, <3>1, <3>2
  <2>10. CASE ~(g = f /\ t = s)
    <3>1. Owed(g, t)' = Owed(g, t) /\ OnQueue(g, t)' = OnQueue(g, t)
      BY <2>7, <2>10 DEF Owed, OnQueue
    <3>2. Times(<<g, t, "share">>)' = Times(<<g, t, "share">>)
      BY <2>4, <2>10, TimesType
    <3> QED
      BY <2>6, <2>8, <3>1, <3>2
  <2> QED
    BY <2>9, <2>10
<1>8. CASE Shared(f, s)
  BY <1>8, QueueKept
  DEF Shared, Returns, Goto, mainVars, workerVars, inputVars, OnQueue, Owed,
      PlaceTypeOK
<1>9. CASE DecodeFails(f, s)
  BY <1>9, QueueKept
  DEF DecodeFails, Returns, Goto, mainVars, workerVars, inputVars, OnQueue,
      Owed, PlaceTypeOK
<1>10. CASE CheckTurn(f, s)
  BY <1>10, QueueKept
  DEF CheckTurn, Goto, mainVars, workerVars, inputVars, OnQueue, Owed,
      PlaceTypeOK
<1> QED
  BY <1>1, <1>2, <1>3, <1>4, <1>5, <1>6, <1>7, <1>8, <1>9, <1>10 DEF PoolStep

-----------------------------------------------------------------------------
(* The types of the streams.                                               *)

LEMMA PlaceMain ==
  ASSUME PlaceTypeOK, StreamTypeOK, MainStep
  PROVE  PlaceTypeOK' /\ StreamTypeOK'
<1>1. UNCHANGED streamVars /\ queue' = queue
  BY DEF MainStep, StartWorker, StartFails, CollectOk, CollectFailed,
         CollectThrown, Clear, Rescue, WaitAll, Delete, Join
<1> QED
  BY <1>1 DEF PlaceTypeOK, StreamTypeOK, streamVars

LEMMA QueueType ==
  ASSUME PlaceTypeOK
  PROVE  /\ queue \in Seq(Entries)
         /\ pc \in [Files -> [Slots -> {"none", "queued", "wait", "recheck",
                                        "read", "decode", "nested", "over"}]]
         /\ shares \in [Files -> [Slots -> 0..MaxJobs]]
  BY DEF PlaceTypeOK, Entries

LEMMA PlaceWorker ==
  ASSUME NEW w \in Threads, Driver, PlaceTypeOK, StreamTypeOK, WorkerStep(w)
  PROVE  PlaceTypeOK'
<1>1. CASE TakeFile(w)
  BY <1>1 DEF TakeFile, mainVars, inputVars, streamVars, PlaceTypeOK
<1>2. CASE Open(w)
  <2> DEFINE g == file[w]
             n == JobsOf(g)
             r == [i \in 1..n |-> <<g, i - 1, "block">>]
  <2>0. HasFile(w)
    BY <1>2 DEF Open, HasFile
  <2>1. g \in Files /\ n \in 1..jobs /\ jobs \in 2..MaxJobs /\ MaxJobs \in Nat
    BY <2>0, FilesOfWorkers, JobsOfRange, ConstantsAssumption
    DEF Driver, InputTypeOK
  <2>2. /\ UNCHANGED shares
        /\ pc' = [pc EXCEPT ![g] =
                    [s \in Slots |-> IF s < n THEN "queued" ELSE "none"]]
        /\ queue' = queue \o r
    BY <1>2 DEF Open
  <2> HIDE DEF g, n
  <2>3. r \in Seq(Entries)
    <3>1. n \in Nat /\ \A i \in 1..n : <<g, i - 1, "block">> \in Entries
      BY <2>1 DEF Entries, Slots
    <3> QED
      BY <3>1
  <2> HIDE DEF r
  <2>4. queue' \in Seq(Entries)
    BY <2>2, <2>3, QueueType
  <2>5. pc' \in [Files -> [Slots -> {"none", "queued", "wait", "recheck",
                                     "read", "decode", "nested", "over"}]]
    BY <2>1, <2>2, QueueType
  <2> QED
    BY <2>2, <2>4, <2>5 DEF PlaceTypeOK, Entries
<1>3. CASE OpenFails(w)
  BY <1>3 DEF OpenFails, Leave, mainVars, inputVars, streamVars, PlaceTypeOK
<1>4. CASE Escape(w)
  BY <1>4 DEF Escape, Leave, mainVars, inputVars, streamVars, PlaceTypeOK
<1>5. CASE CollectBlock(w)
  <2> DEFINE g == file[w]
             k == current[file[w]]
  <2>0. HasFile(w)
    BY <1>5 DEF CollectBlock, Collects, HasFile
  <2>1. g \in Files /\ k \in Slots
    BY <2>0, FilesOfWorkers DEF StreamTypeOK
  <2>2. /\ shares' = shares /\ pc' = [pc EXCEPT ![g][k] = "queued"]
        /\ queue' = Append(queue, <<g, k, "block">>)
    BY <1>5 DEF CollectBlock, Collects
  <2> HIDE DEF g, k
  <2>3. <<g, k, "block">> \in Entries
    BY <2>1 DEF Entries
  <2>4. queue' \in Seq(Entries)
    BY <2>2, <2>3, QueueType
  <2>5. pc' \in [Files -> [Slots -> {"none", "queued", "wait", "recheck",
                                     "read", "decode", "nested", "over"}]]
    BY <2>1, <2>2, QueueType
  <2> QED
    BY <2>2, <2>4, <2>5 DEF PlaceTypeOK, Entries
<1>6. CASE CollectEnd(w)
  BY <1>6
  DEF CollectEnd, Collects, CloseStream, mainVars, inputVars, PlaceTypeOK
<1>7. CASE CollectError(w)
  BY <1>7
  DEF CollectError, Collects, CloseStream, mainVars, inputVars, PlaceTypeOK
<1>8. CASE WriteFails(w)
  BY <1>8 DEF WriteFails, CloseStream, mainVars, inputVars, PlaceTypeOK
<1>9. CASE Drain(w)
  BY <1>9
  DEF Drain, Drained, Leave, mainVars, inputVars, streamVars, PlaceTypeOK
<1>10. CASE Abort(w)
  BY <1>10
  DEF Abort, Drained, Leave, mainVars, inputVars, streamVars, PlaceTypeOK
<1>11. CASE Finish(w)
  BY <1>11 DEF Finish, Leave, mainVars, inputVars, streamVars, PlaceTypeOK
<1> QED
  BY <1>1, <1>2, <1>3, <1>4, <1>5, <1>6, <1>7, <1>8, <1>9, <1>10, <1>11
  DEF WorkerStep

LEMMA PlacePool ==
  ASSUME NEW f \in Files, NEW s \in Slots, Driver, PlaceTypeOK, Tasks, Queue,
         PoolStep(f, s)
  PROVE  PlaceTypeOK'
<1>1. CASE StartTask(f, s)
  BY <1>1
  DEF StartTask, FromQueue, Goto, mainVars, workerVars, inputVars,
      PlaceTypeOK
<1>2. CASE RunShare(f, s)
  <2>1. shares[f][s] > 0 /\ shares[f][s] \in 0..MaxJobs /\ MaxJobs \in Nat
    BY <1>2, Queued, ConstantsAssumption DEF RunShare, FromQueue, PlaceTypeOK
  <2>2. shares[f][s] - 1 \in 0..MaxJobs
    BY <2>1
  <2>3. shares' \in [Files -> [Slots -> 0..MaxJobs]]
    BY <1>2, <2>2 DEF RunShare, PlaceTypeOK
  <2> QED
    BY <1>2, <2>3 DEF RunShare, FromQueue, PlaceTypeOK
<1>3. CASE TakeTurn(f, s)
  BY <1>3 DEF TakeTurn, Goto, mainVars, workerVars, inputVars, PlaceTypeOK
<1>4. CASE GiveUp(f, s)
  BY <1>4
  DEF GiveUp, Returns, Goto, mainVars, workerVars, inputVars, PlaceTypeOK
<1>5. CASE Read(f, s)
  <2>1. queue' = queue /\ shares' = shares
    BY <1>5 DEF Read
  <2>2. PICK x \in {"decode", "over"} : pc' = [pc EXCEPT ![f][s] = x]
    BY <1>5 DEF Read, Returns, Goto
  <2> QED
    BY <2>1, <2>2 DEF PlaceTypeOK
<1>6. CASE Decode(f, s)
  BY <1>6
  DEF Decode, Returns, Goto, mainVars, workerVars, inputVars, PlaceTypeOK
<1>7. CASE DecodeShared(f, s)
  <2> DEFINE n == JobsInTask(f, s)
             r == Copies(n, <<f, s, "share">>)
  <2>1. /\ pc[f][s] = "decode" /\ queue' = queue \o r
        /\ shares' = [shares EXCEPT ![f][s] = n]
        /\ pc' = [pc EXCEPT ![f][s] = "nested"]
    BY <1>7 DEF DecodeShared, Goto, Copies
  <2>2. n \in 1..MaxJobs /\ MaxJobs \in Nat
    <3>1. f <= nbFiles /\ nbFiles \in Nat
      BY <2>1 DEF Tasks, Driver, InputTypeOK
    <3>2. f \in 1..nbFiles
      BY <3>1 DEF Files
    <3> QED
      BY <3>2, JobsInTaskRange, ConstantsAssumption DEF Driver
  <2> HIDE DEF n
  <2>3. r \in Seq(Entries)
    <3>1. <<f, s, "share">> \in Entries /\ n \in Nat
      BY <2>2 DEF Entries
    <3> QED
      BY <3>1 DEF Copies
  <2> HIDE DEF r
  <2>4. queue' \in Seq(Entries)
    BY <2>1, <2>3, QueueType
  <2>5. shares' \in [Files -> [Slots -> 0..MaxJobs]]
    BY <2>1, <2>2, QueueType
  <2>6. pc' \in [Files -> [Slots -> {"none", "queued", "wait", "recheck",
                                     "read", "decode", "nested", "over"}]]
    BY <2>1, QueueType
  <2> QED
    BY <2>4, <2>5, <2>6 DEF PlaceTypeOK, Entries
<1>8. CASE Shared(f, s)
  BY <1>8
  DEF Shared, Returns, Goto, mainVars, workerVars, inputVars, PlaceTypeOK
<1>9. CASE DecodeFails(f, s)
  BY <1>9
  DEF DecodeFails, Returns, Goto, mainVars, workerVars, inputVars,
      PlaceTypeOK
<1>10. CASE CheckTurn(f, s)
  BY <1>10 DEF CheckTurn, Goto, mainVars, workerVars, inputVars, PlaceTypeOK
<1> QED
  BY <1>1, <1>2, <1>3, <1>4, <1>5, <1>6, <1>7, <1>8, <1>9, <1>10 DEF PoolStep

LEMMA StreamWorker ==
  ASSUME NEW w \in Threads, Driver, StreamTypeOK, WorkerStep(w)
  PROVE  StreamTypeOK'
<1> USE ConstantsAssumption DEF StreamTypeOK
<1>1. CASE TakeFile(w)
  BY <1>1 DEF TakeFile, mainVars, inputVars, streamVars
<1>2. CASE Open(w)
  <2>0. HasFile(w)
    BY <1>2 DEF Open, HasFile
  <2>1. JobsOf(file[w]) \in Nat /\ file[w] \in Files
    BY <2>0, FilesOfWorkers, JobsOfRange DEF Driver, InputTypeOK
  <2>2. /\ UNCHANGED <<turn, astray, current, result>>
        /\ id' = [id EXCEPT ![file[w]] = [s \in Slots |-> s + 1]]
        /\ submitted' = [submitted EXCEPT ![file[w]] = JobsOf(file[w])]
    BY <1>2 DEF Open
  <2>3. \A s \in Slots : s + 1 \in Nat
    BY DEF Slots
  <2> QED
    BY <2>1, <2>2, <2>3
<1>3. CASE OpenFails(w)
  BY <1>3 DEF OpenFails, Leave, mainVars, inputVars, streamVars
<1>4. CASE Escape(w)
  BY <1>4 DEF Escape, Leave, mainVars, inputVars, streamVars
<1>5. CASE CollectBlock(w)
  <2> DEFINE g == file[w]
             k == current[file[w]]
  <2>0. HasFile(w)
    BY <1>5 DEF CollectBlock, Collects, HasFile
  <2>1. g \in Files /\ k \in Slots /\ JobsOf(g) \in 1..MaxJobs
    BY <2>0, FilesOfWorkers, JobsOfRange DEF Driver, InputTypeOK
  <2>2. /\ UNCHANGED <<turn, astray>>
        /\ id' = [id EXCEPT ![g][k] = submitted[g] + 1]
        /\ submitted' = [submitted EXCEPT ![g] = submitted[g] + 1]
        /\ result' = [result EXCEPT ![g][k] = "none"]
        /\ current' = [current EXCEPT ![g] = (k + 1) % JobsOf(g)]
    BY <1>5 DEF CollectBlock, Collects
  <2> HIDE DEF g, k
  <2>3. (k + 1) % JobsOf(g) \in Slots
    BY <2>1 DEF Slots
  <2> QED
    BY <2>1, <2>2, <2>3
<1>6. CASE CollectEnd(w)
  <2>1. HasFile(w)
    BY <1>6 DEF CollectEnd, Collects, HasFile
  <2>2. file[w] \in Files
    BY <2>1, FilesOfWorkers
  <2> QED
    BY <1>6, <2>2 DEF CollectEnd, CloseStream
<1>7. CASE CollectError(w)
  <2>1. HasFile(w)
    BY <1>7 DEF CollectError, Collects, HasFile
  <2>2. file[w] \in Files
    BY <2>1, FilesOfWorkers
  <2> QED
    BY <1>7, <2>2 DEF CollectError, CloseStream
<1>8. CASE WriteFails(w)
  <2>1. HasFile(w)
    BY <1>8 DEF WriteFails, HasFile
  <2>2. file[w] \in Files
    BY <2>1, FilesOfWorkers
  <2> QED
    BY <1>8, <2>2 DEF WriteFails, CloseStream
<1>9. CASE Drain(w)
  BY <1>9 DEF Drain, Drained, Leave, mainVars, inputVars, streamVars
<1>10. CASE Abort(w)
  BY <1>10 DEF Abort, Drained, Leave, mainVars, inputVars, streamVars
<1>11. CASE Finish(w)
  BY <1>11 DEF Finish, Leave, mainVars, inputVars, streamVars
<1> QED
  BY <1>1, <1>2, <1>3, <1>4, <1>5, <1>6, <1>7, <1>8, <1>9, <1>10, <1>11
  DEF WorkerStep

LEMMA StreamPool ==
  ASSUME NEW f \in Files, NEW s \in Slots, Driver, StreamTypeOK, PoolStep(f, s)
  PROVE  StreamTypeOK'
<1> USE ConstantsAssumption DEF StreamTypeOK
<1>1. CASE StartTask(f, s)
  BY <1>1 DEF StartTask, FromQueue, Goto, mainVars, workerVars, inputVars
<1>2. CASE RunShare(f, s)
  BY <1>2 DEF RunShare, FromQueue, mainVars, workerVars, inputVars
<1>3. CASE TakeTurn(f, s)
  BY <1>3 DEF TakeTurn, Goto, mainVars, workerVars, inputVars
<1>4. CASE GiveUp(f, s)
  BY <1>4 DEF GiveUp, Returns, Goto, mainVars, workerVars, inputVars
<1>5. CASE Read(f, s)
  <2>1. /\ UNCHANGED <<astray, current, submitted, id>>
        /\ id[f][s] \in Nat \cup {CANCEL}
    BY <1>5 DEF Read
  <2>2. PICK x \in Nat \cup {CANCEL} : turn' = [turn EXCEPT ![f] = x]
    BY <1>5, <2>1 DEF Read
  <2>3. \/ result' = result
        \/ \E r \in {"end", "error"} : result' = [result EXCEPT ![f][s] = r]
    BY <1>5 DEF Read, Returns, WhatIsRead
  <2>4. result' \in [Files -> [Slots -> {"none", "decoded", "end", "error"}]]
    <3>1. result \in [Files -> [Slots -> {"none", "decoded", "end", "error"}]]
      OBVIOUS
    <3>2. CASE result' = result
      BY <3>1, <3>2
    <3>3. CASE \E r \in {"end", "error"} : result' = [result EXCEPT ![f][s] = r]
      BY <3>1, <3>3
    <3> QED
      BY <2>3, <3>2, <3>3
  <2> QED
    BY <2>1, <2>2, <2>4
<1>6. CASE Decode(f, s)
  BY <1>6 DEF Decode, Returns, Goto, mainVars, workerVars, inputVars
<1>7. CASE DecodeShared(f, s)
  BY <1>7 DEF DecodeShared, Goto, mainVars, workerVars, inputVars
<1>8. CASE Shared(f, s)
  BY <1>8 DEF Shared, Returns, Goto, mainVars, workerVars, inputVars
<1>9. CASE DecodeFails(f, s)
  BY <1>9 DEF DecodeFails, Returns, Goto, mainVars, workerVars, inputVars
<1>10. CASE CheckTurn(f, s)
  BY <1>10 DEF CheckTurn, Goto, mainVars, workerVars, inputVars
<1> QED
  BY <1>1, <1>2, <1>3, <1>4, <1>5, <1>6, <1>7, <1>8, <1>9, <1>10 DEF PoolStep

-----------------------------------------------------------------------------
(* The ring of one stream.                                                 *)

LEMMA RingTypes ==
  ASSUME InputTypeOK, StreamTypeOK, NEW f \in Files, f <= nbFiles
  PROVE  /\ JobsOf(f) \in 1..MaxJobs /\ MaxJobs \in Nat
         /\ nbBlocks \in Nat /\ submitted[f] \in Nat /\ First(f) \in Int
         /\ current[f] \in Nat /\ turn[f] \in Int
         /\ \A s \in Slots : s \in Nat /\ s < MaxJobs /\ id[f][s] \in Nat
<1>1. f \in 1..nbFiles
  BY DEF InputTypeOK, Files
<1>2. JobsOf(f) \in 1..jobs
  BY <1>1, JobsOfRange
<1> QED
  BY <1>2, ConstantsAssumption
  DEF InputTypeOK, StreamTypeOK, First, CANCEL, Slots

LEMMA RingIds ==
  ASSUME InputTypeOK, StreamTypeOK, NEW f \in Files, f <= nbFiles, Ring(f)
  PROVE  /\ current[f] \in Slots /\ current[f] < JobsOf(f)
         /\ id[f][current[f]] = First(f)
         /\ \A s \in Slots : s < JobsOf(f) =>
              id[f][s] >= First(f) /\ id[f][s] <= submitted[f]
         /\ \A s, t \in Slots : s < JobsOf(f) /\ t < JobsOf(f) /\ s # t =>
              id[f][s] # id[f][t]
<1> DEFINE n == JobsOf(f)
           a == First(f)
           c == current[f]
<1>1. /\ n \in 1..MaxJobs /\ MaxJobs \in Nat /\ a \in Int /\ c \in Slots
      /\ submitted[f] = a + n - 1 /\ c \in Nat /\ c < n
  BY RingTypes DEF First, StreamTypeOK, Ring
<1>2. \A s \in Slots : s < n =>
        id[f][s] = a + s - c + (IF s < c THEN n ELSE 0)
  BY DEF Ring
<1>3. \A s \in Slots : s \in Nat
  BY RingTypes
<1> HIDE DEF n, a, c
<1>4. id[f][c] = a
  BY <1>1, <1>2
<1>5. ASSUME NEW s \in Slots, s < n
      PROVE  id[f][s] >= a /\ id[f][s] <= submitted[f]
  BY <1>1, <1>2, <1>3, <1>5
<1>6. ASSUME NEW s \in Slots, NEW t \in Slots, s < n, t < n, s # t
      PROVE  id[f][s] # id[f][t]
  BY <1>1, <1>2, <1>3, <1>6
<1> QED
  BY <1>1, <1>4, <1>5, <1>6 DEF n, a, c

LEMMA RingCovers ==
  ASSUME InputTypeOK, StreamTypeOK, NEW f \in Files, f <= nbFiles, Ring(f),
         NEW b \in First(f)..submitted[f]
  PROVE  \E r \in Slots : r < JobsOf(f) /\ id[f][r] = b
<1> DEFINE n == JobsOf(f)
           a == First(f)
           c == current[f]
           r == IF c + (b - a) < n THEN c + (b - a) ELSE c + (b - a) - n
<1>1. /\ n \in 1..MaxJobs /\ MaxJobs \in Nat /\ a \in Int
      /\ submitted[f] = a + n - 1 /\ c \in Nat /\ c < n /\ b \in a..(a + n - 1)
  <2>1. /\ n \in 1..MaxJobs /\ MaxJobs \in Nat /\ submitted[f] \in Nat
        /\ c \in Nat /\ c < n
    BY RingTypes DEF Ring
  <2>2. a = submitted[f] - n + 1
    BY DEF First
  <2>3. b \in a..submitted[f]
    OBVIOUS
  <2> HIDE DEF n, a, c
  <2> QED
    BY <2>1, <2>2, <2>3
<1>2. \A s \in Slots : s < n =>
        id[f][s] = a + s - c + (IF s < c THEN n ELSE 0)
  BY DEF Ring
<1> HIDE DEF n, a, c
<1>3. r \in 0..(n - 1)
  BY <1>1
<1>4. r \in Slots
  BY <1>1, <1>3 DEF Slots
<1>5. id[f][r] = b
  BY <1>1, <1>2, <1>3, <1>4
<1> QED
  BY <1>1, <1>3, <1>4, <1>5 DEF n

-----------------------------------------------------------------------------
(* A task of a stream takes a step.                                        *)

\* What a step of the task of slot s may do to its stream, and to the order
\* in which its blocks are read.
InOrder(f, s) ==
  /\ pc'[f][s] = "over" => result'[f][s] = "decoded"
  /\ astray'[f] = astray[f]
  /\ \/ /\ turn'[f] = turn[f]
        /\ Passed(f, s)' => Passed(f, s)
        /\ pc'[f][s] \in {"recheck", "read"} => turn[f] = id[f][s] - 1
     \/ /\ turn'[f] = id[f][s] /\ turn[f] = id[f][s] - 1
        /\ id[f][s] <= nbBlocks
        /\ pc'[f][s] = "decode"

TaskMoves(f, s) ==
  /\ UNCHANGED inputVars
  /\ submitted'[f] = submitted[f] /\ current'[f] = current[f]
  /\ \A t \in Slots : id'[f][t] = id[f][t]
  /\ \A t \in Slots : t # s =>
       pc'[f][t] = pc[f][t] /\ result'[f][t] = result[f][t]
  /\ pc[f][s] # "over" /\ pc'[f][s] # "none"
  /\ pc'[f][s] # "over" => result'[f][s] = "none"
  /\ pc'[f][s] = "over" => result'[f][s] # "none"
  /\ Passed(f, s) => Passed(f, s)'
  /\ turn'[f] \in {turn[f], CANCEL, id[f][s]}
  /\ Orderly(f) => InOrder(f, s) \/ Breaks(f, s)'

LEMMA TaskMovesKeepsOrder ==
  ASSUME InputTypeOK, StreamTypeOK, NEW f \in Files, f <= nbFiles,
         NEW s \in Slots, s < JobsOf(f), Ring(f), Reading(f), TaskMoves(f, s)
  PROVE  Ring(f)' /\ Reading(f)'
<1> DEFINE n == JobsOf(f)
<1>1. JobsOf(f)' = JobsOf(f) /\ nbBlocks' = nbBlocks
  BY JobsSame DEF TaskMoves, inputVars
<1>2. /\ submitted'[f] = submitted[f] /\ current'[f] = current[f]
      /\ \A t \in Slots : id'[f][t] = id[f][t]
      /\ First(f)' = First(f)
  BY <1>1 DEF TaskMoves, First
<1>3. \A t \in Slots : t # s => (Passed(f, t)' <=> Passed(f, t))
  BY DEF TaskMoves, Passed
<1>4. \A t \in Slots : Passed(f, t) => Passed(f, t)'
  BY <1>3 DEF TaskMoves
<1>5. \A b : PassedUpTo(f, b) => PassedUpTo(f, b)'
  BY <1>1, <1>2, <1>4 DEF PassedUpTo
<1>6. Broken(f) => Broken(f)'
  <2> SUFFICES ASSUME NEW r \in Slots, Breaks(f, r) PROVE Breaks(f, r)'
    BY DEF Broken
  <2>1. r # s
    BY DEF Breaks, TaskMoves
  <2>2. pc'[f][r] = pc[f][r] /\ result'[f][r] = result[f][r]
    BY <2>1 DEF TaskMoves
  <2>3. PassedUpTo(f, id[f][r] - 1)'
    BY <1>2, <1>5 DEF Breaks
  <2> QED
    BY <1>1, <1>2, <2>2, <2>3 DEF Breaks
<1>7. /\ \A t \in Slots : t < n => id[f][t] <= submitted[f] /\ id[f][t] \in Nat
      /\ \A t \in Slots : t < n /\ t # s => id[f][t] # id[f][s]
      /\ n \in 1..MaxJobs /\ MaxJobs \in Nat /\ turn[f] \in Int
      /\ submitted[f] \in Nat
  BY RingIds, RingTypes
<1>8. Ring(f)'
  <2>1. turn'[f] <= submitted'[f]
    BY <1>2, <1>7 DEF TaskMoves, Ring, CANCEL
  <2> QED
    BY <2>1, <1>1, <1>2 DEF Ring
<1>9. Filled(f)'
  <2> SUFFICES ASSUME NEW t \in Slots, t < n
               PROVE  /\ pc'[f][t] # "none"
                      /\ pc'[f][t] # "over" => result'[f][t] = "none"
                      /\ pc'[f][t] = "over" => result'[f][t] # "none"
    BY <1>1 DEF Filled
  <2>1. CASE t = s
    BY <2>1 DEF TaskMoves
  <2>2. CASE t # s
    BY <2>2 DEF TaskMoves, Reading, Filled
  <2> QED
    BY <2>1, <2>2
<1>10. ASSUME Orderly(f), InOrder(f, s)
       PROVE  Orderly(f)'
  <2>1. PassedUpTo(f, turn[f])
    BY <1>10 DEF Orderly
  <2>2. Passed(f, s)' => id[f][s] <= nbBlocks /\ PassedUpTo(f, id[f][s])'
    <3>1. CASE Passed(f, s)
      <4>1. id[f][s] <= nbBlocks /\ PassedUpTo(f, id[f][s])
        BY <3>1, <1>10 DEF Orderly, OrderlyTask
      <4>2. \A t \in Slots :
              t < JobsOf(f)' /\ id'[f][t] <= id'[f][s] => Passed(f, t)'
        BY <4>1, <1>1, <1>2, <1>4 DEF PassedUpTo
      <4> QED
        BY <4>1, <4>2 DEF PassedUpTo
    <3>2. CASE turn[f] = id[f][s] - 1 /\ id[f][s] <= nbBlocks /\ Passed(f, s)'
      <4> SUFFICES ASSUME NEW t \in Slots, t < n, id[f][t] <= id[f][s]
                   PROVE  Passed(f, t)'
        BY <3>2, <1>1, <1>2 DEF PassedUpTo
      <4>1. CASE t = s
        BY <4>1, <3>2
      <4>2. CASE t # s
        <5>1. id[f][t] <= turn[f]
          BY <4>2, <3>2, <1>7
        <5> QED
          BY <5>1, <2>1, <1>4 DEF PassedUpTo
      <4> QED
        BY <4>1, <4>2
    <3> QED
      BY <3>1, <3>2, <1>10 DEF InOrder
  <2>3. turn'[f] # CANCEL
    BY <1>7, <1>10 DEF Orderly, InOrder, CANCEL
  <2>4. ~astray'[f]
    BY <1>10 DEF Orderly, InOrder
  <2>5. PassedUpTo(f, turn[f])'
    <3>1. CASE turn'[f] = turn[f]
      BY <3>1, <2>1, <1>5
    <3>2. CASE turn'[f] = id[f][s] /\ Passed(f, s)'
      <4>1. \A t \in Slots :
              t < JobsOf(f)' /\ id'[f][t] <= id'[f][s] => Passed(f, t)'
        BY <3>2, <2>2 DEF PassedUpTo
      <4>2. id'[f][s] = turn'[f]
        BY <3>2, <1>2
      <4> QED
        BY <4>1, <4>2 DEF PassedUpTo
    <3> QED
      BY <3>1, <3>2, <1>10 DEF InOrder, Passed
  <2>6. ASSUME NEW t \in Slots, t < n
        PROVE  OrderlyTask(f, t)'
    <3>1. CASE t = s
      <4>1. pc'[f][s] = "over" => result'[f][s] = "decoded"
        BY <1>10 DEF InOrder
      <4>2. pc'[f][s] \in {"recheck", "read"} => turn'[f] = id'[f][s] - 1
        BY <1>2, <1>10 DEF InOrder
      <4>3. Passed(f, s)' => id'[f][s] <= nbBlocks' /\ PassedUpTo(f, id[f][s])'
        BY <1>1, <1>2, <2>2
      <4> QED
        BY <3>1, <4>1, <4>2, <4>3 DEF OrderlyTask
    <3>2. CASE t # s
      <4>1. pc'[f][t] = pc[f][t] /\ result'[f][t] = result[f][t]
        BY <3>2 DEF TaskMoves
      <4>2. OrderlyTask(f, t)
        BY <2>6, <1>10 DEF Orderly
      <4>3. pc[f][t] \in {"recheck", "read"} => turn'[f] = id'[f][t] - 1
        BY <3>2, <4>2, <2>6, <1>2, <1>7, <1>10 DEF InOrder, OrderlyTask
      <4>4. Passed(f, t)' => id'[f][t] <= nbBlocks' /\ PassedUpTo(f, id[f][t])'
        BY <3>2, <4>2, <1>1, <1>2, <1>3, <1>5 DEF OrderlyTask
      <4> QED
        BY <4>1, <4>2, <4>3, <4>4 DEF OrderlyTask
    <3> QED
      BY <3>1, <3>2
  <2> QED
    BY <1>1, <2>3, <2>4, <2>5, <2>6 DEF Orderly
<1>11. Breaks(f, s)' => Broken(f)'
  BY DEF Broken
<1> QED
  BY <1>6, <1>8, <1>9, <1>10, <1>11 DEF Reading, TaskMoves

LEMMA SameStream ==
  ASSUME NEW f \in Files, UNCHANGED inputVars, turn'[f] = turn[f],
         astray'[f] = astray[f], current'[f] = current[f],
         submitted'[f] = submitted[f], pc'[f] = pc[f], id'[f] = id[f],
         result'[f] = result[f]
  PROVE  /\ Fresh(f)' <=> Fresh(f)
         /\ Ring(f) => Ring(f)'
         /\ Reading(f) => Reading(f)'
<1>1. JobsOf(f)' = JobsOf(f) /\ nbBlocks' = nbBlocks
  BY JobsSame DEF inputVars
<1>2. First(f)' = First(f)
  BY <1>1 DEF First
<1>3. \A s \in Slots : Passed(f, s)' <=> Passed(f, s)
  BY DEF Passed
<1>4. \A b : PassedUpTo(f, b)' <=> PassedUpTo(f, b)
  BY <1>1, <1>3 DEF PassedUpTo
<1>5. \A s \in Slots : /\ PassedUpTo(f, id[f][s] - 1)' <=> PassedUpTo(f, id[f][s] - 1)
                       /\ PassedUpTo(f, id[f][s])' <=> PassedUpTo(f, id[f][s])
  BY <1>4
<1>6. \A s \in Slots : Breaks(f, s)' <=> Breaks(f, s)
  BY <1>1, <1>5 DEF Breaks
<1>7. \A s \in Slots : OrderlyTask(f, s)' <=> OrderlyTask(f, s)
  BY <1>1, <1>3, <1>5 DEF OrderlyTask
<1>8. Orderly(f) => Orderly(f)'
  BY <1>1, <1>4, <1>7 DEF Orderly
<1>9. Filled(f) => Filled(f)'
  BY <1>1 DEF Filled
<1>10. Broken(f) => Broken(f)'
  BY <1>6 DEF Broken
<1>11. Reading(f) => Reading(f)'
  BY <1>8, <1>9, <1>10 DEF Reading
<1> QED
  BY <1>1, <1>2, <1>11 DEF Fresh, Ring

\* A task whose turn it is, with the blocks before its own passed, reads its
\* block or the end marker.
LEMMA NextToRead ==
  ASSUME InputTypeOK, StreamTypeOK, NEW f \in Files, f <= nbFiles,
         NEW s \in Slots, s < JobsOf(f), Ring(f), Orderly(f),
         turn[f] = id[f][s] - 1
  PROVE  id[f][s] <= nbBlocks + 1 /\ PassedUpTo(f, id[f][s] - 1)
<1>1. PassedUpTo(f, id[f][s] - 1)
  BY DEF Orderly
<1>2. /\ nbBlocks \in Nat /\ id[f][s] \in Nat /\ id[f][s] <= submitted[f]
      /\ submitted[f] \in Nat
  BY RingTypes, RingIds
<1>3. ASSUME nbBlocks + 1 < id[f][s]
      PROVE  FALSE
  <2>1. nbBlocks + 1 \in First(f)..submitted[f] /\ nbBlocks + 1 <= id[f][s] - 1
    BY <1>2, <1>3, RingTypes DEF Ring
  <2>2. PICK r \in Slots : r < JobsOf(f) /\ id[f][r] = nbBlocks + 1
    BY <2>1, RingCovers
  <2>3. Passed(f, r)
    BY <1>1, <2>1, <2>2 DEF PassedUpTo
  <2>4. nbBlocks + 1 <= nbBlocks
    BY <2>2, <2>3 DEF Orderly, OrderlyTask
  <2> QED
    BY <1>2, <2>4
<1> QED
  BY <1>1, <1>2, <1>3

\* A task that ends with an error, or with the end marker, in its turn.
LEMMA TaskBreaks ==
  ASSUME StreamTypeOK, PlaceTypeOK, NEW f \in Files, NEW s \in Slots,
         s < JobsOf(f), UNCHANGED <<inputVars, id>>,
         NEW r \in {"error", "end"}, pc[f][s] # "over",
         pc' = [pc EXCEPT ![f][s] = "over"],
         result' = [result EXCEPT ![f][s] = r],
         id[f][s] <= nbBlocks + 1, r = "end" => id[f][s] = nbBlocks + 1,
         PassedUpTo(f, id[f][s] - 1)
  PROVE  Breaks(f, s)'
<1>1. JobsOf(f)' = JobsOf(f) /\ nbBlocks' = nbBlocks
  BY JobsSame DEF inputVars
<1>2. \A t \in Slots : /\ pc'[f][t] = IF t = s THEN "over" ELSE pc[f][t]
                       /\ result'[f][t] = IF t = s THEN r ELSE result[f][t]
  BY DEF PlaceTypeOK, StreamTypeOK
<1>3. ~(id[f][s] <= id[f][s] - 1)
  BY DEF StreamTypeOK
<1>4. \A t \in Slots : t # s => (Passed(f, t) => Passed(f, t)')
  BY <1>2 DEF Passed
<1>5. PassedUpTo(f, id[f][s] - 1)'
  BY <1>1, <1>3, <1>4 DEF PassedUpTo
<1> QED
  BY <1>1, <1>2, <1>5 DEF Breaks

LEMMA PoolMoves ==
  ASSUME NEW f \in Files, NEW s \in Slots,
         InputTypeOK, PlaceTypeOK, StreamTypeOK, Queue,
         f <= nbFiles, s < JobsOf(f), Ring(f), Reading(f), ~RunShare(f, s), PoolStep(f, s)
  PROVE  TaskMoves(f, s)
<1>0. /\ s < JobsOf(f) /\ ~RunShare(f, s)
      /\ pc[f][s] # "over" => result[f][s] = "none"
  BY DEF Reading, Filled
<1>1. CASE StartTask(f, s)
  <2>1. /\ UNCHANGED <<inputVars, current, submitted, id, result, turn, astray>>
        /\ pc' = [pc EXCEPT ![f][s] = "wait"]
        /\ pc[f][s] = "queued"
    BY <1>1, Queued DEF FromQueue, StartTask, Goto
  <2>2. \A t \in Slots : pc'[f][t] = IF t = s THEN "wait" ELSE pc[f][t]
    BY <2>1 DEF PlaceTypeOK
  <2>3. InOrder(f, s)
    BY <2>1, <2>2 DEF InOrder, Passed
  <2> QED
    BY <2>1, <2>2, <2>3, <1>0 DEF TaskMoves, Passed, StreamTypeOK
<1>2. CASE RunShare(f, s)
  BY <1>2, <1>0
<1>10. CASE CheckTurn(f, s)
  <2>1. /\ UNCHANGED <<inputVars, current, submitted, id, result, turn, astray>>
        /\ pc' = [pc EXCEPT ![f][s] = "recheck"]
        /\ pc[f][s] = "wait" /\ turn[f] \in {CANCEL, id[f][s] - 1}
    BY <1>10 DEF CheckTurn, Goto
  <2>2. \A t \in Slots : pc'[f][t] = IF t = s THEN "recheck" ELSE pc[f][t]
    BY <2>1 DEF PlaceTypeOK
  <2>3. Orderly(f) => InOrder(f, s)
    BY <2>1, <2>2 DEF Orderly, InOrder, Passed
  <2> QED
    BY <2>1, <2>2, <2>3, <1>0 DEF TaskMoves, Passed, StreamTypeOK
<1>3. CASE TakeTurn(f, s)
  <2>1. /\ UNCHANGED <<inputVars, current, submitted, id, result, turn>>
        /\ pc' = [pc EXCEPT ![f][s] = "read"]
        /\ astray' = [astray EXCEPT ![f] = @ \/ turn[f] # id[f][s] - 1]
        /\ pc[f][s] = "recheck"
    BY <1>3 DEF TakeTurn, Goto
  <2>2. \A t \in Slots : pc'[f][t] = IF t = s THEN "read" ELSE pc[f][t]
    BY <2>1 DEF PlaceTypeOK
  <2>3. ASSUME Orderly(f) PROVE InOrder(f, s)
    <3>1. turn[f] = id[f][s] - 1
      BY <2>1, <2>3, <1>0 DEF Orderly, OrderlyTask
    <3>2. astray'[f] = astray[f]
      BY <2>1, <3>1 DEF StreamTypeOK
    <3> QED
      BY <2>1, <2>2, <3>1, <3>2 DEF InOrder, Passed
  <2> QED
    BY <2>1, <2>2, <2>3, <1>0 DEF TaskMoves, Passed, StreamTypeOK
<1>4. CASE GiveUp(f, s)
  <2>1. /\ UNCHANGED <<inputVars, current, submitted, id, turn>>
        /\ pc' = [pc EXCEPT ![f][s] = "over"]
        /\ result' = [result EXCEPT ![f][s] = "end"]
        /\ pc[f][s] = "recheck" /\ turn[f] = CANCEL
    BY <1>4 DEF GiveUp, Returns, Goto
  <2>2. \A t \in Slots : pc'[f][t] = IF t = s THEN "over" ELSE pc[f][t]
    BY <2>1 DEF PlaceTypeOK
  <2>3. \A t \in Slots : result'[f][t] = IF t = s THEN "end" ELSE result[f][t]
    BY <2>1 DEF StreamTypeOK
  <2>4. ~Orderly(f)
    BY <2>1 DEF Orderly
  <2> QED
    BY <2>1, <2>2, <2>3, <2>4, <1>0 DEF TaskMoves, Passed, StreamTypeOK
<1>5. CASE Read(f, s)
  <2>1. PICK r \in WhatIsRead(f, s) :
          /\ pc[f][s] = "read"
          /\ IF r = "block"
               THEN /\ turn' = [turn EXCEPT ![f] = id[f][s]]
                    /\ Goto(f, s, "decode")
                    /\ UNCHANGED result
               ELSE /\ turn' = [turn EXCEPT ![f] = CANCEL]
                    /\ Returns(f, s, r)
          /\ UNCHANGED <<inputVars, current, submitted, id, astray>>
    BY <1>5 DEF Read
  <2>2. r \in {"block", "end", "error"}
    BY <2>1 DEF WhatIsRead
  <2>3. Orderly(f) => /\ turn[f] = id[f][s] - 1
                      /\ r = "block" => id[f][s] <= nbBlocks
                      /\ r # "block" => r = "end" /\ ~(id[f][s] <= nbBlocks)
    BY <2>1, <1>0 DEF Orderly, OrderlyTask, WhatIsRead
  <2>4. CASE r = "block"
    <3>1. /\ UNCHANGED <<inputVars, current, submitted, id, result, astray>>
          /\ pc' = [pc EXCEPT ![f][s] = "decode"]
          /\ turn' = [turn EXCEPT ![f] = id[f][s]]
      BY <2>1, <2>4 DEF Goto
    <3>2. \A t \in Slots : pc'[f][t] = IF t = s THEN "decode" ELSE pc[f][t]
      BY <3>1 DEF PlaceTypeOK
    <3>3. result'[f] = result[f] /\ turn'[f] = id[f][s] /\ astray'[f] = astray[f]
      BY <3>1 DEF StreamTypeOK
    <3>4. Orderly(f) => InOrder(f, s)
      BY <2>3, <2>4, <3>2, <3>3 DEF InOrder
    <3> QED
      BY <2>1, <3>1, <3>2, <3>3, <3>4, <1>0 DEF TaskMoves, Passed
  <2>5. CASE r # "block"
    <3>1. /\ UNCHANGED <<inputVars, current, submitted, id>>
          /\ pc' = [pc EXCEPT ![f][s] = "over"]
          /\ result' = [result EXCEPT ![f][s] = r]
          /\ turn' = [turn EXCEPT ![f] = CANCEL]
      BY <2>1, <2>5 DEF Returns, Goto
    <3>2. \A t \in Slots : /\ pc'[f][t] = IF t = s THEN "over" ELSE pc[f][t]
                           /\ result'[f][t] = IF t = s THEN r ELSE result[f][t]
      BY <3>1 DEF PlaceTypeOK, StreamTypeOK
    <3>3. turn'[f] = CANCEL
      BY <3>1 DEF StreamTypeOK
    <3>4. ASSUME Orderly(f) PROVE Breaks(f, s)'
      <4>1. id[f][s] <= nbBlocks + 1 /\ PassedUpTo(f, id[f][s] - 1)
        BY <2>3, <3>4, <1>0, NextToRead
      <4>2. id[f][s] = nbBlocks + 1
        BY <2>3, <2>5, <3>4, <4>1, RingTypes
      <4> QED
        BY <2>1, <2>2, <2>5, <3>1, <4>1, <4>2, <1>0, TaskBreaks
    <3>5. ~Passed(f, s)
      BY <2>1 DEF Passed
    <3> QED
      BY <2>1, <2>2, <2>5, <3>1, <3>2, <3>3, <3>4, <3>5 DEF TaskMoves
  <2> QED
    BY <2>4, <2>5
<1>6. CASE Decode(f, s)
  <2>1. /\ UNCHANGED <<inputVars, current, submitted, id, turn, astray>>
        /\ pc' = [pc EXCEPT ![f][s] = "over"]
        /\ result' = [result EXCEPT ![f][s] = "decoded"]
        /\ pc[f][s] = "decode"
    BY <1>6 DEF Decode, Returns, Goto
  <2>2. \A t \in Slots : pc'[f][t] = IF t = s THEN "over" ELSE pc[f][t]
    BY <2>1 DEF PlaceTypeOK
  <2>3. \A t \in Slots : result'[f][t] = IF t = s THEN "decoded" ELSE result[f][t]
    BY <2>1 DEF StreamTypeOK
  <2>4. InOrder(f, s)
    BY <2>1, <2>2, <2>3 DEF InOrder, Passed
  <2> QED
    BY <2>1, <2>2, <2>3, <2>4, <1>0 DEF TaskMoves, Passed, StreamTypeOK
<1>7. CASE DecodeShared(f, s)
  <2>1. /\ UNCHANGED <<inputVars, current, submitted, id, result, turn, astray>>
        /\ pc' = [pc EXCEPT ![f][s] = "nested"]
        /\ pc[f][s] = "decode"
    BY <1>7 DEF DecodeShared, Goto
  <2>2. \A t \in Slots : pc'[f][t] = IF t = s THEN "nested" ELSE pc[f][t]
    BY <2>1 DEF PlaceTypeOK
  <2>3. InOrder(f, s)
    BY <2>1, <2>2 DEF InOrder, Passed
  <2> QED
    BY <2>1, <2>2, <2>3, <1>0 DEF TaskMoves, Passed, StreamTypeOK
<1>8. CASE Shared(f, s)
  <2>1. /\ UNCHANGED <<inputVars, current, submitted, id, turn, astray>>
        /\ pc' = [pc EXCEPT ![f][s] = "over"]
        /\ result' = [result EXCEPT ![f][s] = "decoded"]
        /\ pc[f][s] = "nested"
    BY <1>8 DEF Shared, Returns, Goto
  <2>2. \A t \in Slots : pc'[f][t] = IF t = s THEN "over" ELSE pc[f][t]
    BY <2>1 DEF PlaceTypeOK
  <2>3. \A t \in Slots : result'[f][t] = IF t = s THEN "decoded" ELSE result[f][t]
    BY <2>1 DEF StreamTypeOK
  <2>4. InOrder(f, s)
    BY <2>1, <2>2, <2>3 DEF InOrder, Passed
  <2> QED
    BY <2>1, <2>2, <2>3, <2>4, <1>0 DEF TaskMoves, Passed, StreamTypeOK
<1>9. CASE DecodeFails(f, s)
  <2>1. /\ UNCHANGED <<inputVars, current, submitted, id>>
        /\ pc' = [pc EXCEPT ![f][s] = "over"]
        /\ result' = [result EXCEPT ![f][s] = "error"]
        /\ turn' = [turn EXCEPT ![f] = CANCEL]
        /\ pc[f][s] \in {"decode", "nested"}
    BY <1>9 DEF DecodeFails, Returns, Goto
  <2>2. \A t \in Slots : /\ pc'[f][t] = IF t = s THEN "over" ELSE pc[f][t]
                         /\ result'[f][t] = IF t = s THEN "error" ELSE result[f][t]
    BY <2>1 DEF PlaceTypeOK, StreamTypeOK
  <2>3. turn'[f] = CANCEL
    BY <2>1 DEF StreamTypeOK
  <2>4. ASSUME Orderly(f) PROVE Breaks(f, s)'
    <3>1. id[f][s] <= nbBlocks /\ PassedUpTo(f, id[f][s])
      BY <2>1, <2>4, <1>0 DEF Orderly, OrderlyTask, Passed
    <3>2. id[f][s] <= nbBlocks + 1
      BY <3>1, RingTypes
    <3>3. PassedUpTo(f, id[f][s] - 1)
      BY <3>1, RingTypes DEF PassedUpTo
    <3> QED
      BY <2>1, <3>2, <3>3, <1>0, TaskBreaks
  <2> QED
    BY <2>1, <2>2, <2>3, <2>4 DEF TaskMoves, Passed
<1> QED
  BY <1>1, <1>2, <1>3, <1>4, <1>5, <1>6, <1>7, <1>8, <1>9, <1>10 DEF PoolStep

-----------------------------------------------------------------------------
(* The streams.                                                            *)

LEMMA ReaderOpened ==
  ASSUME Driver, Account, NEW f \in Files, NEW w \in Threads, file[w] = f,
         HasFile(w), wpc[w] # "open"
  PROVE  ~Unopened(f)
<1>1. outcome[f] = "taken"
  BY DEF Account
<1>2. \A v \in Threads : file[v] = f => v = w
  BY DEF Driver, Handout, Files
<1> QED
  BY <1>1, <1>2 DEF Unopened

LEMMA StreamsKept ==
  ASSUME Streams, UNCHANGED <<inputVars, streamVars>>,
         \A f \in Files : /\ Unopened(f)' => Unopened(f)
                          /\ Reader(f)' => Reader(f)
  PROVE  Streams'
<1> SUFFICES ASSUME NEW f \in Files
             PROVE  /\ Unopened(f)' => Fresh(f)'
                    /\ Reader(f)' => Ring(f)' /\ Reading(f)'
  BY DEF Streams
<1>1. /\ Unopened(f) => Fresh(f)
      /\ Reader(f) => Ring(f) /\ Reading(f)
  BY DEF Streams
<1>2. /\ Fresh(f)' <=> Fresh(f)
      /\ Ring(f) => Ring(f)'
      /\ Reading(f) => Reading(f)'
  BY SameStream DEF streamVars
<1> QED
  BY <1>1, <1>2

LEMMA StreamsOfOthers ==
  ASSUME Driver, Streams, Account, NEW w \in Threads, HasFile(w),
         UNCHANGED inputVars,
         file' = file, \A v \in Threads : v # w => wpc'[v] = wpc[v],
         \A f \in Files : f # file[w] =>
           /\ outcome'[f] = outcome[f]
           /\ turn'[f] = turn[f] /\ astray'[f] = astray[f]
           /\ current'[f] = current[f]
           /\ submitted'[f] = submitted[f] /\ pc'[f] = pc[f]
           /\ id'[f] = id[f] /\ result'[f] = result[f],
         NEW f \in Files, f # file[w]
  PROVE  /\ Unopened(f)' => Fresh(f)'
         /\ Reader(f)' => Ring(f)' /\ Reading(f)'
<1>1. /\ Unopened(f) => Fresh(f)
      /\ Reader(f) => Ring(f) /\ Reading(f)
  BY DEF Streams
<1>2. /\ Fresh(f)' <=> Fresh(f)
      /\ Ring(f) => Ring(f)'
      /\ Reading(f) => Reading(f)'
  BY SameStream
<1>3. (Unopened(f)' => Unopened(f)) /\ (Reader(f)' => Reader(f))
  BY DEF Unopened, Reader
<1> QED
  BY <1>1, <1>2, <1>3

\* The stream when its file has been opened.
LEMMA OpenStarts ==
  ASSUME Driver, StreamTypeOK, PlaceTypeOK, Streams, NEW w \in Threads, Open(w),
         NEW g, g = file[w], NEW n, n = JobsOf(g)
  PROVE  Ring(g)' /\ Reading(g)'
<1>1. HasFile(w) /\ wpc[w] = "open"
  BY DEF Open, HasFile
<1>2. g \in Files /\ n \in 1..MaxJobs /\ nbBlocks \in Nat /\ MaxJobs \in Nat
  BY <1>1, FilesOfWorkers, RingTypes DEF Driver
<1>3. Unopened(g)
  BY <1>1 DEF Unopened
<1>4. /\ turn[g] = 0 /\ current[g] = 0 /\ ~astray[g]
      /\ \A s \in Slots : result[g][s] = "none"
  BY <1>2, <1>3 DEF Streams, Fresh
<1>5. /\ UNCHANGED <<inputVars, turn, astray, current, result>>
      /\ pc' = [pc EXCEPT ![g] =
                  [s \in Slots |-> IF s < n THEN "queued" ELSE "none"]]
      /\ id' = [id EXCEPT ![g] = [s \in Slots |-> s + 1]]
      /\ submitted' = [submitted EXCEPT ![g] = n]
  BY DEF Open
<1>6. /\ submitted'[g] = n /\ turn'[g] = 0 /\ current'[g] = 0 /\ ~astray'[g]
      /\ \A s \in Slots : /\ id'[g][s] = s + 1 /\ result'[g][s] = "none"
                          /\ pc'[g][s] = IF s < n THEN "queued" ELSE "none"
  BY <1>2, <1>4, <1>5 DEF StreamTypeOK, PlaceTypeOK
<1>7. JobsOf(g)' = n /\ nbBlocks' = nbBlocks /\ file' = file
  BY <1>2, <1>5, JobsSame DEF inputVars, Open
<1>8. \A s \in Slots : s \in Nat
  BY DEF Slots
<1>9. Ring(g)'
  BY <1>2, <1>6, <1>7, <1>8 DEF Ring, First
<1>10. \A s \in Slots : ~(id'[g][s] <= 0) /\ (s < n => ~Passed(g, s)')
  BY <1>6, <1>8 DEF Passed
<1>11. PassedUpTo(g, turn[g])'
  BY <1>6, <1>7, <1>10 DEF PassedUpTo
<1>12. \A s \in Slots : s < n => OrderlyTask(g, s)'
  BY <1>6, <1>10 DEF OrderlyTask
<1>13. Orderly(g)'
  BY <1>6, <1>7, <1>11, <1>12 DEF Orderly, CANCEL
<1>14. Filled(g)'
  BY <1>6, <1>7 DEF Filled
<1> QED
  BY <1>9, <1>13, <1>14 DEF Reading

\* The client takes a block and sends the slot's next task.
LEMMA CollectKeepsOrder ==
  ASSUME Driver, StreamTypeOK, PlaceTypeOK, Streams, NEW w \in Threads,
         CollectBlock(w),
         NEW g, g = file[w], NEW n, n = JobsOf(g), NEW k, k = current[g]
  PROVE  Ring(g)' /\ Reading(g)'
<1>1. HasFile(w) /\ wpc[w] = "read"
  BY DEF CollectBlock, Collects, HasFile
<1>2. /\ g \in Files /\ g <= nbFiles /\ n \in 1..MaxJobs /\ nbBlocks \in Nat
      /\ MaxJobs \in Nat /\ submitted[g] \in Nat /\ First(g) \in Int
      /\ turn[g] \in Int
  BY <1>1, FilesOfWorkers, RingTypes DEF Driver, InputTypeOK
<1>3. Ring(g) /\ Reading(g)
  BY <1>1, <1>2 DEF Streams, Reader
<1>4. /\ k \in Slots /\ k < n /\ id[g][k] = First(g) /\ k \in Nat
      /\ \A s \in Slots : s < n => id[g][s] <= submitted[g]
  BY <1>2, <1>3, RingIds, RingTypes DEF Driver
<1>5. /\ UNCHANGED <<inputVars, turn, astray, file>>
      /\ pc[g][k] = "over" /\ result[g][k] = "decoded"
      /\ pc' = [pc EXCEPT ![g][k] = "queued"]
      /\ id' = [id EXCEPT ![g][k] = submitted[g] + 1]
      /\ result' = [result EXCEPT ![g][k] = "none"]
      /\ submitted' = [submitted EXCEPT ![g] = submitted[g] + 1]
      /\ current' = [current EXCEPT ![g] = (k + 1) % n]
  BY DEF CollectBlock, Collects, workerVars
<1>6. /\ submitted'[g] = submitted[g] + 1 /\ turn'[g] = turn[g]
      /\ current'[g] = (k + 1) % n
      /\ \A s \in Slots :
           /\ pc'[g][s] = IF s = k THEN "queued" ELSE pc[g][s]
           /\ id'[g][s] = IF s = k THEN submitted[g] + 1 ELSE id[g][s]
           /\ result'[g][s] = IF s = k THEN "none" ELSE result[g][s]
  BY <1>2, <1>4, <1>5 DEF StreamTypeOK, PlaceTypeOK
<1>7. JobsOf(g)' = n /\ nbBlocks' = nbBlocks
  BY <1>2, <1>5, JobsSame DEF inputVars
<1>8. \A s \in Slots : s \in Nat /\ id[g][s] \in Nat
  BY <1>2, RingTypes DEF Driver
<1>9. Passed(g, k) /\ First(g) <= nbBlocks
  <2>1. Passed(g, k)
    BY <1>5 DEF Passed
  <2>2. CASE Orderly(g)
    BY <2>1, <2>2, <1>4 DEF Orderly, OrderlyTask
  <2>3. CASE Broken(g)
    <3>1. PICK r \in Slots : Breaks(g, r)
      BY <2>3 DEF Broken
    <3>2. r # k /\ r < n /\ id[g][r] <= nbBlocks + 1 /\ id[g][r] \in Nat
      BY <3>1, <1>5, <1>8 DEF Breaks
    <3>3. id[g][r] > First(g)
      <4>1. id[g][r] >= First(g)
        BY <3>2, <1>2, <1>3, RingIds DEF Driver
      <4>2. id[g][r] # id[g][k]
        BY <3>2, <1>2, <1>3, <1>4, RingIds DEF Driver
      <4> QED
        BY <4>1, <4>2, <3>2, <1>2, <1>4
    <3> QED
      BY <2>1, <3>2, <3>3, <1>2
  <2> QED
    BY <2>2, <2>3, <1>3 DEF Reading
<1>10. First(g)' = First(g) + 1 /\ submitted[g] = First(g) + n - 1
  BY <1>2, <1>6, <1>7 DEF First
<1>11. current'[g] = IF k + 1 = n THEN 0 ELSE k + 1
  <2>1. k + 1 = n => (k + 1) % n = 0
    BY <1>2, <1>4
  <2>2. k + 1 # n => (k + 1) % n = k + 1
    BY <1>2, <1>4
  <2> QED
    BY <1>6, <2>1, <2>2
<1>12. \A s \in Slots : s < n =>
         id[g][s] = First(g) + s - k + (IF s < k THEN n ELSE 0)
  BY <1>3 DEF Ring
<1>13. Ring(g)'
  <2>1. First(g) \in 1..(nbBlocks + 1) /\ turn[g] <= submitted[g]
    BY <1>3 DEF Ring
  <2>2. ASSUME NEW s \in Slots, s < n
        PROVE  id'[g][s] = First(g) + 1 + s - current'[g]
                            + (IF s < current'[g] THEN n ELSE 0)
    <3>1. CASE s = k
      <4>1. id'[g][s] = First(g) + n
        BY <3>1, <1>2, <1>6, <1>10
      <4>2. CASE k + 1 = n
        BY <4>1, <4>2, <3>1, <1>2, <1>4, <1>11
      <4>3. CASE k + 1 # n
        BY <4>1, <4>3, <3>1, <1>2, <1>4, <1>11
      <4> QED
        BY <4>2, <4>3
    <3>2. CASE s # k
      <4>1. id'[g][s] = First(g) + s - k + (IF s < k THEN n ELSE 0) /\ s \in Nat
        BY <3>2, <2>2, <1>6, <1>8, <1>12
      <4>2. CASE k + 1 = n
        <5>1. s < k /\ current'[g] = 0
          BY <4>1, <4>2, <3>2, <2>2, <1>2, <1>4, <1>11
        <5> QED
          BY <4>1, <4>2, <5>1, <1>2, <1>4
      <4>3. CASE k + 1 # n
        <5>1. current'[g] = k + 1 /\ (s < k <=> s < k + 1)
          BY <4>1, <4>3, <3>2, <1>2, <1>4, <1>11
        <5> QED
          BY <4>1, <5>1, <1>2, <1>4
      <4> QED
        BY <4>2, <4>3
    <3> QED
      BY <3>1, <3>2
  <2>3. First(g)' \in 1..(nbBlocks' + 1)
    BY <1>2, <1>7, <1>9, <1>10, <2>1
  <2>4. turn'[g] <= submitted'[g]
    BY <1>2, <1>6, <2>1
  <2>5. current'[g] < JobsOf(g)'
    BY <1>2, <1>4, <1>7, <1>11
  <2> QED
    BY <1>5, <1>7, <1>10, <2>2, <2>3, <2>4, <2>5 DEF Ring
<1>14. \A s \in Slots : s # k => (Passed(g, s)' <=> Passed(g, s))
  BY <1>6 DEF Passed
<1>15. ASSUME NEW b \in Int, b <= submitted[g], PassedUpTo(g, b)
       PROVE  PassedUpTo(g, b)'
  <2> SUFFICES ASSUME NEW s \in Slots, s < n, id'[g][s] <= b
               PROVE  Passed(g, s)'
    BY <1>5, <1>7 DEF PassedUpTo
  <2>1. s # k
    BY <1>2, <1>6, <1>15
  <2> QED
    BY <2>1, <1>6, <1>14, <1>15 DEF PassedUpTo
<1>16. Broken(g) => Broken(g)'
  <2> SUFFICES ASSUME NEW r \in Slots, Breaks(g, r)
               PROVE  Breaks(g, r)'
    BY DEF Broken
  <2>1. r # k
    BY <1>5 DEF Breaks
  <2>2. id[g][r] - 1 <= submitted[g] /\ id[g][r] - 1 \in Int
    BY <1>2, <1>4, <1>8 DEF Breaks
  <2>3. id'[g][r] = id[g][r]
    BY <2>1, <1>6
  <2>4. PassedUpTo(g, id[g][r] - 1)'
    BY <2>2, <2>3, <1>15 DEF Breaks
  <2> QED
    BY <2>1, <2>3, <2>4, <1>6, <1>7 DEF Breaks
<1>17. Filled(g)'
  <2> SUFFICES ASSUME NEW t \in Slots, t < n
               PROVE  /\ pc'[g][t] # "none"
                      /\ pc'[g][t] # "over" => result'[g][t] = "none"
                      /\ pc'[g][t] = "over" => result'[g][t] # "none"
    BY <1>7 DEF Filled
  <2>1. CASE t = k
    BY <2>1, <1>6
  <2>2. CASE t # k
    BY <2>2, <1>3, <1>6 DEF Reading, Filled
  <2> QED
    BY <2>1, <2>2
<1>18. ASSUME Orderly(g), NEW t \in Slots, t < n
       PROVE  OrderlyTask(g, t)'
  <2>1. CASE t = k
    BY <2>1, <1>6 DEF OrderlyTask, Passed
  <2>2. CASE t # k
    <3>1. /\ pc'[g][t] = pc[g][t] /\ result'[g][t] = result[g][t]
          /\ id'[g][t] = id[g][t] /\ (Passed(g, t)' <=> Passed(g, t))
      BY <2>2, <1>6, <1>14
    <3>2. id[g][t] \in Int /\ id[g][t] <= submitted[g]
      <4>1. id[g][t] \in Nat
        BY <1>8
      <4>2. id[g][t] <= submitted[g]
        BY <1>4, <1>18
      <4> QED
        BY <4>1, <4>2
    <3>3. OrderlyTask(g, t)
      BY <1>18 DEF Orderly
    <3>4. Passed(g, t) => id[g][t] <= nbBlocks /\ PassedUpTo(g, id[g][t])'
      BY <3>1, <3>2, <3>3, <1>15 DEF OrderlyTask
    <3> QED
      BY <3>1, <3>3, <3>4, <1>6, <1>7 DEF OrderlyTask
  <2> QED
    BY <2>1, <2>2
<1>19. Orderly(g) => Orderly(g)'
  <2> SUFFICES ASSUME Orderly(g) PROVE Orderly(g)'
    OBVIOUS
  <2>1. PassedUpTo(g, turn[g])'
    <3>1. PassedUpTo(g, turn[g]) /\ turn[g] <= submitted[g]
      BY <1>3 DEF Orderly, Ring
    <3> QED
      BY <3>1, <1>2, <1>6, <1>15
  <2>2. turn'[g] # CANCEL /\ ~astray'[g]
    BY <1>5, <1>6 DEF Orderly
  <2> QED
    BY <1>7, <1>18, <2>1, <2>2 DEF Orderly
<1>20. Reading(g)'
  BY <1>3, <1>16, <1>17, <1>19 DEF Reading
<1> QED
  BY <1>13, <1>20

LEMMA StreamsMain ==
  ASSUME Driver, Streams, MainStep
  PROVE  Streams'
<1> USE DEF Driver, WorkerTypeOK, Unopened, Reader
<1>1. CASE StartWorker
  BY <1>1, StreamsKept DEF StartWorker, inputVars, streamVars, workerVars
<1>2. CASE StartFails
  BY <1>2, StreamsKept DEF StartFails, workerVars, inputVars, streamVars
<1>3. CASE CollectOk
  BY <1>3, StreamsKept
  DEF CollectOk, Advance, MoreResults, workerVars, inputVars, streamVars
<1>4. CASE CollectFailed
  BY <1>4, StreamsKept DEF CollectFailed, workerVars, inputVars, streamVars
<1>5. CASE CollectThrown
  BY <1>5, StreamsKept DEF CollectThrown, workerVars, inputVars, streamVars
<1>6. CASE Clear
  BY <1>6, StreamsKept
  DEF Clear, Advance, MoreResults, Cleared, workerVars, inputVars, streamVars
<1>7. CASE Rescue
  BY <1>7, StreamsKept DEF Rescue, Cleared, workerVars, inputVars, streamVars
<1>8. CASE WaitAll
  BY <1>8, StreamsKept
  DEF WaitAll, WorkersOver, workerVars, inputVars, streamVars
<1>9. CASE Delete
  BY <1>9, StreamsKept DEF Delete, workerVars, inputVars, streamVars
<1>10. CASE Join
  BY <1>10, StreamsKept DEF Join, workerVars, inputVars, streamVars
<1> QED
  BY <1>1, <1>2, <1>3, <1>4, <1>5, <1>6, <1>7, <1>8, <1>9, <1>10 DEF MainStep

\* The stream of w's file is neither fresh nor read any more.
LEMMA StreamLeft ==
  ASSUME Driver, Streams, Account, NEW w \in Threads, HasFile(w),
         UNCHANGED <<inputVars, astray, current, submitted, pc, id, result, file, outcome>>,
         NEW p \in {"drain", "abort"}, wpc[w] = "read",
         wpc' = [wpc EXCEPT ![w] = p], turn' = [turn EXCEPT ![file[w]] = CANCEL]
  PROVE  Streams'
<1>1. \A v \in Threads : v # w => wpc'[v] = wpc[v]
  OBVIOUS
<1>2. wpc'[w] = p
  BY DEF Driver, WorkerTypeOK
<1>3. ASSUME NEW f \in Files, f # file[w]
      PROVE  /\ Unopened(f)' => Fresh(f)'
             /\ Reader(f)' => Ring(f)' /\ Reading(f)'
  BY <1>1, <1>3, StreamsOfOthers
<1>4. ASSUME NEW f \in Files, f = file[w]
      PROVE  ~Unopened(f)' /\ ~Reader(f)'
  <2>1. ~Unopened(f)
    BY <1>4, ReaderOpened
  <2>2. \A v \in Threads : file[v] = f => v = w
    BY <1>4 DEF Driver, Handout, Files
  <2>3. outcome'[f] = outcome[f] /\ file' = file
    OBVIOUS
  <2> QED
    BY <2>1, <2>2, <2>3, <1>2 DEF Unopened, Reader
<1> QED
  BY <1>3, <1>4 DEF Streams

LEMMA StreamsWorker ==
  ASSUME NEW w \in Threads, Driver, PlaceTypeOK, StreamTypeOK, Streams, Account,
         WorkerStep(w)
  PROVE  Streams'
<1>1. CASE TakeFile(w)
  <2>1. wpc[w] = "next" /\ UNCHANGED <<inputVars, streamVars>>
    BY <1>1 DEF TakeFile
  <2>2. CASE index < nbFiles
    <3>1. /\ wpc' = [wpc EXCEPT ![w] = "open"]
          /\ file' = [file EXCEPT ![w] = index + 1]
          /\ outcome' = [outcome EXCEPT ![index + 1] = "taken"]
      BY <1>1, <2>2 DEF TakeFile
    <3>2. index + 1 \in Files /\ index + 1 > index
      BY <2>2, ConstantsAssumption DEF Driver, InputTypeOK, WorkerTypeOK, Files
    <3>3. outcome[index + 1] = "none"
      BY <3>2 DEF Account
    <3>4. \A f \in Files : Unopened(f)' => Unopened(f)
      BY <3>1, <3>3 DEF Driver, WorkerTypeOK, Unopened
    <3>5. \A f \in Files : Reader(f)' => Reader(f)
      BY <3>1 DEF Driver, WorkerTypeOK, Reader
    <3> QED
      BY <2>1, <3>4, <3>5, StreamsKept
  <2>3. CASE ~(index < nbFiles)
    <3>1. /\ wpc' = [wpc EXCEPT ![w] = "ok"]
          /\ file' = [file EXCEPT ![w] = 0]
          /\ UNCHANGED outcome
      BY <1>1, <2>3 DEF TakeFile
    <3>4. \A f \in Files : Unopened(f)' => Unopened(f)
      BY <3>1 DEF Driver, WorkerTypeOK, Unopened
    <3>5. \A f \in Files : Reader(f)' => Reader(f)
      BY <3>1 DEF Driver, WorkerTypeOK, Reader
    <3> QED
      BY <2>1, <3>4, <3>5, StreamsKept
  <2> QED
    BY <2>2, <2>3
<1>2. CASE Open(w)
  <2>1. HasFile(w) /\ UNCHANGED <<inputVars, file, outcome>>
    BY <1>2 DEF Open, HasFile, Collects, workerVars
  <2>2. \A v \in Threads : v # w => wpc'[v] = wpc[v]
    BY <1>2 DEF Open, workerVars
  <2>3. ASSUME NEW f \in Files, f # file[w]
        PROVE  /\ Unopened(f)' => Fresh(f)'
               /\ Reader(f)' => Ring(f)' /\ Reading(f)'
    <3>1. \A g \in Files : g # file[w] =>
            /\ outcome'[g] = outcome[g]
            /\ turn'[g] = turn[g] /\ astray'[g] = astray[g]
            /\ current'[g] = current[g]
            /\ submitted'[g] = submitted[g] /\ pc'[g] = pc[g]
            /\ id'[g] = id[g] /\ result'[g] = result[g]
      BY <1>2 DEF Open
    <3> QED
      BY <2>1, <2>2, <2>3, <3>1, StreamsOfOthers
  <2>4. ASSUME NEW f \in Files, f = file[w]
        PROVE  ~Unopened(f)' /\ Ring(f)' /\ Reading(f)'
    <3>1. Ring(f)' /\ Reading(f)'
      BY <1>2, <2>4, OpenStarts
    <3>2. outcome[f] = "taken"
      BY <2>1, <2>4 DEF Account
    <3>3. \A v \in Threads : file[v] = f => v = w
      BY <2>4 DEF Driver, Handout, Files
    <3>4. wpc'[w] = "read"
      BY <1>2 DEF Open, Collects, workerVars, Driver, WorkerTypeOK
    <3>5. ~Unopened(f)'
      BY <2>1, <3>2, <3>3, <3>4 DEF Unopened
    <3> QED
      BY <3>1, <3>5
  <2> QED
    BY <2>3, <2>4 DEF Streams
<1>3. CASE OpenFails(w)
  <2>1. HasFile(w)
    BY <1>3 DEF OpenFails, HasFile
  <2>2. file[w] \in Files /\ \A v \in Threads : file[v] = file[w] => v = w
    BY <2>1, FilesOfWorkers DEF Driver, Handout, Files
  <2>3. /\ wpc' = [wpc EXCEPT ![w] = "failed"]
        /\ outcome' = [outcome EXCEPT ![file[w]] = "failed"]
        /\ UNCHANGED <<inputVars, streamVars, file>>
    BY <1>3 DEF OpenFails, Leave
  <2>4. \A f \in Files : Unopened(f)' => Unopened(f)
    BY <2>1, <2>2, <2>3 DEF Driver, WorkerTypeOK, Unopened
  <2>5. \A f \in Files : Reader(f)' => Reader(f)
    BY <2>2, <2>3 DEF Driver, WorkerTypeOK, Reader
  <2> QED
    BY <2>3, <2>4, <2>5, StreamsKept
<1>4. CASE Escape(w)
  <2>1. HasFile(w)
    BY <1>4 DEF Escape, HasFile
  <2>2. file[w] \in Files /\ \A v \in Threads : file[v] = file[w] => v = w
    BY <2>1, FilesOfWorkers DEF Driver, Handout, Files
  <2>3. /\ wpc' = [wpc EXCEPT ![w] = "thrown"]
        /\ outcome' = [outcome EXCEPT ![file[w]] = "failed"]
        /\ UNCHANGED <<inputVars, streamVars, file>>
    BY <1>4 DEF Escape, Leave
  <2>4. \A f \in Files : Unopened(f)' => Unopened(f)
    BY <2>1, <2>2, <2>3 DEF Driver, WorkerTypeOK, Unopened
  <2>5. \A f \in Files : Reader(f)' => Reader(f)
    BY <2>2, <2>3 DEF Driver, WorkerTypeOK, Reader
  <2> QED
    BY <2>3, <2>4, <2>5, StreamsKept
<1>5. CASE CollectBlock(w)
  <2>1. HasFile(w) /\ UNCHANGED <<inputVars, file, outcome>>
    BY <1>5 DEF CollectBlock, HasFile, Collects, workerVars
  <2>2. \A v \in Threads : v # w => wpc'[v] = wpc[v]
    BY <1>5 DEF CollectBlock, workerVars
  <2>3. ASSUME NEW f \in Files, f # file[w]
        PROVE  /\ Unopened(f)' => Fresh(f)'
               /\ Reader(f)' => Ring(f)' /\ Reading(f)'
    <3>1. \A g \in Files : g # file[w] =>
            /\ outcome'[g] = outcome[g]
            /\ turn'[g] = turn[g] /\ astray'[g] = astray[g]
            /\ current'[g] = current[g]
            /\ submitted'[g] = submitted[g] /\ pc'[g] = pc[g]
            /\ id'[g] = id[g] /\ result'[g] = result[g]
      BY <1>5 DEF CollectBlock
    <3> QED
      BY <2>1, <2>2, <2>3, <3>1, StreamsOfOthers
  <2>4. ASSUME NEW f \in Files, f = file[w]
        PROVE  ~Unopened(f)' /\ Ring(f)' /\ Reading(f)'
    <3>1. Ring(f)' /\ Reading(f)'
      BY <1>5, <2>4, CollectKeepsOrder
    <3>2. outcome[f] = "taken"
      BY <2>1, <2>4 DEF Account
    <3>3. \A v \in Threads : file[v] = f => v = w
      BY <2>4 DEF Driver, Handout, Files
    <3>4. wpc'[w] = "read"
      BY <1>5 DEF CollectBlock, Collects, workerVars, Driver, WorkerTypeOK
    <3>5. ~Unopened(f)'
      BY <2>1, <3>2, <3>3, <3>4 DEF Unopened
    <3> QED
      BY <3>1, <3>5
  <2> QED
    BY <2>3, <2>4 DEF Streams
<1>6. CASE CollectEnd(w)
  <2>1. /\ wpc[w] = "read"
        /\ UNCHANGED <<inputVars, astray, current, submitted, pc, id, result, file, outcome>>
        /\ wpc' = [wpc EXCEPT ![w] = "drain"]
        /\ turn' = [turn EXCEPT ![file[w]] = CANCEL]
    BY <1>6 DEF CollectEnd, Collects, CloseStream
  <2>2. HasFile(w)
    BY <2>1 DEF HasFile
  <2> QED
    BY <2>1, <2>2, StreamLeft
<1>7. CASE CollectError(w)
  <2>1. /\ wpc[w] = "read"
        /\ UNCHANGED <<inputVars, astray, current, submitted, pc, id, result, file, outcome>>
        /\ wpc' = [wpc EXCEPT ![w] = "abort"]
        /\ turn' = [turn EXCEPT ![file[w]] = CANCEL]
    BY <1>7 DEF CollectError, Collects, CloseStream
  <2>2. HasFile(w)
    BY <2>1 DEF HasFile
  <2> QED
    BY <2>1, <2>2, StreamLeft
<1>8. CASE WriteFails(w)
  <2>1. /\ wpc[w] = "read"
        /\ UNCHANGED <<inputVars, astray, current, submitted, pc, id, result, file, outcome>>
        /\ wpc' = [wpc EXCEPT ![w] = "abort"]
        /\ turn' = [turn EXCEPT ![file[w]] = CANCEL]
    BY <1>8 DEF WriteFails, Collects, CloseStream
  <2>2. HasFile(w)
    BY <2>1 DEF HasFile
  <2> QED
    BY <2>1, <2>2, StreamLeft
<1>9. CASE Drain(w)
  <2>1. HasFile(w)
    BY <1>9 DEF Drain, HasFile
  <2>2. file[w] \in Files /\ \A v \in Threads : file[v] = file[w] => v = w
    BY <2>1, FilesOfWorkers DEF Driver, Handout, Files
  <2>3. /\ wpc' = [wpc EXCEPT ![w] = "finish"]
        /\ outcome' = [outcome EXCEPT ![file[w]] = "taken"]
        /\ UNCHANGED <<inputVars, streamVars, file>>
    BY <1>9 DEF Drain, Leave
  <2>4. \A f \in Files : Unopened(f)' => Unopened(f)
    BY <2>1, <2>2, <2>3 DEF Driver, WorkerTypeOK, Unopened
  <2>5. \A f \in Files : Reader(f)' => Reader(f)
    BY <2>2, <2>3 DEF Driver, WorkerTypeOK, Reader
  <2> QED
    BY <2>3, <2>4, <2>5, StreamsKept
<1>10. CASE Abort(w)
  <2>1. HasFile(w)
    BY <1>10 DEF Abort, HasFile
  <2>2. file[w] \in Files /\ \A v \in Threads : file[v] = file[w] => v = w
    BY <2>1, FilesOfWorkers DEF Driver, Handout, Files
  <2>3. /\ wpc' = [wpc EXCEPT ![w] = "failed"]
        /\ outcome' = [outcome EXCEPT ![file[w]] = "failed"]
        /\ UNCHANGED <<inputVars, streamVars, file>>
    BY <1>10 DEF Abort, Leave
  <2>4. \A f \in Files : Unopened(f)' => Unopened(f)
    BY <2>1, <2>2, <2>3 DEF Driver, WorkerTypeOK, Unopened
  <2>5. \A f \in Files : Reader(f)' => Reader(f)
    BY <2>2, <2>3 DEF Driver, WorkerTypeOK, Reader
  <2> QED
    BY <2>3, <2>4, <2>5, StreamsKept
<1>11. CASE Finish(w)
  <2>1. HasFile(w)
    BY <1>11 DEF Finish, HasFile
  <2>2. file[w] \in Files /\ \A v \in Threads : file[v] = file[w] => v = w
    BY <2>1, FilesOfWorkers DEF Driver, Handout, Files
  <2>3. /\ wpc' = [wpc EXCEPT ![w] = "next"]
        /\ outcome' = [outcome EXCEPT ![file[w]] = "ok"]
        /\ UNCHANGED <<inputVars, streamVars, file>>
    BY <1>11 DEF Finish, Leave
  <2>4. \A f \in Files : Unopened(f)' => Unopened(f)
    BY <2>1, <2>2, <2>3 DEF Driver, WorkerTypeOK, Unopened
  <2>5. \A f \in Files : Reader(f)' => Reader(f)
    BY <2>2, <2>3 DEF Driver, WorkerTypeOK, Reader
  <2> QED
    BY <2>3, <2>4, <2>5, StreamsKept
<1> QED
  BY <1>1, <1>2, <1>3, <1>4, <1>5, <1>6, <1>7, <1>8, <1>9, <1>10, <1>11
  DEF WorkerStep

\* A task changes its own stream only.
LEMMA PoolTouches ==
  ASSUME NEW f \in Files, NEW s \in Slots, PlaceTypeOK, StreamTypeOK,
         PoolStep(f, s)
  PROVE  /\ UNCHANGED <<inputVars, mainVars, index, workerVars, outcome>>
         /\ UNCHANGED <<current, submitted, id>>
         /\ \A g \in Files : g # f =>
              /\ turn'[g] = turn[g] /\ astray'[g] = astray[g]
              /\ pc'[g] = pc[g] /\ result'[g] = result[g]
<1>1. CASE StartTask(f, s)
  BY <1>1 DEF StartTask, FromQueue, Goto
<1>2. CASE RunShare(f, s)
  BY <1>2 DEF RunShare, FromQueue
<1>3. CASE TakeTurn(f, s)
  BY <1>3 DEF TakeTurn, Goto
<1>4. CASE GiveUp(f, s)
  BY <1>4 DEF GiveUp, Returns, Goto
<1>5. CASE Read(f, s)
  <2>1. UNCHANGED <<inputVars, mainVars, index, workerVars, current, submitted,
                    id, outcome, astray>>
    BY <1>5 DEF Read
  <2>2. \A g \in Files : g # f =>
          turn'[g] = turn[g] /\ pc'[g] = pc[g] /\ result'[g] = result[g]
    <3>1. \/ turn' = [turn EXCEPT ![f] = id[f][s]]
          \/ turn' = [turn EXCEPT ![f] = CANCEL]
      BY <1>5 DEF Read
    <3>2. \/ pc' = [pc EXCEPT ![f][s] = "decode"]
          \/ pc' = [pc EXCEPT ![f][s] = "over"]
      BY <1>5 DEF Read, Returns, Goto
    <3>3. \/ result' = result
          \/ \E r \in {"end", "error"} : result' = [result EXCEPT ![f][s] = r]
      BY <1>5 DEF Read, Returns, WhatIsRead
    <3>4. ASSUME NEW g \in Files, g # f
          PROVE  turn'[g] = turn[g] /\ pc'[g] = pc[g] /\ result'[g] = result[g]
      <4>1. turn'[g] = turn[g]
        BY <3>1, <3>4 DEF StreamTypeOK
      <4>2. pc'[g] = pc[g]
        BY <3>2, <3>4 DEF PlaceTypeOK
      <4>3. result'[g] = result[g]
        BY <3>3, <3>4 DEF StreamTypeOK
      <4> QED
        BY <4>1, <4>2, <4>3
    <3> QED
      BY <3>4
  <2> QED
    BY <2>1, <2>2
<1>6. CASE Decode(f, s)
  BY <1>6 DEF Decode, Returns, Goto
<1>7. CASE DecodeShared(f, s)
  BY <1>7 DEF DecodeShared, Goto
<1>8. CASE Shared(f, s)
  BY <1>8 DEF Shared, Returns, Goto
<1>9. CASE DecodeFails(f, s)
  BY <1>9 DEF DecodeFails, Returns, Goto
<1>10. CASE CheckTurn(f, s)
  BY <1>10 DEF CheckTurn, Goto
<1> QED
  BY <1>1, <1>2, <1>3, <1>4, <1>5, <1>6, <1>7, <1>8, <1>9, <1>10 DEF PoolStep

LEMMA StreamsPool ==
  ASSUME NEW f \in Files, NEW s \in Slots, Driver, PlaceTypeOK, StreamTypeOK,
         Tasks, Queue, Streams, Account, PoolStep(f, s)
  PROVE  Streams'
<1>1. /\ UNCHANGED <<inputVars, workerVars, outcome, current, submitted, id>>
      /\ \A g \in Files : g # f =>
           /\ turn'[g] = turn[g] /\ astray'[g] = astray[g]
           /\ pc'[g] = pc[g] /\ result'[g] = result[g]
  BY PoolTouches
<1>2. ASSUME NEW g \in Files
      PROVE  (Unopened(g)' <=> Unopened(g)) /\ (Reader(g)' <=> Reader(g))
  BY <1>1 DEF Unopened, Reader, workerVars
<1>3. ASSUME NEW g \in Files, g # f
      PROVE  /\ Unopened(g)' => Fresh(g)'
             /\ Reader(g)' => Ring(g)' /\ Reading(g)'
  <2>1. /\ Fresh(g)' <=> Fresh(g)
        /\ Ring(g) => Ring(g)'
        /\ Reading(g) => Reading(g)'
    BY <1>1, <1>3, SameStream
  <2> QED
    BY <2>1, <1>2 DEF Streams
<1>4. Active(f, s)
  <2>1. (StartTask(f, s) \/ RunShare(f, s)) => pc[f][s] \in {"queued", "nested"}
    BY Queued DEF StartTask, RunShare, FromQueue
  <2> QED
    BY <2>1 DEF PoolStep, CheckTurn, TakeTurn, GiveUp, Read, Decode, DecodeShared, Shared,
                DecodeFails, Active
<1>5. PICK w \in Threads : file[w] = f /\ HasStream(w)
  BY <1>4 DEF Tasks
<1>6. f <= nbFiles /\ s < JobsOf(f)
  BY <1>4 DEF Tasks, Active
<1>7. ~Unopened(f)
  <2>1. HasFile(w) /\ wpc[w] # "open"
    BY <1>5 DEF HasStream, HasFile
  <2> QED
    BY <2>1, <1>5, ReaderOpened
<1>8. Reader(f)' => Ring(f)' /\ Reading(f)'
  <2> SUFFICES ASSUME Ring(f), Reading(f) PROVE Ring(f)' /\ Reading(f)'
    BY <1>2 DEF Streams
  <2>1. CASE RunShare(f, s)
    <3>1. turn' = turn /\ pc' = pc /\ result' = result /\ astray' = astray
      BY <2>1 DEF RunShare
    <3> QED
      BY <3>1, <1>1, SameStream
  <2>2. CASE ~RunShare(f, s)
    <3>1. TaskMoves(f, s)
      BY <2>2, <1>6, PoolMoves DEF Driver
    <3> QED
      BY <3>1, <1>6, TaskMovesKeepsOrder DEF Driver
  <2> QED
    BY <2>1, <2>2
<1> QED
  BY <1>2, <1>3, <1>7, <1>8 DEF Streams

-----------------------------------------------------------------------------
(* What is known of each file.                                             *)

LEMMA AllBlocksKept ==
  ASSUME NEW f \in Files, UNCHANGED inputVars, submitted'[f] = submitted[f]
  PROVE  AllBlocks(f)' <=> AllBlocks(f)
  BY JobsSame DEF AllBlocks, inputVars

LEMMA AccountMain ==
  ASSUME Driver, Account, MainStep
  PROVE  Account'
<1>1. UNCHANGED <<inputVars, streamVars, file, outcome>>
  BY DEF MainStep, StartWorker, StartFails, CollectOk, CollectFailed,
         CollectThrown, Clear, Rescue, WaitAll, Delete, Join, workerVars,
         inputVars
<1>2. /\ \A w \in Threads : HasFile(w)' <=> HasFile(w)
      /\ \A w \in Threads : wpc'[w] \in {"failed", "thrown"} <=> wpc[w] \in {"failed", "thrown"}
      /\ \A w \in Threads : wpc'[w] = "ok" => wpc[w] = "ok"
      /\ \A w \in Threads : wpc'[w] \in {"drain", "finish"} => wpc[w] \in {"drain", "finish"}
  <2>1. CASE StartWorker
    <3>1. wpc' = [wpc EXCEPT ![started + 1] = "next"] /\ started + 1 \in Threads
          /\ wpc[started + 1] = "none"
      BY <2>1, ConstantsAssumption
      DEF StartWorker, Driver, Waiting, MainTypeOK, InputTypeOK,
        WorkerTypeOK, Threads
    <3> QED
      BY <3>1 DEF Driver, WorkerTypeOK, HasFile
  <2>2. CASE ~StartWorker
    <3>1. wpc' = wpc
      BY <2>2
      DEF MainStep, StartFails, CollectOk, CollectFailed, CollectThrown, Clear,
          Rescue, WaitAll, Delete, Join, workerVars, inputVars
    <3> QED
      BY <3>1 DEF HasFile
  <2> QED
    BY <2>1, <2>2
<1>3. index' = index \/ (index' = nbFiles /\ res # "ok")
  <2>1. CASE Clear \/ Rescue
    BY <2>1 DEF Clear, Rescue, Driver, Verdict, Cleared
  <2>2. StartWorker \/ StartFails \/ CollectOk \/ CollectFailed \/ CollectThrown
          => index' = index
    BY DEF StartWorker, StartFails, CollectOk, CollectFailed, CollectThrown
  <2>3. WaitAll \/ Delete \/ Join => index' = index
    BY DEF WaitAll, Delete, Join
  <2> QED
    BY <2>1, <2>2, <2>3 DEF MainStep
<1>4. res # "ok" => res' # "ok"
  BY DEF MainStep, StartWorker, StartFails, CollectOk, CollectFailed,
         CollectThrown, Clear, Rescue, WaitAll, Delete, Join, workerVars,
         inputVars
<1>5. \A f \in Files : AllBlocks(f)' <=> AllBlocks(f)
  BY <1>1, AllBlocksKept DEF streamVars
<1>6. \A w \in Threads : HasFile(w) => file[w] \in Files
  BY FilesOfWorkers
<1>7. nbFiles' = nbFiles /\ nbFiles \in Nat /\ index \in Nat
  BY <1>1, ConstantsAssumption DEF inputVars, Driver, InputTypeOK, WorkerTypeOK
<1>8. \A f \in Files : f > index' \/ f > nbFiles => outcome[f] = "none"
  BY <1>3, <1>7 DEF Account
<1>9. \A f \in Files : outcome[f] = "none" /\ f <= nbFiles /\ f <= index' => res' # "ok"
  BY <1>3, <1>4 DEF Account
<1>10. /\ \A f \in Files : outcome'[f] = "taken" <=>
            \E w \in Threads : file'[w] = f /\ HasFile(w)'
       /\ \A f \in Files : outcome'[f] = "failed" =>
            \E w \in Threads : file'[w] = f /\ wpc'[w] \in {"failed", "thrown"}
  BY <1>1, <1>2 DEF Account
<1>11. \A w \in Threads : wpc'[w] = "ok" => index' >= nbFiles
  BY <1>2, <1>3, <1>7 DEF Account
<1>12. \A w \in Threads : wpc'[w] \in {"drain", "finish"} => AllBlocks(file[w])'
  <2> SUFFICES ASSUME NEW w \in Threads, wpc'[w] \in {"drain", "finish"}
               PROVE  AllBlocks(file[w])'
    OBVIOUS
  <2>1. HasFile(w) /\ AllBlocks(file[w])
    BY <1>2 DEF Account, HasFile
  <2> QED
    BY <2>1, <1>1, <1>6, JobsSame DEF AllBlocks, inputVars, streamVars
<1>13. \A f \in Files : outcome'[f] = "ok" => AllBlocks(f)'
  BY <1>1, <1>5 DEF Account
<1> QED
  BY <1>1, <1>7, <1>8, <1>9, <1>10, <1>11, <1>12, <1>13 DEF Account

LEMMA AccountPool ==
  ASSUME NEW f \in Files, NEW s \in Slots, Driver, PlaceTypeOK, StreamTypeOK,
         Account, PoolStep(f, s)
  PROVE  Account'
<1>1. UNCHANGED <<inputVars, mainVars, index, workerVars, outcome, submitted>>
  BY PoolTouches
<1>2. \A g \in Files : AllBlocks(g)' <=> AllBlocks(g)
  BY <1>1, AllBlocksKept
<1>3. \A w \in Threads : wpc[w] \in {"drain", "finish"} => file[w] \in Files
  BY FilesOfWorkers DEF HasFile
<1>4. \A w \in Threads : wpc'[w] \in {"drain", "finish"} => AllBlocks(file[w])'
  <2> SUFFICES ASSUME NEW w \in Threads, wpc'[w] \in {"drain", "finish"}
               PROVE  AllBlocks(file[w])'
    OBVIOUS
  <2>1. AllBlocks(file[w]) /\ file[w] \in Files
    BY <1>1, <1>3 DEF Account, workerVars
  <2> QED
    BY <2>1, <1>1, JobsSame DEF AllBlocks, inputVars, workerVars
<1> QED
  BY <1>1, <1>2, <1>4
  DEF Account, HasFile, inputVars, mainVars, workerVars

\* A worker finds the end of its file behind the last block.
LEMMA EndIsBehindLastBlock ==
  ASSUME InputTypeOK, StreamTypeOK, NEW f \in Files, f <= nbFiles, Ring(f),
         Reading(f), pc[f][current[f]] = "over", result[f][current[f]] = "end"
  PROVE  AllBlocks(f)
<1>1. /\ current[f] \in Slots /\ current[f] < JobsOf(f)
      /\ id[f][current[f]] = First(f)
  BY RingIds
<1>2. ~OrderlyTask(f, current[f]) /\ ~Passed(f, current[f])
  BY DEF OrderlyTask, Passed
<1>3. PICK r \in Slots : Breaks(f, r)
  BY <1>1, <1>2 DEF Reading, Orderly, Broken
<1>4. r < JobsOf(f) /\ id[f][r] >= First(f)
  BY <1>3, RingIds DEF Breaks
<1>5. ~(First(f) <= id[f][r] - 1)
  BY <1>1, <1>2, <1>3 DEF Breaks, PassedUpTo
<1>6. id[f][r] = id[f][current[f]]
  BY <1>1, <1>4, <1>5, RingTypes
<1>7. r = current[f]
  BY <1>1, <1>4, <1>6, RingIds
<1>8. First(f) = nbBlocks + 1
  BY <1>1, <1>3, <1>7 DEF Breaks
<1> QED
  BY <1>8, RingTypes DEF First, AllBlocks

\* What remains of the account when worker w acts on its file only.
LEMMA AccountOfOthers ==
  ASSUME Driver, Account, NEW w \in Threads, HasFile(w),
         UNCHANGED <<inputVars, mainVars, index, file>>,
         \A v \in Threads : v # w => wpc'[v] = wpc[v],
         wpc'[w] # "ok",
         \A f \in Files : f # file[w] =>
           outcome'[f] = outcome[f] /\ submitted'[f] = submitted[f],
         outcome'[file[w]] = "taken" <=> HasFile(w)',
         outcome'[file[w]] = "failed" => wpc'[w] \in {"failed", "thrown"},
         outcome'[file[w]] # "none",
         wpc'[w] \in {"drain", "finish"} => AllBlocks(file[w])',
         outcome'[file[w]] = "ok" => AllBlocks(file[w])'
  PROVE  Account'
<1>1. file[w] \in Files /\ file[w] <= nbFiles /\ file[w] <= index /\ file[w] \in Nat
  BY FilesOfWorkers DEF Driver, Handout, Files
<1>2. \A v \in Threads : file[v] = file[w] => v = w
  BY <1>1 DEF Driver, Handout, Files
<1>3. \A f \in Files : f # file[w] => (AllBlocks(f)' <=> AllBlocks(f))
  BY AllBlocksKept
<1>4. UNCHANGED <<index, nbFiles, res, file>>
  BY DEF mainVars, inputVars
<1>5. \A f \in Files : f > index \/ f > nbFiles => outcome'[f] = "none"
  <2>1. ~(file[w] > index) /\ ~(file[w] > nbFiles)
    BY <1>1 DEF Driver, WorkerTypeOK, InputTypeOK
  <2> QED
    BY <2>1 DEF Account
<1>6. \A f \in Files : outcome'[f] = "none" /\ f <= nbFiles /\ f <= index => res # "ok"
  BY DEF Account
<1>7. \A f \in Files : outcome'[f] = "taken" <=>
        \E v \in Threads : file[v] = f /\ HasFile(v)'
  <2>1. \A v \in Threads : v # w => (HasFile(v)' <=> HasFile(v))
    BY DEF HasFile
  <2> SUFFICES ASSUME NEW f \in Files
               PROVE  outcome'[f] = "taken" <=>
                        \E v \in Threads : file[v] = f /\ HasFile(v)'
    OBVIOUS
  <2>2. CASE f = file[w]
    BY <2>2, <1>2
  <2>3. CASE f # file[w]
    BY <2>1, <2>3 DEF Account
  <2> QED
    BY <2>2, <2>3
<1>8. \A f \in Files : outcome'[f] = "failed" =>
        \E v \in Threads : file[v] = f /\ wpc'[v] \in {"failed", "thrown"}
  <2> SUFFICES ASSUME NEW f \in Files, outcome'[f] = "failed"
               PROVE  \E v \in Threads : file[v] = f /\ wpc'[v] \in {"failed", "thrown"}
    OBVIOUS
  <2>1. CASE f = file[w]
    BY <2>1
  <2>2. CASE f # file[w]
    BY <2>2 DEF Account
  <2> QED
    BY <2>1, <2>2
<1>9. \A v \in Threads : wpc'[v] = "ok" => index >= nbFiles
  BY DEF Account
<1>10. \A v \in Threads : wpc'[v] \in {"drain", "finish"} => AllBlocks(file[v])'
  <2> SUFFICES ASSUME NEW v \in Threads, v # w, wpc[v] \in {"drain", "finish"}
               PROVE  AllBlocks(file[v])'
    OBVIOUS
  <2>1. AllBlocks(file[v]) /\ file[v] \in Files /\ file[v] # file[w]
    BY <1>2, FilesOfWorkers DEF Account, HasFile
  <2> QED
    BY <2>1, <1>4, JobsSame DEF AllBlocks, inputVars
<1>11. \A f \in Files : outcome'[f] = "ok" => AllBlocks(f)'
  <2> SUFFICES ASSUME NEW f \in Files, outcome'[f] = "ok"
               PROVE  AllBlocks(f)'
    OBVIOUS
  <2>1. CASE f = file[w]
    BY <2>1, <1>4 DEF AllBlocks
  <2>2. CASE f # file[w]
    BY <2>2, <1>3 DEF Account
  <2> QED
    BY <2>1, <2>2
<1> QED
  BY <1>4, <1>5, <1>6, <1>7, <1>8, <1>9, <1>10, <1>11 DEF Account

LEMMA AccountWorker ==
  ASSUME NEW w \in Threads, Driver, StreamTypeOK, Streams, Account,
         WorkerStep(w)
  PROVE  Account'
<1>1. CASE TakeFile(w)
  <2>1. /\ wpc[w] = "next" /\ index' = index + 1
        /\ UNCHANGED <<inputVars, mainVars, submitted, nbFiles, res>>
    BY <1>1 DEF TakeFile, streamVars, inputVars, mainVars
  <2>2. index \in Nat /\ nbFiles \in Nat /\ nbFiles <= MaxFiles /\ MaxFiles \in Nat
    BY ConstantsAssumption DEF Driver, WorkerTypeOK, InputTypeOK
  <2>3. \A f \in Files : f \in Nat /\ (AllBlocks(f)' <=> AllBlocks(f))
    BY <2>1, AllBlocksKept DEF Files
  <2>4. CASE index < nbFiles
    <3>1. /\ wpc' = [wpc EXCEPT ![w] = "open"]
          /\ file' = [file EXCEPT ![w] = index + 1]
          /\ outcome' = [outcome EXCEPT ![index + 1] = "taken"]
      BY <1>1, <2>4 DEF TakeFile
    <3>2. index + 1 \in Files /\ outcome[index + 1] = "none"
      BY <2>2, <2>4 DEF Account, Files
    <3>3. /\ wpc'[w] = "open" /\ file'[w] = index + 1 /\ outcome'[index + 1] = "taken"
          /\ HasFile(w)'
      BY <3>1, <3>2 DEF Driver, WorkerTypeOK, HasFile
    <3>4. \A v \in Threads : v # w => wpc'[v] = wpc[v] /\ file'[v] = file[v]
                                      /\ (HasFile(v)' <=> HasFile(v))
      BY <3>1 DEF HasFile
    <3>5. \A f \in Files : f # index + 1 => outcome'[f] = outcome[f]
      BY <3>1
    <3>6. \A f \in Files : f > index' \/ f > nbFiles => outcome'[f] = "none"
      BY <2>1, <2>2, <2>3, <2>4, <3>5 DEF Account
    <3>7. \A f \in Files : outcome'[f] = "none" /\ f <= nbFiles /\ f <= index' => res # "ok"
      BY <2>1, <2>2, <2>3, <3>3, <3>5 DEF Account
    <3>8. \A f \in Files : outcome'[f] = "taken" <=>
            \E v \in Threads : file'[v] = f /\ HasFile(v)'
      <4>1. ~HasFile(w)
        BY <2>1 DEF HasFile
      <4> QED
        BY <4>1, <3>3, <3>4, <3>5 DEF Account
    <3>9. \A f \in Files : outcome'[f] = "failed" =>
            \E v \in Threads : file'[v] = f /\ wpc'[v] \in {"failed", "thrown"}
      BY <2>1, <3>3, <3>4, <3>5 DEF Account
    <3>10. \A v \in Threads : wpc'[v] = "ok" => index' >= nbFiles
      BY <2>1, <2>2, <2>4, <3>3, <3>4 DEF Account
    <3>11. \A v \in Threads : wpc'[v] \in {"drain", "finish"} => AllBlocks(file[v])'
      <4> SUFFICES ASSUME NEW v \in Threads, v # w, wpc[v] \in {"drain", "finish"}
                   PROVE  AllBlocks(file[v])'
        BY <3>3, <3>4
      <4>1. AllBlocks(file[v]) /\ file[v] \in Files /\ file'[v] = file[v]
        BY <3>4, FilesOfWorkers DEF Account, HasFile
      <4> QED
        BY <4>1, <2>1, JobsSame DEF AllBlocks, inputVars
    <3>12. \A f \in Files : outcome'[f] = "ok" => AllBlocks(f)'
      BY <2>3, <3>3, <3>5 DEF Account
    <3> QED
      BY <2>1, <3>6, <3>7, <3>8, <3>9, <3>10, <3>11, <3>12 DEF Account
  <2>5. CASE ~(index < nbFiles)
    <3>1. /\ wpc' = [wpc EXCEPT ![w] = "ok"]
          /\ file' = [file EXCEPT ![w] = 0]
          /\ UNCHANGED outcome
      BY <1>1, <2>5 DEF TakeFile
    <3>2. wpc'[w] = "ok" /\ ~HasFile(w)' /\ ~HasFile(w)
      BY <2>1, <3>1 DEF Driver, WorkerTypeOK, HasFile
    <3>3. \A v \in Threads : v # w => wpc'[v] = wpc[v] /\ file'[v] = file[v]
                                      /\ (HasFile(v)' <=> HasFile(v))
      BY <3>1 DEF HasFile
    <3>6. \A f \in Files : f > index' \/ f > nbFiles => outcome[f] = "none"
      BY <2>1, <2>2, <2>3 DEF Account
    <3>7. \A f \in Files : outcome[f] = "none" /\ f <= nbFiles /\ f <= index' => res # "ok"
      BY <2>2, <2>3, <2>5 DEF Account
    <3>8. \A f \in Files : outcome[f] = "taken" <=>
            \E v \in Threads : file'[v] = f /\ HasFile(v)'
      BY <3>2, <3>3 DEF Account
    <3>9. \A f \in Files : outcome[f] = "failed" =>
            \E v \in Threads : file'[v] = f /\ wpc'[v] \in {"failed", "thrown"}
      BY <2>1, <3>3 DEF Account
    <3>10. \A v \in Threads : wpc'[v] = "ok" => index' >= nbFiles
      BY <2>1, <2>2, <2>5
    <3>11. \A v \in Threads : wpc'[v] \in {"drain", "finish"} => AllBlocks(file[v])'
      <4> SUFFICES ASSUME NEW v \in Threads, v # w, wpc[v] \in {"drain", "finish"}
                   PROVE  AllBlocks(file[v])'
        BY <3>2, <3>3
      <4>1. AllBlocks(file[v]) /\ file[v] \in Files /\ file'[v] = file[v]
        BY <3>3, FilesOfWorkers DEF Account, HasFile
      <4> QED
        BY <4>1, <2>1, JobsSame DEF AllBlocks, inputVars
    <3>12. \A f \in Files : outcome[f] = "ok" => AllBlocks(f)'
      BY <2>3 DEF Account
    <3> QED
      BY <2>1, <3>1, <3>6, <3>7, <3>8, <3>9, <3>10, <3>11, <3>12 DEF Account
  <2> QED
    BY <2>4, <2>5
<1>2. CASE Open(w)
  <2>1. /\ HasFile(w) /\ wpc[w] = "open"
        /\ UNCHANGED <<inputVars, mainVars, index, file, outcome>>
        /\ wpc' = [wpc EXCEPT ![w] = "read"]
        /\ submitted' = [submitted EXCEPT ![file[w]] = JobsOf(file[w])]
    BY <1>2 DEF Open, Collects, CloseStream, HasFile
  <2>2. file[w] \in Files /\ outcome[file[w]] = "taken"
    BY <2>1, FilesOfWorkers DEF Account
  <2>3. wpc'[w] = "read" /\ outcome'[file[w]] = "taken" /\ HasFile(w)'
    BY <2>1, <2>2 DEF Driver, WorkerTypeOK, HasFile
  <2>6. /\ \A v \in Threads : v # w => wpc'[v] = wpc[v]
        /\ \A f \in Files : f # file[w] =>
             outcome'[f] = outcome[f] /\ submitted'[f] = submitted[f]
    BY <2>1
  <2> QED
    BY <2>1, <2>3, <2>6, AccountOfOthers
<1>3. CASE OpenFails(w)
  <2>1. /\ HasFile(w)
        /\ UNCHANGED <<inputVars, mainVars, index, file, submitted>>
        /\ wpc' = [wpc EXCEPT ![w] = "failed"]
        /\ outcome' = [outcome EXCEPT ![file[w]] = "failed"]
    BY <1>3 DEF OpenFails, Leave, HasFile, streamVars
  <2>2. file[w] \in Files
    BY <2>1, FilesOfWorkers
  <2>3. wpc'[w] = "failed" /\ outcome'[file[w]] = "failed"
    BY <2>1, <2>2 DEF Driver, WorkerTypeOK
  <2>4. ~HasFile(w)'
    BY <2>3 DEF HasFile
  <2>6. /\ \A v \in Threads : v # w => wpc'[v] = wpc[v]
        /\ \A f \in Files : f # file[w] =>
             outcome'[f] = outcome[f] /\ submitted'[f] = submitted[f]
    BY <2>1
  <2> QED
    BY <2>1, <2>3, <2>4, <2>6, AccountOfOthers
<1>4. CASE Escape(w)
  <2>1. /\ HasFile(w)
        /\ UNCHANGED <<inputVars, mainVars, index, file, submitted>>
        /\ wpc' = [wpc EXCEPT ![w] = "thrown"]
        /\ outcome' = [outcome EXCEPT ![file[w]] = "failed"]
    BY <1>4 DEF Escape, Leave, HasFile, streamVars
  <2>2. file[w] \in Files
    BY <2>1, FilesOfWorkers
  <2>3. wpc'[w] = "thrown" /\ outcome'[file[w]] = "failed"
    BY <2>1, <2>2 DEF Driver, WorkerTypeOK
  <2>4. ~HasFile(w)'
    BY <2>3 DEF HasFile
  <2>6. /\ \A v \in Threads : v # w => wpc'[v] = wpc[v]
        /\ \A f \in Files : f # file[w] =>
             outcome'[f] = outcome[f] /\ submitted'[f] = submitted[f]
    BY <2>1
  <2> QED
    BY <2>1, <2>3, <2>4, <2>6, AccountOfOthers
<1>5. CASE CollectBlock(w)
  <2>1. /\ HasFile(w) /\ wpc[w] = "read"
        /\ UNCHANGED <<inputVars, mainVars, index, file, outcome>>
        /\ wpc' = wpc
        /\ submitted' = [submitted EXCEPT ![file[w]] = submitted[file[w]] + 1]
    BY <1>5 DEF CollectBlock, workerVars, Collects, CloseStream, HasFile
  <2>2. file[w] \in Files /\ outcome[file[w]] = "taken"
    BY <2>1, FilesOfWorkers DEF Account
  <2>3. wpc'[w] = "read" /\ outcome'[file[w]] = "taken" /\ HasFile(w)'
    BY <2>1, <2>2 DEF Driver, WorkerTypeOK, HasFile
  <2>6. /\ \A v \in Threads : v # w => wpc'[v] = wpc[v]
        /\ \A f \in Files : f # file[w] =>
             outcome'[f] = outcome[f] /\ submitted'[f] = submitted[f]
    BY <2>1
  <2> QED
    BY <2>1, <2>3, <2>6, AccountOfOthers
<1>6. CASE CollectEnd(w)
  <2>1. /\ HasFile(w) /\ wpc[w] = "read"
        /\ UNCHANGED <<inputVars, mainVars, index, file, outcome, submitted>>
        /\ wpc' = [wpc EXCEPT ![w] = "drain"]
    BY <1>6 DEF CollectEnd, Collects, CloseStream, HasFile
  <2>2. file[w] \in Files /\ outcome[file[w]] = "taken"
    BY <2>1, FilesOfWorkers DEF Account
  <2>3. wpc'[w] = "drain" /\ outcome'[file[w]] = "taken" /\ HasFile(w)'
    BY <2>1, <2>2 DEF Driver, WorkerTypeOK, HasFile
  <2>5. AllBlocks(file[w])'
    <3>0. Reader(file[w])
      BY <2>1 DEF Reader
    <3>1. Ring(file[w]) /\ Reading(file[w])
      BY <3>0, <2>2 DEF Streams
    <3>2. /\ pc[file[w]][current[file[w]]] = "over"
          /\ result[file[w]][current[file[w]]] = "end"
      BY <1>6 DEF CollectEnd, Collects
    <3>3. file[w] <= nbFiles
      BY DEF Driver, Handout
    <3>4. AllBlocks(file[w])
      BY <3>1, <3>2, <3>3, <2>2, EndIsBehindLastBlock DEF Driver
    <3> QED
      BY <3>4, <2>1, <2>2, JobsSame DEF AllBlocks, inputVars
  <2>6. /\ \A v \in Threads : v # w => wpc'[v] = wpc[v]
        /\ \A f \in Files : f # file[w] =>
             outcome'[f] = outcome[f] /\ submitted'[f] = submitted[f]
    BY <2>1
  <2> QED
    BY <2>1, <2>3, <2>5, <2>6, AccountOfOthers
<1>7. CASE CollectError(w)
  <2>1. /\ HasFile(w) /\ wpc[w] = "read"
        /\ UNCHANGED <<inputVars, mainVars, index, file, outcome, submitted>>
        /\ wpc' = [wpc EXCEPT ![w] = "abort"]
    BY <1>7 DEF CollectError, Collects, CloseStream, HasFile
  <2>2. file[w] \in Files /\ outcome[file[w]] = "taken"
    BY <2>1, FilesOfWorkers DEF Account
  <2>3. wpc'[w] = "abort" /\ outcome'[file[w]] = "taken" /\ HasFile(w)'
    BY <2>1, <2>2 DEF Driver, WorkerTypeOK, HasFile
  <2>6. /\ \A v \in Threads : v # w => wpc'[v] = wpc[v]
        /\ \A f \in Files : f # file[w] =>
             outcome'[f] = outcome[f] /\ submitted'[f] = submitted[f]
    BY <2>1
  <2> QED
    BY <2>1, <2>3, <2>6, AccountOfOthers
<1>8. CASE WriteFails(w)
  <2>1. /\ HasFile(w) /\ wpc[w] = "read"
        /\ UNCHANGED <<inputVars, mainVars, index, file, outcome, submitted>>
        /\ wpc' = [wpc EXCEPT ![w] = "abort"]
    BY <1>8 DEF WriteFails, Collects, CloseStream, HasFile
  <2>2. file[w] \in Files /\ outcome[file[w]] = "taken"
    BY <2>1, FilesOfWorkers DEF Account
  <2>3. wpc'[w] = "abort" /\ outcome'[file[w]] = "taken" /\ HasFile(w)'
    BY <2>1, <2>2 DEF Driver, WorkerTypeOK, HasFile
  <2>6. /\ \A v \in Threads : v # w => wpc'[v] = wpc[v]
        /\ \A f \in Files : f # file[w] =>
             outcome'[f] = outcome[f] /\ submitted'[f] = submitted[f]
    BY <2>1
  <2> QED
    BY <2>1, <2>3, <2>6, AccountOfOthers
<1>9. CASE Drain(w)
  <2>1. /\ HasFile(w)
        /\ UNCHANGED <<inputVars, mainVars, index, file, submitted>>
        /\ wpc' = [wpc EXCEPT ![w] = "finish"]
        /\ outcome' = [outcome EXCEPT ![file[w]] = "taken"]
    BY <1>9 DEF Drain, Leave, HasFile, streamVars
  <2>2. file[w] \in Files
    BY <2>1, FilesOfWorkers
  <2>3. wpc'[w] = "finish" /\ outcome'[file[w]] = "taken"
    BY <2>1, <2>2 DEF Driver, WorkerTypeOK
  <2>4. HasFile(w)'
    BY <2>3 DEF HasFile
  <2>5. AllBlocks(file[w])'
    <3>1. AllBlocks(file[w])
      BY <1>9 DEF Drain, Account
    <3> QED
      BY <3>1, <2>1, <2>2, JobsSame DEF AllBlocks, inputVars
  <2>6. /\ \A v \in Threads : v # w => wpc'[v] = wpc[v]
        /\ \A f \in Files : f # file[w] =>
             outcome'[f] = outcome[f] /\ submitted'[f] = submitted[f]
    BY <2>1
  <2> QED
    BY <2>1, <2>3, <2>4, <2>5, <2>6, AccountOfOthers
<1>10. CASE Abort(w)
  <2>1. /\ HasFile(w)
        /\ UNCHANGED <<inputVars, mainVars, index, file, submitted>>
        /\ wpc' = [wpc EXCEPT ![w] = "failed"]
        /\ outcome' = [outcome EXCEPT ![file[w]] = "failed"]
    BY <1>10 DEF Abort, Leave, HasFile, streamVars
  <2>2. file[w] \in Files
    BY <2>1, FilesOfWorkers
  <2>3. wpc'[w] = "failed" /\ outcome'[file[w]] = "failed"
    BY <2>1, <2>2 DEF Driver, WorkerTypeOK
  <2>4. ~HasFile(w)'
    BY <2>3 DEF HasFile
  <2>6. /\ \A v \in Threads : v # w => wpc'[v] = wpc[v]
        /\ \A f \in Files : f # file[w] =>
             outcome'[f] = outcome[f] /\ submitted'[f] = submitted[f]
    BY <2>1
  <2> QED
    BY <2>1, <2>3, <2>4, <2>6, AccountOfOthers
<1>11. CASE Finish(w)
  <2>1. /\ HasFile(w)
        /\ UNCHANGED <<inputVars, mainVars, index, file, submitted>>
        /\ wpc' = [wpc EXCEPT ![w] = "next"]
        /\ outcome' = [outcome EXCEPT ![file[w]] = "ok"]
    BY <1>11 DEF Finish, Leave, HasFile, streamVars
  <2>2. file[w] \in Files
    BY <2>1, FilesOfWorkers
  <2>3. wpc'[w] = "next" /\ outcome'[file[w]] = "ok"
    BY <2>1, <2>2 DEF Driver, WorkerTypeOK
  <2>4. ~HasFile(w)'
    BY <2>3 DEF HasFile
  <2>5. AllBlocks(file[w])'
    <3>1. AllBlocks(file[w])
      BY <1>11 DEF Finish, Account
    <3> QED
      BY <3>1, <2>1, <2>2, JobsSame DEF AllBlocks, inputVars
  <2>6. /\ \A v \in Threads : v # w => wpc'[v] = wpc[v]
        /\ \A f \in Files : f # file[w] =>
             outcome'[f] = outcome[f] /\ submitted'[f] = submitted[f]
    BY <2>1
  <2> QED
    BY <2>1, <2>3, <2>4, <2>5, <2>6, AccountOfOthers
<1> QED
  BY <1>1, <1>2, <1>3, <1>4, <1>5, <1>6, <1>7, <1>8, <1>9, <1>10, <1>11
  DEF WorkerStep

-----------------------------------------------------------------------------
(* The invariant.                                                          *)

Inv ==
  /\ Driver
  /\ Overrun
  /\ PlaceTypeOK
  /\ StreamTypeOK
  /\ Tasks
  /\ Queue
  /\ Streams
  /\ Account

LEMMA InvInit == Init => Inv
<1> SUFFICES ASSUME Init PROVE Inv
  OBVIOUS
<1> USE ConstantsAssumption
<1>1. MaxJobs \in Nat /\ MaxJobs >= 2 /\ MaxFiles \in Nat /\ jobs \in 2..MaxJobs
      /\ nbFiles \in 2..MaxFiles /\ nbBlocks \in 1..MaxBlocks
  BY DEF Init
<1>2. Driver
  <2>1. InputTypeOK /\ MainTypeOK /\ WorkerTypeOK
    BY <1>1 DEF Init, InputTypeOK, MainTypeOK, WorkerTypeOK
  <2>2. Waiting /\ Verdict /\ Handout
    BY <1>1, ThreadsType DEF Init, Waiting, Verdict, Handout, HasFile
  <2> QED
    BY <2>1, <2>2 DEF Driver
<1>3. Overrun
  BY <1>1, SentHomeFinite DEF Init, Overrun
<1>4. PlaceTypeOK
  <2>1. queue = <<>> /\ 0 \in 0..MaxJobs
    BY <1>1 DEF Init
  <2> QED
    BY <2>1 DEF Init, PlaceTypeOK
<1>5. StreamTypeOK
  <2>1. 0 \in Slots
    BY <1>1 DEF Slots
  <2> QED
    BY <2>1 DEF Init, StreamTypeOK
<1>6. \A f \in Files, s \in Slots : pc[f][s] = "none" /\ result[f][s] = "none"
  BY DEF Init
<1>7. Tasks
  BY <1>6 DEF Tasks, Active
<1>8. Queue
  <2>1. \A e : Times(e) = 0
    BY NoPlaceInEmpty DEF Init, Times
  <2> QED
    BY <2>1, <1>6 DEF Queue, OnQueue, Owed
<1>9. Streams
  BY <1>6 DEF Init, Streams, Fresh, Reader
<1>10. Account
  BY <1>1 DEF Init, Account, HasFile, Files
<1> QED
  BY <1>2, <1>3, <1>4, <1>5, <1>7, <1>8, <1>9, <1>10 DEF Inv

LEMMA InvStutter == Inv /\ UNCHANGED vars => Inv'
<1> SUFFICES ASSUME Inv, UNCHANGED vars PROVE Inv'
  OBVIOUS
<1>1. UNCHANGED <<inputVars, mainVars, index, workerVars, streamVars, queue, outcome>>
  BY DEF vars
<1>2. /\ UNCHANGED <<jobs, nbFiles, nbBlocks, mpc, at, started, res, wpc, file>>
      /\ UNCHANGED <<turn, astray, current, submitted, pc, id, result, shares>>
  BY <1>1 DEF inputVars, mainVars, workerVars, streamVars
<1>3. Driver'
  BY <1>1, <1>2
  DEF Inv, Driver, InputTypeOK, MainTypeOK, WorkerTypeOK, Waiting, Verdict,
      Handout, HasFile, Over
<1>4. Overrun'
  BY <1>1, <1>2 DEF Inv, Overrun, SentHome
<1>5. PlaceTypeOK' /\ StreamTypeOK'
  BY <1>1, <1>2 DEF Inv, PlaceTypeOK, StreamTypeOK
<1>6. Tasks'
  BY <1>1, <1>2, JobsSame DEF Inv, Tasks, Active, HasStream
<1>7. Queue'
  BY <1>1, <1>2, QueueKept DEF Inv, OnQueue, Owed
<1>8. Streams'
  BY <1>1, <1>2, StreamsKept DEF Inv, Unopened, Reader
<1>9. Account'
  BY <1>1, <1>2 DEF Inv, Account, HasFile, AllBlocks, JobsOf
<1> QED
  BY <1>3, <1>4, <1>5, <1>6, <1>7, <1>8, <1>9 DEF Inv

LEMMA InvNext == Inv /\ [Next]_vars => Inv'
<1> SUFFICES ASSUME Inv, [Next]_vars PROVE Inv'
  OBVIOUS
<1> USE DEF Inv
<1>1. CASE MainStep
  <2>1. Driver'
    BY <1>1, TypesMain, WaitingMain, VerdictMain, HandoutMain DEF Driver
  <2> QED
    BY <1>1, <2>1, OverrunMain, PlaceMain, TasksMain, QueueMain, StreamsMain,
       AccountMain
<1>2. ASSUME NEW w \in Threads, WorkerStep(w) PROVE Inv'
  <2>1. Driver'
    BY <1>2, TypesWorker, WaitingWorker, VerdictWorker, HandoutWorker DEF Driver
  <2> QED
    BY <1>2, <2>1, OverrunWorker, PlaceWorker, StreamWorker, TasksWorker,
       QueueWorker, StreamsWorker, AccountWorker
<1>3. ASSUME NEW f \in Files, NEW s \in Slots, PoolStep(f, s) PROVE Inv'
  <2>1. Driver'
    BY <1>3, TypesPool, WaitingPool, VerdictPool, HandoutPool DEF Driver
  <2> QED
    BY <1>3, <2>1, OverrunPool, PlacePool, StreamPool, TasksPool, QueuePool,
       StreamsPool, AccountPool
<1>4. CASE UNCHANGED vars
  BY <1>4, InvStutter
<1> QED
  BY <1>1, <1>2, <1>3, <1>4 DEF Next, Terminated

LEMMA InvHolds == Spec => []Inv
  BY InvInit, InvNext, PTL DEF Spec

-----------------------------------------------------------------------------
(* The theorems.                                                           *)

\* Every variable keeps its type; the counter of the queue of files passes
\* their number by no more than the workers it has sent home.
THEOREM TypeCorrect == Spec => []TypeOK
<1>1. Inv => TypeOK
  <2> SUFFICES ASSUME Inv PROVE TypeOK
    OBVIOUS
  <2>1. jobs \in 2..MaxJobs /\ nbFiles \in 2..MaxFiles /\ nbBlocks \in 1..MaxBlocks
        /\ MaxJobs \in Nat /\ MaxFiles \in Nat
    BY ConstantsAssumption DEF Inv, Driver, InputTypeOK
  <2>2. index \in 0..(MaxFiles + MaxJobs)
    <3>1. index <= nbFiles + Cardinality(SentHome) /\ index \in Nat
      BY DEF Inv, Overrun, Driver, WorkerTypeOK
    <3> QED
      BY <2>1, <3>1, SentHomeFinite
  <2>3. at \in 0..MaxJobs /\ started \in 0..MaxJobs
    BY <2>1 DEF Inv, Driver, MainTypeOK
  <2> QED
    BY <2>1, <2>2, <2>3
    DEF Inv, Driver, MainTypeOK, WorkerTypeOK, PlaceTypeOK, StreamTypeOK, TypeOK
<1> QED
  BY <1>1, InvHolds, PTL

\* The counter of BoundedConcurrentQueue::get() gives every file to one worker.
THEOREM OneWorkerPerFileHolds == Spec => []OneWorkerPerFile
<1>1. Inv => OneWorkerPerFile
  BY DEF Inv, Driver, Handout, OneWorkerPerFile
<1> QED
  BY <1>1, InvHolds, PTL

\* What a block task stands for among the jobs: the turn in which
\* computeJobsPerTask() deals its job out; or the worker that has its stream,
\* if there are as many files as jobs.
Stands(f, s) ==
  IF jobs > nbFiles THEN Deal(f, s)
                    ELSE CHOOSE w \in Threads : file[w] = f /\ HasStream(w)

LEMMA StandsForJob ==
  ASSUME Inv, NEW f \in Files, NEW s \in Slots, Active(f, s)
  PROVE  /\ f \in 1..nbFiles /\ s \in Nat /\ s < JobsOf(f)
         /\ Stands(f, s) \in 1..jobs
<1>1. f \in 1..nbFiles /\ s \in Nat /\ s < JobsOf(f)
  <2>1. f <= nbFiles /\ s < JobsOf(f)
    BY DEF Inv, Tasks, Active
  <2> QED
    BY <2>1, ConstantsAssumption DEF Files, Slots, Inv, Driver, InputTypeOK
<1>2. CASE jobs > nbFiles
  <2>1. Deal(f, s) \in 1..jobs
    BY <1>1, <1>2, DealtOnce DEF Inv, Driver
  <2> QED
    BY <1>1, <1>2, <2>1 DEF Stands
<1>3. CASE ~(jobs > nbFiles)
  <2>1. \E w \in Threads : file[w] = f /\ HasStream(w)
    BY DEF Inv, Tasks
  <2>2. Stands(f, s) \in Threads /\ HasStream(Stands(f, s))
    BY <1>3, <2>1 DEF Stands
  <2>3. Stands(f, s) <= started
    BY <2>2 DEF Inv, Driver, Waiting, HasStream
  <2>4. started \in 0..jobs /\ jobs \in Nat /\ Stands(f, s) \in Nat \ {0}
    BY <2>2, ThreadsType DEF Inv, Driver, MainTypeOK, InputTypeOK
  <2>5. Stands(f, s) \in 1..jobs
    BY <2>3, <2>4
  <2> QED
    BY <1>1, <2>5
<1> QED
  BY <1>2, <1>3

LEMMA StandsForOne ==
  ASSUME Inv, NEW f \in Files, NEW s \in Slots, Active(f, s),
         NEW g \in Files, NEW t \in Slots, Active(g, t),
         Stands(f, s) = Stands(g, t)
  PROVE  f = g /\ s = t
<1>1. /\ f \in 1..nbFiles /\ s \in Nat /\ s < JobsOf(f)
      /\ g \in 1..nbFiles /\ t \in Nat /\ t < JobsOf(g)
  BY StandsForJob
<1>2. CASE jobs > nbFiles
  <2>1. Deal(f, s) = Deal(g, t)
    BY <1>2 DEF Stands
  <2> QED
    BY <1>1, <2>1, DealInjective DEF Inv, Driver
<1>3. CASE ~(jobs > nbFiles)
  <2>1. /\ \E w \in Threads : file[w] = f /\ HasStream(w)
        /\ \E w \in Threads : file[w] = g /\ HasStream(w)
    BY DEF Inv, Tasks
  <2>2. file[Stands(f, s)] = f /\ file[Stands(g, t)] = g
    BY <1>3, <2>1 DEF Stands
  <2>3. JobsOf(f) = 1 /\ JobsOf(g) = 1
    BY <1>1, <1>3, ConstantsAssumption
    DEF JobsOf, JobsPerTask, Inv, Driver, InputTypeOK
  <2> QED
    BY <1>1, <2>2, <2>3
<1> QED
  BY <1>2, <1>3

\* All streams together run no more block tasks than there are jobs: the jobs
\* computeJobsPerTask() gives the files add up to "jobs", and with more files
\* than jobs the workers bound the streams, each with one task.
THEOREM TasksWithinJobsHolds == Spec => []TasksWithinJobs
<1>1. Inv => TasksWithinJobs
  <2> SUFFICES ASSUME Inv PROVE TasksWithinJobs
    OBVIOUS
  <2> DEFINE A == {p \in Files \X Slots : pc[p[1]][p[2]] \notin {"none",
      "over"}}
             stands == [p \in A |-> Stands(p[1], p[2])]
  <2>1. \A p \in A : /\ p = <<p[1], p[2]>> /\ p[1] \in Files /\ p[2] \in Slots
                     /\ Active(p[1], p[2])
    BY DEF Active
  <2>2. stands \in [A -> 1..jobs]
    BY <2>1, StandsForJob
  <2>3. \A p, q \in A : stands[p] = stands[q] => p = q
    <3> SUFFICES ASSUME NEW p \in A, NEW q \in A, stands[p] = stands[q]
                 PROVE  p = q
      OBVIOUS
    <3>1. Stands(p[1], p[2]) = Stands(q[1], q[2])
      OBVIOUS
    <3> QED
      BY <2>1, <3>1, StandsForOne
  <2> HIDE DEF stands
  <2>4. stands \in Injection(A, 1..jobs)
    BY <2>2, <2>3 DEF Injection, IsInjective
  <2>5. jobs \in Nat
    BY DEF Inv, Driver, InputTypeOK
  <2>6. IsFiniteSet(1..jobs) /\ Cardinality(1..jobs) = jobs
    BY <2>5, FS_Interval
  <2>7. Cardinality(A) <= Cardinality(1..jobs)
    BY <2>4, <2>6, FS_Injection
  <2> QED
    BY <2>6, <2>7 DEF TasksWithinJobs
<1> QED
  BY <1>1, InvHolds, PTL

\* When all workers are over no task is in the pool, on its queue or on a
\* thread: close() has waited for the tasks of every stream, the failed ones
\* too.
THEOREM NothingInFlightHolds == Spec => []NothingInFlight
<1>1. Inv => NothingInFlight
  <2> SUFFICES ASSUME Inv, mpc \in {"delete", "join", "over"}
               PROVE  (\A w \in 1..started : Over(w)) /\ queue = <<>> /\ Busy = 0
    BY DEF NothingInFlight
  <2>1. \A w \in Threads : w <= started => Over(w)
    BY DEF Inv, Driver, Waiting
  <2>2. \A w \in 1..started : Over(w)
    <3>1. started \in 0..jobs /\ jobs \in 2..MaxJobs /\ MaxJobs \in Nat
      BY ConstantsAssumption DEF Inv, Driver, MainTypeOK, InputTypeOK
    <3>2. \A w \in 1..started : w \in Threads /\ w <= started
      BY <3>1 DEF Threads
    <3> QED
      BY <2>1, <3>2
  <2>3. \A w \in Threads : ~HasStream(w)
    BY <2>1 DEF Inv, Driver, Waiting, HasStream, Over
  <2>4. \A f \in Files, s \in Slots : ~Active(f, s)
    BY <2>3 DEF Inv, Tasks
  <2>5. queue = <<>>
    <3> SUFFICES ASSUME queue # <<>> PROVE FALSE
      OBVIOUS
    <3>1. Head(queue) \in Files \X Slots \X {"block", "share"}
      BY DEF Inv, PlaceTypeOK
    <3>2. PICK f \in Files, s \in Slots, k \in {"block", "share"} :
            Head(queue) = <<f, s, k>>
      BY <3>1
    <3>3. pc[f][s] \in {"queued", "nested"}
      BY <3>2, Queued DEF Inv
    <3> QED
      BY <2>4, <3>3 DEF Active
  <2>6. Busy = 0
    <3>1. {p \in Files \X Slots : Holding(p[1], p[2])} = {}
      BY <2>4 DEF Active, Holding
    <3> QED
      BY <3>1, FS_EmptySet DEF Busy
  <2> QED
    BY <2>2, <2>5, <2>6
<1> QED
  BY <1>1, InvHolds, PTL

\* A run without an error has decompressed every file to its last block.
THEOREM SuccessMeansAllHolds == Spec => []SuccessMeansAll
<1>1. Inv => SuccessMeansAll
  <2> SUFFICES ASSUME Inv, mpc = "over", res = "ok", NEW f \in 1..nbFiles
               PROVE  outcome[f] = "ok" /\ submitted[f] = JobsOf(f) + nbBlocks
    BY DEF SuccessMeansAll
  <2>1. /\ f \in Files /\ f <= nbFiles /\ nbFiles \in Nat /\ index \in Nat
        /\ jobs >= 2 /\ jobs \in Nat /\ 1 \in Threads
    BY ConstantsAssumption
    DEF Inv, Driver, InputTypeOK, WorkerTypeOK, Files, Threads
  <2>2. started = jobs /\ \A w \in Threads : w <= jobs => wpc[w] = "ok"
    BY DEF Inv, Driver, Verdict
  <2>3. \A w \in Threads : wpc[w] \in {"none", "ok"}
    BY <2>2 DEF Inv, Driver, Waiting
  <2>4. index >= nbFiles
    BY <2>1, <2>2 DEF Inv, Account
  <2>5. outcome[f] # "none"
    BY <2>1, <2>4 DEF Inv, Account
  <2>6. outcome[f] # "taken" /\ outcome[f] # "failed"
    BY <2>1, <2>3 DEF Inv, Account, HasFile
  <2>7. outcome[f] = "ok"
    BY <2>1, <2>5, <2>6 DEF Inv, Driver, WorkerTypeOK
  <2> QED
    BY <2>1, <2>7 DEF Inv, Account, AllBlocks
<1> QED
  BY <1>1, InvHolds, PTL

\* Once the queue has been cleared, get() hands out no further file.
THEOREM NoFileAfterClearHolds == Spec => NoFileAfterClear
<1>1. Inv /\ [Next]_vars =>
        [res # "ok" /\ mpc \notin {"clear", "rescue"} => Begun' = Begun]_vars
  <2> SUFFICES ASSUME Inv, [Next]_vars, res # "ok", mpc \notin {"clear", "rescue"}
               PROVE  Begun' = Begun
    OBVIOUS
  <2>1. index >= nbFiles
    BY DEF Inv, Driver, Verdict
  <2>2. CASE MainStep \/ UNCHANGED vars
    <3>1. outcome' = outcome
      BY <2>2
      DEF MainStep, StartWorker, StartFails, CollectOk, CollectFailed,
          CollectThrown, Clear, Rescue, WaitAll, Delete, Join, vars
    <3> QED
      BY <3>1 DEF Begun
  <2>3. ASSUME NEW w \in Threads, WorkerStep(w) PROVE Begun' = Begun
    <3>1. CASE TakeFile(w)
      <4>1. ~(index < nbFiles)
        BY <2>1 DEF Inv, Driver, WorkerTypeOK, InputTypeOK
      <4> QED
        BY <3>1, <4>1 DEF TakeFile, Begun
    <3>2. CASE ~TakeFile(w)
      <4>1. HasFile(w)
        BY <2>3, <3>2
        DEF WorkerStep, Open, OpenFails, Escape, CollectBlock, CollectEnd,
            CollectError, WriteFails, Drain, Abort, Finish, Collects, HasFile
      <4>2. file[w] \in Files /\ outcome[file[w]] = "taken"
        BY <4>1, FilesOfWorkers DEF Inv, Account
      <4>3. \/ outcome' = outcome
            \/ \E o \in {"taken", "ok", "failed"} :
                 outcome' = [outcome EXCEPT ![file[w]] = o]
        BY <2>3, <3>2
        DEF WorkerStep, Open, OpenFails, Escape, CollectBlock, CollectEnd,
            CollectError, WriteFails, Drain, Abort, Finish, CloseStream, Leave
      <4>4. \A f \in Files : outcome'[f] = "none" <=> outcome[f] = "none"
        BY <4>2, <4>3 DEF Inv, Driver, WorkerTypeOK
      <4> QED
        BY <4>4 DEF Begun
    <3> QED
      BY <3>1, <3>2
  <2>4. ASSUME NEW f \in Files, NEW s \in Slots, PoolStep(f, s)
        PROVE  Begun' = Begun
    BY <2>4, PoolTouches DEF Begun, Inv
  <2> QED
    BY <2>2, <2>3, <2>4 DEF Next, Terminated
<1> QED
  BY <1>1, InvHolds, PTL DEF Spec, NoFileAfterClear
=============================================================================
