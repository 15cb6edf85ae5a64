--------------------------- MODULE JobQueueProofs ---------------------------
(* Theorems about JobQueue, for every number of jobs, workers and slots.     *)
EXTENDS JobQueue, FiniteSetTheorems, TLAPS

(* Transcodes(S) is the part of S of that type. *)
LEMMA TranscodesSubset ==
    ASSUME NEW S, NEW j \in Transcodes(S)
    PROVE  j \in S /\ kind[j] = "transcode"
BY DEF Transcodes

(* The UPDATE that settles a row keeps the table typed. *)
LEMMA SettleTyped ==
    ASSUME TypeOK, NEW j \in Job, NEW new \in JobStatus, Settle(j, new)
    PROVE  /\ nextId' \in Nat
           /\ kind' = kind /\ entry' = entry
           /\ status' \in [Job -> JobStatus]
           /\ attempts' \in [Job -> Nat]
           /\ due' \in [Job -> BOOLEAN]
           /\ paused' \in [Job -> BOOLEAN]
           /\ flagged' \in [Job -> BOOLEAN]
           /\ owner' \in [Job -> Worker \cup {NoWorker}]
           /\ stale' \in [Job -> BOOLEAN]
           /\ guarded' \subseteq Job
           /\ expired' \subseteq Job
           /\ revived' \subseteq Job
BY DEF TypeOK, Settle

(* RequeueStale keeps the table and the flavors typed. *)
LEMMA RequeueTyped ==
    ASSUME TypeOK, RequeueStale
    PROVE  /\ nextId' \in Nat
           /\ kind' = kind /\ entry' = entry
           /\ status' \in [Job -> JobStatus]
           /\ attempts' \in [Job -> Nat]
           /\ due' \in [Job -> BOOLEAN]
           /\ paused' \in [Job -> BOOLEAN]
           /\ flagged' \in [Job -> BOOLEAN]
           /\ owner' \in [Job -> Worker \cup {NoWorker}]
           /\ stale' \in [Job -> BOOLEAN]
           /\ transcoding' \subseteq {FlavorOf[j] : j \in Job}
<1>1. transcoding' \subseteq transcoding
  BY DEF RequeueStale, ResetFlavors
<1> QED BY <1>1 DEF TypeOK, RequeueStale, JobStatus

(* A run that is not free holds a job. *)
RunHasJob == \A r \in Run : rphase[r] # "free" \/ rctx[r] => rjob[r] \in Job

(* An inserted row names an entry of the catalogue. *)
RowHasEntry == \A j \in Job : kind[j] # "none" => entry[j] \in Entry

Typed == TypeOK /\ RunHasJob /\ RowHasEntry

LEMMA InitTyped == Init => Typed
BY JobAssumption, WorkerAssumption DEF Init, Typed, TypeOK, RunHasJob, RowHasEntry, JobStatus, RunPhase, Run, NoJob

LEMMA StepTyped == Typed /\ [Next]_vars => Typed'
<1> SUFFICES ASSUME Typed, [Next]_vars PROVE Typed'
  OBVIOUS
<1> USE JobAssumption, WorkerAssumption DEF Typed, RunHasJob, RowHasEntry
<1>1. ASSUME NEW x \in Request, Enqueue(x[1], x[2]) PROVE Typed'
  <2>1. x[1] \in JobType /\ x[2] \in Entry /\ x[2] \in Nat
    OBVIOUS
  <2>2. /\ kind' \in [Job -> JobType \cup {"none"}] /\ entry' \in [Job -> Nat]
        /\ \A j \in Job : kind'[j] # "none" => entry'[j] \in Entry
    BY <1>1, <2>1 DEF Enqueue, TypeOK
  <2>3. nextId' \in Nat /\ status' \in [Job -> JobStatus] /\ due' \in [Job -> BOOLEAN]
    BY <1>1 DEF Enqueue, TypeOK, JobStatus
  <2> QED BY <1>1, <2>2, <2>3 DEF Enqueue, TypeOK, claim, pool, history
<1>2. ASSUME NEW j \in Job, JobsPage(j) PROVE Typed'
  <2>1. CASE Pause(j)
    BY <2>1 DEF Pause, TypeOK, claim, pool, history
  <2>2. CASE Resume(j)
    BY <2>2 DEF Resume, TypeOK, claim, pool, history
  <2>3. CASE RequestCancel(j)
    <3>1. /\ status' \in [Job -> JobStatus] /\ flagged' \in [Job -> BOOLEAN]
          /\ owner' \in [Job -> Worker \cup {NoWorker}] /\ stale' \in [Job -> BOOLEAN]
      BY ZenonT(60), <2>3 DEF RequestCancel, TypeOK, JobStatus, Terminal
    <3> QED BY <2>3, <3>1 DEF RequestCancel, TypeOK, claim, pool, history
  <2>4. CASE Retry(j)
    BY <2>4 DEF Retry, TypeOK, JobStatus, claim, pool, history
  <2> QED BY <1>2, <2>1, <2>2, <2>3, <2>4 DEF JobsPage
<1>3. ASSUME NEW j \in Job, BecomeDue(j) PROVE Typed'
  BY <1>3 DEF BecomeDue, TypeOK, claim, pool, history
<1>4. ASSUME NEW j \in Job, Age(j) PROVE Typed'
  BY <1>4 DEF Age, TypeOK, claim, pool, history
<1>5. ASSUME NEW e \in Entry, DeleteEntry(e) PROVE Typed'
  BY <1>5 DEF DeleteEntry, TypeOK, JobStatus, claim, pool, history
<1>6. ASSUME NEW w \in Worker, Loop(w) PROVE Typed'
  <2>1. CASE ClaimScan(w)
    <3>1. DueEntries \subseteq Entry
      BY DEF DueEntries, DueTranscodes, Queued, TypeOK
    <3> QED BY <2>1, <3>1 DEF ClaimScan, TypeOK, table, pool, history
  <2>2. ASSUME NEW e \in Entry, ClaimLock(w, e) PROVE Typed'
    BY <2>2 DEF ClaimLock, TypeOK, table, pool, history
  <2>3. CASE ClaimSelect(w)
    <3>1. Earliest({j \in Job : Claimable(j) /\ ~Locked(j)}, Concurrency) \subseteq Job
      BY DEF Earliest
    <3> QED BY <2>3, <3>1 DEF ClaimSelect, TypeOK, table, pool, history
  <2>4. CASE ClaimCommit(w)
    <3>1. Kept(rows[w]) \subseteq Job
      BY DEF Kept, TypeOK
    <3>2. Transcodes(Kept(rows[w])) \subseteq Job
      BY <3>1 DEF Transcodes
    <3>3. /\ status' \in [Job -> JobStatus]
          /\ attempts' \in [Job -> Nat]
          /\ owner' \in [Job -> Worker \cup {NoWorker}]
          /\ stale' \in [Job -> BOOLEAN]
      <4> DEFINE keep == Kept(rows[w])
      <4>1. /\ status' = [j \in Job |-> IF j \in keep THEN "running" ELSE status[j]]
            /\ attempts' = [j \in Job |-> IF j \in keep THEN attempts[j] + 1 ELSE attempts[j]]
            /\ owner' = [j \in Job |-> IF j \in keep THEN w ELSE owner[j]]
            /\ stale' = [j \in Job |-> IF j \in keep THEN FALSE ELSE stale[j]]
        BY <2>4 DEF ClaimCommit
      <4> HIDE DEF keep
      <4>2. status' \in [Job -> JobStatus]
        BY <4>1 DEF TypeOK, JobStatus
      <4>3. attempts' \in [Job -> Nat]
        BY <4>1 DEF TypeOK
      <4>4. owner' \in [Job -> Worker \cup {NoWorker}]
        BY <4>1 DEF TypeOK
      <4>5. stale' \in [Job -> BOOLEAN]
        BY <4>1 DEF TypeOK
      <4> QED BY <4>2, <4>3, <4>4, <4>5
    <3>4. /\ guarded' \subseteq Job /\ handoff' \in [Worker -> SUBSET Job]
          /\ cphase' \in [Worker -> {"idle", "locking", "selected"}]
          /\ locks' \in [Worker -> SUBSET Entry] /\ rows' \in [Worker -> SUBSET Job]
      BY <2>4, <3>1, <3>2 DEF ClaimCommit, TypeOK
    <3> QED BY <2>4, <3>3, <3>4 DEF ClaimCommit, TypeOK, pool
  <2>5. CASE Heartbeat(w)
    BY <2>5 DEF Heartbeat, TypeOK, claim, pool, history
  <2>6. CASE StaleTick(w)
    BY <2>6, RequeueTyped DEF StaleTick, TypeOK, claim, pool, history
  <2>7. CASE StartWorker(w)
    BY <2>7, RequeueTyped DEF StartWorker, TypeOK, claim, pool, history
  <2>8. CASE Crash(w)
    <3>1. /\ wstate' \in [Worker -> {"unborn", "up", "dead"}]
          /\ cphase' \in [Worker -> {"idle", "locking", "selected"}]
          /\ cand' \in [Worker -> SUBSET Entry] /\ locks' \in [Worker -> SUBSET Entry]
          /\ rows' \in [Worker -> SUBSET Job] /\ handoff' \in [Worker -> SUBSET Job]
      BY <2>8 DEF Crash, TypeOK
    <3>2. /\ rjob' \in [Run -> Job \cup {NoJob}] /\ rphase' \in [Run -> RunPhase]
      BY <2>8 DEF Crash, TypeOK, RunPhase
    <3>3. /\ rctx' \in [Run -> BOOLEAN]
          /\ \A r \in Run : rphase'[r] # "free" \/ rctx'[r] => rjob'[r] \in Job
      BY <2>8 DEF Crash, TypeOK
    <3> QED BY <2>8, <3>1, <3>2, <3>3 DEF Crash, TypeOK, table, history
  <2> QED BY <1>6, <2>1, <2>2, <2>3, <2>4, <2>5, <2>6, <2>7, <2>8 DEF Loop
<1>7. ASSUME NEW r \in Run, RunJob(r) PROVE Typed'
  <2>1. ASSUME NEW j \in Job, Launch(r, j) PROVE Typed'
    <3>1. r[1] \in Worker
      BY DEF Run
    <3>2. handoff' \in [Worker -> SUBSET Job]
      BY <2>1, <3>1 DEF Launch, TypeOK
    <3>3. /\ rjob' \in [Run -> Job \cup {NoJob}]
          /\ rphase' \in [Run -> RunPhase]
          /\ rctx' \in [Run -> BOOLEAN]
          /\ \A s \in Run : rphase'[s] # "free" \/ rctx'[s] => rjob'[s] \in Job
      <4>1. CASE Exists(j)
        <5>1. /\ rjob' = [rjob EXCEPT ![r] = j]
              /\ rphase' = [rphase EXCEPT ![r] = "handle"]
              /\ rctx' = [rctx EXCEPT ![r] = TRUE]
          BY <2>1, <4>1 DEF Launch
        <5> QED BY <5>1 DEF TypeOK, RunPhase
      <4>2. CASE ~Exists(j)
        BY <2>1, <4>2 DEF Launch, TypeOK, pool
      <4> QED BY <4>1, <4>2
    <3> QED BY <2>1, <3>2, <3>3 DEF Launch, TypeOK, table, claim, history
  <2>2. CASE BeginEncode(r)
    <3>1. rjob[r] \in Job
      BY <2>2 DEF BeginEncode
    <3>2. FlavorOf[rjob[r]] \in {FlavorOf[j] : j \in Job}
      BY <3>1
    <3> QED BY <2>2, <3>1, <3>2 DEF BeginEncode, Goto, TypeOK, RunPhase, table, claim, history
  <2>3. ASSUME NEW outcome \in {"ok", "err"}, HandlerReturns(r, outcome) PROVE Typed'
    BY <2>3 DEF HandlerReturns, Goto, TypeOK, RunPhase, table, claim, history
  <2>4. CASE WatcherFires(r)
    BY <2>4 DEF WatcherFires, TypeOK, table, claim, history
  <2>5. CASE JobTimesOut(r)
    BY <2>5 DEF JobTimesOut, TypeOK, table, claim, history
  <2>6. CASE RunDone(r)
    BY <2>6, SettleTyped DEF RunDone, Free, TypeOK, RunPhase, NoJob, JobStatus, Terminal, table, claim, history
  <2>7. CASE RunCheckCancel(r)
    BY <2>7 DEF RunCheckCancel, Goto, TypeOK, RunPhase, table, claim, history
  <2>8. CASE RunCancel(r)
    BY <2>8, SettleTyped DEF RunCancel, Free, TypeOK, RunPhase, NoJob, JobStatus, Terminal, claim, history
  <2>9. CASE RunFailRead(r)
    <3>1. /\ rjob' \in [Run -> Job \cup {NoJob}] /\ rphase' \in [Run -> RunPhase]
          /\ rctx' \in [Run -> BOOLEAN]
          /\ \A s \in Run : rphase'[s] # "free" \/ rctx'[s] => rjob'[s] \in Job
      <4>1. Free(r) \/ \E phase \in {"deadletter", "requeue"} : Goto(r, phase)
        BY <2>9 DEF RunFailRead
      <4>2. CASE Free(r)
        BY <4>2 DEF Free, TypeOK, RunPhase, NoJob
      <4>3. ASSUME NEW phase \in {"deadletter", "requeue"}, Goto(r, phase) 
            PROVE  /\ rjob' \in [Run -> Job \cup {NoJob}] /\ rphase' \in [Run -> RunPhase]
                   /\ rctx' \in [Run -> BOOLEAN]
                   /\ \A s \in Run : rphase'[s] # "free" \/ rctx'[s] => rjob'[s] \in Job
        BY <2>9, <4>3 DEF RunFailRead, Goto, TypeOK, RunPhase
      <4> QED BY <4>1, <4>2, <4>3
    <3> QED BY <2>9, <3>1 DEF RunFailRead, TypeOK, table, claim, history
  <2>10. CASE RunFailWrite(r)
    BY <2>10, SettleTyped DEF RunFailWrite, Free, TypeOK, RunPhase, NoJob, JobStatus, Terminal, table, claim, history
  <2> QED BY <1>7, <2>1, <2>2, <2>3, <2>4, <2>5, <2>6, <2>7, <2>8, <2>9, <2>10 DEF RunJob
<1>8. CASE UNCHANGED vars
  BY <1>8 DEF vars, table, claim, pool, history, TypeOK
<1> QED BY <1>1, <1>2, <1>3, <1>4, <1>5, <1>6, <1>7, <1>8 DEF Next

(* The jobs table, the claims and the pools stay in their domains. *)
THEOREM SpecTyped == Spec => []TypeOK
<1>1. Typed => TypeOK
  BY DEF Typed
<1> QED BY <1>1, InitTyped, StepTyped, PTL DEF Spec

-----------------------------------------------------------------------------
(* Claims exclude each other through the locks that Postgres gives out: no   *)
(* two open claims share an advisory lock or a row, and a locked row keeps   *)
(* the values the claim read.                                                *)

ClaimInv ==
    /\ \A v, w \in Worker : v # w => locks[v] \cap locks[w] = {} /\ rows[v] \cap rows[w] = {}
    /\ \A w \in Worker : cphase[w] # "selected" => rows[w] = {}
    /\ \A w \in Worker : \A j \in rows[w] : status[j] = "queued" /\ ~paused[j]

(* What most steps have in common: they open no claim and run no job, leave  *)
(* locked rows alone, and bring a row into the queue only from "running" or  *)
(* with a mark in revived.                                                   *)
Quiet ==
    /\ UNCHANGED <<nextId, kind, entry>>
    /\ rows' = rows /\ locks' = locks /\ guarded' = guarded
    /\ \A w \in Worker : cphase'[w] = "selected" <=> cphase[w] = "selected"
    /\ revived \subseteq revived'
    /\ \A j \in Job :
          /\ status'[j] = "running" => status[j] = "running"
          /\ status'[j] = "queued" => status[j] \in {"queued", "running"} \/ j \in revived'
          /\ status[j] = "unused" => status'[j] = "unused"
          /\ Locked(j) => status'[j] = status[j]
          /\ paused'[j] => paused[j]

(* The noisy steps, by name. *)
Noisy ==
    \/ \E x \in Request : Enqueue(x[1], x[2])
    \/ \E j \in Job : Pause(j)
    \/ \E w \in Worker : \/ \E e \in Entry : ClaimLock(w, e)
                         \/ ClaimSelect(w)
                         \/ ClaimCommit(w)
                         \/ Crash(w)

(* Settling a row is quiet, as far as the table goes. *)
LEMMA SettleQuiet ==
    ASSUME TypeOK, NEW j \in Job, NEW new \in {"done", "failed", "cancelled", "queued"},
           Settle(j, new), rows' = rows, locks' = locks, cphase' = cphase
    PROVE  Quiet
BY DEF Settle, Quiet, TypeOK, Exists, JobStatus, Terminal

(* Re-queueing stale rows is quiet: it touches only running rows. *)
LEMMA RequeueQuiet ==
    ASSUME TypeOK, ClaimInv, RequeueStale, rows' = rows, locks' = locks, cphase' = cphase, history' = history
    PROVE  Quiet
<1>1. \A j \in Job : j \in Lost => status[j] = "running"
  BY DEF Lost, Running
<1>2. \A j \in Job : Locked(j) => status[j] = "queued"
  BY DEF Locked, ClaimInv
<1> QED BY <1>1, <1>2 DEF RequeueStale, Quiet, TypeOK, history

LEMMA QuietSteps == Typed /\ ClaimInv /\ [Next]_vars => Quiet \/ Noisy
<1> SUFFICES ASSUME Typed, ClaimInv, [Next]_vars, ~Noisy PROVE Quiet
  OBVIOUS
<1> USE DEF Typed, RunHasJob
<1>1. ASSUME NEW j \in Job, JobsPage(j) PROVE Quiet
  <2>1. CASE Pause(j)
    BY <2>1 DEF Noisy
  <2>2. CASE Resume(j)
    BY <2>2 DEF Resume, Quiet, TypeOK, claim, history
  <2>3. CASE RequestCancel(j)
    BY <2>3 DEF RequestCancel, Quiet, TypeOK, claim, history, Exists
  <2>4. CASE Retry(j)
    <3>1. ~Locked(j)
      BY <2>4 DEF Retry, Retryable, Locked, ClaimInv
    <3> QED BY <2>4, <3>1 DEF Retry, Retryable, Quiet, TypeOK, claim
  <2> QED BY <1>1, <2>1, <2>2, <2>3, <2>4 DEF JobsPage
<1>2. ASSUME NEW j \in Job, BecomeDue(j) \/ Age(j) PROVE Quiet
  BY <1>2 DEF BecomeDue, Age, Quiet, claim, history
<1>3. ASSUME NEW e \in Entry, DeleteEntry(e) PROVE Quiet
  BY <1>3 DEF DeleteEntry, Quiet, TypeOK, Exists, claim, history
<1>4. ASSUME NEW w \in Worker, Loop(w) PROVE Quiet
  <2>1. CASE ClaimScan(w)
    BY <2>1 DEF ClaimScan, LoopIdle, Quiet, TypeOK, table, history
  <2>2. CASE Heartbeat(w)
    BY <2>2 DEF Heartbeat, Quiet, claim, history
  <2>3. CASE StaleTick(w)
    BY <2>3, RequeueQuiet DEF StaleTick, claim
  <2>4. CASE StartWorker(w)
    BY <2>4, RequeueQuiet DEF StartWorker, claim
  <2> QED BY <1>4, <2>1, <2>2, <2>3, <2>4 DEF Loop, Noisy
<1>5. ASSUME NEW r \in Run, RunJob(r) PROVE Quiet
  <2>1. ASSUME NEW j \in Job, Launch(r, j) PROVE Quiet
    BY <2>1 DEF Launch, Quiet, table, claim, history
  <2>2. CASE BeginEncode(r)
    BY <2>2 DEF BeginEncode, Quiet, table, claim, history
  <2>3. ASSUME NEW outcome \in {"ok", "err"}, HandlerReturns(r, outcome) PROVE Quiet
    BY <2>3 DEF HandlerReturns, Quiet, table, claim, history
  <2>4. CASE WatcherFires(r) \/ JobTimesOut(r)
    BY <2>4 DEF WatcherFires, JobTimesOut, Quiet, table, claim, history
  <2>5. CASE RunDone(r)
    <3>1. rjob[r] \in Job /\ rows' = rows /\ locks' = locks /\ cphase' = cphase
      BY <2>5 DEF RunDone, claim
    <3>2. CASE rctx[r]
      BY <2>5, <3>1, <3>2, SettleQuiet DEF RunDone
    <3>3. CASE ~rctx[r]
      BY <2>5, <3>1, <3>3 DEF RunDone, Quiet, table, history
    <3> QED BY <3>2, <3>3
  <2>6. CASE RunCheckCancel(r)
    BY <2>6 DEF RunCheckCancel, Quiet, table, claim, history
  <2>7. CASE RunCancel(r)
    <3>1. rjob[r] \in Job /\ rows' = rows /\ locks' = locks /\ cphase' = cphase
      BY <2>7 DEF RunCancel, claim
    <3> QED BY <2>7, <3>1, SettleQuiet DEF RunCancel
  <2>8. CASE RunFailRead(r)
    BY <2>8 DEF RunFailRead, Quiet, table, claim, history
  <2>9. CASE RunFailWrite(r)
    <3>1. rjob[r] \in Job /\ rows' = rows /\ locks' = locks /\ cphase' = cphase
      BY <2>9 DEF RunFailWrite, claim
    <3>2. CASE rctx[r]
      BY <2>9, <3>1, <3>2, SettleQuiet DEF RunFailWrite
    <3>3. CASE ~rctx[r]
      BY <2>9, <3>1, <3>3 DEF RunFailWrite, Quiet, table, history
    <3> QED BY <3>2, <3>3
  <2> QED BY <1>5, <2>1, <2>2, <2>3, <2>4, <2>5, <2>6, <2>7, <2>8, <2>9 DEF RunJob
<1>6. CASE UNCHANGED vars
  BY <1>6 DEF vars, Quiet, table, claim, history
<1> QED BY <1>1, <1>2, <1>3, <1>4, <1>5, <1>6 DEF Next, Noisy

-----------------------------------------------------------------------------
(* The inductive invariant behind the serialization of Claim.                *)

(* A transcode picked under its entry's lock has no guarded rival.           *)
PickedAlone ==
    \A w \in Worker : \A j \in rows[w] :
        entry[j] \in locks[w] =>
            \A k \in Running \cap guarded : ~SameEntryTranscodes(j, k)

IdsAhead == \A j \in Job : j >= nextId => status[j] = "unused"

(* An earlier download that is still to run, behind a later one that runs or *)
(* is being claimed, has been put back.                                      *)
EarlierWasRevived ==
    \A j, k \in Job :
        /\ kind[j] = "download" /\ kind[k] = "download" /\ j < k
        /\ status[k] = "running" \/ Locked(k)
        /\ status[j] \in {"queued", "running"}
        => j \in revived

SerialInv ==
    /\ ClaimInv /\ RunningNotPaused
    /\ PickedAlone /\ GuardedTranscodesAlone
    /\ IdsAhead /\ EarlierWasRevived

LEMMA InitSerial == Init => SerialInv
BY JobAssumption
   DEF Init, SerialInv, ClaimInv, RunningNotPaused, PickedAlone, GuardedTranscodesAlone,
       IdsAhead, EarlierWasRevived, Running, Locked

LEMMA QuietSerial == Typed /\ SerialInv /\ Quiet => SerialInv'
<1> SUFFICES ASSUME Typed, SerialInv, Quiet PROVE SerialInv'
  OBVIOUS
<1>1. \A j \in Job : Locked(j)' <=> Locked(j)
  BY DEF Quiet, Locked
<1>2. ClaimInv'
  <2>1. ASSUME NEW w \in Worker, NEW j \in rows[w] PROVE status'[j] = "queued" /\ ~paused'[j]
    <3>1. j \in Job /\ Locked(j)
      BY DEF Typed, TypeOK, Locked
    <3> QED BY <3>1 DEF SerialInv, ClaimInv, Quiet
  <2> QED BY <2>1 DEF SerialInv, ClaimInv, Quiet
<1>3. Running' \subseteq Running
  BY DEF Running, Quiet
<1>4. RunningNotPaused'
  BY <1>3 DEF SerialInv, RunningNotPaused, Quiet, Running
<1>5. PickedAlone' /\ GuardedTranscodesAlone'
  BY <1>3 DEF SerialInv, PickedAlone, GuardedTranscodesAlone, SameEntryTranscodes, Quiet
<1>6. IdsAhead'
  BY DEF SerialInv, IdsAhead, Quiet
<1>7. EarlierWasRevived'
  BY <1>1 DEF SerialInv, EarlierWasRevived, Quiet
<1> QED BY <1>2, <1>4, <1>5, <1>6, <1>7 DEF SerialInv

LEMMA EnqueueSerial ==
    ASSUME Typed, SerialInv, NEW x \in Request, Enqueue(x[1], x[2])
    PROVE  SerialInv'
<1> USE JobAssumption DEF Typed
<1>1. /\ nextId \in Job /\ nextId' = nextId + 1 /\ status[nextId] = "unused"
      /\ status'[nextId] \in {"queued", "deleted"}
      /\ \A j \in Job : j # nextId =>
            status'[j] = status[j] /\ kind'[j] = kind[j] /\ entry'[j] = entry[j]
      /\ rows' = rows /\ locks' = locks /\ cphase' = cphase /\ paused' = paused
      /\ guarded' = guarded /\ revived' = revived
  BY DEF Enqueue, SerialInv, IdsAhead, TypeOK, Job, claim, history
<1>2. \A w \in Worker : \A j \in rows[w] : j \in Job /\ j # nextId
  BY <1>1 DEF SerialInv, ClaimInv, TypeOK
<1>3. Running' = Running
  BY <1>1 DEF Running
<1>4. ClaimInv' /\ RunningNotPaused'
  BY <1>1, <1>2, <1>3 DEF SerialInv, ClaimInv, RunningNotPaused
<1>5. PickedAlone' /\ GuardedTranscodesAlone'
  <2>1. nextId \notin Running
    BY <1>1 DEF Running
  <2> QED
    BY <1>1, <1>2, <1>3, <2>1
       DEF SerialInv, PickedAlone, GuardedTranscodesAlone, SameEntryTranscodes, Running
<1>6. IdsAhead'
  BY <1>1 DEF SerialInv, IdsAhead, Job
<1>7. EarlierWasRevived'
  <2> SUFFICES ASSUME NEW j \in Job, NEW k \in Job, kind'[j] = "download", kind'[k] = "download",
                      j < k, status'[k] = "running" \/ Locked(k)', status'[j] \in {"queued", "running"}
               PROVE  j \in revived'
    BY DEF EarlierWasRevived
  <2>1. status[k] \in {"queued", "running"} /\ k # nextId /\ (status[k] = "running" \/ Locked(k))
    BY <1>1, <1>2 DEF Locked, SerialInv, ClaimInv
  <2>2. j # nextId
    BY <2>1, <1>1 DEF SerialInv, IdsAhead, Job
  <2> QED BY <2>1, <2>2, <1>1 DEF SerialInv, EarlierWasRevived
<1> QED BY <1>4, <1>5, <1>6, <1>7 DEF SerialInv

LEMMA PauseSerial ==
    ASSUME Typed, SerialInv, NEW p \in Job, Pause(p)
    PROVE  SerialInv'
<1>1. /\ status[p] = "queued" /\ ~Locked(p) /\ UNCHANGED <<nextId, kind, entry, status, cphase, rows, locks, guarded, revived>>
      /\ \A j \in Job : j # p => paused'[j] = paused[j]
  BY DEF Pause, claim, history, Typed, TypeOK
<1>2. \A w \in Worker : \A j \in rows[w] : j \in Job /\ j # p
  BY <1>1 DEF Locked, Typed, TypeOK
<1>3. Running' = Running /\ p \notin Running
  BY <1>1 DEF Running
<1> QED
  BY <1>1, <1>2, <1>3
     DEF SerialInv, ClaimInv, RunningNotPaused, PickedAlone, GuardedTranscodesAlone,
         SameEntryTranscodes, IdsAhead, EarlierWasRevived, Locked, Running


LEMMA LockSerial ==
    ASSUME Typed, SerialInv, NEW w \in Worker, NEW e \in Entry, ClaimLock(w, e)
    PROVE  SerialInv'
<1>1. /\ UNCHANGED <<table, cphase, rows, history>> /\ locks' = [locks EXCEPT ![w] = @ \cup {e}]
      /\ rows[w] = {} /\ \A v \in Worker : e \notin locks[v]
  BY DEF ClaimLock, LockFree, SerialInv, ClaimInv
<1>2. \A v \in Worker : locks'[v] = IF v = w THEN locks[w] \cup {e} ELSE locks[v]
  BY <1>1 DEF Typed, TypeOK
<1>3. Running' = Running
  BY <1>1 DEF Running, table
<1>4. ClaimInv'
  BY <1>1, <1>2 DEF SerialInv, ClaimInv, table
<1>5. PickedAlone' /\ GuardedTranscodesAlone'
  BY <1>1, <1>2, <1>3 DEF SerialInv, PickedAlone, GuardedTranscodesAlone, SameEntryTranscodes, table, history
<1>6. RunningNotPaused' /\ IdsAhead' /\ EarlierWasRevived'
  BY <1>1, <1>3 DEF SerialInv, RunningNotPaused, IdsAhead, EarlierWasRevived, Locked, table, history
<1> QED BY <1>4, <1>5, <1>6 DEF SerialInv

LEMMA SelectSerial ==
    ASSUME Typed, SerialInv, NEW w \in Worker, ClaimSelect(w)
    PROVE  SerialInv'
<1> DEFINE picked == Earliest({j \in Job : Claimable(j) /\ ~Locked(j)}, Concurrency)
<1>1. \A j \in picked : j \in Job /\ Claimable(j) /\ ~Locked(j)
  BY DEF Earliest
<1>2. /\ UNCHANGED <<table, locks, history>> /\ rows' = [rows EXCEPT ![w] = picked]
      /\ cphase' = [cphase EXCEPT ![w] = "selected"] /\ rows[w] = {}
  BY DEF ClaimSelect, SerialInv, ClaimInv
<1> HIDE DEF picked
<1>3. \A v \in Worker : rows'[v] = IF v = w THEN picked ELSE rows[v]
  BY <1>2 DEF Typed, TypeOK
<1>4. Running' = Running
  BY <1>2 DEF Running, table
<1>5. ClaimInv'
  <2>1. \A v \in Worker : cphase'[v] # "selected" => v # w /\ cphase[v] # "selected"
    BY <1>2 DEF Typed, TypeOK
  <2> QED BY <1>1, <1>2, <1>3, <2>1 DEF SerialInv, ClaimInv, Claimable, Locked, table
<1>6. PickedAlone' /\ GuardedTranscodesAlone'
  BY <1>1, <1>2, <1>3, <1>4
     DEF SerialInv, PickedAlone, GuardedTranscodesAlone, SameEntryTranscodes, Claimable,
         NoneRunningLike, table, history
<1>7. EarlierWasRevived'
  <2> SUFFICES ASSUME NEW j \in Job, NEW k \in Job, kind[j] = "download", kind[k] = "download",
                      j < k, status[k] = "running" \/ Locked(k)', status[j] \in {"queued", "running"}
               PROVE  j \in revived
    BY <1>2 DEF EarlierWasRevived, table, history
  <2>1. CASE status[k] = "running" \/ Locked(k)
    BY <2>1 DEF SerialInv, EarlierWasRevived
  <2>2. CASE k \in picked
    <3>1. j \notin Running /\ (j \in Queued => k <= j)
      BY <1>1, <2>2 DEF Claimable, NoneRunningLike, FirstQueued
    <3> QED BY <3>1, JobAssumption DEF Running, Queued, Job
  <2> QED BY <1>3, <2>1, <2>2 DEF Locked
<1>8. RunningNotPaused' /\ IdsAhead'
  BY <1>2, <1>4 DEF SerialInv, RunningNotPaused, IdsAhead, table
<1> QED BY <1>5, <1>6, <1>7, <1>8 DEF SerialInv

LEMMA CommitSerial ==
    ASSUME Typed, SerialInv, NEW w \in Worker, ClaimCommit(w)
    PROVE  SerialInv'
<1> DEFINE keep == Kept(rows[w])
<1>1. /\ keep \subseteq rows[w] /\ rows[w] \subseteq Job
      /\ \A j, k \in keep : SameEntryTranscodes(j, k) => j = k
  BY JobAssumption DEF Kept, Transcodes, SameEntryTranscodes, Typed, TypeOK, Job
<1>2. /\ status' = [j \in Job |-> IF j \in keep THEN "running" ELSE status[j]]
      /\ guarded' = (guarded \ keep) \cup {j \in Transcodes(keep) : entry[j] \in locks[w]}
      /\ locks' = [locks EXCEPT ![w] = {}] /\ rows' = [rows EXCEPT ![w] = {}]
      /\ cphase' = [cphase EXCEPT ![w] = "idle"]
      /\ UNCHANGED <<nextId, kind, entry, paused, revived>>
  BY DEF ClaimCommit
<1> HIDE DEF keep
<1>3. \A v \in Worker : /\ rows'[v] = IF v = w THEN {} ELSE rows[v]
                        /\ locks'[v] = IF v = w THEN {} ELSE locks[v]
                        /\ cphase'[v] = IF v = w THEN "idle" ELSE cphase[v]
  BY <1>2 DEF Typed, TypeOK
<1>4. Running' = Running \cup keep
  BY <1>1, <1>2 DEF Running
<1>5. guarded' \cap keep = {j \in Transcodes(keep) : entry[j] \in locks[w]}
      /\ guarded' \ keep = guarded \ keep
  BY <1>2 DEF Transcodes
<1>6. ClaimInv'
  BY <1>1, <1>2, <1>3 DEF SerialInv, ClaimInv, Typed, TypeOK
<1>7. RunningNotPaused'
  BY <1>1, <1>2, <1>4 DEF SerialInv, ClaimInv, RunningNotPaused
<1>8. PickedAlone'
  <2> SUFFICES ASSUME NEW v \in Worker, v # w, NEW j \in rows[v], entry[j] \in locks[v],
                      NEW k \in Running \cup keep, k \in guarded', SameEntryTranscodes(j, k)
               PROVE  FALSE
    BY <1>2, <1>3, <1>4 DEF PickedAlone, SameEntryTranscodes
  <2>1. CASE k \in keep
    <3>1. entry[k] \in locks[w]
      BY <1>5, <2>1
    <3> QED BY <3>1 DEF SerialInv, ClaimInv, SameEntryTranscodes
  <2>2. CASE k \notin keep
    BY <1>5, <2>2 DEF SerialInv, PickedAlone
  <2> QED BY <2>1, <2>2
<1>9. GuardedTranscodesAlone'
  <2> SUFFICES ASSUME NEW j \in Running \cup keep, NEW k \in Running \cup keep,
                      j \in guarded', k \in guarded', SameEntryTranscodes(j, k)
               PROVE  j = k
    BY <1>2, <1>4 DEF GuardedTranscodesAlone, SameEntryTranscodes
  <2>1. SameEntryTranscodes(k, j)
    BY DEF SameEntryTranscodes
  <2>2. ASSUME NEW a \in keep, a \in guarded', NEW b \in Running, b \in guarded, SameEntryTranscodes(a, b)
        PROVE  FALSE
    <3>1. a \in rows[w] /\ entry[a] \in locks[w]
      BY <1>1, <1>5, <2>2
    <3> QED BY <3>1, <2>2 DEF SerialInv, PickedAlone
  <2>3. CASE j \in keep /\ k \in keep
    BY <1>1, <2>3
  <2>4. CASE j \in keep /\ k \notin keep
    BY <1>5, <2>2, <2>4
  <2>5. CASE j \notin keep /\ k \in keep
    BY <1>5, <2>1, <2>2, <2>5
  <2>6. CASE j \notin keep /\ k \notin keep
    BY <1>5, <2>6 DEF SerialInv, GuardedTranscodesAlone
  <2> QED BY <2>3, <2>4, <2>5, <2>6
<1>10. IdsAhead'
  BY <1>1, <1>2 DEF SerialInv, IdsAhead, ClaimInv
<1>11. EarlierWasRevived'
  <2> SUFFICES ASSUME NEW j \in Job, NEW k \in Job, kind[j] = "download", kind[k] = "download",
                      j < k, status'[k] = "running" \/ Locked(k)', status'[j] \in {"queued", "running"}
               PROVE  j \in revived
    BY <1>2 DEF EarlierWasRevived
  <2>1. status[k] = "running" \/ Locked(k)
    BY <1>1, <1>2, <1>3 DEF Locked
  <2>2. status[j] \in {"queued", "running"}
    BY <1>1, <1>2 DEF SerialInv, ClaimInv
  <2> QED BY <2>1, <2>2 DEF SerialInv, EarlierWasRevived
<1> QED BY <1>6, <1>7, <1>8, <1>9, <1>10, <1>11 DEF SerialInv

LEMMA CrashSerial ==
    ASSUME Typed, SerialInv, NEW w \in Worker, Crash(w)
    PROVE  SerialInv'
<1>1. /\ UNCHANGED <<table, history>>
      /\ \A v \in Worker : /\ rows'[v] = IF v = w THEN {} ELSE rows[v]
                           /\ locks'[v] = IF v = w THEN {} ELSE locks[v]
                           /\ cphase'[v] = IF v = w THEN "idle" ELSE cphase[v]
  BY DEF Crash, Typed, TypeOK
<1>2. Running' = Running
  BY <1>1 DEF Running, table
<1>3. ClaimInv' /\ RunningNotPaused' /\ IdsAhead'
  BY <1>1, <1>2 DEF SerialInv, ClaimInv, RunningNotPaused, IdsAhead, table
<1>4. PickedAlone' /\ GuardedTranscodesAlone' /\ EarlierWasRevived'
  BY <1>1, <1>2
     DEF SerialInv, PickedAlone, GuardedTranscodesAlone, SameEntryTranscodes, EarlierWasRevived,
         Locked, table, history
<1> QED BY <1>3, <1>4 DEF SerialInv

LEMMA StepSerial == Typed /\ SerialInv /\ [Next]_vars => SerialInv'
<1> SUFFICES ASSUME Typed, SerialInv, [Next]_vars PROVE SerialInv'
  OBVIOUS
<1>1. Quiet \/ Noisy
  BY QuietSteps DEF SerialInv
<1> QED
  BY <1>1, QuietSerial, EnqueueSerial, PauseSerial, LockSerial, SelectSerial, CommitSerial,
     CrashSerial DEF Noisy

LEMMA SpecSerial == Spec => []SerialInv
BY InitTyped, StepTyped, InitSerial, StepSerial, PTL DEF Spec

(* Flavors of one entry claimed under its advisory lock never run together.  *)
THEOREM SpecGuardedTranscodesAlone == Spec => []GuardedTranscodesAlone
<1>1. SerialInv => GuardedTranscodesAlone
  BY DEF SerialInv
<1> QED BY <1>1, SpecSerial, PTL

(* No paused job is ever running. *)
THEOREM SpecRunningNotPaused == Spec => []RunningNotPaused
<1>1. SerialInv => RunningNotPaused
  BY DEF SerialInv
<1> QED BY <1>1, SpecSerial, PTL

(* Two downloads run together only if the earlier one was put back.          *)
THEOREM SpecDownloadOverlapNeedsRevival == Spec => []DownloadOverlapNeedsRevival
<1>1. SerialInv => DownloadOverlapNeedsRevival
  BY DEF SerialInv, EarlierWasRevived, DownloadOverlapNeedsRevival, Running
<1> QED BY <1>1, SpecSerial, PTL

-----------------------------------------------------------------------------
(* Advisory locks are taken upwards, so nobody waits in a circle: a claim    *)
(* wants only entries above the ones it holds.                               *)

LockOrder ==
    \A w \in Worker :
        /\ cphase[w] = "idle" => locks[w] = {}
        /\ \A e \in locks[w], f \in cand[w] : e < f

(* Only the claim loop's own steps touch its locks. *)
LEMMA ClaimUntouched ==
    ASSUME [Next]_vars,
           \A w \in Worker : /\ ~ClaimScan(w) /\ ~ClaimSelect(w) /\ ~ClaimCommit(w) /\ ~Crash(w)
                             /\ \A e \in Entry : ~ClaimLock(w, e)
    PROVE  UNCHANGED claim
<1>1. CASE \E x \in Request : Enqueue(x[1], x[2])
  BY <1>1 DEF Enqueue
<1>2. CASE \E j \in Job : JobsPage(j) \/ BecomeDue(j) \/ Age(j)
  BY <1>2 DEF JobsPage, Pause, Resume, RequestCancel, Retry, BecomeDue, Age
<1>3. CASE \E e \in Entry : DeleteEntry(e)
  BY <1>3 DEF DeleteEntry
<1>4. CASE \E w \in Worker : Loop(w)
  BY <1>4 DEF Loop, Heartbeat, StaleTick, StartWorker
<1>5. CASE \E r \in Run : RunJob(r)
  BY <1>5 DEF RunJob, Launch, BeginEncode, HandlerReturns, WatcherFires, JobTimesOut, RunDone,
              RunCheckCancel, RunCancel, RunFailRead, RunFailWrite
<1>6. CASE UNCHANGED vars
  BY <1>6 DEF vars
<1> QED BY <1>1, <1>2, <1>3, <1>4, <1>5, <1>6 DEF Next

LEMMA StepLockOrder == Typed /\ LockOrder /\ [Next]_vars => LockOrder'
<1> SUFFICES ASSUME Typed, LockOrder, [Next]_vars PROVE LockOrder'
  OBVIOUS
<1> USE JobAssumption DEF Typed
<1>1. ASSUME NEW w \in Worker, ClaimScan(w) PROVE LockOrder'
  <2>1. /\ locks' = locks /\ cphase[w] = "idle" /\ cphase' = [cphase EXCEPT ![w] = "locking"]
        /\ \A v \in Worker \ {w} : cand'[v] = cand[v]
    BY <1>1 DEF ClaimScan, LoopIdle, TypeOK
  <2> QED BY <2>1 DEF LockOrder, TypeOK
<1>2. ASSUME NEW w \in Worker, NEW e \in Entry, ClaimLock(w, e) PROVE LockOrder'
  <2>1. /\ cphase' = cphase /\ cphase[w] = "locking"
        /\ cand' = [cand EXCEPT ![w] = @ \ {e}] /\ locks' = [locks EXCEPT ![w] = @ \cup {e}]
        /\ \A f \in cand[w] : e <= f
    BY <1>2 DEF ClaimLock, InOrder
  <2>2. \A f \in cand[w] : f \in Nat /\ e \in Nat
    BY DEF TypeOK
  <2>3. \A g \in locks'[w], f \in cand'[w] : g < f
    <3> SUFFICES ASSUME NEW g \in locks[w] \cup {e}, NEW f \in cand[w] \ {e} PROVE g < f
      BY <2>1 DEF TypeOK
    <3> QED BY <2>1, <2>2 DEF LockOrder
  <2>4. \A v \in Worker \ {w} : cand'[v] = cand[v] /\ locks'[v] = locks[v]
    BY <2>1 DEF TypeOK
  <2> QED BY <2>1, <2>3, <2>4 DEF LockOrder
<1>3. ASSUME NEW w \in Worker, ClaimSelect(w) PROVE LockOrder'
  BY <1>3 DEF ClaimSelect, LockOrder, TypeOK
<1>4. ASSUME NEW w \in Worker, ClaimCommit(w) PROVE LockOrder'
  BY <1>4 DEF ClaimCommit, LockOrder, TypeOK
<1>5. ASSUME NEW w \in Worker, Crash(w) PROVE LockOrder'
  BY <1>5 DEF Crash, LockOrder, TypeOK
<1>6. CASE UNCHANGED claim
  BY <1>6 DEF claim, LockOrder
<1> QED BY <1>1, <1>2, <1>3, <1>4, <1>5, <1>6, ClaimUntouched

(* No two claims wait for each other's advisory locks, whatever the number   *)
(* of workers and entries.                                                   *)
THEOREM SpecNoLockCycle == Spec => []NoLockCycle
<1>1. Init => LockOrder
  BY DEF Init, LockOrder
<1>2. Typed /\ LockOrder => NoLockCycle
  <2> SUFFICES ASSUME Typed, LockOrder, NEW v \in Worker, NEW w \in Worker,
                      NEW e \in cand[v] \cap locks[w], NEW f \in cand[w] \cap locks[v]
               PROVE  FALSE
    BY DEF NoLockCycle
  <2>1. f < e /\ e < f
    BY DEF LockOrder
  <2>2. e \in Nat /\ f \in Nat
    BY JobAssumption DEF Typed, TypeOK
  <2> QED BY <2>1, <2>2
<1> QED BY <1>1, <1>2, InitTyped, StepTyped, StepLockOrder, PTL DEF Spec

-----------------------------------------------------------------------------
(* Who holds a job: a claim loop that has yet to launch it, or a goroutine.  *)
(* A process that is not up holds nothing, and a claim is open only once the *)
(* loop has given all the jobs of the last one away.                         *)

LoopInv ==
    \A w \in Worker :
        /\ wstate[w] # "up" =>
              /\ cphase[w] = "idle" /\ handoff[w] = {}
              /\ \A r \in Run : r[1] = w => rphase[r] = "free"
        /\ cphase[w] # "idle" => handoff[w] = {}

(* A step that takes no job into a hand and none out of it. *)
SameHands ==
    /\ UNCHANGED <<handoff, rjob>>
    /\ \A r \in Run : rphase'[r] = "free" <=> rphase[r] = "free"
    /\ \A w \in Worker : wstate'[w] = wstate[w] \/ (wstate[w] = "unborn" /\ wstate'[w] = "up")
    /\ \A w \in Worker : cphase[w] = "idle" /\ cphase'[w] # "idle" =>
                             wstate[w] = "up" /\ handoff[w] = {}

(* A goroutine ends. *)
Release(r) ==
    /\ rphase[r] # "free" /\ Free(r)
    /\ UNCHANGED <<wstate, cphase, handoff>>

(* A goroutine goes on, or ends, and settles at most its own row. *)
LEMMA RunSteps ==
    ASSUME Typed, NEW r \in Run, RunJob(r), \A j \in Job : ~Launch(r, j)
    PROVE  \/ SameHands /\ UNCHANGED table
           \/ Release(r) /\ UNCHANGED <<kind, attempts>>
              /\ \A j \in Job \ {rjob[r]} : status'[j] = status[j] /\ owner'[j] = owner[j]
<1> USE DEF Typed, RunHasJob
<1>1. CASE BeginEncode(r) \/ RunCheckCancel(r) \/ \E outcome \in {"ok", "err"} : HandlerReturns(r, outcome)
  <2>1. PICK phase \in RunPhase \ {"free"} : Goto(r, phase)
    BY <1>1 DEF BeginEncode, RunCheckCancel, HandlerReturns, RunPhase
  <2>2. rphase[r] # "free" /\ UNCHANGED <<table, wstate, claim, handoff>>
    BY <1>1 DEF BeginEncode, RunCheckCancel, HandlerReturns
  <2> QED BY <2>1, <2>2 DEF Goto, SameHands, claim, TypeOK
<1>2. CASE WatcherFires(r) \/ JobTimesOut(r)
  BY <1>2 DEF WatcherFires, JobTimesOut, SameHands, claim
<1>3. CASE RunFailRead(r)
  <2>1. Free(r) \/ \E phase \in {"deadletter", "requeue"} : Goto(r, phase)
    BY <1>3 DEF RunFailRead
  <2> QED BY <1>3, <2>1 DEF RunFailRead, Goto, Release, SameHands, table, claim, TypeOK
<1>4. CASE RunDone(r) \/ RunCancel(r) \/ RunFailWrite(r)
  <2>1. rphase[r] # "free" /\ Free(r) /\ UNCHANGED <<wstate, claim, handoff>>
    BY <1>4 DEF RunDone, RunCancel, RunFailWrite
  <2>2. UNCHANGED table \/ \E new \in JobStatus : Settle(rjob[r], new)
    BY <1>4 DEF RunDone, RunCancel, RunFailWrite, JobStatus, Terminal
  <2>3. \A new : Settle(rjob[r], new) =>
            /\ UNCHANGED <<kind, attempts>>
            /\ \A j \in Job \ {rjob[r]} : status'[j] = status[j] /\ owner'[j] = owner[j]
    BY DEF Settle, TypeOK
  <2> QED BY <2>1, <2>2, <2>3 DEF Release, table, claim
<1> QED BY <1>1, <1>2, <1>3, <1>4 DEF RunJob

(* Every step leaves the hands alone, or is one of four. *)
LEMMA HandSteps ==
    ASSUME Typed, [Next]_vars
    PROVE  \/ SameHands
           \/ \E r \in Run : (RunJob(r) /\ Release(r)) \/ \E j \in Job : Launch(r, j)
           \/ \E w \in Worker : ClaimCommit(w) \/ Crash(w)
<1>1. CASE \E x \in Request : Enqueue(x[1], x[2])
  BY <1>1 DEF Enqueue, SameHands, claim, pool
<1>2. CASE \E j \in Job : JobsPage(j) \/ BecomeDue(j) \/ Age(j)
  BY <1>2 DEF JobsPage, Pause, Resume, RequestCancel, Retry, BecomeDue, Age, SameHands, claim, pool
<1>3. CASE \E e \in Entry : DeleteEntry(e)
  BY <1>3 DEF DeleteEntry, SameHands, claim, pool
<1>4. ASSUME NEW w \in Worker, Loop(w), ~ClaimCommit(w), ~Crash(w) PROVE SameHands
  <2>1. CASE ClaimScan(w)
    BY <2>1 DEF ClaimScan, LoopIdle, SameHands, pool, Typed, TypeOK
  <2>2. CASE \E e \in Entry : ClaimLock(w, e)
    BY <2>2 DEF ClaimLock, SameHands, pool
  <2>3. CASE ClaimSelect(w)
    BY <2>3 DEF ClaimSelect, SameHands, pool, Typed, TypeOK
  <2>4. CASE Heartbeat(w) \/ StaleTick(w)
    BY <2>4 DEF Heartbeat, StaleTick, SameHands, claim, pool
  <2>5. CASE StartWorker(w)
    BY <2>5 DEF StartWorker, SameHands, claim, pool, Typed, TypeOK
  <2> QED BY <1>4, <2>1, <2>2, <2>3, <2>4, <2>5 DEF Loop
<1>5. CASE \E r \in Run : RunJob(r)
  BY <1>5, RunSteps
<1>6. CASE UNCHANGED vars
  BY <1>6 DEF vars, claim, pool, SameHands
<1> QED BY <1>1, <1>2, <1>3, <1>4, <1>5, <1>6 DEF Next

LEMMA StepLoop == Typed /\ LoopInv /\ [Next]_vars => LoopInv'
<1> SUFFICES ASSUME Typed, LoopInv, [Next]_vars PROVE LoopInv'
  OBVIOUS
<1> USE DEF Typed
<1>1. CASE SameHands
  BY <1>1 DEF SameHands, LoopInv, TypeOK
<1>2. ASSUME NEW r \in Run, Release(r) PROVE LoopInv'
  BY <1>2 DEF Release, Free, LoopInv, TypeOK
<1>3. ASSUME NEW r \in Run, NEW j \in Job, Launch(r, j) PROVE LoopInv'
  <2>1. /\ wstate' = wstate /\ cphase' = cphase /\ wstate[r[1]] = "up"
        /\ handoff' = [handoff EXCEPT ![r[1]] = @ \ {j}]
        /\ \A s \in Run : s # r => rphase'[s] = rphase[s]
    BY <1>3 DEF Launch, claim, pool, TypeOK
  <2>2. \A v \in Worker : handoff'[v] \subseteq handoff[v]
    BY <2>1 DEF TypeOK
  <2> QED BY <2>1, <2>2 DEF LoopInv
<1>4. ASSUME NEW w \in Worker, ClaimCommit(w) PROVE LoopInv'
  BY <1>4 DEF ClaimCommit, pool, LoopInv, TypeOK
<1>5. ASSUME NEW w \in Worker, Crash(w) PROVE LoopInv'
  BY <1>5 DEF Crash, LoopInv, TypeOK
<1> QED BY <1>1, <1>2, <1>3, <1>4, <1>5, HandSteps

-----------------------------------------------------------------------------
(* A "running" row is abandoned only by a dead process or an ended context.  *)

(* No step but a claim starts a job, changes the owner of a running one, or   *)
(* takes back its abort.                                                     *)
RunsOn ==
    /\ \A j \in Job : status'[j] = "running" =>
          status[j] = "running" /\ owner'[j] = owner[j] /\ (flagged[j] => flagged'[j])
    /\ expired \subseteq expired'

LEMMA SettleRunsOn ==
    ASSUME TypeOK, NEW j \in Job, NEW new \in {"done", "failed", "cancelled", "queued"}, Settle(j, new)
    PROVE  RunsOn /\ status'[j] # "running"
BY DEF Settle, RunsOn, TypeOK, Exists

LEMMA RequeueRunsOn ==
    ASSUME TypeOK, RequeueStale, expired' = expired
    PROVE  RunsOn
BY DEF RequeueStale, RunsOn, TypeOK

(* The goroutines neither start a row nor, short of settling it, end one.     *)
LEMMA RunRunsOn ==
    ASSUME Typed, NEW r \in Run, RunJob(r)
    PROVE  /\ RunsOn
           /\ Release(r) => \/ status'[rjob[r]] # "running"
                            \/ ~rctx[r]
<1> USE DEF Typed, RunHasJob
<1>1. CASE (\E j \in Job : Launch(r, j)) \/ BeginEncode(r) \/ RunCheckCancel(r)
           \/ \E outcome \in {"ok", "err"} : HandlerReturns(r, outcome)
  <2>1. UNCHANGED <<table, history>>
    BY <1>1 DEF Launch, BeginEncode, RunCheckCancel, HandlerReturns
  <2>2. ~Release(r)
    BY <1>1 DEF Launch, BeginEncode, RunCheckCancel, HandlerReturns, Release, Free, Goto, TypeOK, FreeRuns
  <2> QED BY <2>1, <2>2 DEF RunsOn, table, history
<1>2. CASE WatcherFires(r) \/ JobTimesOut(r)
  BY <1>2 DEF WatcherFires, JobTimesOut, RunsOn, Release, Free, table, history, TypeOK
<1>3. CASE RunFailRead(r)
  <2>1. RunsOn
    BY <1>3 DEF RunFailRead, RunsOn, table, history
  <2>2. Release(r) => ~rctx[r] \/ status'[rjob[r]] # "running"
    BY <1>3 DEF RunFailRead, Release, Free, Goto, TypeOK, Exists, table, RunPhase
  <2> QED BY <2>1, <2>2
<1>4. CASE RunDone(r) \/ RunCancel(r) \/ RunFailWrite(r)
  <2>1. \/ UNCHANGED <<table, history>> /\ ~rctx[r]
        \/ \E new \in {"done", "failed", "cancelled", "queued"} : Settle(rjob[r], new)
    BY <1>4 DEF RunDone, RunCancel, RunFailWrite
  <2>2. rjob[r] \in Job
    BY <1>4 DEF RunDone, RunCancel, RunFailWrite
  <2> QED BY <2>1, <2>2, SettleRunsOn DEF RunsOn, table, history
<1> QED BY <1>1, <1>2, <1>3, <1>4 DEF RunJob

LEMMA RunsOnSteps ==
    ASSUME Typed, [Next]_vars, \A w \in Worker : ~ClaimCommit(w)
    PROVE  RunsOn
<1> USE DEF Typed
<1>1. ASSUME NEW x \in Request, Enqueue(x[1], x[2]) PROVE RunsOn
  BY <1>1 DEF Enqueue, RunsOn, history, TypeOK
<1>2. ASSUME NEW j \in Job, JobsPage(j) PROVE RunsOn
  BY <1>2 DEF JobsPage, Pause, Resume, RequestCancel, Retry, RunsOn, history, TypeOK
<1>3. ASSUME NEW j \in Job, BecomeDue(j) \/ Age(j) PROVE RunsOn
  BY <1>3 DEF BecomeDue, Age, RunsOn, history
<1>4. ASSUME NEW e \in Entry, DeleteEntry(e) PROVE RunsOn
  BY <1>4 DEF DeleteEntry, RunsOn, history, TypeOK
<1>5. ASSUME NEW w \in Worker, Loop(w) PROVE RunsOn
  <2>1. CASE ClaimScan(w) \/ ClaimSelect(w) \/ Crash(w) \/ \E e \in Entry : ClaimLock(w, e)
    BY <2>1 DEF ClaimScan, ClaimSelect, Crash, ClaimLock, RunsOn, table, history
  <2>2. CASE Heartbeat(w)
    BY <2>2 DEF Heartbeat, RunsOn, history
  <2>3. CASE StaleTick(w) \/ StartWorker(w)
    BY <2>3, RequeueRunsOn DEF StaleTick, StartWorker, history
  <2> QED BY <1>5, <2>1, <2>2, <2>3 DEF Loop
<1>6. ASSUME NEW r \in Run, RunJob(r) PROVE RunsOn
  BY <1>6, RunRunsOn
<1>7. CASE UNCHANGED vars
  BY <1>7 DEF vars, table, history, RunsOn
<1> QED BY <1>1, <1>2, <1>3, <1>4, <1>5, <1>6, <1>7 DEF Next

(* Whoever claimed a running row, that claim still has it in hand, with its  *)
(* context intact, unless the claim's process died or the job was aborted.   *)
InHand(j) ==
    \/ j \in handoff[owner[j]]
    \/ \E r \in Run : r[1] = owner[j] /\ rphase[r] # "free" /\ rjob[r] = j /\ rctx[r]

AbortInv ==
    \A j \in Running :
        /\ owner[j] \in Worker /\ wstate[owner[j]] # "unborn"
        /\ wstate[owner[j]] = "up" /\ ~flagged[j] /\ j \notin expired => InHand(j)

(* A context ends with its goroutine, by the watcher or by the time limit.   *)
LEMMA ContextEnds ==
    ASSUME Typed, SameHands, [Next]_vars, NEW r \in Run, rphase[r] # "free", rctx[r], ~rctx'[r]
    PROVE  flagged[rjob[r]] \/ rjob[r] \in expired'
<1> USE DEF Typed, RunHasJob
<1>1. ASSUME NEW s \in Run, RunJob(s) PROVE flagged[rjob[r]] \/ rjob[r] \in expired'
  <2>1. CASE WatcherFires(s)
    BY <2>1 DEF WatcherFires, AbortSeen, TypeOK
  <2>2. CASE JobTimesOut(s)
    BY <2>2 DEF JobTimesOut, TypeOK
  <2>3. CASE BeginEncode(s) \/ RunCheckCancel(s) \/ \E outcome \in {"ok", "err"} : HandlerReturns(s, outcome)
    BY <2>3 DEF BeginEncode, RunCheckCancel, HandlerReturns, Goto
  <2>4. CASE RunDone(s) \/ RunCancel(s) \/ RunFailWrite(s) \/ RunFailRead(s)
    <3>1. (Free(s) /\ rphase[s] # "free") \/ rctx' = rctx
      BY <2>4 DEF RunDone, RunCancel, RunFailWrite, RunFailRead, Goto
    <3> QED BY <3>1 DEF Free, SameHands, TypeOK
  <2>5. CASE \E j \in Job : Launch(s, j)
    BY <2>5 DEF Launch, pool, TypeOK
  <2> QED BY <1>1, <2>1, <2>2, <2>3, <2>4, <2>5 DEF RunJob
<1>2. ASSUME NEW w \in Worker, Loop(w) PROVE flagged[rjob[r]] \/ rjob[r] \in expired'
  <2>1. CASE Crash(w)
    BY <2>1 DEF Crash, SameHands, TypeOK
  <2>2. CASE ~Crash(w)
    BY <1>2, <2>2 DEF Loop, ClaimScan, ClaimLock, ClaimSelect, ClaimCommit, Heartbeat, StaleTick, StartWorker, pool
  <2> QED BY <2>1, <2>2
<1>3. CASE (\E x \in Request : Enqueue(x[1], x[2])) \/ (\E e \in Entry : DeleteEntry(e))
           \/ (\E j \in Job : JobsPage(j) \/ BecomeDue(j) \/ Age(j)) \/ UNCHANGED vars
  BY <1>3 DEF Enqueue, DeleteEntry, JobsPage, Pause, Resume, RequestCancel, Retry, BecomeDue, Age, vars, pool
<1> QED BY <1>1, <1>2, <1>3 DEF Next

LEMMA StepAbort == Typed /\ LoopInv /\ AbortInv /\ [Next]_vars => AbortInv'
<1> SUFFICES ASSUME Typed, LoopInv, AbortInv, [Next]_vars PROVE AbortInv'
  OBVIOUS
<1> USE DEF Typed, RunHasJob
<1>1. ASSUME NEW w \in Worker, ClaimCommit(w) PROVE AbortInv'
  <2> DEFINE keep == Kept(rows[w])
  <2>1. keep \subseteq Job
    BY DEF Kept, TypeOK
  <2>2. /\ status' = [j \in Job |-> IF j \in keep THEN "running" ELSE status[j]]
        /\ owner' = [j \in Job |-> IF j \in keep THEN w ELSE owner[j]]
        /\ expired' = expired \ keep
        /\ handoff' = [handoff EXCEPT ![w] = keep]
        /\ UNCHANGED <<flagged, wstate, pool>>
    BY <1>1 DEF ClaimCommit
  <2>3. wstate[w] = "up" /\ handoff[w] = {}
    BY <1>1 DEF ClaimCommit, LoopInv
  <2> HIDE DEF keep
  <2> SUFFICES ASSUME NEW j \in Job, status'[j] = "running"
               PROVE  /\ owner'[j] \in Worker /\ wstate'[owner'[j]] # "unborn"
                      /\ wstate'[owner'[j]] = "up" /\ ~flagged'[j] /\ j \notin expired' => InHand(j)'
    BY DEF AbortInv, Running
  <2>4. CASE j \in keep
    <3>1. owner'[j] = w /\ j \in handoff'[w]
      BY <2>2, <2>4 DEF TypeOK
    <3> QED BY <2>2, <2>3, <3>1 DEF InHand
  <2>5. CASE j \notin keep
    <3>1. j \in Running /\ owner'[j] = owner[j] /\ (j \notin expired' => j \notin expired)
      BY <2>2, <2>5 DEF Running
    <3>2. handoff[owner[j]] \subseteq handoff'[owner[j]]
      BY <2>2, <2>3, <3>1 DEF AbortInv, TypeOK
    <3> QED BY <2>2, <3>1, <3>2 DEF AbortInv, InHand, pool
  <2> QED BY <2>4, <2>5
<1>2. ASSUME \A w \in Worker : ~ClaimCommit(w) PROVE AbortInv'
  <2> SUFFICES ASSUME NEW j \in Job, status'[j] = "running"
               PROVE  /\ owner'[j] \in Worker /\ wstate'[owner'[j]] # "unborn"
                      /\ wstate'[owner'[j]] = "up" /\ ~flagged'[j] /\ j \notin expired' => InHand(j)'
    BY DEF AbortInv, Running
  <2>1. /\ j \in Running /\ owner'[j] = owner[j] /\ owner[j] \in Worker /\ wstate[owner[j]] # "unborn"
        /\ flagged[j] => flagged'[j]
        /\ j \in expired => j \in expired'
    BY <1>2, RunsOnSteps DEF RunsOn, AbortInv, Running
  <2>2. wstate[owner[j]] = "up" /\ ~flagged[j] /\ j \notin expired => InHand(j)
    BY <2>1 DEF AbortInv
  <2> DEFINE v == owner[j]
  <2> HIDE DEF v
  <2>3. CASE SameHands
    <3>1. wstate'[owner[j]] = wstate[owner[j]]
      BY <2>1, <2>3 DEF SameHands
    <3>2. InHand(j) => InHand(j)' \/ flagged'[j] \/ j \in expired'
      BY SMTT(60), <2>1, <2>3, ContextEnds DEF SameHands, InHand, Running, TypeOK
    <3> QED BY <2>1, <2>2, <3>1, <3>2
  <2>4. ASSUME NEW r \in Run, RunJob(r), Release(r)
        PROVE  wstate' = wstate /\ (InHand(j) => InHand(j)')
    <3>1. handoff' = handoff /\ wstate' = wstate
          /\ \A s \in Run \ {r} : rphase'[s] = rphase[s] /\ rjob'[s] = rjob[s] /\ rctx'[s] = rctx[s]
      BY <2>4 DEF Release, Free, TypeOK
    <3>2. rjob[r] = j => ~rctx[r]
      BY <2>4, RunRunsOn
    <3> QED BY <2>1, <3>1, <3>2 DEF InHand
  <2>5. ASSUME NEW r \in Run, NEW k \in Job, Launch(r, k)
        PROVE  wstate' = wstate /\ (InHand(j) => InHand(j)')
    <3>1. /\ UNCHANGED <<wstate, table>> /\ rphase[r] = "free"
          /\ handoff' = [handoff EXCEPT ![r[1]] = @ \ {k}] /\ k \in handoff[r[1]]
          /\ \A s \in Run \ {r} : rphase'[s] = rphase[s] /\ rjob'[s] = rjob[s] /\ rctx'[s] = rctx[s]
      BY <2>5 DEF Launch, FreeRuns, pool, TypeOK
    <3>2. CASE j \in handoff[owner[j]] /\ k = j /\ r[1] = owner[j]
      <4>1. Exists(j)
        BY <2>1 DEF Exists, Running
      <4>2. rjob'[r] = j /\ rphase'[r] = "handle" /\ rctx'[r]
        BY <2>5, <3>2, <4>1 DEF Launch, TypeOK
      <4> QED BY <2>1, <3>1, <3>2, <4>2 DEF InHand
    <3>3. CASE j \in handoff[owner[j]] /\ ~(k = j /\ r[1] = owner[j])
      <4>1. j \in handoff'[owner[j]]
        BY <2>1, <3>1, <3>3 DEF TypeOK
      <4> QED BY <2>1, <3>1, <4>1 DEF InHand
    <3>4. CASE \E s \in Run : s[1] = owner[j] /\ rphase[s] # "free" /\ rjob[s] = j /\ rctx[s]
      BY <2>1, <3>1, <3>4 DEF InHand
    <3> QED BY <3>1, <3>2, <3>3, <3>4 DEF InHand
  <2>6. ASSUME NEW w \in Worker, Crash(w)
        PROVE  wstate'[owner[j]] # "unborn" /\ (wstate'[owner[j]] = "up" => wstate[owner[j]] = "up" /\ (InHand(j) => InHand(j)'))
    BY <2>1, <2>6 DEF Crash, InHand, TypeOK, table
  <2>7. \/ SameHands
        \/ \E r \in Run : (RunJob(r) /\ Release(r)) \/ \E k \in Job : Launch(r, k)
        \/ \E w \in Worker : Crash(w)
    BY <1>2, HandSteps
  <2> QED BY <2>1, <2>2, <2>3, <2>4, <2>5, <2>6, <2>7
<1> QED BY <1>1, <1>2

(* A row is left "running" with nobody working on it only by a dead worker,   *)
(* a cancel request or the four-hour limit, for every number of workers and   *)
(* slots, over-subscribed pools included.                                     *)
THEOREM SpecAbandonedOnlyByAbort == Spec => []AbandonedOnlyByAbort
<1>1. Init => LoopInv /\ AbortInv
  BY DEF Init, LoopInv, AbortInv, Running
<1>2. AbortInv => AbandonedOnlyByAbort
  BY DEF AbortInv, AbandonedOnlyByAbort, InHand, Holders, Waiting
<1> QED BY <1>1, <1>2, InitTyped, StepTyped, StepLoop, StepAbort, PTL DEF Spec

-----------------------------------------------------------------------------
(* A job is in one hand, and the hand owns its row, as long as only dead      *)
(* workers lose jobs. The code breaks that in one way: a loop that waits for  *)
(* a slot of its pool serves no heartbeat. Everything else that may happen    *)
(* keeps it.                                                                  *)

DeadLose ==
    \A j \in Job :
        status[j] = "running" /\ status'[j] = "queued" /\ UNCHANGED pool
            => wstate[owner[j]] = "dead"

OneHand ==
    /\ \A r, s \in Run : rphase[r] # "free" /\ rphase[s] # "free" /\ rjob[r] = rjob[s] => r = s
    /\ \A v, w \in Worker : v # w => handoff[v] \cap handoff[w] = {}
    /\ \A r \in Run, w \in Worker : rphase[r] # "free" => rjob[r] \notin handoff[w]

Has(w, j) == status[j] = "deleted" \/ (status[j] = "running" /\ owner[j] = w)

OwnsRow ==
    /\ \A r \in Run : rphase[r] # "free" => Has(r[1], rjob[r])
    /\ \A w \in Worker : \A j \in handoff[w] : Has(w, j)

HandInv == LoopInv /\ OneHand /\ OwnsRow

(* An INSERT touches no row that was there before.                            *)
LEMMA InsertedWasUnused ==
    ASSUME Typed, SerialInv, NEW x \in Request, Enqueue(x[1], x[2])
    PROVE  nextId \in Job /\ status[nextId] = "unused"
BY JobAssumption DEF Typed, TypeOK, Enqueue, SerialInv, IdsAhead, Job

(* The steps that are neither a claim nor the end of a goroutine leave a live *)
(* worker its rows: the jobs page and the reclaim pass them by.               *)
LEMMA RowsKept ==
    ASSUME Typed, SerialInv, [Next]_vars, DeadLose,
           \A w \in Worker : ~ClaimCommit(w), \A r \in Run : ~Release(r),
           NEW v \in Worker, wstate[v] = "up", NEW j \in Job, Has(v, j)
    PROVE  /\ Has(v, j)' /\ kind'[j] = kind[j]
           /\ status'[j] = "deleted" \/ (attempts'[j] = attempts[j] /\ Exists(j))
<1> USE DEF Typed, RunHasJob, Exists
<1> DEFINE RowKept == /\ Has(v, j)' /\ kind'[j] = kind[j]
                      /\ status'[j] = "deleted" \/ (attempts'[j] = attempts[j] /\ Exists(j))
<1>1. ASSUME NEW x \in Request, Enqueue(x[1], x[2]) PROVE RowKept
  <2>1. nextId \in Job /\ status[nextId] = "unused"
    BY <1>1, InsertedWasUnused
  <2>2. j # nextId
    BY <2>1 DEF Has
  <2> QED BY <1>1, <2>2 DEF Enqueue, Has, TypeOK
<1>2. ASSUME NEW k \in Job, JobsPage(k) PROVE RowKept
  <2>1. CASE Pause(k) \/ Resume(k)
    BY <2>1 DEF Pause, Resume, Has
  <2>2. CASE RequestCancel(k)
    BY <2>2 DEF RequestCancel, Has, TypeOK
  <2>3. CASE Retry(k)
    BY <2>3 DEF Retry, Retryable, Has, TypeOK
  <2> QED BY <1>2, <2>1, <2>2, <2>3 DEF JobsPage
<1>3. ASSUME NEW k \in Job, BecomeDue(k) \/ Age(k) PROVE RowKept
  BY <1>3 DEF BecomeDue, Age, Has
<1>4. ASSUME NEW e \in Entry, DeleteEntry(e) PROVE RowKept
  BY <1>4 DEF DeleteEntry, Has, TypeOK
<1>5. ASSUME NEW w \in Worker, Loop(w) PROVE RowKept
  <2>1. CASE ClaimScan(w) \/ ClaimSelect(w) \/ Crash(w) \/ \E e \in Entry : ClaimLock(w, e)
    BY <2>1 DEF ClaimScan, ClaimSelect, Crash, ClaimLock, Has, table
  <2>2. CASE Heartbeat(w)
    BY <2>2 DEF Heartbeat, Has
  <2>3. CASE StaleTick(w) \/ StartWorker(w)
    <3>1. RequeueStale /\ UNCHANGED pool
      BY <2>3 DEF StaleTick, StartWorker
    <3>2. j \notin Lost
      <4> SUFFICES ASSUME j \in Lost PROVE FALSE
        OBVIOUS
      <4>1. status[j] = "running" /\ owner[j] = v
        BY DEF Lost, Running, Has
      <4>2. status'[j] = "queued"
        BY <3>1 DEF RequeueStale
      <4> QED BY <3>1, <4>1, <4>2 DEF DeadLose
    <3> QED BY <3>1, <3>2 DEF RequeueStale, Has, TypeOK
  <2> QED BY <1>5, <2>1, <2>2, <2>3 DEF Loop
<1>6. ASSUME NEW r \in Run, RunJob(r) PROVE RowKept
  <2>1. UNCHANGED table
    <3>1. CASE \E k \in Job : Launch(r, k)
      BY <3>1 DEF Launch
    <3>2. CASE \A k \in Job : ~Launch(r, k)
      BY <1>6, <3>2, RunSteps
    <3> QED BY <3>1, <3>2
  <2> QED BY <2>1 DEF table, Has
<1>7. CASE UNCHANGED vars
  BY <1>7 DEF vars, table, Has
<1> QED BY <1>1, <1>2, <1>3, <1>4, <1>5, <1>6, <1>7 DEF Next

(* The rows a claim marks are queued, hence in nobody's hand.                 *)
LEMMA ClaimedUnheld ==
    ASSUME Typed, SerialInv, HandInv, NEW w \in Worker, ClaimCommit(w)
    PROVE  /\ wstate[w] = "up" /\ handoff[w] = {} /\ Kept(rows[w]) \subseteq Job
           /\ \A r \in Run : rphase[r] # "free" => rjob[r] \notin Kept(rows[w])
           /\ \A v \in Worker : handoff[v] \cap Kept(rows[w]) = {}
<1>1. wstate[w] = "up" /\ handoff[w] = {}
  BY DEF HandInv, LoopInv, ClaimCommit
<1>2. Kept(rows[w]) \subseteq rows[w]
  BY DEF Kept
<1>3. \A j \in Kept(rows[w]) : j \in Job /\ status[j] = "queued"
  BY <1>2 DEF SerialInv, ClaimInv, Typed, TypeOK
<1> QED BY <1>1, <1>2, <1>3 DEF HandInv, OwnsRow, Has

(* Only the goroutine itself ends it, short of a crash. *)
LEMMA ReleaseIsRun ==
    ASSUME Typed, HandInv, [Next]_vars, NEW r \in Run, Release(r), \A w \in Worker : ~ClaimCommit(w)
    PROVE  \E s \in Run : RunJob(s) /\ Release(s)
<1> USE DEF Typed
<1>1. CASE SameHands
  BY <1>1 DEF Release, Free, SameHands, TypeOK
<1>2. ASSUME NEW s \in Run, NEW j \in Job, Launch(s, j) PROVE FALSE
  BY <1>2 DEF Launch, Release, Free, FreeRuns, pool, TypeOK
<1>3. ASSUME NEW w \in Worker, Crash(w) PROVE FALSE
  BY <1>3 DEF Crash, Release, HandInv, LoopInv, TypeOK
<1> QED BY <1>1, <1>2, <1>3, HandSteps

LEMMA StepHand == Typed /\ SerialInv /\ HandInv /\ [Next]_vars /\ DeadLose => HandInv'
<1> SUFFICES ASSUME Typed, SerialInv, HandInv, [Next]_vars, DeadLose PROVE HandInv'
  OBVIOUS
<1> USE DEF Typed, RunHasJob
<1>1. LoopInv'
  BY StepLoop DEF HandInv
<1>2. \A r \in Run : r[1] \in Worker
  BY DEF Run
<1>3. ASSUME NEW w \in Worker, ClaimCommit(w) PROVE OneHand' /\ OwnsRow'
  <2> DEFINE keep == Kept(rows[w])
  <2>1. /\ handoff[w] = {} /\ keep \subseteq Job
        /\ \A r \in Run : rphase[r] # "free" => rjob[r] \notin keep
        /\ \A v \in Worker : handoff[v] \cap keep = {}
    BY <1>3, ClaimedUnheld
  <2>2. /\ status' = [j \in Job |-> IF j \in keep THEN "running" ELSE status[j]]
        /\ owner' = [j \in Job |-> IF j \in keep THEN w ELSE owner[j]]
        /\ handoff' = [handoff EXCEPT ![w] = keep]
        /\ UNCHANGED pool
    BY <1>3 DEF ClaimCommit
  <2> HIDE DEF keep
  <2>3. \A v \in Worker : handoff'[v] = IF v = w THEN keep ELSE handoff[v]
    BY <2>2 DEF TypeOK
  <2>4. OneHand'
    BY <2>1, <2>2, <2>3 DEF HandInv, OneHand, pool
  <2>5. \A v \in Worker : \A j \in Job \ keep : Has(v, j)' <=> Has(v, j)
    BY <2>2 DEF Has
  <2>6. \A j \in keep : Has(w, j)'
    BY <2>1, <2>2 DEF Has
  <2>7. ASSUME NEW r \in Run, rphase[r] # "free" PROVE Has(r[1], rjob[r])'
    <3>1. rjob[r] \in Job \ keep /\ Has(r[1], rjob[r]) /\ rjob'[r] = rjob[r]
      BY <2>1, <2>2, <2>7 DEF HandInv, OwnsRow, pool
    <3> QED BY <1>2, <2>2, <2>5, <3>1 DEF Has
  <2>8. ASSUME NEW v \in Worker, NEW j \in handoff'[v] PROVE Has(v, j)'
    <3>1. CASE v = w
      BY <2>3, <2>6, <2>8, <3>1
    <3>2. CASE v # w
      BY <2>1, <2>3, <2>5, <2>8, <3>2 DEF HandInv, OwnsRow, TypeOK
    <3> QED BY <3>1, <3>2
  <2> QED BY <2>2, <2>4, <2>7, <2>8 DEF OwnsRow, pool
<1>4. ASSUME NEW r \in Run, RunJob(r), Release(r) PROVE OneHand' /\ OwnsRow'
  <2>1. \A j \in Job : ~Launch(r, j)
    BY <1>4 DEF Launch, Release, FreeRuns
  <2>2. \A j \in Job \ {rjob[r]} : status'[j] = status[j] /\ owner'[j] = owner[j]
    BY <1>4, <2>1, RunSteps DEF table
  <2>3. /\ handoff' = handoff /\ rphase'[r] = "free"
        /\ \A s \in Run \ {r} : rphase'[s] = rphase[s] /\ rjob'[s] = rjob[s]
        /\ rjob[r] \in Job
    BY <1>4 DEF Release, Free, TypeOK
  <2>4. OneHand'
    BY <2>3 DEF HandInv, OneHand
  <2>5. \A s \in Run \ {r} : rphase[s] # "free" => rjob[s] \in Job \ {rjob[r]}
    BY <1>4 DEF HandInv, OneHand, Release
  <2>6. \A v \in Worker : \A j \in handoff[v] : j \in Job \ {rjob[r]}
    BY <1>4 DEF HandInv, OneHand, Release, TypeOK
  <2> QED BY <1>2, <2>2, <2>3, <2>4, <2>5, <2>6 DEF HandInv, OwnsRow, Has
<1>5. ASSUME \A w \in Worker : ~ClaimCommit(w), \A r \in Run : ~Release(r) PROVE OneHand' /\ OwnsRow'
  <2>1. ASSUME NEW v \in Worker, wstate[v] = "up", NEW j \in Job, Has(v, j)
        PROVE  status'[j] = "deleted" \/ (status'[j] = "running" /\ owner'[j] = v)
    BY <1>5, <2>1, RowsKept DEF Has
  <2>2. \A r \in Run : rphase[r] # "free" =>
           /\ rjob[r] \in Job
           /\ status'[rjob[r]] = "deleted" \/ (status'[rjob[r]] = "running" /\ owner'[rjob[r]] = r[1])
    BY <1>2, <2>1 DEF HandInv, LoopInv, OwnsRow
  <2>3. \A v \in Worker : \A j \in handoff[v] :
           /\ j \in Job
           /\ status'[j] = "deleted" \/ (status'[j] = "running" /\ owner'[j] = v)
    BY <2>1 DEF HandInv, LoopInv, OwnsRow, TypeOK
  <2>4. CASE SameHands
    BY <2>2, <2>3, <2>4 DEF SameHands, HandInv, OneHand, OwnsRow, Has
  <2>5. ASSUME NEW r \in Run, NEW j \in Job, Launch(r, j) PROVE OneHand' /\ OwnsRow'
    <3>1. /\ rphase[r] = "free" /\ r[1] \in Worker /\ j \in handoff[r[1]]
          /\ handoff' = [handoff EXCEPT ![r[1]] = @ \ {j}]
          /\ rphase'[r] = "free" \/ rjob'[r] = j
          /\ \A s \in Run \ {r} : rphase'[s] = rphase[s] /\ rjob'[s] = rjob[s]
      BY <1>2, <2>5 DEF Launch, FreeRuns, pool, TypeOK
    <3>2. \A v \in Worker : /\ handoff'[v] \subseteq handoff[v]
                            /\ j \notin handoff'[v]
      BY <3>1 DEF HandInv, OneHand, TypeOK
    <3>3. OneHand'
      BY <3>1, <3>2 DEF HandInv, OneHand
    <3> QED BY <2>2, <2>3, <3>1, <3>2, <3>3 DEF OwnsRow, Has
  <2>6. ASSUME NEW w \in Worker, Crash(w) PROVE OneHand' /\ OwnsRow'
    <3>1. /\ \A r \in Run : rphase'[r] # "free" => rphase[r] # "free" /\ rjob'[r] = rjob[r]
          /\ \A v \in Worker : handoff'[v] \subseteq handoff[v]
      BY <2>6 DEF Crash, TypeOK
    <3> QED BY <2>2, <2>3, <3>1 DEF HandInv, OneHand, OwnsRow, Has
  <2> QED BY <1>5, <2>4, <2>5, <2>6, HandSteps
<1>6. ASSUME NEW r \in Run, Release(r), \A w \in Worker : ~ClaimCommit(w)
      PROVE  \E s \in Run : RunJob(s) /\ Release(s)
  BY <1>6, ReleaseIsRun
<1> QED BY <1>1, <1>3, <1>4, <1>5, <1>6 DEF HandInv

(* Fail writes "failed" on what it read before: the attempts of a row in hand *)
(* do not go down.                                                           *)
AttemptsInv ==
    \A r \in Run : rphase[r] = "deadletter" /\ Exists(rjob[r]) =>
        attempts[rjob[r]] >= MaxAttempts[kind[rjob[r]]]

LEMMA StepAttempts ==
    Typed /\ SerialInv /\ HandInv /\ AttemptsInv /\ [Next]_vars /\ DeadLose => AttemptsInv'
<1> SUFFICES ASSUME Typed, SerialInv, HandInv, AttemptsInv, [Next]_vars, DeadLose,
                    NEW r \in Run, rphase'[r] = "deadletter", Exists(rjob[r])'
             PROVE  attempts'[rjob'[r]] >= MaxAttempts[kind'[rjob'[r]]]
  BY DEF AttemptsInv
<1> USE DEF Typed, RunHasJob
<1> DEFINE Enough == attempts'[rjob'[r]] >= MaxAttempts[kind'[rjob'[r]]]
<1>1. CASE \E w \in Worker : ClaimCommit(w)
  <2>1. PICK w \in Worker : ClaimCommit(w)
    BY <1>1
  <2>2. UNCHANGED pool /\ kind' = kind
        /\ \A j \in Job \ Kept(rows[w]) : attempts'[j] = attempts[j] /\ status'[j] = status[j]
    BY <2>1 DEF ClaimCommit
  <2>3. rphase[r] = "deadletter" /\ rjob'[r] = rjob[r] /\ rjob[r] \in Job \ Kept(rows[w])
    BY <2>1, <2>2, ClaimedUnheld DEF pool
  <2> QED BY <2>2, <2>3 DEF AttemptsInv, Exists
<1>2. ASSUME NEW s \in Run, Release(s), RunJob(s) PROVE Enough
  <2>1. \A j \in Job : ~Launch(s, j)
    BY <1>2 DEF Launch, Release, FreeRuns
  <2>2. r # s /\ rphase[r] = "deadletter" /\ rjob'[r] = rjob[r]
    BY <1>2 DEF Release, Free, TypeOK
  <2>3. rjob[r] \in Job \ {rjob[s]}
    BY <1>2, <2>2 DEF HandInv, OneHand, Release
  <2>4. UNCHANGED <<kind, attempts>> /\ status'[rjob[r]] = status[rjob[r]]
    BY <1>2, <2>1, <2>3, RunSteps DEF table
  <2> QED BY <2>2, <2>4 DEF AttemptsInv, Exists
<1>3. ASSUME \A w \in Worker : ~ClaimCommit(w), \A s \in Run : ~Release(s) PROVE Enough
  <2>1. CASE rphase[r] = "deadletter" /\ rjob'[r] = rjob[r]
    <3>1. rjob[r] \in Job /\ r[1] \in Worker /\ wstate[r[1]] = "up" /\ Has(r[1], rjob[r])
      BY <2>1 DEF Run, HandInv, LoopInv, OwnsRow
    <3>2. Exists(rjob[r])
      BY <1>3, <2>1, <3>1, RowsKept DEF Has, Exists
    <3>3. /\ kind'[rjob[r]] = kind[rjob[r]]
          /\ status'[rjob[r]] = "deleted" \/ attempts'[rjob[r]] = attempts[rjob[r]]
      BY <1>3, <3>1, RowsKept
    <3> QED BY <2>1, <3>2, <3>3 DEF AttemptsInv, Exists
  <2>2. CASE ~(rphase[r] = "deadletter" /\ rjob'[r] = rjob[r])
    <3>1. RunFailRead(r)
      <4>1. ASSUME NEW w \in Worker, Loop(w) PROVE FALSE
        BY <1>3, <2>2, <4>1 DEF Loop, ClaimScan, ClaimLock, ClaimSelect, Heartbeat, StaleTick, StartWorker,
                          Crash, pool, TypeOK
      <4>2. ASSUME NEW s \in Run, RunJob(s) PROVE RunFailRead(r)
        <5>1. CASE \E j \in Job : Launch(s, j)
          BY <2>2, <5>1 DEF Launch, pool, TypeOK
        <5>2. CASE BeginEncode(s) \/ RunCheckCancel(s) \/ \E outcome \in {"ok", "err"} : HandlerReturns(s, outcome)
          BY <2>2, <5>2 DEF BeginEncode, RunCheckCancel, HandlerReturns, Goto, TypeOK
        <5>3. CASE WatcherFires(s) \/ JobTimesOut(s)
          BY <2>2, <5>3 DEF WatcherFires, JobTimesOut
        <5>4. CASE RunDone(s) \/ RunCancel(s) \/ RunFailWrite(s)
          BY <2>2, <5>4 DEF RunDone, RunCancel, RunFailWrite, Free, TypeOK
        <5>5. CASE RunFailRead(s)
          BY <2>2, <5>5 DEF RunFailRead, Goto, Free, TypeOK
        <5> QED BY <4>2, <5>1, <5>2, <5>3, <5>4, <5>5 DEF RunJob
      <4>3. CASE \/ \E x \in Request : Enqueue(x[1], x[2])
                 \/ \E j \in Job : JobsPage(j) \/ BecomeDue(j) \/ Age(j)
                 \/ \E e \in Entry : DeleteEntry(e)
                 \/ UNCHANGED vars
        BY <2>2, <4>3 DEF Enqueue, JobsPage, Pause, Resume, RequestCancel, Retry, BecomeDue, Age, DeleteEntry,
                          vars, pool
      <4> QED BY <4>1, <4>2, <4>3 DEF Next
    <3> QED BY <3>1 DEF RunFailRead, Goto, Free, table, TypeOK
  <2> QED BY <2>1, <2>2
<1>4. ASSUME NEW s \in Run, Release(s), \A w \in Worker : ~ClaimCommit(w)
      PROVE  \E t \in Run : RunJob(t) /\ Release(t)
  BY <1>4, ReleaseIsRun
<1> QED BY <1>1, <1>2, <1>3, <1>4

-----------------------------------------------------------------------------
(* What one step does to the outcomes.                                       *)

OutcomeStep ==
    \A j \in Job :
        status[j] \in Terminal =>
            \/ status'[j] \in {status[j], "deleted"}
            \/ status'[j] = "queued" /\ attempts'[j] = 0

DeadLetterStep ==
    \A j \in Job :
        status[j] # "failed" /\ status'[j] = "failed" => attempts[j] >= MaxAttempts[kind[j]]

LEMMA StepOutcome ==
    Typed /\ SerialInv /\ HandInv /\ AttemptsInv /\ [Next]_vars => OutcomeStep /\ DeadLetterStep
<1> SUFFICES ASSUME Typed, SerialInv, HandInv, AttemptsInv, [Next]_vars PROVE OutcomeStep /\ DeadLetterStep
  OBVIOUS
<1> USE DEF Typed, RunHasJob, OutcomeStep, DeadLetterStep
<1>1. ASSUME NEW x \in Request, Enqueue(x[1], x[2]) PROVE OutcomeStep /\ DeadLetterStep
  <2>1. nextId \in Job /\ status[nextId] = "unused"
    BY <1>1, InsertedWasUnused
  <2>2. /\ \A j \in Job \ {nextId} : status'[j] = status[j]
        /\ status'[nextId] \in {"queued", "deleted"}
    BY <1>1 DEF Enqueue, TypeOK
  <2> QED BY <2>1, <2>2 DEF Terminal
<1>2. ASSUME NEW k \in Job, JobsPage(k) PROVE OutcomeStep /\ DeadLetterStep
  <2>1. CASE Pause(k) \/ Resume(k)
    BY <2>1 DEF Pause, Resume
  <2>2. CASE RequestCancel(k)
    BY <2>2 DEF RequestCancel, TypeOK, Terminal
  <2>3. CASE Retry(k)
    BY <2>3 DEF Retry, TypeOK
  <2> QED BY <1>2, <2>1, <2>2, <2>3 DEF JobsPage
<1>3. ASSUME NEW k \in Job, BecomeDue(k) \/ Age(k) PROVE OutcomeStep /\ DeadLetterStep
  BY <1>3 DEF BecomeDue, Age
<1>4. ASSUME NEW e \in Entry, DeleteEntry(e) PROVE OutcomeStep /\ DeadLetterStep
  BY <1>4 DEF DeleteEntry, TypeOK
<1>5. ASSUME NEW w \in Worker, Loop(w) PROVE OutcomeStep /\ DeadLetterStep
  <2>1. CASE ClaimScan(w) \/ ClaimSelect(w) \/ Crash(w) \/ Heartbeat(w) \/ \E e \in Entry : ClaimLock(w, e)
    BY <2>1 DEF ClaimScan, ClaimSelect, Crash, Heartbeat, ClaimLock, table
  <2>2. CASE StaleTick(w) \/ StartWorker(w)
    BY <2>2 DEF StaleTick, StartWorker, RequeueStale, Lost, Running, Terminal
  <2>3. CASE ClaimCommit(w)
    <3>1. \A j \in Kept(rows[w]) : status[j] = "queued"
      BY DEF Kept, SerialInv, ClaimInv
    <3> QED BY <2>3, <3>1 DEF ClaimCommit, Terminal
  <2> QED BY <1>5, <2>1, <2>2, <2>3 DEF Loop
<1>6. ASSUME NEW r \in Run, RunJob(r) PROVE OutcomeStep /\ DeadLetterStep
  <2>1. CASE UNCHANGED table
    BY <2>1 DEF table
  <2>2. ASSUME NEW new \in {"done", "cancelled", "queued", "failed"}, Settle(rjob[r], new), rphase[r] # "free",
               new = "failed" => rphase[r] = "deadletter"
        PROVE  OutcomeStep /\ DeadLetterStep
    <3>1. rjob[r] \in Job /\ (status[rjob[r]] = "deleted" \/ status[rjob[r]] = "running")
      BY <2>2 DEF HandInv, OwnsRow, Has
    <3>2. /\ \A j \in Job \ {rjob[r]} : status'[j] = status[j]
          /\ status'[rjob[r]] = IF Exists(rjob[r]) THEN new ELSE status[rjob[r]]
      BY <2>2, <3>1 DEF Settle, TypeOK
    <3>3. OutcomeStep
      BY <3>1, <3>2 DEF Terminal
    <3>4. DeadLetterStep
      BY <2>2, <3>1, <3>2 DEF AttemptsInv
    <3> QED BY <3>3, <3>4
  <2>3. \/ UNCHANGED table
        \/ \E new \in {"done", "cancelled", "queued", "failed"} :
              Settle(rjob[r], new) /\ rphase[r] # "free" /\ (new = "failed" => rphase[r] = "deadletter")
    BY <1>6 DEF RunJob, Launch, BeginEncode, HandlerReturns, WatcherFires, JobTimesOut, RunDone,
                RunCheckCancel, RunCancel, RunFailRead, RunFailWrite
  <2> QED BY <2>1, <2>2, <2>3
<1>7. CASE UNCHANGED vars
  BY <1>7 DEF vars, table
<1> QED BY <1>1, <1>2, <1>3, <1>4, <1>5, <1>6, <1>7 DEF Next

LEMMA SpecHand == Spec /\ OnlyDeadWorkersLoseJobs => [](Typed /\ SerialInv /\ HandInv /\ AttemptsInv)
<1>1. Init => HandInv /\ AttemptsInv
  BY DEF Init, HandInv, LoopInv, OneHand, OwnsRow, AttemptsInv
<1>2. Typed /\ SerialInv /\ HandInv /\ AttemptsInv /\ [Next]_vars /\ [DeadLose]_vars
        => HandInv' /\ AttemptsInv'
  <2>1. CASE DeadLose
    BY <2>1, StepHand, StepAttempts
  <2>2. CASE UNCHANGED vars
    BY <2>2 DEF vars, table, claim, pool, HandInv, LoopInv, OneHand, OwnsRow, Has, AttemptsInv, Exists
  <2> QED BY <2>1, <2>2
<1> QED BY <1>1, <1>2, InitTyped, StepTyped, SpecSerial, PTL DEF Spec, OnlyDeadWorkersLoseJobs, DeadLose

(* The reclaim of a live worker's jobs is the only way a job gets into two   *)
(* hands or a hand loses its row: with it excluded, no crash, retry, cancel, *)
(* deletion or race of claims does, for every number of workers and slots.   *)
THEOREM SpecHolderOwnsRow == Spec /\ OnlyDeadWorkersLoseJobs => []HolderOwnsRow
<1>1. HandInv => HolderOwnsRow
  BY DEF HandInv, OneHand, OwnsRow, Has, HolderOwnsRow, Holders, Waiting, Exists
<1> QED BY <1>1, SpecHand, PTL

(* Nor does a late goroutine overwrite the outcome of a finished job.        *)
THEOREM SpecOutcomeStands == Spec /\ OnlyDeadWorkersLoseJobs => OutcomeStands
<1> QED BY SpecHand, StepOutcome, PTL DEF Spec, OutcomeStands, OutcomeStep

(* Nor does Fail dead-letter a job that has attempts left.                   *)
THEOREM SpecDeadLetterExhausted == Spec /\ OnlyDeadWorkersLoseJobs => DeadLetterExhausted
<1> QED BY SpecHand, StepOutcome, PTL DEF Spec, DeadLetterExhausted, DeadLetterStep

-----------------------------------------------------------------------------
(* What the heartbeat is for: while no loop waits for a slot of its pool,     *)
(* only the rows of dead workers grow stale.                                 *)

NoneBlocked == \A w \in Worker : ~LoopBlocked(w)

StaleDead ==
    \A j \in Running : stale[j] => owner[j] \in Worker /\ wstate[owner[j]] = "dead"

LEMMA StepStale == Typed /\ LoopInv /\ AbortInv /\ StaleDead /\ NoneBlocked /\ [Next]_vars => StaleDead'
<1> SUFFICES ASSUME Typed, LoopInv, AbortInv, StaleDead, NoneBlocked, [Next]_vars,
                    NEW j \in Job, status'[j] = "running", stale'[j]
             PROVE  owner'[j] \in Worker /\ wstate'[owner'[j]] = "dead"
  BY DEF StaleDead, Running
<1> USE DEF Typed
<1>1. ASSUME NEW w \in Worker, ClaimCommit(w) PROVE owner'[j] \in Worker /\ wstate'[owner'[j]] = "dead"
  BY <1>1 DEF ClaimCommit, StaleDead, Running, TypeOK
<1>2. ASSUME \A w \in Worker : ~ClaimCommit(w) PROVE owner'[j] \in Worker /\ wstate'[owner'[j]] = "dead"
  <2>1. j \in Running /\ owner'[j] = owner[j] /\ owner[j] \in Worker
    BY <1>2, RunsOnSteps DEF RunsOn, Running, AbortInv
  <2>2. wstate[owner[j]] = "dead" => wstate'[owner[j]] = "dead"
    <3>1. CASE SameHands
      BY <2>1, <3>1 DEF SameHands
    <3>2. ASSUME NEW r \in Run, Release(r) \/ \E k \in Job : Launch(r, k) PROVE wstate' = wstate
      BY <3>2 DEF Release, Launch
    <3>3. ASSUME NEW w \in Worker, Crash(w) PROVE wstate[owner[j]] = "dead" => wstate'[owner[j]] = "dead"
      BY <2>1, <3>3 DEF Crash, TypeOK
    <3> QED BY <1>2, <3>1, <3>2, <3>3, HandSteps
  <2>3. stale[j] \/ wstate[owner[j]] = "dead"
    <3>1. ASSUME NEW k \in Job, Age(k) PROVE stale[j] \/ wstate[owner[j]] = "dead"
      BY <2>1, <3>1 DEF Age, NoneBlocked, TypeOK
    <3>2. ASSUME NEW w \in Worker, Loop(w) PROVE stale[j]
      BY <1>2, <3>2 DEF Loop, ClaimScan, ClaimLock, ClaimSelect, Heartbeat, StaleTick, StartWorker, Crash,
                        RequeueStale, table, TypeOK
    <3>3. ASSUME NEW r \in Run, RunJob(r) PROVE stale[j]
      BY <3>3 DEF RunJob, Launch, BeginEncode, HandlerReturns, WatcherFires, JobTimesOut, RunDone,
                  RunCheckCancel, RunCancel, RunFailRead, RunFailWrite, Settle, table, TypeOK
    <3>4. CASE \/ \E x \in Request : Enqueue(x[1], x[2])
               \/ \E k \in Job : JobsPage(k) \/ BecomeDue(k)
               \/ \E e \in Entry : DeleteEntry(e)
               \/ UNCHANGED vars
      BY <3>4 DEF Enqueue, JobsPage, Pause, Resume, RequestCancel, Retry, BecomeDue, DeleteEntry, vars, table, TypeOK
    <3> QED BY <3>1, <3>2, <3>3, <3>4 DEF Next
  <2> QED BY <2>1, <2>2, <2>3 DEF StaleDead
<1> QED BY <1>1, <1>2

LEMMA ReclaimOfDead == Typed /\ SerialInv /\ StaleDead /\ [Next]_vars => DeadLose
<1> SUFFICES ASSUME Typed, SerialInv, StaleDead, [Next]_vars,
                    NEW j \in Job, status[j] = "running", status'[j] = "queued", UNCHANGED pool
             PROVE  wstate[owner[j]] = "dead"
  BY DEF DeadLose
<1> USE DEF Typed
<1>1. ASSUME NEW w \in Worker, Loop(w) PROVE wstate[owner[j]] = "dead"
  <2>1. CASE ClaimCommit(w)
    BY <2>1 DEF ClaimCommit, TypeOK
  <2>2. CASE StaleTick(w) \/ StartWorker(w)
    <3>1. j \in Lost
      BY <2>2 DEF StaleTick, StartWorker, RequeueStale, TypeOK
    <3> QED BY <3>1 DEF Lost, StaleDead
  <2>3. CASE ClaimScan(w) \/ ClaimSelect(w) \/ Crash(w) \/ Heartbeat(w) \/ \E e \in Entry : ClaimLock(w, e)
    BY <2>3 DEF ClaimScan, ClaimSelect, Crash, Heartbeat, ClaimLock, table
  <2> QED BY <1>1, <2>1, <2>2, <2>3 DEF Loop
<1>2. ASSUME NEW r \in Run, RunJob(r) PROVE FALSE
  <2>1. ~UNCHANGED table
    BY DEF table
  <2>2. Free(r) /\ rphase[r] # "free"
    BY <1>2, <2>1 DEF RunJob, Launch, BeginEncode, HandlerReturns, WatcherFires, JobTimesOut, RunDone,
                      RunCheckCancel, RunCancel, RunFailRead, RunFailWrite
  <2> QED BY <2>2 DEF Free, pool, TypeOK
<1>3. ASSUME NEW x \in Request, Enqueue(x[1], x[2]) PROVE FALSE
  <2>1. nextId \in Job /\ status[nextId] = "unused"
    BY <1>3, InsertedWasUnused
  <2> QED BY <1>3, <2>1 DEF Enqueue, TypeOK
<1>4. CASE \/ \E k \in Job : JobsPage(k) \/ BecomeDue(k) \/ Age(k)
           \/ \E e \in Entry : DeleteEntry(e)
           \/ UNCHANGED vars
  BY SMTT(60), <1>4 DEF JobsPage, Pause, Resume, RequestCancel, Retry, Retryable, BecomeDue, Age, DeleteEntry, vars, table, TypeOK
<1> QED BY <1>1, <1>2, <1>3, <1>4 DEF Next

(* "long-running jobs are never falsely reclaimed" holds exactly as long as no *)
(* claim loop waits for a slot of its pool: the blocked loop of the run      *)
(* reclaimed is the only way to lose a live worker's job.                    *)
THEOREM SpecOnlyDeadWorkersLoseJobs == Spec /\ []NoneBlocked => OnlyDeadWorkersLoseJobs
<1>1. Init => LoopInv /\ AbortInv /\ StaleDead
  BY DEF Init, LoopInv, AbortInv, StaleDead, Running
<1> QED
  BY <1>1, InitTyped, StepTyped, SpecSerial, StepLoop, StepAbort, StepStale, ReclaimOfDead, PTL
     DEF Spec, OnlyDeadWorkersLoseJobs, DeadLose

-----------------------------------------------------------------------------
(* A flavor reads 'transcoding' because of one job: it is being encoded, or   *)
(* its context ended before the flavor was settled.                          *)

OneJobPerFlavor == \A j, k \in Job : FlavorOf[j] = FlavorOf[k] => j = k

Encoding(j) ==
    /\ status[j] = "running"
    /\ \A w \in Worker : j \notin handoff[w]
    /\ \A r \in Run : rphase[r] # "free" /\ rjob[r] = j /\ rctx[r] => rphase[r] = "encode"

FlavorInv ==
    /\ \A j \in Job : FlavorOf[j] \in transcoding =>
          kind[j] = "transcode" /\ (j \in revived \/ status[j] = "cancelled" \/ Encoding(j))
    /\ \A r \in Run : rphase[r] = "encode" => kind[rjob[r]] = "transcode"
    /\ \A j \in Job : j >= nextId => kind[j] = "none"

(* The second UPDATE of RequeueStale takes the flavors of lost jobs along.    *)
LEMMA RequeueFlavors ==
    ASSUME OneJobPerFlavor, Typed, FlavorInv, RequeueStale, UNCHANGED <<handoff, pool, history>>
    PROVE  FlavorInv'
<1> USE DEF Typed, RunHasJob
<1>1. UNCHANGED <<nextId, kind>> /\ \A j \in Job : status'[j] = IF j \in Lost THEN "queued" ELSE status[j]
  BY DEF RequeueStale
<1>2. \A j \in Job : FlavorOf[j] \in transcoding' => FlavorOf[j] \in transcoding /\ j \notin Lost
  <2>1. CASE Lost = {}
    BY <2>1 DEF RequeueStale, ResetFlavors
  <2>2. ASSUME Lost # {}, NEW j \in Job, FlavorOf[j] \in transcoding'
        PROVE  FlavorOf[j] \in transcoding /\ j \notin Lost
    <3>1. FlavorOf[j] \in transcoding
      BY <2>2 DEF RequeueStale, ResetFlavors
    <3>2. PICK k \in Transcodes(Running \ Lost) : FlavorOf[k] = FlavorOf[j]
      BY <2>2 DEF RequeueStale, ResetFlavors
    <3>3. k \in Running \ Lost /\ k \in Job
      BY DEF Transcodes, Running
    <3> QED BY <3>1, <3>2, <3>3 DEF OneJobPerFlavor
  <2> QED BY <2>1, <2>2
<1>3. \A j \in Job : j \notin Lost => (Encoding(j) => Encoding(j)')
  BY <1>1 DEF Encoding, pool
<1> QED BY <1>1, <1>2, <1>3 DEF FlavorInv, pool, history

(* The steps outside a goroutine that leave the flavors and the hands alone.  *)
LEMMA PageFlavors ==
    ASSUME Typed, FlavorInv, UNCHANGED <<nextId, kind, transcoding, handoff, pool>>,
           revived \subseteq revived',
           \A j \in Job : \/ status'[j] = status[j]
                          \/ status[j] = "queued"
                          \/ j \in revived'
    PROVE  FlavorInv'
<1> USE DEF Typed, RunHasJob
<1>1. ASSUME NEW j \in Job, FlavorOf[j] \in transcoding
      PROVE  kind[j] = "transcode" /\ (j \in revived' \/ status'[j] = "cancelled" \/ Encoding(j)')
  <2>1. kind[j] = "transcode" /\ (j \in revived \/ status[j] = "cancelled" \/ Encoding(j))
    BY <1>1 DEF FlavorInv
  <2> QED BY <2>1 DEF Encoding, pool
<1> QED BY <1>1 DEF FlavorInv, pool

LEMMA RunFlavors ==
    ASSUME OneJobPerFlavor, Typed, HandInv, FlavorInv, NEW r \in Run, RunJob(r)
    PROVE  FlavorInv'
<1> USE DEF Typed, RunHasJob
<1> DEFINE Fine(j) == kind[j] = "transcode" /\ (j \in revived' \/ status'[j] = "cancelled" \/ Encoding(j)')
<1>0. \A j \in Job : FlavorOf[j] \in transcoding =>
         kind[j] = "transcode" /\ (j \in revived \/ status[j] = "cancelled" \/ Encoding(j))
  BY DEF FlavorInv
<1>1. ASSUME NEW k \in Job, Launch(r, k) PROVE FlavorInv'
  <2>1. /\ UNCHANGED <<table, transcoding, history>> /\ k \in handoff[r[1]] /\ r[1] \in Worker
        /\ \A s \in Run \ {r} : rphase'[s] = rphase[s] /\ rjob'[s] = rjob[s] /\ rctx'[s] = rctx[s]
        /\ rphase'[r] # "encode" /\ (rphase'[r] = "free" \/ rjob'[r] = k)
        /\ \A w \in Worker : handoff'[w] \subseteq handoff[w]
    BY <1>1 DEF Launch, FreeRuns, pool, TypeOK, Run
  <2>2. \A j \in Job : Encoding(j) => Encoding(j)'
    BY <2>1 DEF Encoding, table
  <2> QED BY <2>1, <2>2 DEF FlavorInv, table, history
<1>2. CASE BeginEncode(r)
  <2>1. /\ UNCHANGED <<table, handoff, history, rjob, rctx>> /\ rjob[r] \in Job
        /\ rphase' = [rphase EXCEPT ![r] = "encode"]
        /\ rphase[r] = "handle" /\ kind[rjob[r]] = "transcode"
        /\ transcoding' = transcoding \/
           (transcoding' = transcoding \cup {FlavorOf[rjob[r]]} /\ Exists(rjob[r]))
    BY <1>2 DEF BeginEncode, Goto
  <2>2. \A j \in Job : Encoding(j) => Encoding(j)'
    BY <2>1 DEF Encoding, table, TypeOK
  <2>3. Exists(rjob[r]) => Encoding(rjob[r])'
    <3> SUFFICES ASSUME Exists(rjob[r]) PROVE Encoding(rjob[r])'
      OBVIOUS
    <3>1. status[rjob[r]] = "running"
      BY <2>1 DEF HandInv, OwnsRow, Has, Exists
    <3>2. \A w \in Worker : rjob[r] \notin handoff[w]
      BY <2>1 DEF HandInv, OneHand
    <3>3. \A s \in Run : rphase[s] # "free" /\ rjob[s] = rjob[r] => s = r
      BY <2>1 DEF HandInv, OneHand
    <3>4. \A s \in Run : rphase'[s] # "free" /\ rjob'[s] = rjob'[r] => rphase'[s] = "encode"
      BY <2>1, <3>3 DEF TypeOK
    <3> QED BY <2>1, <3>1, <3>2, <3>4 DEF Encoding, table
  <2>4. \A j \in Job : FlavorOf[j] \in transcoding' =>
           FlavorOf[j] \in transcoding \/ (j = rjob[r] /\ Exists(rjob[r]))
    BY <2>1 DEF OneJobPerFlavor
  <2>5. \A j \in Job : FlavorOf[j] \in transcoding' => Fine(j)
    <3> SUFFICES ASSUME NEW j \in Job, FlavorOf[j] \in transcoding' PROVE Fine(j)
      OBVIOUS
    <3>1. CASE FlavorOf[j] \in transcoding
      BY <1>0, <2>1, <2>2, <3>1 DEF table, history
    <3>2. CASE j = rjob[r] /\ Exists(rjob[r])
      <4>1. rjob' = rjob
        BY <2>1
      <4> QED BY <2>1, <2>3, <3>2, <4>1 DEF Encoding
    <3> QED BY <2>4, <3>1, <3>2
  <2>6. \A s \in Run : rphase'[s] = "encode" => kind'[rjob'[s]] = "transcode"
    BY <2>1 DEF FlavorInv, table, TypeOK
  <2> QED BY <2>1, <2>5, <2>6 DEF FlavorInv, table
<1>3. ASSUME NEW outcome \in {"ok", "err"}, HandlerReturns(r, outcome) PROVE FlavorInv'
  <2>1. /\ UNCHANGED <<table, handoff, history, rjob, rctx>> /\ rjob[r] \in Job
        /\ rphase' = [rphase EXCEPT ![r] = outcome]
        /\ transcoding' = transcoding \ {FlavorOf[rjob[r]]}
           \/ (transcoding' = transcoding /\ (rphase[r] = "encode" => ~rctx[r]))
        /\ rphase[r] # "free"
    BY <1>3 DEF HandlerReturns, Goto
  <2>2. ASSUME NEW j \in Job, FlavorOf[j] \in transcoding', Encoding(j) PROVE Encoding(j)'
    <3>1. CASE j # rjob[r]
      BY <2>1, <2>2, <3>1 DEF Encoding, table, TypeOK
    <3>2. CASE j = rjob[r]
      <4>1. rphase[r] = "encode" => ~rctx[r]
        BY <2>1, <2>2, <3>2
      <4>2. ~rctx[r]
        BY <2>1, <2>2, <3>2, <4>1 DEF Encoding
      <4> QED BY <2>1, <2>2, <4>2 DEF Encoding, table, TypeOK
    <3> QED BY <3>1, <3>2
  <2>3. \A j \in Job : FlavorOf[j] \in transcoding' => Fine(j)
    BY <1>0, <2>1, <2>2 DEF table, history
  <2> QED BY <2>1, <2>3 DEF FlavorInv, table, TypeOK
<1>4. CASE WatcherFires(r) \/ JobTimesOut(r) \/ RunCheckCancel(r) \/ RunFailRead(r)
  <2>1. /\ UNCHANGED <<table, handoff, revived, transcoding>>
        /\ \A s \in Run : rctx'[s] => rctx[s]
        /\ \A s \in Run : \/ rphase'[s] = "free" /\ ~rctx'[s]
                          \/ rphase'[s] = rphase[s] /\ rjob'[s] = rjob[s]
                          \/ rphase[s] \in {"err", "fail"} /\ rphase'[s] # "encode" /\ rjob'[s] = rjob[s]
    BY <1>4 DEF WatcherFires, JobTimesOut, RunCheckCancel, RunFailRead, Goto, Free, history, TypeOK
  <2>2. \A j \in Job : Encoding(j) => Encoding(j)'
    BY <2>1 DEF Encoding, table
  <2> QED BY <1>0, <2>1, <2>2 DEF FlavorInv, table
<1>5. CASE RunDone(r) \/ RunCancel(r) \/ RunFailWrite(r)
  <2>1. /\ UNCHANGED <<transcoding, handoff>> /\ rphase[r] \notin {"free", "encode"} /\ rjob[r] \in Job
        /\ rphase'[r] = "free" /\ ~rctx'[r]
        /\ \A s \in Run \ {r} : rphase'[s] = rphase[s] /\ rjob'[s] = rjob[s] /\ rctx'[s] = rctx[s]
    BY <1>5 DEF RunDone, RunCancel, RunFailWrite, Free, TypeOK
  <2>2. /\ UNCHANGED <<nextId, kind>> /\ revived \subseteq revived'
        /\ \A j \in Job \ {rjob[r]} : status'[j] = status[j]
        /\ status'[rjob[r]] = status[rjob[r]] \/ status'[rjob[r]] = "cancelled" \/ rctx[r]
    BY <1>5, <2>1 DEF RunDone, RunCancel, RunFailWrite, Settle, table, history, TypeOK
  <2>3. ASSUME NEW j \in Job, Encoding(j) PROVE Encoding(j)' \/ status'[j] = "cancelled"
    <3>1. j = rjob[r] => ~rctx[r]
      BY <2>1, <2>3 DEF Encoding
    <3>2. status'[j] = "running" \/ status'[j] = "cancelled"
      BY <2>1, <2>2, <2>3, <3>1 DEF Encoding
    <3> QED BY <2>1, <2>3, <3>2 DEF Encoding
  <2>4. \A j \in Job : status[j] = "cancelled" => status'[j] = "cancelled"
    BY <2>1, <2>2 DEF HandInv, OwnsRow, Has
  <2>5. \A j \in Job : FlavorOf[j] \in transcoding' => Fine(j)
    BY <1>0, <2>1, <2>2, <2>3, <2>4
  <2> QED BY <2>1, <2>2, <2>5 DEF FlavorInv
<1> QED BY <1>1, <1>2, <1>3, <1>4, <1>5 DEF RunJob

LEMMA StepFlavors ==
    OneJobPerFlavor /\ Typed /\ SerialInv /\ HandInv /\ FlavorInv /\ [Next]_vars => FlavorInv'
<1> SUFFICES ASSUME OneJobPerFlavor, Typed, SerialInv, HandInv, FlavorInv, [Next]_vars PROVE FlavorInv'
  OBVIOUS
<1> USE DEF Typed, RunHasJob
<1>1. ASSUME NEW x \in Request, Enqueue(x[1], x[2]) PROVE FlavorInv'
  <2>1. nextId \in Job /\ status[nextId] = "unused"
    BY <1>1, InsertedWasUnused
  <2>2. /\ \A j \in Job \ {nextId} : status'[j] = status[j] /\ kind'[j] = kind[j]
        /\ nextId' = nextId + 1
        /\ UNCHANGED <<transcoding, handoff, rjob, rphase, rctx, revived>>
    BY <1>1 DEF Enqueue, TypeOK, pool, history
  <2>3. FlavorOf[nextId] \notin transcoding
    BY <2>1, JobAssumption DEF FlavorInv, Job
  <2>4. \A r \in Run : rphase[r] # "free" => rjob[r] # nextId
    BY <2>1 DEF HandInv, OwnsRow, Has
  <2>5. \A j \in Job : j >= nextId' => j # nextId /\ j >= nextId
    BY <2>2, JobAssumption DEF Job, TypeOK
  <2>6. \A j \in Job : FlavorOf[j] \in transcoding =>
           j # nextId /\ kind'[j] = "transcode" /\ (j \in revived \/ status'[j] = "cancelled" \/ Encoding(j)')
    BY <2>2, <2>3 DEF FlavorInv, Encoding
  <2>7. \A r \in Run : rphase[r] = "encode" => kind'[rjob[r]] = "transcode"
    BY <2>2, <2>4 DEF FlavorInv
  <2>8. \A j \in Job : j >= nextId' => kind'[j] = "none"
    BY <2>2, <2>5 DEF FlavorInv
  <2> QED BY <2>2, <2>6, <2>7, <2>8 DEF FlavorInv
<1>2. ASSUME NEW k \in Job, JobsPage(k) PROVE FlavorInv'
  <2>1. /\ UNCHANGED <<nextId, kind, transcoding, handoff, pool>> /\ revived \subseteq revived'
        /\ \A j \in Job : status'[j] = status[j] \/ status[j] = "queued" \/ j \in revived'
    BY <1>2 DEF JobsPage, Pause, Resume, RequestCancel, Retry, history, TypeOK
  <2> QED BY <2>1, PageFlavors
<1>3. ASSUME NEW k \in Job, BecomeDue(k) \/ Age(k) PROVE FlavorInv'
  BY <1>3, PageFlavors DEF BecomeDue, Age, history
<1>4. ASSUME NEW e \in Entry, DeleteEntry(e) PROVE FlavorInv'
  <2> DEFINE gone == {j \in Job : entry[j] = e /\ Exists(j)}
  <2>1. /\ UNCHANGED <<nextId, kind, handoff, pool, revived>>
        /\ \A j \in Job : status'[j] = IF j \in gone THEN "deleted" ELSE status[j]
        /\ transcoding' = transcoding \ {FlavorOf[j] : j \in Transcodes(gone)}
    BY <1>4 DEF DeleteEntry, history
  <2>2. \A j \in Job : FlavorOf[j] \in transcoding' => FlavorOf[j] \in transcoding /\ j \notin Transcodes(gone)
    BY <2>1
  <2>3. \A j \in Job : j \in gone /\ kind[j] = "transcode" => j \in Transcodes(gone)
    BY DEF Transcodes
  <2> HIDE DEF gone
  <2>4. \A j \in Job : j \notin gone /\ Encoding(j) => Encoding(j)'
    BY <2>1 DEF Encoding, pool
  <2> QED BY <2>1, <2>2, <2>3, <2>4 DEF FlavorInv, pool
<1>5. ASSUME NEW w \in Worker, Loop(w) PROVE FlavorInv'
  <2>1. CASE ClaimScan(w) \/ ClaimSelect(w) \/ \E e \in Entry : ClaimLock(w, e)
    BY <2>1, PageFlavors DEF ClaimScan, ClaimSelect, ClaimLock, table, history
  <2>2. CASE Heartbeat(w)
    BY <2>2, PageFlavors DEF Heartbeat, history
  <2>3. CASE StaleTick(w) \/ StartWorker(w)
    BY <2>3, RequeueFlavors DEF StaleTick, StartWorker
  <2>4. CASE ClaimCommit(w)
    <3> DEFINE keep == Kept(rows[w])
    <3>1. /\ UNCHANGED <<nextId, kind, transcoding, pool, revived>>
          /\ \A j \in Job \ keep : status'[j] = status[j]
          /\ handoff' = [handoff EXCEPT ![w] = keep]
      BY <2>4 DEF ClaimCommit
    <3>2. \A j \in keep : status[j] = "queued"
      BY DEF Kept, SerialInv, ClaimInv
    <3> HIDE DEF keep
    <3>3. \A v \in Worker : handoff'[v] = IF v = w THEN keep ELSE handoff[v]
      BY <3>1 DEF TypeOK
    <3>4. ASSUME NEW j \in Job, FlavorOf[j] \in transcoding
          PROVE  kind[j] = "transcode" /\ (j \in revived \/ status'[j] = "cancelled" \/ Encoding(j)')
      BY <3>1, <3>2, <3>3, <3>4 DEF FlavorInv, Encoding, pool
    <3> QED BY <3>1, <3>4 DEF FlavorInv, pool
  <2>5. CASE Crash(w)
    <3>1. /\ UNCHANGED <<table, transcoding, history>>
          /\ \A r \in Run : rphase'[r] # "free" => rphase'[r] = rphase[r] /\ rjob'[r] = rjob[r] /\ rctx'[r] = rctx[r]
          /\ \A v \in Worker : handoff'[v] \subseteq handoff[v]
      BY <2>5 DEF Crash, TypeOK
    <3>2. \A j \in Job : Encoding(j) => Encoding(j)'
      BY <3>1 DEF Encoding, table
    <3>3. \A r \in Run : rphase'[r] = "encode" => kind[rjob'[r]] = "transcode"
      BY <3>1 DEF FlavorInv
    <3> QED BY <3>1, <3>2, <3>3 DEF FlavorInv, table, history
  <2> QED BY <1>5, <2>1, <2>2, <2>3, <2>4, <2>5 DEF Loop
<1>6. ASSUME NEW r \in Run, RunJob(r) PROVE FlavorInv'
  BY <1>6, RunFlavors
<1>7. CASE UNCHANGED vars
  BY <1>7, PageFlavors DEF vars, table, history
<1> QED BY <1>1, <1>2, <1>3, <1>4, <1>5, <1>6, <1>7 DEF Next

(* While only dead workers lose jobs and no two jobs name one flavor, a       *)
(* flavor that reads 'transcoding' has its transcode job "running", cancelled *)
(* or put back: RequeueStale's two statements keep the lists consistent.      *)
THEOREM SpecTranscodingHasJob ==
    ASSUME OneJobPerFlavor
    PROVE  Spec /\ OnlyDeadWorkersLoseJobs => []TranscodingHasJob
<1>1. Init => FlavorInv
  BY DEF Init, FlavorInv
<1>2. Typed /\ FlavorInv => TranscodingHasJob
  BY DEF Typed, TypeOK, FlavorInv, Encoding, TranscodingHasJob, Transcodes
<1>3. Typed /\ SerialInv /\ HandInv /\ FlavorInv /\ [Next]_vars => FlavorInv'
  BY StepFlavors
<1> QED BY <1>1, <1>2, <1>3, SpecHand, PTL DEF Spec
=============================================================================
