------------------------------ MODULE JobQueue ------------------------------
(***************************************************************************)
(* The jobs table of vidsilo and everyone who writes it: the worker        *)
(* processes (claim loop, pool of job goroutines, heartbeat, stale         *)
(* reclaim) of cmd/vidsilo/worker.go, the statements of                    *)
(* internal/queue/queue.go, and the jobs page of internal/api/activity.go. *)
(*                                                                         *)
(* One action is one committed SQL statement or transaction, except for    *)
(* Claim, whose transaction is split at the points where another           *)
(* transaction can be observed or waited for (READ COMMITTED: each         *)
(* statement has a snapshot of its own).                                   *)
(*                                                                         *)
(* A worker is one incarnation of the process: its id holds the pid and a  *)
(* random suffix, so a restarted worker is a new element of Worker.        *)
(*                                                                         *)
(* A definition that nothing uses (NeverLocked, LockNeedless, ...) is the  *)
(* slip that the definition after it guards against; put in its place, it  *)
(* breaks the property that README.md names with it.                       *)
(***************************************************************************)
EXTENDS Naturals, FiniteSets

CONSTANTS
    MaxJob,       \* bound: the number of jobs ever enqueued
    Entry,        \* entry ids (numbers: advisory locks are taken in order)
    Request,      \* the <<type, entry>> pairs that are enqueued
    FlavorOf,     \* the entry_flavors row a transcode job's payload names
    MaxAttempts,  \* jobs.max_attempts, by type
    AttemptBound, \* bound: a job is not claimed more often than this
    Worker,       \* worker incarnations
    NoWorker,     \* SQL NULL in jobs.worker_id
    Concurrency,  \* transcode.concurrency: the size of a worker's pool
    Scenario      \* which events of the environment a run includes

Job  == 1 .. MaxJob
JobType == {"probe", "transcode", "download"}
Event == {"pause", "cancel", "retry", "delete", "timeout", "crash"}

ASSUME JobAssumption ==
    /\ MaxJob \in Nat
    /\ Entry \subseteq Nat
    /\ Request \subseteq JobType \X Entry
    /\ DOMAIN FlavorOf = Job
    /\ MaxAttempts \in [JobType -> Nat \ {0}]
    /\ AttemptBound \in Nat

ASSUME WorkerAssumption ==
    /\ NoWorker \notin Worker
    /\ Concurrency \in Nat \ {0}
    /\ Scenario \subseteq Event

VARIABLES
    \* the jobs table, one function per column
    nextId,       \* the sequence behind jobs.id
    kind, entry,  \* type, entry_id; "none" and 0 before the INSERT
    status,       \* "unused" before the INSERT, "deleted" after the cascade
    attempts,
    due,          \* run_at <= now()
    paused,       \* pause_requested_at IS NOT NULL
    flagged,      \* cancel_requested_at IS NOT NULL
    owner,        \* worker_id
    stale,        \* heartbeat_at is older than the reclaim threshold
    transcoding,  \* the entry_flavors rows whose status is 'transcoding'
    \* worker processes
    wstate,       \* "unborn", "up" or "dead"
    cphase,       \* where the worker's Claim transaction is
    cand,         \* entries whose advisory lock the claim has yet to take
    locks,        \* advisory locks the claim holds
    rows,         \* rows the claim's SELECT ... FOR UPDATE locked
    handoff,      \* claimed jobs the claim loop has yet to give to the pool
    \* the goroutines of the pools
    rjob, rphase, rctx,   \* job, progress of runJob, "jobCtx is not done"
    \* history
    guarded,      \* jobs whose last claim held their entry's advisory lock
    expired,      \* jobs whose last claim outlived its jobCtx
    revived       \* jobs put back in the queue after they had ended

table   == <<nextId, kind, entry, status, attempts, due, paused, flagged, owner, stale>>
claim   == <<cphase, cand, locks, rows>>
pool    == <<rjob, rphase, rctx>>
history == <<guarded, expired, revived>>
vars    == <<table, transcoding, wstate, claim, handoff, pool, history>>

Run       == Worker \X (1 .. Concurrency)
NoJob     == 0
Terminal  == {"done", "failed", "cancelled"}
JobStatus == {"unused", "queued", "running", "deleted"} \cup Terminal
RunPhase  == {"free", "handle", "encode", "ok", "err",
              "cancel", "fail", "deadletter", "requeue"}

Transcodes(S) == {j \in S : kind[j] = "transcode"}
Running       == {j \in Job : status[j] = "running"}
Queued        == {j \in Job : status[j] = "queued"}
Exists(j)     == status[j] \notin {"unused", "deleted"}

\* A row locked by an open claim: every other UPDATE of it waits for the commit.
NeverLocked(j) == FALSE
Locked(j) == \E w \in Worker : j \in rows[w]

FreeRuns(w) == {r \in Run : r[1] = w /\ rphase[r] = "free"}
LoopIdle(w) == wstate[w] = "up" /\ cphase[w] = "idle" /\ handoff[w] = {}
\* The claim loop sits in "sem <- struct{}{}" and serves none of its tickers.
LoopBlocked(w) == wstate[w] = "up" /\ handoff[w] # {} /\ FreeRuns(w) = {}

-----------------------------------------------------------------------------
Init ==
    /\ nextId = 1
    /\ kind = [j \in Job |-> "none"]
    /\ entry = [j \in Job |-> 0]
    /\ status = [j \in Job |-> "unused"]
    /\ attempts = [j \in Job |-> 0]
    /\ due = [j \in Job |-> FALSE]
    /\ paused = [j \in Job |-> FALSE]
    /\ flagged = [j \in Job |-> FALSE]
    /\ owner = [j \in Job |-> NoWorker]
    /\ stale = [j \in Job |-> FALSE]
    /\ transcoding = {}
    /\ wstate = [w \in Worker |-> "unborn"]
    /\ cphase = [w \in Worker |-> "idle"]
    /\ cand = [w \in Worker |-> {}]
    /\ locks = [w \in Worker |-> {}]
    /\ rows = [w \in Worker |-> {}]
    /\ handoff = [w \in Worker |-> {}]
    /\ rjob = [r \in Run |-> NoJob]
    /\ rphase = [r \in Run |-> "free"]
    /\ rctx = [r \in Run |-> FALSE]
    /\ guarded = {}
    /\ expired = {}
    /\ revived = {}

-----------------------------------------------------------------------------
(* The producers and the jobs page.                                        *)

\* The id is spent even when the foreign key to a deleted entry refuses the row.
Enqueue(k, e) ==
    LET refused == \E j \in Job : entry[j] = e /\ status[j] = "deleted" IN
    /\ nextId \in Job
    /\ nextId' = nextId + 1
    /\ kind' = [kind EXCEPT ![nextId] = k]
    /\ entry' = [entry EXCEPT ![nextId] = e]
    /\ status' = [status EXCEPT ![nextId] = IF refused THEN "deleted" ELSE "queued"]
    /\ due' = [due EXCEPT ![nextId] = ~refused]
    /\ UNCHANGED <<attempts, paused, flagged, owner, stale, transcoding,
                   wstate, claim, handoff, pool, history>>

Pause(j) ==
    /\ "pause" \in Scenario
    /\ status[j] = "queued" /\ ~Locked(j)
    /\ paused' = [paused EXCEPT ![j] = TRUE]
    /\ UNCHANGED <<nextId, kind, entry, status, attempts, due, flagged, owner, stale,
                   transcoding, wstate, claim, handoff, pool, history>>

Resume(j) ==
    /\ paused[j] /\ Exists(j) /\ ~Locked(j)
    /\ paused' = [paused EXCEPT ![j] = FALSE]
    /\ UNCHANGED <<nextId, kind, entry, status, attempts, due, flagged, owner, stale,
                   transcoding, wstate, claim, handoff, pool, history>>

\* A queued job is cancelled at once; any other row, a finished one too, gets
\* the flag.
RequestCancel(j) ==
    /\ "cancel" \in Scenario
    /\ Exists(j) /\ ~Locked(j)
    /\ \/ /\ status[j] = "queued"
          /\ status' = [status EXCEPT ![j] = "cancelled"]
          /\ owner' = [owner EXCEPT ![j] = NoWorker]
          /\ stale' = [stale EXCEPT ![j] = FALSE]
          /\ UNCHANGED flagged
       \/ /\ status[j] # "queued"
          /\ flagged' = [flagged EXCEPT ![j] = TRUE]
          /\ UNCHANGED <<status, owner, stale>>
    /\ UNCHANGED <<nextId, kind, entry, attempts, due, paused, transcoding,
                   wstate, claim, handoff, pool, history>>

RetryableRunning == {"failed", "cancelled", "running"}
Retryable == {"failed", "cancelled"}

\* Neither the cancel flag nor the pause flag is reset.
Retry(j) ==
    /\ "retry" \in Scenario
    /\ status[j] \in Retryable
    /\ status' = [status EXCEPT ![j] = "queued"]
    /\ attempts' = [attempts EXCEPT ![j] = 0]
    /\ due' = [due EXCEPT ![j] = TRUE]
    /\ revived' = revived \cup {j}
    /\ UNCHANGED <<nextId, kind, entry, paused, flagged, owner, stale, transcoding,
                   wstate, claim, handoff, pool, guarded, expired>>

\* Deleting an entry cascades to its jobs and its entry_flavors.
DeleteEntry(e) ==
    LET gone == {j \in Job : entry[j] = e /\ Exists(j)} IN
    /\ "delete" \in Scenario
    /\ gone # {} /\ \A j \in gone : ~Locked(j)
    /\ status' = [j \in Job |-> IF j \in gone THEN "deleted" ELSE status[j]]
    /\ attempts' = [j \in Job |-> IF j \in gone THEN 0 ELSE attempts[j]]
    /\ due' = [j \in Job |-> due[j] /\ j \notin gone]
    /\ paused' = [j \in Job |-> paused[j] /\ j \notin gone]
    /\ flagged' = [j \in Job |-> flagged[j] /\ j \notin gone]
    /\ owner' = [j \in Job |-> IF j \in gone THEN NoWorker ELSE owner[j]]
    /\ stale' = [j \in Job |-> stale[j] /\ j \notin gone]
    /\ transcoding' = transcoding \ {FlavorOf[j] : j \in Transcodes(gone)}
    /\ UNCHANGED <<nextId, kind, entry, wstate, claim, handoff, pool, history>>

\* The back-off of a re-queued job ends.
BecomeDue(j) ==
    /\ status[j] = "queued" /\ ~due[j]
    /\ due' = [due EXCEPT ![j] = TRUE]
    /\ UNCHANGED <<nextId, kind, entry, status, attempts, paused, flagged, owner, stale,
                   transcoding, wstate, claim, handoff, pool, history>>

-----------------------------------------------------------------------------
(* Claim: one transaction of a worker's claim loop.                        *)

DueTranscodes == {j \in Queued : due[j] /\ kind[j] = "transcode"}
DueJobIds == DueTranscodes
DueEntries == {entry[j] : j \in DueTranscodes}

\* The first SELECT: the entries that have a due transcode.
ClaimScan(w) ==
    /\ LoopIdle(w)
    /\ cphase' = [cphase EXCEPT ![w] = "locking"]
    /\ cand' = [cand EXCEPT ![w] = DueEntries]
    /\ UNCHANGED <<table, transcoding, wstate, locks, rows, handoff, pool, history>>

LockNeedless(e) == TRUE
LockFree(e) == \A w \in Worker : e \notin locks[w]

AnyOrder(e, S) == TRUE
InOrder(e, S) == \A f \in S : e <= f

\* pg_advisory_xact_lock, one entry after the other in ascending order.
ClaimLock(w, e) ==
    /\ cphase[w] = "locking" /\ e \in cand[w]
    /\ InOrder(e, cand[w]) /\ LockFree(e)
    /\ cand' = [cand EXCEPT ![w] = @ \ {e}]
    /\ locks' = [locks EXCEPT ![w] = @ \cup {e}]
    /\ UNCHANGED <<table, transcoding, wstate, cphase, rows, handoff, pool, history>>

NoneRunningLike(j) ==
    \A k \in Running : ~(kind[k] = kind[j]
                         /\ (kind[j] = "transcode" => entry[k] = entry[j]))

NoQueueOrder(j) == TRUE
FirstQueued(j) == \A k \in Queued : kind[k] = kind[j] => j <= k

\* The WHERE clause of the second SELECT.
Claimable(j) ==
    /\ status[j] = "queued" /\ due[j] /\ ~paused[j]
    /\ kind[j] = "download" =>
          NoneRunningLike(j) /\ FirstQueued(j)
    /\ kind[j] = "transcode" => NoneRunningLike(j)
    /\ attempts[j] < AttemptBound

\* ORDER BY id LIMIT n
Earliest(S, n) == {j \in S : Cardinality({k \in S : k < j}) < n}

\* The second SELECT, FOR UPDATE SKIP LOCKED.
ClaimSelect(w) ==
    /\ cphase[w] = "locking" /\ cand[w] = {}
    /\ cphase' = [cphase EXCEPT ![w] = "selected"]
    /\ rows' = [rows EXCEPT ![w] =
                   Earliest({j \in Job : Claimable(j) /\ ~Locked(j)}, Concurrency)]
    /\ UNCHANGED <<table, transcoding, wstate, cand, locks, handoff, pool, history>>

\* Of the transcodes of one entry only the earliest is kept.
Kept(S) == {j \in S : \A k \in Transcodes(S) :
               kind[j] = "transcode" /\ entry[k] = entry[j] => j <= k}

\* The UPDATE and the commit.
ClaimCommit(w) ==
    LET keep == Kept(rows[w]) IN
    /\ cphase[w] = "selected"
    /\ status' = [j \in Job |-> IF j \in keep THEN "running" ELSE status[j]]
    /\ attempts' = [j \in Job |-> IF j \in keep THEN attempts[j] + 1 ELSE attempts[j]]
    /\ owner' = [j \in Job |-> IF j \in keep THEN w ELSE owner[j]]
    /\ stale' = [j \in Job |-> IF j \in keep THEN FALSE ELSE stale[j]]
    /\ guarded' = (guarded \ keep) \cup {j \in Transcodes(keep) : entry[j] \in locks[w]}
    /\ expired' = expired \ keep
    /\ handoff' = [handoff EXCEPT ![w] = keep]
    /\ cphase' = [cphase EXCEPT ![w] = "idle"]
    /\ locks' = [locks EXCEPT ![w] = {}]
    /\ rows' = [rows EXCEPT ![w] = {}]
    /\ UNCHANGED <<nextId, kind, entry, due, paused, flagged, transcoding, wstate, cand,
                   pool, revived>>

-----------------------------------------------------------------------------
(* The rest of the claim loop.                                             *)

\* A heartbeat ages past three minutes only when nobody beats for it: the live
\* loop beats every 30 seconds unless it is blocked on the pool.
Age(j) ==
    /\ status[j] = "running" /\ ~stale[j]
    /\ wstate[owner[j]] = "dead" \/ LoopBlocked(owner[j])
    /\ stale' = [stale EXCEPT ![j] = TRUE]
    /\ UNCHANGED <<nextId, kind, entry, status, attempts, due, paused, flagged, owner,
                   transcoding, wstate, claim, handoff, pool, history>>

Heartbeat(w) ==
    /\ LoopIdle(w)
    /\ \E j \in Running : owner[j] = w /\ stale[j]
    /\ stale' = [j \in Job |-> stale[j] /\ ~(status[j] = "running" /\ owner[j] = w)]
    /\ UNCHANGED <<nextId, kind, entry, status, attempts, due, paused, flagged, owner,
                   transcoding, wstate, claim, handoff, pool, history>>

AllRunning == Running
StaleWithBudget == {j \in Running : stale[j] /\ attempts[j] < MaxAttempts[kind[j]]}
Lost == {j \in Running : stale[j]}

KeepFlavors(lost) == transcoding
ResetFlavors(lost) ==
    IF lost = {} THEN transcoding
    ELSE transcoding \cap {FlavorOf[j] : j \in Transcodes(Running \ lost)}

\* Both statements of RequeueStale.
RequeueStale ==
    LET lost == Lost IN
    /\ status' = [j \in Job |-> IF j \in lost THEN "queued" ELSE status[j]]
    /\ due' = [j \in Job |-> due[j] /\ j \notin lost]
    /\ owner' = [j \in Job |-> IF j \in lost THEN NoWorker ELSE owner[j]]
    /\ stale' = [j \in Job |-> stale[j] /\ j \notin lost]
    /\ transcoding' = ResetFlavors(lost)
    /\ UNCHANGED <<nextId, kind, entry, attempts, paused, flagged>>

StaleTick(w) ==
    /\ LoopIdle(w)
    /\ Lost # {}
    /\ RequeueStale
    /\ UNCHANGED <<wstate, claim, handoff, pool, history>>

\* A process starts: it reclaims before its loop runs.
StartWorker(w) ==
    /\ wstate[w] = "unborn"
    /\ wstate' = [wstate EXCEPT ![w] = "up"]
    /\ RequeueStale
    /\ UNCHANGED <<claim, handoff, pool, history>>

\* The process dies, at a kill or at the end of its drain: its goroutines go
\* with it and its open transaction is rolled back. Bound: one incarnation is
\* left to carry on.
Crash(w) ==
    /\ "crash" \in Scenario
    /\ wstate[w] = "up" /\ \E v \in Worker \ {w} : wstate[v] # "dead"
    /\ wstate' = [wstate EXCEPT ![w] = "dead"]
    /\ cphase' = [cphase EXCEPT ![w] = "idle"]
    /\ cand' = [cand EXCEPT ![w] = {}]
    /\ locks' = [locks EXCEPT ![w] = {}]
    /\ rows' = [rows EXCEPT ![w] = {}]
    /\ handoff' = [handoff EXCEPT ![w] = {}]
    /\ rjob' = [r \in Run |-> IF r[1] = w THEN NoJob ELSE rjob[r]]
    /\ rphase' = [r \in Run |-> IF r[1] = w THEN "free" ELSE rphase[r]]
    /\ rctx' = [r \in Run |-> rctx[r] /\ r[1] # w]
    /\ UNCHANGED <<table, transcoding, history>>

-----------------------------------------------------------------------------
(* runJob: one goroutine of the pool.                                      *)

Free(r) ==
    /\ rjob' = [rjob EXCEPT ![r] = NoJob]
    /\ rphase' = [rphase EXCEPT ![r] = "free"]
    /\ rctx' = [rctx EXCEPT ![r] = FALSE]

Goto(r, phase) ==
    /\ rphase' = [rphase EXCEPT ![r] = phase]
    /\ UNCHANGED <<rjob, rctx>>

\* The loop gets a slot of the pool (slots are anonymous: the first free one);
\* the goroutine loads its row, or ends when the row is gone.
Launch(r, j) ==
    LET w == r[1] IN
    /\ wstate[w] = "up" /\ r \in FreeRuns(w)
    /\ \A s \in FreeRuns(w) : r[2] <= s[2]
    /\ j \in handoff[w] /\ \A k \in handoff[w] : j <= k
    /\ handoff' = [handoff EXCEPT ![w] = @ \ {j}]
    /\ IF Exists(j)
       THEN /\ rjob' = [rjob EXCEPT ![r] = j]
            /\ rphase' = [rphase EXCEPT ![r] = "handle"]
            /\ rctx' = [rctx EXCEPT ![r] = TRUE]
       ELSE UNCHANGED pool
    /\ UNCHANGED <<table, transcoding, wstate, claim, history>>

\* Transcode takes its entry's in-process semaphore and marks the flavor.
BeginEncode(r) ==
    LET j == rjob[r] IN
    /\ rphase[r] = "handle" /\ kind[j] = "transcode"
    /\ \A s \in Run : s[1] = r[1] /\ rphase[s] = "encode" => entry[rjob[s]] # entry[j]
    /\ Goto(r, "encode")
    /\ transcoding' = IF rctx[r] /\ Exists(j) THEN transcoding \cup {FlavorOf[j]}
                                              ELSE transcoding
    /\ UNCHANGED <<table, wstate, claim, handoff, history>>

\* Handle returns, nil or an error. A transcode settles its flavor first; once
\* jobCtx is done that write fails, unless it came before the end of jobCtx.
HandlerReturns(r, outcome) ==
    LET j == rjob[r] IN
    /\ rphase[r] \in {"handle", "encode"} /\ outcome \in {"ok", "err"}
    /\ Goto(r, outcome)
    /\ \/ /\ rphase[r] = "encode"
          /\ transcoding' = transcoding \ {FlavorOf[j]}
       \/ /\ rphase[r] = "encode" => ~rctx[r]
          /\ UNCHANGED transcoding
    /\ UNCHANGED <<table, wstate, claim, handoff, history>>

AbortUnread(j) == TRUE
AbortSeen(j) == Exists(j) /\ flagged[j]

\* The abort watcher sees the flag and cancels jobCtx.
WatcherFires(r) ==
    /\ rctx[r] /\ AbortSeen(rjob[r])
    /\ rctx' = [rctx EXCEPT ![r] = FALSE]
    /\ UNCHANGED <<table, transcoding, wstate, claim, handoff, rjob, rphase, history>>

\* The four hours of jobCtx are over.
JobTimesOut(r) ==
    /\ "timeout" \in Scenario
    /\ rctx[r]
    /\ rctx' = [rctx EXCEPT ![r] = FALSE]
    /\ expired' = expired \cup {rjob[r]}
    /\ UNCHANGED <<table, transcoding, wstate, claim, handoff, rjob, rphase, guarded, revived>>

\* UPDATE jobs SET status = ..., worker_id = NULL, heartbeat_at = NULL
\* WHERE id = $1: whatever the row's status and whoever owns it by now.
Settle(j, new) ==
    /\ ~Locked(j)
    /\ status' = [status EXCEPT ![j] = IF Exists(j) THEN new ELSE @]
    /\ owner' = [owner EXCEPT ![j] = NoWorker]
    /\ stale' = [stale EXCEPT ![j] = FALSE]
    /\ due' = [due EXCEPT ![j] = @ /\ new # "queued"]
    /\ flagged' = [flagged EXCEPT ![j] = @ /\ new # "cancelled"]
    /\ revived' = IF new = "queued" /\ status[j] \in Terminal THEN revived \cup {j}
                                                              ELSE revived
    /\ UNCHANGED <<nextId, kind, entry, attempts, paused, guarded, expired>>

\* Queue.Done runs on jobCtx: a job whose context has ended stays "running".
RunDone(r) ==
    /\ rphase[r] = "ok"
    /\ IF rctx[r] THEN Settle(rjob[r], "done") ELSE UNCHANGED <<table, history>>
    /\ Free(r)
    /\ UNCHANGED <<transcoding, wstate, claim, handoff>>

\* After an error: CancelRequested, on the worker's own context.
RunCheckCancel(r) ==
    /\ rphase[r] = "err"
    /\ Goto(r, IF Exists(rjob[r]) /\ flagged[rjob[r]] THEN "cancel" ELSE "fail")
    /\ UNCHANGED <<table, transcoding, wstate, claim, handoff, history>>

RunCancel(r) ==
    /\ rphase[r] = "cancel"
    /\ Settle(rjob[r], "cancelled")
    /\ Free(r)
    /\ UNCHANGED <<transcoding, wstate, claim, handoff>>

\* Queue.Fail, on jobCtx: it reads the attempts ...
RunFailRead(r) ==
    LET j == rjob[r] IN
    /\ rphase[r] = "fail"
    /\ IF rctx[r] /\ Exists(j)
       THEN Goto(r, IF attempts[j] >= MaxAttempts[kind[j]] THEN "deadletter" ELSE "requeue")
       ELSE Free(r)
    /\ UNCHANGED <<table, transcoding, wstate, claim, handoff, history>>

\* ... and updates the row in a second statement.
RunFailWrite(r) ==
    /\ rphase[r] \in {"deadletter", "requeue"}
    /\ IF rctx[r]
       THEN Settle(rjob[r], IF rphase[r] = "deadletter" THEN "failed" ELSE "queued")
       ELSE UNCHANGED <<table, history>>
    /\ Free(r)
    /\ UNCHANGED <<transcoding, wstate, claim, handoff>>

-----------------------------------------------------------------------------
Loop(w) ==
    \/ ClaimScan(w)
    \/ \E e \in Entry : ClaimLock(w, e)
    \/ ClaimSelect(w)
    \/ ClaimCommit(w)
    \/ Heartbeat(w)
    \/ StaleTick(w)
    \/ StartWorker(w)
    \/ Crash(w)

RunJob(r) ==
    \/ \E j \in Job : Launch(r, j)
    \/ BeginEncode(r)
    \/ \E outcome \in {"ok", "err"} : HandlerReturns(r, outcome)
    \/ WatcherFires(r)
    \/ JobTimesOut(r)
    \/ RunDone(r)
    \/ RunCheckCancel(r)
    \/ RunCancel(r)
    \/ RunFailRead(r)
    \/ RunFailWrite(r)

JobsPage(j) ==
    \/ Pause(j)
    \/ Resume(j)
    \/ RequestCancel(j)
    \/ Retry(j)

Next ==
    \/ \E x \in Request : Enqueue(x[1], x[2])
    \/ \E j \in Job : JobsPage(j) \/ BecomeDue(j) \/ Age(j)
    \/ \E e \in Entry : DeleteEntry(e)
    \/ \E w \in Worker : Loop(w)
    \/ \E r \in Run : RunJob(r)

Spec == Init /\ [][Next]_vars

-----------------------------------------------------------------------------
(* Properties.                                                             *)

\* The columns and the processes stay in their domains.
TypeOK ==
    /\ nextId \in Nat
    /\ kind \in [Job -> JobType \cup {"none"}]
    /\ entry \in [Job -> Nat]
    /\ status \in [Job -> JobStatus]
    /\ attempts \in [Job -> Nat]
    /\ due \in [Job -> BOOLEAN]
    /\ paused \in [Job -> BOOLEAN]
    /\ flagged \in [Job -> BOOLEAN]
    /\ owner \in [Job -> Worker \cup {NoWorker}]
    /\ stale \in [Job -> BOOLEAN]
    /\ transcoding \subseteq {FlavorOf[j] : j \in Job}
    /\ wstate \in [Worker -> {"unborn", "up", "dead"}]
    /\ cphase \in [Worker -> {"idle", "locking", "selected"}]
    /\ cand \in [Worker -> SUBSET Entry]
    /\ locks \in [Worker -> SUBSET Entry]
    /\ rows \in [Worker -> SUBSET Job]
    /\ handoff \in [Worker -> SUBSET Job]
    /\ rjob \in [Run -> Job \cup {NoJob}]
    /\ rphase \in [Run -> RunPhase]
    /\ rctx \in [Run -> BOOLEAN]
    /\ guarded \subseteq Job
    /\ expired \subseteq Job
    /\ revived \subseteq Job

SameEntryTranscodes(j, k) ==
    /\ kind[j] = "transcode" /\ kind[k] = "transcode"
    /\ entry[j] = entry[k]

\* Two flavors of one entry are never "running" together when both were claimed
\* under the entry's advisory lock, however the claims of the workers interleave
\* (queue.go:80-87).
GuardedTranscodesAlone ==
    \A j, k \in Running \cap guarded : SameEntryTranscodes(j, k) => j = k

\* Claim starts a download only after every download enqueued earlier has left
\* the queue, so two of them run together only if the earlier one had ended and
\* was put back meanwhile (queue.go:121-128).
DownloadOverlapNeedsRevival ==
    \A j, k \in Running :
        kind[j] = "download" /\ kind[k] = "download" /\ j < k => j \in revived

\* A paused row is never claimed: Pause cannot slip in between the SELECT that
\* saw it unpaused and the UPDATE that runs it (queue.go:115-119, 203-209).
RunningNotPaused == \A j \in Running : ~paused[j]

\* The claims of two workers never wait for each other's advisory locks: "Sorted
\* acquisition keeps the lock order consistent" (queue.go:86-87).
NoLockCycle ==
    \A v, w \in Worker : v # w =>
        cand[v] \cap locks[w] = {} \/ cand[w] \cap locks[v] = {}

Holders(j) == {r \in Run : rphase[r] # "free" /\ rjob[r] = j}
Waiting(j) == {w \in Worker : j \in handoff[w]}

\* While no pool is over-subscribed, a job is in the hands of at most one
\* goroutine or claim loop, whatever crashes and reclaims, and if it still exists
\* its holder owns its "running" row: none runs twice at the same time, and the
\* unconditional UPDATE of Done, Fail or Cancel hits the run it is meant for.
HolderOwnsRow ==
    \A j \in Job :
        /\ \A r, s \in Holders(j) : r = s
        /\ \A v, w \in Waiting(j) : v = w
        /\ Holders(j) = {} \/ Waiting(j) = {}
        /\ Exists(j) => /\ \A r \in Holders(j) : status[j] = "running" /\ owner[j] = r[1]
                        /\ \A w \in Waiting(j) : status[j] = "running" /\ owner[j] = w

\* A row is left "running" without anybody working on it only by a dead
\* worker, whose jobs are reclaimed, or by a cancel request or the four-hour
\* limit, which end the context that the last UPDATE runs on.
AbandonedOnlyByAbort ==
    \A j \in Running :
        wstate[owner[j]] = "up" /\ ~flagged[j] /\ j \notin expired
            => Holders(j) \cup Waiting(j) # {}

\* While no pool is over-subscribed, a flavor reads 'transcoding' only while a
\* transcode job for it reads "running", unless the user cancelled that job: the second UPDATE of
\* RequeueStale keeps the two lists consistent.
TranscodingHasJob ==
    \A f \in transcoding : \E j \in Transcodes(Job) :
        FlavorOf[j] = f /\ (status[j] \in {"running", "cancelled"} \/ j \in revived)

\* A finished job changes only when the jobs page re-queues it or its entry is
\* deleted; no late goroutine overwrites an outcome.
OutcomeStands ==
    [][\A j \in Job :
         status[j] \in Terminal =>
             \/ status'[j] \in {status[j], "deleted"}
             \/ status'[j] = "queued" /\ attempts'[j] = 0]_vars

\* A job is dead-lettered only with its attempts used up, although Fail reads
\* and writes the row in two statements.
DeadLetterExhausted ==
    [][\A j \in Job :
         status[j] # "failed" /\ status'[j] = "failed"
             => attempts[j] >= MaxAttempts[kind[j]]]_vars

-----------------------------------------------------------------------------
(* Fairness. A live worker keeps polling and its tickers keep firing; a      *)
(* select loop picks at random among ready channels, so a ticker that is     *)
(* ready again and again is served. Postgres hands an advisory lock to its   *)
(* waiters in turn. Jobs end: ffmpeg and downloads are bounded by jobCtx. A  *)
(* supervisor restarts the worker. Users and crashes owe nothing.            *)

Handling(r) == BeginEncode(r) \/ \E outcome \in {"ok", "err"} : HandlerReturns(r, outcome)
Settling(r) == RunDone(r) \/ RunCheckCancel(r) \/ RunCancel(r)
               \/ RunFailRead(r) \/ RunFailWrite(r)

LoopFairness(w) ==
    /\ WF_vars(StartWorker(w))
    /\ WF_vars(ClaimScan(w)) /\ WF_vars(ClaimSelect(w)) /\ WF_vars(ClaimCommit(w))
    /\ SF_vars(\E e \in Entry : ClaimLock(w, e))
    /\ SF_vars(Heartbeat(w)) /\ SF_vars(StaleTick(w))

RunFairness(r) ==
    /\ WF_vars(\E j \in Job : Launch(r, j))
    /\ WF_vars(Handling(r)) /\ WF_vars(WatcherFires(r)) /\ WF_vars(Settling(r))

FairSpec ==
    /\ Spec
    /\ \A w \in Worker : LoopFairness(w)
    /\ \A r \in Run : RunFairness(r)
    /\ \A j \in Job : WF_vars(BecomeDue(j)) /\ WF_vars(Age(j))

\* Every queued job comes to an end, across failures, back-offs and the crashes
\* of its workers, when nobody pauses or cancels it and its entry stays: only a
\* job that outlived its four hours keeps itself and the jobs of its entry back.
JobsSettle ==
    \A j \in Job :
        status[j] = "queued" ~>
            status[j] \in Terminal \/ \E k \in expired : entry[k] = entry[j]

-----------------------------------------------------------------------------
(* What comments of the code say and the code does not do.                  *)

\* "long-running jobs are never falsely reclaimed" (queue.go:315-316): a row that
\* is re-queued while no goroutine settles it belonged to a dead worker.
OnlyDeadWorkersLoseJobs ==
    [][\A j \in Job :
         status[j] = "running" /\ status'[j] = "queued" /\ UNCHANGED pool
             => wstate[owner[j]] = "dead"]_vars

\* "running jobs get a cancel flag that the worker polls and reacts to"
\* (queue.go:219-220): a flagged running job stops running.
CancelTakesEffect ==
    \A j \in Job : flagged[j] /\ status[j] = "running" ~> status[j] # "running"
=============================================================================
