------------------------------ MODULE Pipeline ------------------------------
(***************************************************************************)
(* The life of one entry of vidsilo: its row, its entry_flavors rows and   *)
(* its media in the local store, as the handlers of internal/jobs/jobs.go  *)
(* (download, probe, transcode) and the requests of internal/api/          *)
(* entries.go (flavor changes, reprocess, delete) write them.              *)
(*                                                                         *)
(* One action is one statement, one sweep or write of the store, or one    *)
(* run of ffmpeg. The queue is reduced to the outstanding jobs of the      *)
(* entry and what module JobQueue shows of it: a job is in one pair of     *)
(* hands, is taken back when its worker dies, and is settled once. Entries *)
(* share nothing but the queue, so one is enough.                          *)
(*                                                                         *)
(* A definition that nothing uses is the slip that the definition after it *)
(* guards against.                                                         *)
(***************************************************************************)
EXTENDS Naturals, FiniteSets

CONSTANTS
    Flavor,       \* ids of the enabled flavors, in the order they are handled
    Tall,         \* the flavors higher than a low source, which are skipped for it
    Job,          \* bound: slots for the outstanding jobs of the entry
    MaxAttempts,  \* jobs.max_attempts
    Request,      \* bound: the requests made of the entries api
    Scenarios     \* the sets of beginnings and events a run includes

Event == {"uploaded", "submitted", "published", "low", "tiny",
          "edit", "reprocess", "delete", "crash", "cancel"}

ASSUME PipelineAssumption ==
    /\ Flavor \subseteq Nat \ {0}
    /\ Tall \subseteq Flavor
    /\ MaxAttempts \in Nat \ {0}
    /\ Request \cap Job = {}
    /\ Scenarios \subseteq SUBSET Event

VARIABLES
    status, source,   \* entries.status ("gone": no row), source_key # ''
    flavors,          \* entry_flavors.status, "none" without a row
    media,            \* what the store holds under entries/<id> besides ...
    files,            \* ... the directories of the flavors
    listed,           \* the renditions the stored master playlist lists
    torn,             \* history: flavors whose files were removed under a transcode
    \* the outstanding jobs
    kind, target,     \* type, payload.flavorId
    state,            \* "none": the slot is free; "deleted": the row is gone, its goroutine is not
    attempts, flagged,
    dropped,          \* what the jobs that failed for good or were cancelled were for,
                      \* until another is enqueued for it
    \* the goroutines of the jobs and of the requests
    phase,            \* the step it is about to take
    ctx,              \* its context is not done
    todo, seen,       \* flavors it has yet to handle, flavors it has read or will enqueue
    grew,             \* flavor changes that added a flavor
    scenario          \* what happens in this behaviour

Actor == Job \cup Request

entryRow == <<status, source>>
rows     == <<status, source, flavors>>
output   == <<files, torn>>
store    == <<media, output, listed>>
jobs     == <<kind, target, state, attempts, flagged, dropped>>
local    == <<ctx, todo, seen, grew>>
vars     == <<rows, store, jobs, phase, local, scenario>>

EntryStatus  == {"uploading", "probing", "transcoding", "ready", "failed", "gone"}
FlavorStatus == {"none", "pending", "transcoding", "done", "failed", "skipped"}
Unsettled    == {"pending", "transcoding"}
JobPhase     == {"idle", "lost", "start", "fetch", "check", "put", "update", "enqueue",
                 "probe", "poster", "read", "reset", "publish", "spool", "mark", "encode",
                 "encoding", "encoded", "done", "finalize", "remaining", "count", "fail",
                 "build", "master", "ready", "ok", "err"}
RequestPhase == {"idle", "reprocess", "insert", "prepare", "remove", "rebuild", "master",
                 "empty", "failed", "swept", "sweep", "over"}
SourceItself == 0   \* the rendition that is the source

\* Flavors higher than the source: some of a low one, all of a tiny one.
Skipped     == {f \in Flavor : "tiny" \in scenario \/ ("low" \in scenario /\ f \in Tall)}
RowExists   == status # "gone"
FreeJobs    == {j \in Job : state[j] = "none"}
Done        == {f \in Flavor : flavors[f] = "done"}
Remaining   == {f \in Flavor : flavors[f] \in Unsettled}
InHand(j)   == phase[j] \notin {"idle", "lost"}
First(S)    == CHOOSE f \in S : \A g \in S : f <= g

-----------------------------------------------------------------------------
\* A finished upload has enqueued its probe, a submitted URL its download; or
\* all that is over and the entry is ready.
Uploaded(first) ==
    /\ status = "probing" /\ source = TRUE /\ media = {"original"}
    /\ kind = [j \in Job |-> IF j = first THEN "probe" ELSE "none"]
    /\ state = [j \in Job |-> IF j = first THEN "queued" ELSE "none"]
    /\ flavors = [f \in Flavor |-> "none"]
    /\ files = {} /\ listed = {}

Submitted(first) ==
    /\ status = "uploading" /\ source = FALSE /\ media = {}
    /\ kind = [j \in Job |-> IF j = first THEN "download" ELSE "none"]
    /\ state = [j \in Job |-> IF j = first THEN "queued" ELSE "none"]
    /\ flavors = [f \in Flavor |-> "none"]
    /\ files = {} /\ listed = {}

Published(ticked) ==
    /\ status = "ready" /\ source = TRUE /\ media = {"original", "poster", "master"}
    /\ kind = [j \in Job |-> "none"]
    /\ state = [j \in Job |-> "none"]
    /\ flavors = [f \in Flavor |-> IF f \in ticked THEN "done" ELSE "none"]
    /\ files = ticked /\ listed = ticked

Init ==
    /\ scenario \in Scenarios
    /\ \/ "uploaded" \in scenario /\ \E j \in Job : Uploaded(j)
       \/ "submitted" \in scenario /\ \E j \in Job : Submitted(j)
       \/ "published" \in scenario /\ \E ticked \in (SUBSET (Flavor \ Skipped)) \ {{}} : Published(ticked)
    /\ target = [j \in Job |-> 0]
    /\ attempts = [j \in Job |-> 0]
    /\ flagged = [j \in Job |-> FALSE]
    /\ phase = [a \in Actor |-> "idle"]
    /\ ctx = [a \in Actor |-> TRUE]
    /\ todo = [a \in Actor |-> {}]
    /\ seen = [a \in Actor |-> {}]
    /\ grew = {} /\ torn = {} /\ dropped = {}

-----------------------------------------------------------------------------
(* Helpers: what a statement does on a context that may be done and to rows *)
(* that may be gone.                                                        *)

Writes(a) == ctx[a] /\ RowExists
SetStatus(a, s) == status' = IF Writes(a) THEN s ELSE status
SetFlavor(a, f, s) ==
    flavors' = IF ctx[a] /\ flavors[f] # "none" THEN [flavors EXCEPT ![f] = s] ELSE flavors

Goto(a, p) == phase' = [phase EXCEPT ![a] = p]

\* INSERT INTO jobs; the caller has checked that the entry exists.
Enqueue(k, f) ==
    \E j \in FreeJobs :
        /\ kind' = [kind EXCEPT ![j] = k]
        /\ target' = [target EXCEPT ![j] = f]
        /\ state' = [state EXCEPT ![j] = "queued"]
        /\ dropped' = dropped \ {f}
        /\ UNCHANGED <<attempts, flagged>>

\* The row of the job reaches a final status, or its goroutine ends without one.
Forget(j) ==
    /\ kind' = [kind EXCEPT ![j] = "none"]
    /\ target' = [target EXCEPT ![j] = 0]
    /\ state' = [state EXCEPT ![j] = "none"]
    /\ attempts' = [attempts EXCEPT ![j] = 0]
    /\ flagged' = [flagged EXCEPT ![j] = FALSE]

Drop(j) ==
    /\ Forget(j)
    /\ dropped' = dropped \cup {target[j]}

At(j, k, p) == kind[j] = k /\ phase[j] = p

\* EntryByID: go on while the row exists, return an error otherwise.
CheckEntry(j, k, from, to) ==
    /\ At(j, k, from)
    /\ Goto(j, IF Writes(j) THEN to ELSE "err")
    /\ UNCHANGED <<rows, store, jobs, local>>

\* failEntry, then an error.
FailEntry(j) ==
    /\ SetStatus(j, "failed")
    /\ Goto(j, "err")
    /\ UNCHANGED <<source, flavors, store, jobs, local>>

-----------------------------------------------------------------------------
(* The queue, as the handlers see it.                                      *)

\* Transcodes of the entry run one at a time (GuardedTranscodesAlone).
Guard(j) ==
    kind[j] = "transcode" =>
        \A k \in Job : ~(kind[k] = "transcode" /\ state[k] = "running")

Claim(j) ==
    /\ state[j] = "queued" /\ Guard(j)
    /\ state' = [state EXCEPT ![j] = "running"]
    /\ attempts' = [attempts EXCEPT ![j] = @ + 1]
    /\ Goto(j, "start")
    /\ UNCHANGED <<rows, store, kind, target, flagged, dropped, local>>

ResetLocals(a) ==
    /\ ctx' = [ctx EXCEPT ![a] = TRUE]
    /\ todo' = [todo EXCEPT ![a] = {}]
    /\ seen' = [seen EXCEPT ![a] = {}]
    /\ UNCHANGED grew

Retried(j) == phase[j] = "err" /\ state[j] = "running" /\ ~flagged[j] /\ attempts[j] < MaxAttempts
LeftRunning(j) == phase[j] = "ok" /\ state[j] = "running" /\ ~ctx[j]

\* runJob after the handler: the job is queued again, or stays "running" because
\* Done cannot write on the ended context, or is done, cancelled or failed.
Settle(j) ==
    /\ phase[j] \in {"ok", "err"}
    /\ Goto(j, "idle")
    /\ \/ /\ Retried(j)
          /\ state' = [state EXCEPT ![j] = "queued"]
          /\ UNCHANGED <<kind, target, attempts, flagged, dropped>>
       \/ /\ LeftRunning(j)
          /\ UNCHANGED jobs
       \/ /\ phase[j] = "err" /\ state[j] = "running" /\ ~Retried(j)
          /\ Drop(j)
       \/ /\ state[j] = "deleted" \/ (phase[j] = "ok" /\ ~LeftRunning(j))
          /\ Forget(j) /\ UNCHANGED dropped
    /\ ResetLocals(j)
    /\ UNCHANGED <<rows, store>>

RequestCancel(j) ==
    /\ "cancel" \in scenario
    /\ \/ /\ state[j] = "queued"
          /\ Drop(j)
       \/ /\ state[j] = "running" /\ ~flagged[j]
          /\ flagged' = [flagged EXCEPT ![j] = TRUE]
          /\ UNCHANGED <<kind, target, state, attempts, dropped>>
    /\ UNCHANGED <<rows, store, phase, local>>

WatcherFires(j) ==
    /\ InHand(j) /\ flagged[j] /\ ctx[j]
    /\ ctx' = [ctx EXCEPT ![j] = FALSE]
    /\ UNCHANGED <<rows, store, jobs, phase, todo, seen, grew>>

\* The worker of a job dies (bound: not with the job's last attempt).
Crash(j) ==
    /\ "crash" \in scenario
    /\ InHand(j) /\ attempts[j] < MaxAttempts
    /\ Goto(j, IF state[j] = "deleted" THEN "idle" ELSE "lost")
    /\ IF state[j] = "deleted" THEN Forget(j) /\ UNCHANGED dropped ELSE UNCHANGED jobs
    /\ ResetLocals(j)
    /\ UNCHANGED <<rows, store>>

\* RequeueStale: the lost jobs, and every flavor that no running job names. The
\* lost job that sets it off may belong to another entry.
RequeueStale ==
    LET lost == {j \in Job : phase[j] = "lost"}
        kept == {target[j] : j \in {k \in Job \ lost : state[k] = "running"}}
        idle == {f \in Flavor \ kept : flavors[f] = "transcoding"}
    IN
    /\ lost # {} \/ idle # {}
    /\ state' = [j \in Job |-> IF j \in lost THEN "queued" ELSE state[j]]
    /\ phase' = [a \in Actor |-> IF a \in lost THEN "idle" ELSE phase[a]]
    /\ flavors' = [f \in Flavor |-> IF f \in idle THEN "pending" ELSE flavors[f]]
    /\ UNCHANGED <<entryRow, store, kind, target, attempts, flagged, dropped, local>>

-----------------------------------------------------------------------------
(* Download.                                                               *)

DownloadFetch(j) ==
    /\ At(j, "download", "fetch")
    /\ \/ /\ ctx[j]
          /\ Goto(j, "check")
          /\ UNCHANGED <<rows, store, jobs, local>>
       \/ FailEntry(j)

DownloadPut(j) ==
    /\ At(j, "download", "put")
    /\ \/ /\ media' = media \cup {"original"}
          /\ Goto(j, "update")
          /\ UNCHANGED <<rows, output, listed, jobs, local>>
       \/ FailEntry(j)

DownloadUpdate(j) ==
    /\ At(j, "download", "update")
    /\ SetStatus(j, "probing")
    /\ source' = (source \/ Writes(j))
    /\ Goto(j, IF ctx[j] THEN "enqueue" ELSE "err")
    /\ UNCHANGED <<flavors, store, jobs, local>>

DownloadEnqueue(j) ==
    /\ At(j, "download", "enqueue")
    /\ \/ /\ Writes(j)
          /\ Enqueue("probe", 0)
          /\ Goto(j, "ok")
       \/ /\ ~Writes(j)
          /\ Goto(j, "err")
          /\ UNCHANGED jobs
    /\ UNCHANGED <<rows, store, local>>

-----------------------------------------------------------------------------
(* Probe.                                                                  *)

\* The source is spooled, which may outlive the stored original, and probed. Only
\* ffprobe's failure fails the entry, not that of the store or of the disk.
ProbeSource(j) ==
    /\ At(j, "probe", "probe")
    /\ \/ /\ ctx[j] /\ source
          /\ Goto(j, "check")
          /\ UNCHANGED <<rows, store, jobs, local>>
       \/ /\ Goto(j, "err")
          /\ UNCHANGED <<rows, store, jobs, local>>
       \/ /\ source
          /\ FailEntry(j)

\* Poster and sprite; a failure is only logged.
ProbePoster(j) ==
    /\ At(j, "probe", "poster")
    /\ media' \in {media, media \cup {"poster"}}
    /\ Goto(j, "read")
    /\ UNCHANGED <<rows, output, listed, jobs, local>>

\* The flavors that have a row, or all enabled ones if none has.
Ticked == IF \A f \in Flavor : flavors[f] = "none"
          THEN Flavor ELSE {f \in Flavor : flavors[f] # "none"}

PendingUndone(ticked) == ticked \ (Skipped \cup Done)
Pending(ticked) == ticked \ Skipped

ProbeRead(j) ==
    /\ At(j, "probe", "read")
    /\ IF ctx[j]
       THEN /\ Goto(j, "reset")
            /\ todo' = [todo EXCEPT ![j] = Ticked]
            /\ seen' = [seen EXCEPT ![j] = Pending(Ticked)]
       ELSE /\ Goto(j, "err")
            /\ UNCHANGED <<todo, seen>>
    /\ UNCHANGED <<rows, store, jobs, ctx, grew>>

\* INSERT ... ON CONFLICT DO UPDATE, one flavor after the other.
ProbeReset(j) ==
    LET f == First(todo[j]) IN
    /\ At(j, "probe", "reset") /\ todo[j] # {}
    /\ flavors' = IF Writes(j)
                  THEN [flavors EXCEPT ![f] = IF f \in Skipped THEN "skipped" ELSE "pending"]
                  ELSE flavors
    /\ todo' = [todo EXCEPT ![j] = @ \ {f}]
    /\ UNCHANGED <<entryRow, store, jobs, phase, ctx, seen, grew>>

\* Nothing to transcode: the master plays the source (a failure is ignored) ...
ProbePublish(j) ==
    /\ At(j, "probe", "reset") /\ todo[j] = {} /\ seen[j] = {}
    /\ \/ /\ ctx[j]
          /\ media' = media \cup {"master"} /\ listed' = {SourceItself}
       \/ UNCHANGED <<media, listed>>
    /\ Goto(j, "publish")
    /\ UNCHANGED <<rows, output, jobs, local>>

\* ... and the entry is ready.
ProbeReady(j) ==
    /\ At(j, "probe", "publish")
    /\ SetStatus(j, "ready")
    /\ Goto(j, "ok")
    /\ UNCHANGED <<source, flavors, store, jobs, local>>

ProbeTranscoding(j) ==
    /\ At(j, "probe", "reset") /\ todo[j] = {} /\ seen[j] # {}
    /\ SetStatus(j, "transcoding")
    /\ Goto(j, IF ctx[j] THEN "enqueue" ELSE "err")
    /\ UNCHANGED <<source, flavors, store, jobs, local>>

ProbeEnqueue(j) ==
    LET f == First(seen[j]) IN
    /\ At(j, "probe", "enqueue")
    /\ \/ /\ seen[j] # {} /\ Writes(j)
          /\ Enqueue("transcode", f)
          /\ seen' = [seen EXCEPT ![j] = @ \ {f}]
          /\ UNCHANGED phase
       \/ /\ seen[j] # {} /\ ~Writes(j)
          /\ Goto(j, "err")
          /\ UNCHANGED <<jobs, seen>>
       \/ /\ seen[j] = {}
          /\ Goto(j, "ok")
          /\ UNCHANGED <<jobs, seen>>
    /\ UNCHANGED <<rows, store, ctx, todo, grew>>

-----------------------------------------------------------------------------
(* Transcode.                                                              *)

\* No source, or the store or the disk failed: the flavor keeps its status.
TranscodeSpool(j) ==
    /\ At(j, "transcode", "spool")
    /\ \/ /\ source
          /\ Goto(j, "mark")
          /\ UNCHANGED <<rows, store, jobs, local>>
       \/ FailEntry(j)

\* On a context that is done the flavor is not found, and its failure not noted.
TranscodeMark(j) ==
    /\ At(j, "transcode", "mark")
    /\ \/ SetFlavor(j, target[j], "transcoding") /\ Goto(j, "check")
       \/ ~ctx[j] /\ Goto(j, "finalize") /\ UNCHANGED flavors
    /\ UNCHANGED <<entryRow, store, jobs, local>>

\* ffmpeg starts to write into the store tree (flavorOutputDir, local driver).
TranscodeEncode(j) ==
    /\ At(j, "transcode", "encode")
    /\ files' = files \cup {target[j]} /\ torn' = torn \ {target[j]}
    /\ Goto(j, "encoding")
    /\ UNCHANGED <<rows, media, listed, jobs, local>>

KeepPartial(f) == files
DropPartial(f) == files \ {f}
AtWork(f) == {j \in Job : kind[j] = "transcode" /\ target[j] = f
                          /\ phase[j] \in {"encoding", "encoded", "done"}}

EncodeEnds(j) ==
    /\ At(j, "transcode", "encoding")
    /\ \/ /\ ctx[j]
          /\ Goto(j, "encoded")
          /\ UNCHANGED <<flavors, files>>
       \/ /\ files' = DropPartial(target[j])
          /\ SetFlavor(j, target[j], "failed")
          /\ Goto(j, "finalize")
    /\ UNCHANGED <<entryRow, media, torn, listed, jobs, local>>

\* The entry may have been deleted under ffmpeg: then its output goes.
EncodeCheck(j) ==
    /\ At(j, "transcode", "encoded")
    /\ files' = IF Writes(j) THEN files ELSE DropPartial(target[j])
    /\ Goto(j, IF Writes(j) THEN "done" ELSE "err")
    /\ UNCHANGED <<rows, media, torn, listed, jobs, local>>

TranscodeDone(j) ==
    /\ At(j, "transcode", "done")
    /\ SetFlavor(j, target[j], "done")
    /\ Goto(j, "finalize")
    /\ UNCHANGED <<entryRow, store, jobs, local>>

-----------------------------------------------------------------------------
(* finalizeTranscode.                                                      *)

NoneSkipped == \A f \in Flavor : flavors[f] \in {"none", "done", "failed"}
LastFlavor == Remaining = {}

\* An entry that is gone, or that a done context cannot read, ends the job well.
FinalizeCheck(j) ==
    /\ At(j, "transcode", "finalize")
    /\ Goto(j, IF Writes(j) THEN "remaining" ELSE "ok")
    /\ UNCHANGED <<rows, store, jobs, local>>

FinalizeRemaining(j) ==
    /\ At(j, "transcode", "remaining")
    /\ Goto(j, IF ~ctx[j] THEN "err" ELSE IF LastFlavor THEN "count" ELSE "ok")
    /\ UNCHANGED <<rows, store, jobs, local>>

FinalizeDone(j) ==
    /\ At(j, "transcode", "count")
    /\ Goto(j, IF ~ctx[j] THEN "err" ELSE IF Done = {} THEN "fail" ELSE "build")
    /\ UNCHANGED <<rows, store, jobs, local>>

FinalizeFail(j) ==
    /\ At(j, "transcode", "fail")
    /\ FailEntry(j)

AnyEnded(j) == {f \in Flavor : flavors[f] \in {"done", "failed"}}
WithSource(j) == Done \cup {SourceItself}
Renditions(j) == Done

\* buildMaster reads the done flavors and then writes the playlist.
FinalizeBuild(j) ==
    /\ At(j, "transcode", "build")
    /\ Goto(j, IF ctx[j] THEN "master" ELSE "err")
    /\ seen' = [seen EXCEPT ![j] = IF ctx[j] THEN Renditions(j) ELSE {}]
    /\ UNCHANGED <<rows, store, jobs, ctx, todo, grew>>

FinalizeMaster(j) ==
    /\ At(j, "transcode", "master")
    /\ \/ /\ media' = media \cup {"master"} /\ listed' = seen[j]
          /\ Goto(j, "ready")
       \/ /\ UNCHANGED <<media, listed>>
          /\ Goto(j, "err")
    /\ UNCHANGED <<rows, output, jobs, local>>

FinalizeReady(j) ==
    /\ At(j, "transcode", "ready")
    /\ SetStatus(j, "ready")
    /\ Goto(j, IF ctx[j] THEN "ok" ELSE "err")
    /\ UNCHANGED <<source, flavors, store, jobs, local>>

-----------------------------------------------------------------------------
(* Requests of the entries api. A request runs once, from "idle" to "over".  *)

Requested(r, event) == event \in scenario /\ phase[r] = "idle"

\* An error, or the end of the handler.
Over(r) == Goto(r, "over")

Respond(r) ==
    /\ Over(r)
    /\ ResetLocals(r)

\* handleEntryReprocess enqueues the probe, then sets the status.
Reprocess(r) ==
    /\ Requested(r, "reprocess")
    /\ RowExists /\ source /\ status # "uploading"
    /\ Enqueue("probe", 0)
    /\ Goto(r, "reprocess")
    /\ UNCHANGED <<rows, store, local>>

ReprocessStatus(r) ==
    /\ phase[r] = "reprocess"
    /\ SetStatus(r, "probing")
    /\ Respond(r)
    /\ UNCHANGED <<source, flavors, store, jobs>>

\* applyFlavors reads the rows and compares them with the flavors wanted.
Edit(r, want) ==
    LET have == {f \in Flavor : flavors[f] # "none"} IN
    /\ Requested(r, "edit") /\ RowExists
    /\ todo' = [todo EXCEPT ![r] = want \ have]
    /\ seen' = [seen EXCEPT ![r] = have \ want]
    /\ grew' = IF want \subseteq have THEN grew ELSE grew \cup {r}
    /\ Goto(r, "insert")
    /\ UNCHANGED <<rows, store, jobs, ctx>>

\* prepareFlavor: the row, then the job.
EditInsert(r) ==
    /\ phase[r] = "insert" /\ todo[r] # {}
    /\ flavors' = IF RowExists THEN [flavors EXCEPT ![First(todo[r])] = "pending"] ELSE flavors
    /\ IF RowExists
       THEN Goto(r, "prepare") /\ UNCHANGED local
       ELSE Respond(r)
    /\ UNCHANGED <<entryRow, store, jobs>>

EditEnqueue(r) ==
    LET f == First(todo[r]) IN
    /\ phase[r] = "prepare"
    /\ \/ /\ RowExists
          /\ Enqueue("transcode", f)
          /\ todo' = [todo EXCEPT ![r] = @ \ {f}]
          /\ Goto(r, "insert")
          /\ UNCHANGED <<ctx, seen, grew>>
       \/ /\ ~RowExists
          /\ Respond(r)
          /\ UNCHANGED jobs
    /\ UNCHANGED <<rows, store>>

\* removeFlavor: the files, then the row.
EditRemoveFiles(r) ==
    /\ phase[r] = "insert" /\ todo[r] = {} /\ seen[r] # {}
    /\ files' = files \ {First(seen[r])}
    /\ torn' = IF AtWork(First(seen[r])) = {} THEN torn ELSE torn \cup {First(seen[r])}
    /\ Goto(r, "remove")
    /\ UNCHANGED <<rows, media, listed, jobs, local>>

EditRemoveRow(r) ==
    LET f == First(seen[r]) IN
    /\ phase[r] = "remove"
    /\ flavors' = [flavors EXCEPT ![f] = "none"]
    /\ seen' = [seen EXCEPT ![r] = @ \ {f}]
    /\ Goto(r, "insert")
    /\ UNCHANGED <<entryRow, store, jobs, ctx, todo, grew>>

\* A flavor was added: its job "will finalize (master + ready)".
EditStatus(r) ==
    /\ phase[r] = "insert" /\ todo[r] = {} /\ seen[r] = {}
    /\ \/ /\ RowExists
          /\ Goto(r, "rebuild")
          /\ status' = IF r \in grew THEN "probing" ELSE status
          /\ UNCHANGED local
       \/ /\ ~RowExists
          /\ Respond(r)
          /\ UNCHANGED status
    /\ UNCHANGED <<source, flavors, store, jobs>>

\* rebuildMaster reads the done flavors and then writes the playlist.
EditRebuild(r) ==
    /\ phase[r] = "rebuild"
    /\ seen' = [seen EXCEPT ![r] = Done]
    /\ Goto(r, "master")
    /\ UNCHANGED <<rows, store, jobs, ctx, todo, grew>>

EditMaster(r) ==
    /\ phase[r] = "master"
    /\ \/ /\ media' = media \cup {"master"} /\ listed' = seen[r]
          /\ IF r \in grew
             THEN Respond(r)
             ELSE Goto(r, "empty") /\ UNCHANGED local
       \/ /\ UNCHANGED <<media, listed>>
          /\ Respond(r)
    /\ UNCHANGED <<rows, output, jobs>>

\* A pure removal that leaves no rendition: count, then fail the entry.
EditCount(r) ==
    /\ phase[r] = "empty"
    /\ IF Done = {}
       THEN Goto(r, "failed") /\ UNCHANGED local
       ELSE Respond(r)
    /\ UNCHANGED <<rows, store, jobs>>

EditFail(r) ==
    /\ phase[r] = "failed"
    /\ SetStatus(r, "failed")
    /\ Respond(r)
    /\ UNCHANGED <<source, flavors, store, jobs>>

\* handleEntryDelete: a sweep of the media, the row with its cascade, a sweep.
Delete(r) ==
    /\ Requested(r, "delete") /\ RowExists
    /\ media' = {} /\ files' = {} /\ listed' = {}
    /\ Goto(r, "swept")
    /\ UNCHANGED <<rows, torn, jobs, local>>

DeleteRow(r) ==
    LET gone == {j \in Job : state[j] # "none" /\ ~InHand(j)} IN
    /\ phase[r] = "swept"
    /\ status' = "gone"
    /\ flavors' = [f \in Flavor |-> "none"]
    /\ kind' = [j \in Job |-> IF j \in gone THEN "none" ELSE kind[j]]
    /\ target' = [j \in Job |-> IF j \in gone THEN 0 ELSE target[j]]
    /\ state' = [j \in Job |-> IF InHand(j) THEN "deleted" ELSE "none"]
    /\ attempts' = [j \in Job |-> IF j \in gone THEN 0 ELSE attempts[j]]
    /\ flagged' = [j \in Job |-> FALSE] /\ dropped' = {}
    /\ phase' = [a \in Actor |-> IF a = r THEN IF RowExists THEN "sweep" ELSE "over"
                                 ELSE IF a \in gone THEN "idle" ELSE phase[a]]
    /\ UNCHANGED <<source, store, local>>

DeleteSweep(r) ==
    /\ phase[r] = "sweep"
    /\ media' = {} /\ files' = {} /\ listed' = {}
    /\ Over(r)
    /\ UNCHANGED <<rows, torn, jobs, local>>

-----------------------------------------------------------------------------
DownloadStep(j) ==
    \/ CheckEntry(j, "download", "start", "fetch")
    \/ DownloadFetch(j)
    \/ CheckEntry(j, "download", "check", "put")
    \/ DownloadPut(j)
    \/ DownloadUpdate(j)
    \/ DownloadEnqueue(j)

ProbeStep(j) ==
    \/ CheckEntry(j, "probe", "start", "probe")
    \/ ProbeSource(j)
    \/ CheckEntry(j, "probe", "check", "poster")
    \/ ProbePoster(j)
    \/ ProbeRead(j)
    \/ ProbeReset(j)
    \/ ProbePublish(j)
    \/ ProbeReady(j)
    \/ ProbeTranscoding(j)
    \/ ProbeEnqueue(j)

TranscodeStep(j) ==
    \/ CheckEntry(j, "transcode", "start", "spool")
    \/ TranscodeSpool(j)
    \/ TranscodeMark(j)
    \/ CheckEntry(j, "transcode", "check", "encode")
    \/ TranscodeEncode(j)
    \/ EncodeEnds(j)
    \/ EncodeCheck(j)
    \/ TranscodeDone(j)
    \/ FinalizeCheck(j)
    \/ FinalizeRemaining(j)
    \/ FinalizeDone(j)
    \/ FinalizeFail(j)
    \/ FinalizeBuild(j)
    \/ FinalizeMaster(j)
    \/ FinalizeReady(j)

Handle(j) == DownloadStep(j) \/ ProbeStep(j) \/ TranscodeStep(j) \/ Settle(j)

Arrive(r) ==
    \/ Reprocess(r)
    \/ \E want \in SUBSET Flavor : Edit(r, want)
    \/ Delete(r)

Serve(r) ==
    \/ ReprocessStatus(r)
    \/ EditInsert(r) \/ EditEnqueue(r)
    \/ EditRemoveFiles(r) \/ EditRemoveRow(r)
    \/ EditStatus(r) \/ EditRebuild(r) \/ EditMaster(r)
    \/ EditCount(r) \/ EditFail(r)
    \/ DeleteRow(r) \/ DeleteSweep(r)

Step ==
    \/ \E j \in Job : Claim(j) \/ Handle(j) \/ RequestCancel(j) \/ WatcherFires(j) \/ Crash(j)
    \/ RequeueStale
    \/ \E r \in Request : Arrive(r) \/ Serve(r)

Next == Step /\ UNCHANGED scenario

Spec == Init /\ [][Next]_vars

-----------------------------------------------------------------------------
\* The rows, the store, the outstanding jobs and the goroutines stay in their
\* domains (entries.status, entry_flavors.status, jobs.status).
TypeOK ==
    /\ status \in EntryStatus /\ source \in BOOLEAN
    /\ flavors \in [Flavor -> FlavorStatus]
    /\ media \subseteq {"original", "poster", "master"}
    /\ files \subseteq Flavor /\ torn \subseteq Flavor /\ listed \subseteq Flavor \cup {SourceItself}
    /\ kind \in [Job -> {"none", "download", "probe", "transcode"}]
    /\ target \in [Job -> Flavor \cup {0}]
    /\ state \in [Job -> {"none", "queued", "running", "deleted"}]
    /\ attempts \in [Job -> Nat]
    /\ flagged \in [Job -> BOOLEAN] /\ dropped \subseteq Flavor \cup {0}
    /\ phase \in [Actor -> JobPhase \cup RequestPhase]
    /\ ctx \in [Actor -> BOOLEAN]
    /\ todo \in [Actor -> SUBSET Flavor]
    /\ seen \in [Actor -> SUBSET Flavor]
    /\ grew \subseteq Request
    /\ scenario \in Scenarios

Abandoned(j)   == state[j] = "running" /\ phase[j] = "idle"
Outstanding(j) == state[j] \in {"queued", "running"} /\ ~Abandoned(j)
Serving        == {r \in Request : phase[r] \notin {"idle", "over"}}
Quiet          == Serving = {} /\ \A j \in Job : state[j] = "none" \/ Abandoned(j)

\* A transcode settles its flavor when it notes its outcome; its retry settles it
\* again, and a retried probe all the flavors. A job whose context has ended can
\* note nothing more: it is tried again, or is seen to have lapsed.
Undecided == {"idle", "lost", "start", "spool", "mark", "check", "encode", "encoding",
              "encoded", "done", "err"}
ToCome == {"idle", "lost", "start", "probe", "check", "poster", "read", "err"}
Settles(j, f) ==
    /\ Outstanding(j)
    /\ \/ kind[j] = "transcode" /\ target[j] = f /\ (phase[j] \in Undecided \/ ~ctx[j])
       \/ kind[j] = "probe" /\ (phase[j] \in ToCome \/ ~ctx[j])
       \/ At(j, "probe", "reset") /\ f \in todo[j] \cup seen[j]
       \/ At(j, "probe", "enqueue") /\ f \in seen[j]

\* A job for it has failed for good, has been cancelled, or is left running by a
\* cancel that came too late.
Lapsed(f) == f \in dropped \/ \E j \in Job : Abandoned(j) /\ target[j] = f

\* A flavor that is pending or transcoding has somebody who will settle it: its
\* transcode, or a probe or a request that is about to enqueue one; or the entry is
\* being deleted. Whatever dies, fails or is cancelled none is forgotten silently:
\* else the queue shows why, a job for it, or the probe, that failed for good or was
\* cancelled (jobs.go:449-491, 532-536, entries.go:281-301).
UnsettledHasJob ==
    \A f \in Remaining :
        \/ \E j \in Job : Settles(j, f)
        \/ \E r \in Request : phase[r] = "prepare" /\ f = First(todo[r])
        \/ \E r \in Request : phase[r] = "swept"
        \/ Lapsed(f) \/ Lapsed(SourceItself)

\* When all the work is over, an entry is left 'transcoding' only if a job of it
\* failed for good or was cancelled, and 'probing' only if its probe or download did
\* or a request set that status after its job had ended (jobs.go:379-382, 609-640,
\* entries.go:296-300, 464-469).
QuietSettled ==
    Quiet =>
        /\ status = "transcoding" => \E f \in Flavor \cup {SourceItself} : Lapsed(f)
        /\ status = "probing" => Lapsed(SourceItself) \/ \E r \in Request : phase[r] = "over"

\* One run of the entry, which may be cancelled; or else, if no transcode failed for
\* good: one probe, whose workers may die, or runs that find the flavors of an
\* earlier one.
Undisturbed ==
    \/ scenario \cap {"crash", "reprocess"} = {}
    \/ /\ dropped \subseteq {SourceItself}
       /\ \/ scenario \cap {"cancel", "reprocess", "submitted"} = {}
          \/ scenario \cap {"cancel", "uploaded", "submitted"} = {}

\* When all the work is over, the master playlist of a ready entry leaves out no
\* flavor that is done, the last of the transcodes to finish lists the others, and
\* every listed rendition has its files. It is there when a flavor is done; an
\* entry without any plays its source, but a probe that cannot write that playlist
\* says that the entry is ready all the same (jobs.go:472). Left out are flavor
\* changes, which write the playlist too; an entry that has kept a flavor pending
\* or transcoding; and runs that disturb each other: a second one that is cancelled,
\* or that fails for good, may reset the flavors just before a transcode of the
\* first one lists them, and nothing repairs the list; and a second probe that
\* meets the rows of a first one half written may take the entry for one that has
\* nothing to transcode (jobs.go:436-480, 615-640, 695-729).
ReadyPlayable ==
    "edit" \notin scenario /\ Undisturbed /\ Quiet /\ status = "ready" /\ Remaining = {}
    => /\ Done \subseteq listed /\ listed \subseteq files \cup {SourceItself}
       /\ Done # {} => "master" \in media

\* When all the work is over, a flavor that reads 'done' has its files: a later
\* transcode of it that fails, or a removal, takes the row along with the files
\* (jobs.go:581-586, entries.go:338-356). Only a removal in the middle of a
\* transcode may leave a flavor without: the flavor is added again, and the old
\* transcode ends on the new row, before a cancel keeps the new one from running.
\* And without a crash an entry that was deleted has no files: a transcode that
\* ffmpeg finishes for it removes its output, "so nothing is left behind"
\* (jobs.go:588).
FilesMatchRows ==
    Quiet => /\ Done \ torn \subseteq files
             /\ "crash" \notin scenario /\ ~RowExists => files = {}

-----------------------------------------------------------------------------
(* What comments of the code say and the code does not do.                  *)

\* "Entry deleted while probing? Stop before writing poster/sprite." (jobs.go:389):
\* once the deletion and the jobs are over, the store holds nothing of the entry.
NothingLeft == Quiet /\ ~RowExists => media = {} /\ files = {}

\* "Effective flavors: enabled /\ ticked /\ (height <= source height)"
\* (jobs.go:434): a fresh entry that is ready has a row for every flavor.
EveryFlavorEffective ==
    "uploaded" \in scenario /\ Quiet /\ status = "ready" =>
        \A f \in Flavor : flavors[f] # "none"
=============================================================================
