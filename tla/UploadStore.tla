---------------------------- MODULE UploadStore ----------------------------
(***************************************************************************)
(* The upload store of the web console (web/lib/upload-store.ts with       *)
(* web/lib/idb.ts): the list of upload jobs, the files the tab holds in    *)
(* memory and in IndexedDB, the transfer that tus-js-client runs, and the  *)
(* loop of startAll that takes the jobs one after the other.               *)
(*                                                                         *)
(* JavaScript runs to completion: one action is the code between two       *)
(* awaits, or one callback. localStorage follows every change of the list, *)
(* so that a reload of the page finds the list as it is.                   *)
(*                                                                         *)
(* Left out: progress, titles and errors, the retries inside tus, a full   *)
(* or forbidden localStorage, a second tab on the same storage.            *)
(***************************************************************************)
EXTENDS JobList

CONSTANTS
    File,       \* the files (name and size) the user may pick
    Id,         \* bound: the ids in use at one time
    MaxBatch    \* MAX_BATCH

ASSUME UploadAssumption ==
    /\ Id \subseteq Nat \ {0} /\ IsFiniteSet(Id)
    /\ MaxBatch \in Nat \ {0}

VARIABLES
    jobs,       \* the list: records of id, file, status and url (uploadUrl is set)
    files,      \* ids whose file is in memory
    blob,       \* whether IndexedDB holds the file of an id
    active,     \* activeUploads: ids of the transfers in flight
    batch,      \* the loop of startAll: where it is, and with which job
    completed   \* lastCompletedAt is set

uploadVars == <<jobs, files, blob, active, batch, completed>>

UploadStatus == {"queued", "uploading", "done", "failed", "interrupted"}
Pending      == {"queued", "interrupted"}
UploadJob    == [id : Id, file : File, status : UploadStatus, url : BOOLEAN]
\* "restore" and "wait": startAll is at the idbGet, or at the promise, of job id.
Batch        == [phase : {"off", "restore", "wait"}, id : Id \cup {NoId}]
Idle         == [phase |-> "off", id |-> NoId]

Live         == {j \in Range(jobs) : j.status \notin {"done", "failed"}}

UploadInit ==
    /\ jobs = <<>> /\ files = {} /\ active = {}
    /\ blob = [id \in Id |-> FALSE]
    /\ batch = Idle /\ completed = FALSE

\* idb.ts: every failure is swallowed, so that a put may or may not store and
\* a get that fails finds nothing (RestoreEnds).
IdbPut(S) ==
    \E stored \in SUBSET S :
        blob' = [id \in Id |-> IF id \in S THEN id \in stored ELSE blob[id]]
IdbGet(id) == blob[id]
IdbDelete(S) == blob' = [id \in Id |-> blob[id] /\ id \notin S]

-----------------------------------------------------------------------------
(* addFiles. What idbPut does is not awaited: a reload may cut it off, and  *)
(* nothing reads the blob before one.                                       *)

\* crypto.randomUUID: an id that nothing refers to.
FreeIds == {id \in Id : /\ id \notin Ids(jobs) \cup files \cup active
                        /\ id # batch.id /\ ~blob[id]}

Resumable(f) == {j \in Range(jobs) : j.file = f /\ j.status = "interrupted" /\ j.url}
ListedQueued(f) == \E j \in Range(jobs) : j.file = f /\ j.status = "queued"
Listed(f)    == \E j \in Live : j.file = f
Slots        == IF Cardinality(Live) > MaxBatch THEN 0 ELSE MaxBatch - Cardinality(Live)

AddFiles(selection) ==
    LET resumed == {j \in Range(jobs) : \E f \in Range(selection) : j \in Resumable(f)}
        wanted(f) == Resumable(f) # {} \/ ~Listed(f)
        first == {i \in DOMAIN selection : \A k \in 1..i-1 : selection[k] # selection[i]}
        taken == Kept(selection, {i \in first :
                    /\ Resumable(selection[i]) = {} /\ ~Listed(selection[i])
                    /\ Cardinality({k \in first : k < i /\ wanted(selection[k])}) < Slots})
        fresh == [k \in 1..Len(taken) |-> Nth(FreeIds, k)]
        put == {j.id : j \in resumed} \cup Range(fresh)
    IN  /\ Cardinality(FreeIds) >= Len(taken)
        /\ jobs' = Patched(jobs, {j.id : j \in resumed}, "status", "queued")
                   \o [k \in 1..Len(taken) |->
                         [id |-> fresh[k], file |-> taken[k], status |-> "queued", url |-> FALSE]]
        /\ files' = files \cup put
        /\ IdbPut(put)
        /\ UNCHANGED <<active, batch, completed>>

-----------------------------------------------------------------------------
(* startAll and startJob.                                                   *)

\* new tus.Upload and start: startJob from the point where it has the file.
Begin(list, id) ==
    /\ jobs' = SetStatus(list, id, "uploading")
    /\ active' = active \cup {id}
    /\ batch' = [phase |-> "wait", id |-> id]

MarkUploadsCompleted(list) ==
    completed' = (completed \/ WithStatus(list, {"done"}) # {})

\* One round of the loop, over the list as it has become: the next job is
\* started when its file is at hand, and looked up in IndexedDB otherwise.
NextJob(list, inMemory, transfers) ==
    IF WithStatus(list, Pending) = {}
    THEN /\ jobs' = list /\ active' = transfers /\ batch' = Idle
         /\ MarkUploadsCompleted(list)
    ELSE LET id == FirstWith(list, Pending) IN
         /\ completed' = completed
         /\ IF id \in inMemory
            THEN /\ jobs' = SetStatus(list, id, "uploading")
                 /\ active' = transfers \cup {id}
                 /\ batch' = [phase |-> "wait", id |-> id]
            ELSE /\ jobs' = list /\ active' = transfers
                 /\ batch' = [phase |-> "restore", id |-> id]

\* startAll is a no-op while it runs.
StartAllTwice == NextJob(jobs, files, active) /\ UNCHANGED <<files, blob>>
StartAll ==
    IF batch.phase = "off"
    THEN NextJob(jobs, files, active) /\ UNCHANGED <<files, blob>>
    ELSE UNCHANGED uploadVars

\* startJob resumes after idbGet. It does not look whether its job is still
\* in the list; without a blob the loop picks the same job again.
RestoreEnds ==
    /\ batch.phase = "restore"
    /\ \/ /\ IdbGet(batch.id)
          /\ files' = files \cup {batch.id}
          /\ Begin(jobs, batch.id)
          /\ UNCHANGED completed
       \/ /\ ~IdbGet(batch.id)
          /\ NextJob(jobs, files, active)
          /\ UNCHANGED files
    /\ UNCHANGED blob

\* onUploadUrlAvailable
UploadUrlAvailable(id) ==
    /\ id \in active
    /\ jobs' = Patched(jobs, {id}, "url", TRUE)
    /\ UNCHANGED <<files, blob, active, batch, completed>>

\* The promise of startJob resolves: the loop goes on if it waits for it.
Resolve(id, list) ==
    IF batch.phase = "wait" /\ batch.id = id
    THEN NextJob(list, files, active \ {id})
    ELSE jobs' = list /\ active' = active \ {id} /\ UNCHANGED <<batch, completed>>

TransferDone(id) ==
    /\ id \in active
    /\ IdbDelete({id})
    /\ Resolve(id, SetStatus(jobs, id, "done"))
    /\ UNCHANGED files

FailUnresolved(id) ==
    /\ id \in active /\ active' = active \ {id}
    /\ jobs' = SetStatus(jobs, id, "failed")
    /\ UNCHANGED <<files, blob, batch, completed>>
TransferFailed(id) ==
    /\ id \in active
    /\ Resolve(id, SetStatus(jobs, id, "failed"))
    /\ UNCHANGED <<files, blob>>

-----------------------------------------------------------------------------
(* The rest of the store. tus calls nothing back after an abort. These      *)
(* leave "completed" to the handler of the dialog that calls them.          *)

RemoveJobs(S) ==
    /\ active' = active \ S
    /\ files' = files \ S
    /\ jobs' = Without(jobs, S)
    /\ IdbDelete(S)
    /\ UNCHANGED batch

ResetIdle ==
    /\ IF Live = {} /\ jobs # <<>>
       THEN jobs' = <<>> /\ files' = {}
       ELSE UNCHANGED <<jobs, files>>
    /\ UNCHANGED <<blob, active, batch>>

ClearUploadsCompleted == completed' = FALSE

ClearAllUploads ==
    /\ jobs' = <<>> /\ files' = {} /\ active' = {}
    /\ UNCHANGED <<blob, batch>>

\* load after a reload of the page: what was in flight is resumable, history
\* may be older than a day.
InFlight == {j.id : j \in Live}
LoadUploads ==
    /\ \E old \in SUBSET {j.id : j \in Range(jobs) \ Live} :
          jobs' = Without(Patched(jobs, InFlight, "status", "interrupted"), old)
    /\ files' = {} /\ active' = {} /\ batch' = Idle
    /\ UNCHANGED <<blob, completed>>
=============================================================================
