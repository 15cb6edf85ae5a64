------------------------------- MODULE Uploads ------------------------------
(***************************************************************************)
(* The server's side of a resumable upload: the tus data store of          *)
(* internal/upload/upload.go, the hourly sweep of cmd/vidsilo/cleanup.go   *)
(* and the deletion of the entry, against one file that a browser sends.   *)
(*                                                                         *)
(* The browser runs tus-js-client and the routes run tusd, both external:  *)
(* tusd has no locker (internal/api/tus.go), so that a request whose       *)
(* client has gone runs on beside the next one. The bytes of the file are  *)
(* counted in parts, of which one request sends a chunk.                   *)
(*                                                                         *)
(* One action is one statement, one operation on the spool file, or one    *)
(* write to it. Left out: the checks of the metadata, and progress. A      *)
(* definition that nothing uses is the slip that the one after it avoids.  *)
(***************************************************************************)
EXTENDS Naturals, FiniteSets

CONSTANTS
    Upload,     \* bound: the uploads, and their entries, that can be made
    Size,       \* the parts of the file ...
    Chunk,      \* ... and of a chunk
    Req,        \* bound: the requests in flight
    Days,       \* the sets of things that happen to an upload
    MaxTries,   \* bound: the retries of the client
    MaxFaults   \* bound: interruptions, and statements that fail

\* "s3": the storage driver is not the local one.
Trouble == {"s3", "abort", "cut", "restart", "error", "terminate", "delete", "aged"}

ASSUME UploadsAssumption ==
    /\ Upload \subseteq Nat \ {0} /\ IsFiniteSet(Upload)
    /\ Size \in Nat \ {0} /\ Chunk \in Nat \ {0} /\ MaxTries \in Nat /\ MaxFaults \in Nat
    /\ Days \subseteq SUBSET Trouble

VARIABLES
    day,        \* what happens in this behaviour
    entry,      \* status of the entry of an upload, "none" before and "gone" after
    row,        \* the uploads that have a row in table uploads
    spool,      \* the parts in the spool file of an upload, or NoFile
    original,   \* the parts in the stored original, or NoFile
    probes,     \* probe jobs enqueued
    old,        \* made more than 24 hours ago
    reqs,       \* the requests: next step, upload, offset, its end; whether the spool
                \* path still names the file it has open; whether the client listens
    client,     \* the tus client: phase, upload URL, retries
    sweep,      \* cleanupStaleUploads: next step, uploads it has read
    faults,
    assumed,    \* history: the client took the file for sent on the word of a HEAD
    taken       \* history: uploads whose spool a sweep or a Terminate has removed, or
                \* a request has made anew after the file went to the store

tables == <<entry, row, probes>>
disks == <<spool, original>>
clientVars == <<client, assumed>>
rest == <<day, taken>>
uploadsVars == <<rest, tables, disks, old, reqs, clientVars, sweep, faults>>

NoFile == Size + 1
NoReq == [step |-> "none", up |-> 0, off |-> 0, end |-> 0, linked |-> FALSE, heard |-> FALSE]
NoSweep == [step |-> "off", ids |-> {}]
\* The uploads are alike, and the rows of a query come in any order.
SomeOf(S) == CHOOSE u \in S : TRUE

UploadsInit ==
    /\ day \in Days
    /\ entry = [u \in Upload |-> "none"] /\ row = {} /\ probes = [u \in Upload |-> 0]
    /\ spool = [u \in Upload |-> NoFile] /\ original = [u \in Upload |-> NoFile]
    /\ old = {} /\ sweep = NoSweep /\ faults = 0
    /\ reqs = [r \in Req |-> NoReq]
    /\ client = [phase |-> "new", url |-> 0, tries |-> 0] /\ assumed = FALSE
    /\ taken = {}

-----------------------------------------------------------------------------
(* The client.                                                              *)

Sends(step, u, off, end) ==
    [step |-> step, up |-> u, off |-> off, end |-> end, linked |-> FALSE, heard |-> TRUE]
Post == Sends("post", 0, 0, 0)
Header(u) == Sends("head", u, 0, 0)
Patch(u, off) ==
    LET end == IF off + Chunk < Size THEN off + Chunk ELSE Size
    IN  Sends("patch", u, off, end)
\* start: a known URL is resumed.
Opening == IF client.url = 0 THEN Post ELSE Header(client.url)
CanRetry == client.tries < MaxTries
Free == {r \in Req : reqs[r] = NoReq}

\* The answer to r; the client, if it listens, sends the next request.
Answer(r, next) == reqs' = [reqs EXCEPT ![r] = IF @.heard THEN next ELSE NoReq]
\* A client that is not listening learns nothing.
Learns(r, what) == client' = IF reqs[r].heard THEN what ELSE client

Succeed(r) == Answer(r, NoReq) /\ Learns(r, [client EXCEPT !.phase = "done"])
\* 404 to a PATCH is final.
Refuse(r) == Answer(r, NoReq) /\ Learns(r, [client EXCEPT !.phase = "failed"])
\* 409, 500 and a lost connection are tried again.
RetryOr(failed) ==
    IF CanRetry THEN [client EXCEPT !.tries = @ + 1] ELSE failed
Fail(r) ==
    /\ Answer(r, IF CanRetry THEN Opening ELSE NoReq)
    /\ Learns(r, RetryOr([client EXCEPT !.phase = "failed"]))

Fault(what) == what \in day /\ faults < MaxFaults /\ faults' = faults + 1

StartUpload ==
    /\ client.phase \in {"new", "paused"} /\ Free # {}
    /\ \E r \in Free : reqs' = [reqs EXCEPT ![r] = Opening]
    /\ client' = [client EXCEPT !.phase = "waiting"]
    /\ UNCHANGED <<rest, tables, disks, old, sweep, faults, assumed>>

Unheard(rs) == [r \in Req |-> [rs[r] EXCEPT !.heard = FALSE]]

\* The job is removed from the list, or the page is left.
AbortUpload ==
    /\ client.phase = "waiting" /\ Fault("abort")
    /\ client' = [client EXCEPT !.phase = "paused"]
    /\ reqs' = Unheard(reqs)
    /\ UNCHANGED <<rest, tables, disks, old, sweep, assumed>>

\* The connection is lost; what reached the server is carried on with.
LoseConnection(r) ==
    /\ reqs[r].heard /\ Fault("cut")
    /\ IF CanRetry
       THEN \E s \in Free : reqs' = [Unheard(reqs) EXCEPT ![s] = Opening]
       ELSE reqs' = Unheard(reqs)
    /\ client' = RetryOr([client EXCEPT !.phase = "failed"])
    /\ UNCHANGED <<rest, tables, disks, old, sweep, assumed>>

\* The server is restarted, and its requests are gone.
RestartServer ==
    /\ Free # Req /\ Fault("restart")
    /\ LET lost == client.phase = "waiting" IN
       /\ client' = IF lost THEN RetryOr([client EXCEPT !.phase = "failed"]) ELSE client
       /\ \E s \in Req : reqs' = [r \in Req |-> IF r = s /\ lost /\ CanRetry
                                                THEN Opening ELSE NoReq]
    /\ UNCHANGED <<rest, tables, disks, old, sweep, assumed>>

-----------------------------------------------------------------------------
(* POST and HEAD.                                                           *)

At(r, step) == reqs[r].step = step
Goto(r, step) == reqs' = [reqs EXCEPT ![r].step = step]
Offset(u) == IF spool[u] = NoFile THEN 0 ELSE spool[u]

\* NewUpload: the entry ...
PostEntry(r) ==
    LET unmade == {u \in Upload : entry[u] = "none"} IN
    /\ At(r, "post") /\ unmade # {}
    /\ entry' = [entry EXCEPT ![SomeOf(unmade)] = "uploading"]
    /\ reqs' = [reqs EXCEPT ![r].step = "row", ![r].up = SomeOf(unmade)]
    /\ UNCHANGED <<rest, row, probes, disks, old, clientVars, sweep, faults>>

\* ... and the row of the upload, which refers to it.
PostRow(r) ==
    LET u == reqs[r].up IN
    /\ At(r, "row")
    /\ IF entry[u] = "gone" THEN Fail(r) /\ UNCHANGED row
       ELSE /\ row' = row \cup {u}
            /\ Answer(r, Patch(u, 0))
            /\ Learns(r, [client EXCEPT !.url = u])
    /\ UNCHANGED <<rest, entry, probes, disks, old, sweep, faults, assumed>>

\* GetUpload and GetInfo. To an upload that is not found the client answers
\* with a new one; at the end of the file it has nothing left to send.
HeadFile(r) ==
    LET u == reqs[r].up IN
    /\ At(r, "head")
    /\ assumed' = (assumed \/ (reqs[r].heard /\ u \in row /\ Offset(u) = Size))
    /\ IF u \notin row THEN Answer(r, Post) /\ Learns(r, [client EXCEPT !.url = 0])
       ELSE IF Offset(u) = Size THEN Succeed(r)
       ELSE Answer(r, Patch(u, Offset(u))) /\ UNCHANGED client
    /\ UNCHANGED <<rest, tables, disks, old, sweep, faults>>

-----------------------------------------------------------------------------
(* PATCH: WriteChunk, and FinishUpload once the file is whole.              *)

PatchFile(r) ==
    LET u == reqs[r].up IN
    /\ At(r, "patch")
    /\ IF u \notin row THEN Refuse(r)
       ELSE IF Offset(u) # reqs[r].off THEN Fail(r)
       ELSE Goto(r, "open") /\ UNCHANGED client
    /\ UNCHANGED <<rest, tables, disks, old, sweep, faults, assumed>>

\* The file is made if there is none, even if it has been stored already.
WriteOpen(r) ==
    LET u == reqs[r].up IN
    /\ At(r, "open")
    /\ spool' = [spool EXCEPT ![u] = Offset(u)]
    /\ taken' = IF spool[u] = NoFile /\ original[u] # NoFile THEN taken \cup {u} ELSE taken
    /\ IF Offset(u) # reqs[r].off THEN Fail(r)
       ELSE /\ reqs' = [reqs EXCEPT ![r].step = "write", ![r].linked = TRUE]
            /\ UNCHANGED client
    /\ UNCHANGED <<day, tables, original, old, sweep, faults, assumed>>

\* The next part, into the file that was opened: it may have been moved or
\* removed since, or be longer already. After a chunk the client sends the next.
WritePart(r) ==
    LET u == reqs[r].up   n == reqs[r].off + 1 IN
    /\ At(r, "write")
    /\ spool' = IF reqs[r].linked /\ spool[u] < n THEN [spool EXCEPT ![u] = n] ELSE spool
    /\ IF n = reqs[r].end /\ n < Size THEN Answer(r, Patch(u, n))
       ELSE reqs' = [reqs EXCEPT ![r].off = n, ![r].step = IF n = Size THEN "finish" ELSE "write"]
    /\ UNCHANGED <<rest, tables, original, old, clientVars, sweep, faults>>

WriteBreaks(r) ==
    /\ At(r, "write") /\ ~reqs[r].heard
    /\ Answer(r, NoReq)
    /\ UNCHANGED <<rest, tables, disks, old, clientVars, sweep, faults>>

FinishStat(r) ==
    /\ At(r, "finish")
    /\ IF spool[reqs[r].up] = NoFile THEN Fail(r) ELSE Goto(r, "store") /\ UNCHANGED client
    /\ UNCHANGED <<rest, tables, disks, old, sweep, faults, assumed>>

\* The path of the spool names no file any more.
Unlink(rs, u) == [r \in Req |-> IF rs[r].up = u THEN [rs[r] EXCEPT !.linked = FALSE] ELSE rs[r]]

\* MoveIn, or Put.
FinishStore(r) ==
    LET u == reqs[r].up   moved == [reqs EXCEPT ![r].step = "update"] IN
    /\ At(r, "store")
    /\ IF spool[u] = NoFile THEN Fail(r) /\ UNCHANGED disks
       ELSE /\ original' = [original EXCEPT ![u] = spool[u]]
            /\ IF "s3" \notin day
               THEN spool' = [spool EXCEPT ![u] = NoFile] /\ reqs' = Unlink(moved, u)
               ELSE Goto(r, "remove") /\ UNCHANGED spool
            /\ UNCHANGED client
    /\ UNCHANGED <<rest, tables, old, sweep, faults, assumed>>

FinishRemove(r) ==
    LET u == reqs[r].up IN
    /\ At(r, "remove")
    /\ spool' = [spool EXCEPT ![u] = NoFile]
    /\ reqs' = Unlink([reqs EXCEPT ![r].step = "update"], u)
    /\ UNCHANGED <<rest, tables, original, old, clientVars, sweep, faults>>

\* An UPDATE of no row is no error.
FinishUpdate(r) ==
    LET u == reqs[r].up IN
    /\ At(r, "update")
    /\ entry' = [entry EXCEPT ![u] = IF @ = "gone" THEN @ ELSE "probing"]
    /\ Goto(r, "enqueue")
    /\ UNCHANGED <<rest, row, probes, disks, old, clientVars, sweep, faults>>

\* A job of an entry that is gone is refused.
EnqueueLogged(r) ==
    LET u == reqs[r].up IN
    /\ At(r, "enqueue")
    /\ \/ probes' = [probes EXCEPT ![u] = IF entry[u] = "gone" THEN @ ELSE @ + 1]
       \/ UNCHANGED probes
    /\ Goto(r, "unrow") /\ UNCHANGED client
    /\ UNCHANGED <<rest, entry, row, disks, old, sweep, faults, assumed>>
FinishEnqueue(r) ==
    LET u == reqs[r].up IN
    /\ At(r, "enqueue")
    /\ IF entry[u] = "gone" THEN Fail(r) /\ UNCHANGED probes
       ELSE /\ probes' = [probes EXCEPT ![u] = @ + 1]
            /\ Goto(r, "unrow") /\ UNCHANGED client
    /\ UNCHANGED <<rest, entry, row, disks, old, sweep, faults, assumed>>

\* A row that cannot be deleted is left to the sweep.
FinishRow(r) ==
    /\ At(r, "unrow")
    /\ \/ row' = row \ {reqs[r].up} /\ UNCHANGED faults
       \/ Fault("error") /\ UNCHANGED row
    /\ Succeed(r)
    /\ UNCHANGED <<rest, entry, probes, disks, old, sweep, assumed>>

\* A statement or the store fails. Without a client the context of the request ends.
RequestFails(r) ==
    /\ reqs[r].step \in {"post", "row", "store", "update", "enqueue"}
    /\ IF reqs[r].heard THEN Fault("error") ELSE UNCHANGED faults
    /\ Fail(r)
    /\ UNCHANGED <<rest, tables, disks, old, sweep, assumed>>

-----------------------------------------------------------------------------
(* The ways an upload ends before its time.                                 *)

\* Of some other client of the API.
Terminating(u) == [Sends("terminate", u, 0, 0) EXCEPT !.heard = FALSE]

\* Terminate: the spool ...
TerminateSpool(r) ==
    /\ "terminate" \in day /\ r \in Free
    /\ \E u \in row \ taken :
          /\ spool' = [spool EXCEPT ![u] = NoFile]
          /\ reqs' = Unlink([reqs EXCEPT ![r] = Terminating(u)], u)
          /\ taken' = taken \cup {u}
    /\ UNCHANGED <<day, tables, original, old, clientVars, sweep, faults>>

\* ... the row, and then the entry if it is still 'uploading'.
TerminateRow(r) ==
    /\ At(r, "terminate")
    /\ row' = row \ {reqs[r].up}
    /\ Goto(r, "drop")
    /\ UNCHANGED <<rest, entry, probes, disks, old, clientVars, sweep, faults>>
TerminateEntry(r) ==
    LET u == reqs[r].up IN
    /\ At(r, "drop")
    /\ entry' = [entry EXCEPT ![u] = IF @ = "uploading" THEN "gone" ELSE @]
    /\ row' = row \ {v \in {u} : entry[v] = "uploading"}
    /\ Answer(r, NoReq)
    /\ UNCHANGED <<rest, probes, disks, old, clientVars, sweep, faults>>

\* The entry is deleted in the console; the row goes with it, the spool does not.
DeleteEntry(u) ==
    /\ "delete" \in day /\ entry[u] \in {"uploading", "probing"}
    /\ entry' = [entry EXCEPT ![u] = "gone"] /\ row' = row \ {u}
    /\ UNCHANGED <<rest, probes, disks, old, reqs, clientVars, sweep, faults>>

Age(u) ==
    /\ "aged" \in day /\ entry[u] # "none" /\ u \notin old
    /\ old' = old \cup {u}
    /\ UNCHANGED <<rest, tables, disks, reqs, clientVars, sweep, faults>>

-----------------------------------------------------------------------------
(* cleanupStaleUploads.                                                     *)

Stranded == {u \in old \ row : entry[u] = "uploading"}

SweepRead ==
    /\ sweep.step = "off" /\ (old \cap row) \cup Stranded # {}
    /\ sweep' = [step |-> "spool", ids |-> old \cap row]
    /\ UNCHANGED <<rest, tables, disks, old, reqs, clientVars, faults>>
SweepSpool ==
    LET u == SomeOf(sweep.ids) IN
    /\ sweep.step = "spool" /\ sweep.ids # {}
    /\ spool' = [spool EXCEPT ![u] = NoFile] /\ reqs' = Unlink(reqs, u)
    /\ sweep' = [sweep EXCEPT !.step = "row"]
    /\ taken' = taken \cup {u}
    /\ UNCHANGED <<day, tables, original, old, clientVars, faults>>
\* An error puts the rest off to the next hour.
SweepRow ==
    LET u == SomeOf(sweep.ids) IN
    /\ sweep.step = "row"
    /\ \/ /\ row' = row \ {u} /\ UNCHANGED faults
          /\ sweep' = [step |-> "spool", ids |-> sweep.ids \ {u}]
       \/ Fault("error") /\ sweep' = NoSweep /\ UNCHANGED row
    /\ UNCHANGED <<rest, entry, probes, disks, old, reqs, clientVars>>

SweepOnlyRead == sweep.step = "spool" /\ sweep.ids = {} /\ sweep' = NoSweep
                 /\ UNCHANGED <<rest, tables, disks, old, reqs, clientVars, faults>>
\* The entries that never got their file.
SweepEntries ==
    /\ sweep.step = "spool" /\ sweep.ids = {}
    /\ entry' = [u \in Upload |-> IF u \in Stranded THEN "gone" ELSE entry[u]]
    /\ sweep' = NoSweep
    /\ UNCHANGED <<rest, row, probes, disks, old, reqs, clientVars, faults>>

Sweep == SweepRead \/ SweepSpool \/ SweepRow \/ SweepEntries

Handler(r) ==
    \/ PostEntry(r) \/ PostRow(r) \/ HeadFile(r)
    \/ PatchFile(r) \/ WriteOpen(r) \/ WritePart(r) \/ WriteBreaks(r)
    \/ FinishStat(r) \/ FinishStore(r) \/ FinishRemove(r)
    \/ FinishUpdate(r) \/ FinishEnqueue(r) \/ FinishRow(r) \/ RequestFails(r)
    \/ TerminateRow(r) \/ TerminateEntry(r)

UploadsNext ==
    \/ StartUpload \/ AbortUpload \/ RestartServer
    \/ \E r \in Req : Handler(r) \/ LoseConnection(r) \/ TerminateSpool(r)
    \/ \E u \in Upload : DeleteEntry(u) \/ Age(u)
    \/ Sweep

UploadsSpec == UploadsInit /\ [][UploadsNext]_uploadsVars

-----------------------------------------------------------------------------
(* Properties.                                                              *)

UploadsTypeOK ==
    /\ day \in Days
    /\ entry \in [Upload -> {"none", "uploading", "probing", "gone"}]
    /\ row \subseteq Upload /\ old \subseteq Upload /\ probes \in [Upload -> Nat]
    /\ spool \in [Upload -> 0..NoFile] /\ original \in [Upload -> 0..NoFile]
    /\ reqs \in [Req -> [step : {"none", "post", "row", "head", "patch", "open", "write", "finish", "store",
                                 "remove", "update", "enqueue", "unrow", "terminate", "drop"},
                         up : Upload \cup {0}, off : 0..Size, end : 0..Size,
                         linked : BOOLEAN, heard : BOOLEAN]]
    /\ client \in [phase : {"new", "waiting", "paused", "done", "failed"},
                   url : Upload \cup {0}, tries : 0..MaxTries]
    /\ sweep \in [step : {"off", "spool", "row"}, ids : SUBSET Upload]
    /\ faults \in 0..MaxFaults /\ assumed \in BOOLEAN /\ taken \subseteq Upload

\* A file whose last PATCH is answered well is stored whole and its probe is
\* queued, or the entry has been deleted: "Completion flips the entry into the
\* probe pipeline" (upload.go:4). A file that a HEAD finds complete is left out:
\* its FinishUpload may have failed. And the stored file may be short if its
\* spool was removed during the upload, or if a request that outlived its client
\* makes the spool anew and a third one stores that.
DoneIsStored ==
    client.phase = "done" /\ ~assumed =>
        LET u == client.url IN
        \/ entry[u] = "gone"
        \/ entry[u] = "probing" /\ probes[u] > 0 /\ (u \in taken \/ original[u] = Size)

\* An entry does not stay 'uploading' for ever, whatever fails, stops or is
\* given up on the way (cleanup.go:11-14).
UploadsEnd ==
    \A u \in Upload : "aged" \in day /\ entry[u] = "uploading" ~> entry[u] # "uploading"
=============================================================================
