--------------------------- MODULE PipelineProofs ---------------------------
(***************************************************************************)
(* The life of an entry, for any number of flavors, jobs and requests.     *)
(*                                                                         *)
(* Its rows and its files agree (SpecFilesMatchRows), whatever happens to   *)
(* them. A transcode works alone (Alone), on a flavor that does not read   *)
(* 'done' (AtWorkUndone), and its output stays until it notes the outcome   *)
(* (OutputThere): so a flavor that is done has its files (DoneThere). An    *)
(* entry that is gone has no flavors any more, and no files but those that  *)
(* are being written (GoneEmpty).                                          *)
(*                                                                         *)
(* Nothing is forgotten silently (SpecUnsettledHasJob, SpecQuietSettled):   *)
(* each flavor that is not settled has somebody who sees to it (CoverInv), *)
(* and so has the status of the entry (StatusInv), or else the queue shows  *)
(* a job that lapsed (AnyShown).                                           *)
(*                                                                         *)
(* And a ready entry plays what is done (SpecReadyPlayable), for one of    *)
(* two reasons: without cancels and lapsed transcodes a playlist that is   *)
(* not right is written again (UncutInv); in one run it is written by the  *)
(* last job alive (OneRunInv). A playlist that could not be written still  *)
(* lists no flavor without a row (PlaylistInv).                            *)
(***************************************************************************)
EXTENDS Pipeline, WellFoundedInduction, TLAPS

RowsTyped ==
    /\ status \in EntryStatus /\ source \in BOOLEAN
    /\ flavors \in [Flavor -> FlavorStatus]
StoreTyped ==
    /\ media \subseteq {"original", "poster", "master"}
    /\ files \subseteq Flavor /\ torn \subseteq Flavor /\ listed \subseteq Flavor \cup {SourceItself}
JobsTyped ==
    /\ kind \in [Job -> {"none", "download", "probe", "transcode"}]
    /\ target \in [Job -> Flavor \cup {0}]
    /\ state \in [Job -> {"none", "queued", "running", "deleted"}]
    /\ attempts \in [Job -> Nat]
    /\ flagged \in [Job -> BOOLEAN]
    /\ dropped \subseteq Flavor \cup {0}
HandsTyped ==
    /\ phase \in [Actor -> JobPhase \cup RequestPhase]
    /\ ctx \in [Actor -> BOOLEAN]
    /\ todo \in [Actor -> SUBSET Flavor]
    /\ seen \in [Actor -> SUBSET Flavor]
    /\ grew \subseteq Request
PartsTyped == RowsTyped /\ StoreTyped /\ JobsTyped /\ HandsTyped

\* The slots of the outstanding jobs and the goroutines that run them.
SlotInv ==
    \A j \in Job :
        /\ state[j] = "none" => kind[j] = "none"
        /\ state[j] \in {"none", "queued"} => phase[j] = "idle"
        /\ phase[j] = "lost" => state[j] = "running"
        /\ state[j] = "deleted" => InHand(j) /\ ~RowExists
        /\ kind[j] = "transcode" => target[j] \in Flavor
ToPrepare == \A r \in Request : phase[r] = "prepare" => todo[r] # {}
Typed == PartsTyped /\ SlotInv /\ ToPrepare

\* Guard keeps the transcodes of the entry apart.
Transcoding(j) == kind[j] = "transcode" /\ state[j] = "running"
Alone == \A j, k \in Job : Transcoding(j) /\ Transcoding(k) => j = k

GoneUnflavored == ~RowExists => \A f \in Flavor : flavors[f] = "none"
Swept == \E r \in Request : phase[r] = "swept"
Removing(f) == \E r \in Request : phase[r] = "remove" /\ f = First(seen[r])

AtWorkUndone ==
    \A j \in Job :
        /\ At(j, "transcode", "check") /\ ctx[j] => flavors[target[j]] # "done"
        /\ kind[j] = "transcode" /\ phase[j] \in {"encode", "encoding", "encoded", "done"}
              => flavors[target[j]] # "done"
OutputThere ==
    \A j \in Job :
        kind[j] = "transcode" /\ phase[j] \in {"encoding", "encoded", "done"}
            => target[j] \in files \cup torn \/ Swept \/ ~RowExists
DoneThere == \A f \in Done : f \in files \cup torn \/ Swept \/ Removing(f)

Sweeping == \E r \in Request : phase[r] = "sweep"
SweptIsGone == Sweeping => ~RowExists
Writing(f) == \E j \in Job : /\ kind[j] = "transcode" /\ target[j] = f
                             /\ phase[j] \in {"encoding", "encoded"}
GoneEmpty == "crash" \notin scenario /\ ~RowExists => Sweeping \/ \A f \in files : Writing(f)

FilesInv ==
    /\ GoneUnflavored /\ AtWorkUndone /\ OutputThere /\ DoneThere
    /\ SweptIsGone /\ GoneEmpty
PipelineInv == Typed /\ Alone /\ FilesInv
-----------------------------------------------------------------------------
\* The first of some flavors is one of them.
LEMMA FirstIn ==
    ASSUME NEW S \in SUBSET Nat, S # {}
    PROVE  First(S) \in S
<1> DEFINE R == {ss \in Nat \X Nat : ss[1] < ss[2]}
<1>0. IsWellFoundedOn(R, Nat)
  BY NatLessThanWellFounded DEF OpToRel
<1> HIDE DEF R
<1>1. \E f \in S : \A g \in S : ~(<<g, f>> \in R)
  BY <1>0, WFMin
<1>2. \A f, g \in Nat : <<g, f>> \in R <=> g < f
  BY DEF R
<1>3. PICK f \in S : \A g \in S : ~(<<g, f>> \in R)
  BY <1>1
<1>4. \A g \in S : g \in Nat /\ f \in Nat /\ ~(g < f)
  BY <1>2, <1>3
<1>5. \A g \in S : f <= g
  BY <1>4
<1> QED
  BY <1>3, <1>5 DEF First

-----------------------------------------------------------------------------
\* What the helpers of the actions leave typed.
LEMMA ForgetTyped ==
    ASSUME JobsTyped, NEW j \in Job, Forget(j), dropped' \subseteq dropped \cup {target[j]}
    PROVE  JobsTyped'
<1>1. /\ kind' \in [Job -> {"none", "download", "probe", "transcode"}]
      /\ target' \in [Job -> Flavor \cup {0}]
  BY DEF Forget, JobsTyped
<1>2. /\ state' \in [Job -> {"none", "queued", "running", "deleted"}]
      /\ attempts' \in [Job -> Nat] /\ flagged' \in [Job -> BOOLEAN]
  BY DEF Forget, JobsTyped
<1>3. dropped' \subseteq Flavor \cup {0}
  BY DEF JobsTyped
<1> QED
  BY <1>1, <1>2, <1>3 DEF JobsTyped

LEMMA JobsKept == JobsTyped /\ UNCHANGED jobs => JobsTyped'
  BY DEF jobs, JobsTyped

LEMMA EnqueueTyped ==
    ASSUME JobsTyped, NEW k \in {"probe", "transcode"}, NEW f \in Flavor \cup {0}, Enqueue(k, f)
    PROVE  JobsTyped'
<1>1. PICK j \in Job : /\ kind' = [kind EXCEPT ![j] = k] /\ target' = [target EXCEPT ![j] = f]
                       /\ state' = [state EXCEPT ![j] = "queued"] /\ dropped' = dropped \ {f}
                       /\ UNCHANGED <<attempts, flagged>>
  BY DEF Enqueue, FreeJobs
<1>2. /\ kind' \in [Job -> {"none", "download", "probe", "transcode"}]
      /\ target' \in [Job -> Flavor \cup {0}]
      /\ state' \in [Job -> {"none", "queued", "running", "deleted"}]
  BY <1>1 DEF JobsTyped
<1> QED
  BY <1>1, <1>2 DEF JobsTyped

LEMMA GotoTyped ==
    ASSUME HandsTyped, NEW a \in Actor, NEW p \in JobPhase \cup RequestPhase, Goto(a, p), UNCHANGED local
    PROVE  HandsTyped'
  BY DEF HandsTyped, Goto, local

LEMMA RespondTyped ==
    ASSUME HandsTyped, NEW r \in Request, Respond(r)
    PROVE  HandsTyped'
  BY DEF HandsTyped, Respond, Over, Goto, ResetLocals, Actor, RequestPhase

(* Every step keeps the rows, the store, the jobs and the goroutines in    *)
(* their domains.                                                          *)
LEMMA StepRowsTyped == Typed /\ [Next]_vars => RowsTyped'
<1> SUFFICES ASSUME Typed, [Next]_vars PROVE RowsTyped'
  OBVIOUS
<1> USE PipelineAssumption DEF Typed, PartsTyped, SlotInv, ToPrepare, Actor
<1>1. ASSUME NEW j \in Job, Claim(j) PROVE RowsTyped'
  BY <1>1, FirstIn DEF Claim, Goto, rows, output, store, local, Guard, EntryStatus, FlavorStatus,
     RowsTyped, StoreTyped, JobsTyped, HandsTyped
<1>2. ASSUME NEW j \in Job, Settle(j) PROVE RowsTyped'
  BY <1>2, FirstIn DEF Settle, Retried, LeftRunning, Drop, Goto, Forget, ResetLocals, rows, output, store, jobs, EntryStatus,
     FlavorStatus, RowsTyped, StoreTyped, JobsTyped, HandsTyped
<1>3. ASSUME NEW j \in Job, RequestCancel(j) PROVE RowsTyped'
  BY <1>3, FirstIn DEF RequestCancel, Drop, Forget, rows, output, store, local, EntryStatus,
     FlavorStatus, RowsTyped, StoreTyped, JobsTyped, HandsTyped
<1>4. ASSUME NEW j \in Job, WatcherFires(j) PROVE RowsTyped'
  BY <1>4, FirstIn DEF WatcherFires, InHand, rows, output, store, jobs, EntryStatus, FlavorStatus,
     RowsTyped, StoreTyped, JobsTyped, HandsTyped
<1>5. ASSUME NEW j \in Job, Crash(j) PROVE RowsTyped'
  BY <1>5, FirstIn DEF Crash, Goto, Forget, ResetLocals, InHand, rows, output, store, jobs,
     EntryStatus, FlavorStatus, RowsTyped, StoreTyped, JobsTyped, HandsTyped
<1>6. ASSUME RequeueStale PROVE RowsTyped'
  BY <1>6, FirstIn DEF RequeueStale, entryRow, output, store, local, EntryStatus, FlavorStatus,
     RowsTyped, StoreTyped, JobsTyped, HandsTyped
<1>7. ASSUME NEW j \in Job, DownloadStep(j) PROVE RowsTyped'
  BY <1>7, FirstIn DEF DownloadStep, DownloadFetch, SetStatus, Goto, At, FailEntry, Writes,
     RowExists, rows, output, store, jobs, local, DownloadPut, DownloadUpdate, DownloadEnqueue,
     Enqueue, FreeJobs, CheckEntry, EntryStatus, FlavorStatus, RowsTyped, StoreTyped, JobsTyped,
     HandsTyped
<1>8. ASSUME NEW j \in Job, ProbeStep(j) PROVE RowsTyped'
  BY <1>8, FirstIn DEF ProbeStep, ProbeSource, SetStatus, Goto, At, FailEntry, Writes, RowExists,
     rows, output, store, jobs, local, ProbePoster, ProbeRead, Ticked, Pending, Skipped,
     ProbeReset, entryRow, ProbePublish, SourceItself, ProbeReady, ProbeTranscoding, ProbeEnqueue,
     Enqueue, FreeJobs, CheckEntry, EntryStatus, FlavorStatus, RowsTyped, StoreTyped, JobsTyped,
     HandsTyped
<1>9. ASSUME NEW j \in Job, TranscodeStep(j) PROVE RowsTyped'
  BY <1>9, FirstIn DEF TranscodeStep, TranscodeSpool, SetStatus, Goto, At, FailEntry, Writes,
     RowExists, rows, output, store, jobs, local, TranscodeMark, SetFlavor, entryRow,
     TranscodeEncode, EncodeEnds, DropPartial, EncodeCheck, TranscodeDone, FinalizeCheck,
     FinalizeRemaining, Remaining, LastFlavor, FinalizeDone, Done, FinalizeFail, FinalizeBuild,
     Renditions, FinalizeMaster, FinalizeReady, CheckEntry, EntryStatus, FlavorStatus, RowsTyped,
     StoreTyped, JobsTyped, HandsTyped
<1>10. ASSUME NEW r \in Request, Arrive(r) PROVE RowsTyped'
  BY <1>10, FirstIn DEF Arrive, Reprocess, Goto, Enqueue, Requested, RowExists, FreeJobs, rows,
     output, store, local, Edit, jobs, Delete, EntryStatus, FlavorStatus, RowsTyped, StoreTyped,
     JobsTyped, HandsTyped
<1>11. ASSUME NEW r \in Request, Serve(r) PROVE RowsTyped'
  BY <1>11, FirstIn DEF Serve, ReprocessStatus, SetStatus, Goto, ResetLocals, Respond, Over,
     Writes, RowExists, output, store, jobs, EditInsert, entryRow, local, EditEnqueue, Enqueue,
     FreeJobs, rows, EditRemoveFiles, AtWork, EditRemoveRow, EditStatus, EditRebuild, Done,
     EditMaster, EditCount, EditFail, DeleteRow, InHand, DeleteSweep, EntryStatus, FlavorStatus,
     RowsTyped, StoreTyped, JobsTyped, HandsTyped
<1>12. ASSUME UNCHANGED vars PROVE RowsTyped'
  BY <1>12, FirstIn DEF vars, rows, output, store, jobs, local, EntryStatus, FlavorStatus,
     RowsTyped, StoreTyped, JobsTyped, HandsTyped
<1> QED
  BY <1>1, <1>2, <1>3, <1>4, <1>5, <1>6, <1>7, <1>8, <1>9, <1>10, <1>11, <1>12 DEF Next, Step, Handle

LEMMA StepStoreTyped == Typed /\ [Next]_vars => StoreTyped'
<1> SUFFICES ASSUME Typed, [Next]_vars PROVE StoreTyped'
  OBVIOUS
<1> USE PipelineAssumption DEF Typed, PartsTyped, SlotInv, ToPrepare, Actor
<1>1. ASSUME NEW j \in Job, Claim(j) PROVE StoreTyped'
  BY <1>1, FirstIn DEF Claim, Goto, rows, output, store, local, Guard, RowsTyped, StoreTyped,
     JobsTyped, HandsTyped
<1>2. ASSUME NEW j \in Job, Settle(j) PROVE StoreTyped'
  BY <1>2, FirstIn DEF Settle, Retried, LeftRunning, Drop, Goto, Forget, ResetLocals, rows, output, store, jobs, RowsTyped,
     StoreTyped, JobsTyped, HandsTyped
<1>3. ASSUME NEW j \in Job, RequestCancel(j) PROVE StoreTyped'
  BY <1>3, FirstIn DEF RequestCancel, Drop, Forget, rows, output, store, local, RowsTyped, StoreTyped,
     JobsTyped, HandsTyped
<1>4. ASSUME NEW j \in Job, WatcherFires(j) PROVE StoreTyped'
  BY <1>4, FirstIn DEF WatcherFires, InHand, rows, output, store, jobs, RowsTyped, StoreTyped,
     JobsTyped, HandsTyped
<1>5. ASSUME NEW j \in Job, Crash(j) PROVE StoreTyped'
  BY <1>5, FirstIn DEF Crash, Goto, Forget, ResetLocals, InHand, rows, output, store, jobs,
     RowsTyped, StoreTyped, JobsTyped, HandsTyped
<1>6. ASSUME RequeueStale PROVE StoreTyped'
  BY <1>6, FirstIn DEF RequeueStale, entryRow, output, store, local, RowsTyped, StoreTyped,
     JobsTyped, HandsTyped
<1>7. ASSUME NEW j \in Job, DownloadStep(j) PROVE StoreTyped'
  BY <1>7, FirstIn DEF DownloadStep, DownloadFetch, SetStatus, Goto, At, FailEntry, Writes,
     RowExists, rows, output, store, jobs, local, DownloadPut, DownloadUpdate, DownloadEnqueue,
     Enqueue, FreeJobs, CheckEntry, RowsTyped, StoreTyped, JobsTyped, HandsTyped
<1>8. ASSUME NEW j \in Job, ProbeStep(j) PROVE StoreTyped'
  BY <1>8, FirstIn DEF ProbeStep, ProbeSource, SetStatus, Goto, At, FailEntry, Writes, RowExists,
     rows, output, store, jobs, local, ProbePoster, ProbeRead, Ticked, Pending, Skipped,
     ProbeReset, entryRow, ProbePublish, SourceItself, ProbeReady, ProbeTranscoding, ProbeEnqueue,
     Enqueue, FreeJobs, CheckEntry, RowsTyped, StoreTyped, JobsTyped, HandsTyped
<1>9. ASSUME NEW j \in Job, TranscodeStep(j) PROVE StoreTyped'
  <2>1. CASE TranscodeEncode(j)
    BY ZenonT(60), <2>1, FirstIn DEF TranscodeEncode, Goto, At, rows, jobs, local, RowsTyped, StoreTyped,
       JobsTyped, HandsTyped
  <2>2. CASE EncodeEnds(j)
    BY <2>2, FirstIn DEF EncodeEnds, SetFlavor, Goto, At, DropPartial, entryRow, jobs, local,
       RowsTyped, StoreTyped, JobsTyped, HandsTyped
  <2>3. CASE EncodeCheck(j)
    BY <2>3, FirstIn DEF EncodeCheck, Goto, At, Writes, RowExists, DropPartial, rows, jobs, local,
       RowsTyped, StoreTyped, JobsTyped, HandsTyped
  <2>4. CASE FinalizeMaster(j)
    BY <2>4, FirstIn DEF FinalizeMaster, Goto, At, rows, output, jobs, local, RowsTyped,
       StoreTyped, JobsTyped, HandsTyped
  <2>5. CASE TranscodeSpool(j) \/ TranscodeMark(j) \/ TranscodeDone(j) \/ FinalizeCheck(j) \/ FinalizeRemaining(j) \/ FinalizeDone(j) \/ FinalizeFail(j) \/ FinalizeBuild(j) \/ FinalizeReady(j) \/ CheckEntry(j, "transcode", "start", "spool") \/ CheckEntry(j, "transcode", "check", "encode")
    BY <2>5 DEF TranscodeSpool, SetStatus, Goto, At, FailEntry, Writes, RowExists, rows, output,
       store, jobs, local, TranscodeMark, SetFlavor, entryRow, TranscodeDone, FinalizeCheck,
       FinalizeRemaining, Remaining, LastFlavor, FinalizeDone, Done, FinalizeFail, FinalizeBuild,
       Renditions, FinalizeReady, CheckEntry, RowsTyped, StoreTyped, JobsTyped, HandsTyped
  <2> QED
    BY <1>9, <2>1, <2>2, <2>3, <2>4, <2>5 DEF TranscodeStep
<1>10. ASSUME NEW r \in Request, Arrive(r) PROVE StoreTyped'
  BY <1>10, FirstIn DEF Arrive, Reprocess, Goto, Enqueue, Requested, RowExists, FreeJobs, rows,
     output, store, local, Edit, jobs, Delete, RowsTyped, StoreTyped, JobsTyped, HandsTyped
<1>11. ASSUME NEW r \in Request, Serve(r) PROVE StoreTyped'
  <2>1. CASE EditRemoveFiles(r)
    <3>1. First(seen[r]) \in Flavor
      BY <2>1, FirstIn DEF EditRemoveFiles, HandsTyped
    <3> QED
      BY <2>1, <3>1 DEF EditRemoveFiles, StoreTyped
  <2>2. CASE EditMaster(r)
    BY <2>2, FirstIn DEF EditMaster, Goto, ResetLocals, Respond, Over, rows, output, jobs, local,
       RowsTyped, StoreTyped, JobsTyped, HandsTyped
  <2>3. CASE DeleteSweep(r)
    BY <2>3, FirstIn DEF DeleteSweep, Goto, Over, rows, jobs, local, RowsTyped, StoreTyped,
       JobsTyped, HandsTyped
  <2>4. CASE ReprocessStatus(r) \/ EditInsert(r) \/ EditEnqueue(r) \/ EditRemoveRow(r) \/ EditStatus(r) \/ EditRebuild(r) \/ EditCount(r) \/ EditFail(r) \/ DeleteRow(r)
    BY <2>4 DEF ReprocessStatus, SetStatus, Goto, ResetLocals, Respond, Over, Writes, RowExists,
       output, store, jobs, EditInsert, entryRow, local, EditEnqueue, Enqueue, FreeJobs, rows,
       EditRemoveRow, EditStatus, EditRebuild, Done, EditCount, EditFail, DeleteRow, InHand,
       RowsTyped, StoreTyped, JobsTyped, HandsTyped
  <2> QED
    BY <1>11, <2>1, <2>2, <2>3, <2>4 DEF Serve
<1>12. ASSUME UNCHANGED vars PROVE StoreTyped'
  BY <1>12, FirstIn DEF vars, rows, output, store, jobs, local, RowsTyped, StoreTyped, JobsTyped,
     HandsTyped
<1> QED
  BY <1>1, <1>2, <1>3, <1>4, <1>5, <1>6, <1>7, <1>8, <1>9, <1>10, <1>11, <1>12 DEF Next, Step, Handle

LEMMA StepJobsTyped == Typed /\ [Next]_vars => JobsTyped'
<1> SUFFICES ASSUME Typed, [Next]_vars PROVE JobsTyped'
  OBVIOUS
<1> USE PipelineAssumption DEF Typed, PartsTyped, SlotInv, ToPrepare, Actor
<1>1. ASSUME NEW j \in Job, Claim(j) PROVE JobsTyped'
  BY <1>1, FirstIn DEF Claim, Goto, rows, output, store, local, Guard, RowsTyped, StoreTyped,
     JobsTyped, HandsTyped
<1>2. ASSUME NEW j \in Job, Settle(j) PROVE JobsTyped'
  <2>1. CASE Drop(j) \/ (Forget(j) /\ UNCHANGED dropped)
    BY <2>1, ForgetTyped DEF Drop
  <2>2. CASE UNCHANGED jobs
    BY <2>2 DEF jobs, JobsTyped
  <2>3. CASE state' = [state EXCEPT ![j] = "queued"] /\ UNCHANGED <<kind, target, attempts, flagged, dropped>>
    BY <2>3 DEF JobsTyped
  <2> QED
    BY <1>2, <2>1, <2>2, <2>3 DEF Settle
<1>3. ASSUME NEW j \in Job, RequestCancel(j) PROVE JobsTyped'
  <2>1. CASE Drop(j)
    BY <2>1, ForgetTyped DEF Drop
  <2>2. CASE flagged' = [flagged EXCEPT ![j] = TRUE] /\ UNCHANGED <<kind, target, state, attempts, dropped>>
    BY <2>2 DEF JobsTyped
  <2> QED
    BY <1>3, <2>1, <2>2 DEF RequestCancel
<1>4. ASSUME NEW j \in Job, WatcherFires(j) PROVE JobsTyped'
  BY <1>4, FirstIn DEF WatcherFires, InHand, rows, output, store, jobs, RowsTyped, StoreTyped,
     JobsTyped, HandsTyped
<1>5. ASSUME NEW j \in Job, Crash(j) PROVE JobsTyped'
  BY <1>5, ForgetTyped, JobsKept DEF Crash
<1>6. ASSUME RequeueStale PROVE JobsTyped'
  BY <1>6, FirstIn DEF RequeueStale, entryRow, output, store, local, RowsTyped, StoreTyped,
     JobsTyped, HandsTyped
<1>7. ASSUME NEW j \in Job, DownloadStep(j) PROVE JobsTyped'
  <2>1. UNCHANGED jobs \/ Enqueue("probe", 0)
    BY <1>7 DEF DownloadStep, DownloadFetch, FailEntry, DownloadPut, DownloadUpdate, DownloadEnqueue, CheckEntry
  <2> QED
    BY <2>1, JobsKept, EnqueueTyped
<1>8. ASSUME NEW j \in Job, ProbeStep(j) PROVE JobsTyped'
  <2>1. UNCHANGED jobs \/ (seen[j] # {} /\ Enqueue("transcode", First(seen[j])))
    BY <1>8 DEF ProbeStep, ProbeSource, FailEntry, ProbePoster, ProbeRead, ProbeReset, ProbePublish,
       ProbeReady, ProbeTranscoding, ProbeEnqueue, CheckEntry
  <2>2. CASE UNCHANGED jobs
    BY <2>2, JobsKept
  <2>3. CASE seen[j] # {} /\ Enqueue("transcode", First(seen[j]))
    <3>1. First(seen[j]) \in Flavor
      BY <2>3, FirstIn DEF HandsTyped
    <3> QED
      BY <2>3, <3>1, EnqueueTyped
  <2> QED
    BY <2>1, <2>2, <2>3
<1>9. ASSUME NEW j \in Job, TranscodeStep(j) PROVE JobsTyped'
  BY <1>9, FirstIn DEF TranscodeStep, TranscodeSpool, SetStatus, Goto, At, FailEntry, Writes,
     RowExists, rows, output, store, jobs, local, TranscodeMark, SetFlavor, entryRow,
     TranscodeEncode, EncodeEnds, DropPartial, EncodeCheck, TranscodeDone, FinalizeCheck,
     FinalizeRemaining, Remaining, LastFlavor, FinalizeDone, Done, FinalizeFail, FinalizeBuild,
     Renditions, FinalizeMaster, FinalizeReady, CheckEntry, RowsTyped, StoreTyped, JobsTyped,
     HandsTyped
<1>10. ASSUME NEW r \in Request, Arrive(r) PROVE JobsTyped'
  <2>1. UNCHANGED jobs \/ Enqueue("probe", 0)
    BY <1>10 DEF Arrive, Reprocess, Edit, Delete
  <2> QED
    BY <2>1, JobsKept, EnqueueTyped
<1>11. ASSUME NEW r \in Request, Serve(r) PROVE JobsTyped'
  <2>1. CASE EditEnqueue(r)
    <3>1. First(todo[r]) \in Flavor
      BY <2>1, FirstIn DEF EditEnqueue, HandsTyped
    <3>2. UNCHANGED jobs \/ Enqueue("transcode", First(todo[r]))
      BY <2>1 DEF EditEnqueue
    <3> QED
      BY <3>1, <3>2, JobsKept, EnqueueTyped
  <2>2. CASE DeleteRow(r)
    BY <2>2, FirstIn DEF DeleteRow, RowExists, InHand, output, store, local, RowsTyped,
       StoreTyped, JobsTyped, HandsTyped
  <2>3. CASE ReprocessStatus(r) \/ EditInsert(r) \/ EditRemoveFiles(r) \/ EditRemoveRow(r) \/ EditStatus(r) \/ EditRebuild(r) \/ EditMaster(r) \/ EditCount(r) \/ EditFail(r) \/ DeleteSweep(r)
    BY <2>3 DEF ReprocessStatus, SetStatus, Goto, ResetLocals, Respond, Over, Writes, RowExists,
       output, store, jobs, EditInsert, entryRow, local, EditRemoveFiles, AtWork, rows,
       EditRemoveRow, EditStatus, EditRebuild, Done, EditMaster, EditCount, EditFail, DeleteSweep,
       RowsTyped, StoreTyped, JobsTyped, HandsTyped
  <2> QED
    BY <1>11, <2>1, <2>2, <2>3 DEF Serve
<1>12. ASSUME UNCHANGED vars PROVE JobsTyped'
  BY <1>12, FirstIn DEF vars, rows, output, store, jobs, local, RowsTyped, StoreTyped, JobsTyped,
     HandsTyped
<1> QED
  BY <1>1, <1>2, <1>3, <1>4, <1>5, <1>6, <1>7, <1>8, <1>9, <1>10, <1>11, <1>12 DEF Next, Step, Handle

LEMMA StepHandsTyped == Typed /\ [Next]_vars => HandsTyped'
<1> SUFFICES ASSUME Typed, [Next]_vars PROVE HandsTyped'
  OBVIOUS
<1> USE PipelineAssumption DEF Typed, PartsTyped, SlotInv, ToPrepare, Actor
<1>1. ASSUME NEW j \in Job, Claim(j) PROVE HandsTyped'
  BY <1>1, FirstIn DEF Claim, Goto, rows, output, store, local, Guard, JobPhase, RequestPhase,
     RowsTyped, StoreTyped, JobsTyped, HandsTyped
<1>2. ASSUME NEW j \in Job, Settle(j) PROVE HandsTyped'
  BY <1>2, FirstIn DEF Settle, Retried, LeftRunning, Drop, Goto, Forget, ResetLocals, rows, output, store, jobs, JobPhase,
     RequestPhase, RowsTyped, StoreTyped, JobsTyped, HandsTyped
<1>3. ASSUME NEW j \in Job, RequestCancel(j) PROVE HandsTyped'
  BY <1>3, FirstIn DEF RequestCancel, Drop, Forget, rows, output, store, local, JobPhase, RequestPhase,
     RowsTyped, StoreTyped, JobsTyped, HandsTyped
<1>4. ASSUME NEW j \in Job, WatcherFires(j) PROVE HandsTyped'
  BY <1>4, FirstIn DEF WatcherFires, InHand, rows, output, store, jobs, JobPhase, RequestPhase,
     RowsTyped, StoreTyped, JobsTyped, HandsTyped
<1>5. ASSUME NEW j \in Job, Crash(j) PROVE HandsTyped'
  BY <1>5, FirstIn DEF Crash, Goto, Forget, ResetLocals, InHand, rows, output, store, jobs,
     JobPhase, RequestPhase, RowsTyped, StoreTyped, JobsTyped, HandsTyped
<1>6. ASSUME RequeueStale PROVE HandsTyped'
  BY <1>6, FirstIn DEF RequeueStale, entryRow, output, store, local, JobPhase, RequestPhase,
     RowsTyped, StoreTyped, JobsTyped, HandsTyped
<1>7. ASSUME NEW j \in Job, DownloadStep(j) PROVE HandsTyped'
  BY <1>7, FirstIn DEF DownloadStep, DownloadFetch, SetStatus, Goto, At, FailEntry, Writes,
     RowExists, rows, output, store, jobs, local, DownloadPut, DownloadUpdate, DownloadEnqueue,
     Enqueue, FreeJobs, CheckEntry, JobPhase, RequestPhase, RowsTyped, StoreTyped, JobsTyped,
     HandsTyped
<1>8. ASSUME NEW j \in Job, ProbeStep(j) PROVE HandsTyped'
  BY <1>8, FirstIn DEF ProbeStep, ProbeSource, SetStatus, Goto, At, FailEntry, Writes, RowExists,
     rows, output, store, jobs, local, ProbePoster, ProbeRead, Ticked, Pending, Skipped,
     ProbeReset, entryRow, ProbePublish, SourceItself, ProbeReady, ProbeTranscoding, ProbeEnqueue,
     Enqueue, FreeJobs, CheckEntry, JobPhase, RequestPhase, RowsTyped, StoreTyped, JobsTyped,
     HandsTyped
<1>9. ASSUME NEW j \in Job, TranscodeStep(j) PROVE HandsTyped'
  BY <1>9, FirstIn DEF TranscodeStep, TranscodeSpool, SetStatus, Goto, At, FailEntry, Writes,
     RowExists, rows, output, store, jobs, local, TranscodeMark, SetFlavor, entryRow,
     TranscodeEncode, EncodeEnds, DropPartial, EncodeCheck, TranscodeDone, FinalizeCheck,
     FinalizeRemaining, Remaining, LastFlavor, FinalizeDone, Done, FinalizeFail, FinalizeBuild,
     Renditions, FinalizeMaster, FinalizeReady, CheckEntry, JobPhase, RequestPhase, RowsTyped,
     StoreTyped, JobsTyped, HandsTyped
<1>10. ASSUME NEW r \in Request, Arrive(r) PROVE HandsTyped'
  <2>1. CASE Reprocess(r)
    BY <2>1 DEF Reprocess, Requested, Goto, local, HandsTyped, RequestPhase
  <2>2. ASSUME NEW want \in SUBSET Flavor, Edit(r, want) PROVE HandsTyped'
    BY <2>2 DEF Edit, Requested, Goto, HandsTyped, RequestPhase
  <2>3. CASE Delete(r)
    BY <2>3 DEF Delete, Requested, Goto, local, HandsTyped, RequestPhase
  <2> QED
    BY <1>10, <2>1, <2>2, <2>3 DEF Arrive
<1>11. ASSUME NEW r \in Request, Serve(r) PROVE HandsTyped'
  <2>1. CASE ReprocessStatus(r)
    BY <2>1, FirstIn DEF ReprocessStatus, SetStatus, Goto, ResetLocals, Respond, Over, Writes,
       RowExists, output, store, jobs, JobPhase, RequestPhase, RowsTyped, StoreTyped, JobsTyped,
       HandsTyped
  <2>2. CASE EditInsert(r)
    BY <2>2, RespondTyped, GotoTyped DEF Actor, RequestPhase, EditInsert
  <2>3. CASE EditEnqueue(r)
    <3>1. CASE RowExists
      BY <2>3, <3>1 DEF EditEnqueue, Goto, HandsTyped, JobPhase, RequestPhase
    <3>2. CASE ~RowExists
      BY <2>3, <3>2, RespondTyped DEF EditEnqueue
    <3> QED BY <3>1, <3>2
  <2>4. CASE EditRemoveFiles(r)
    BY <2>4, FirstIn DEF EditRemoveFiles, Goto, AtWork, rows, jobs, local, JobPhase, RequestPhase,
       RowsTyped, StoreTyped, JobsTyped, HandsTyped
  <2>5. CASE EditRemoveRow(r)
    BY <2>5, FirstIn DEF EditRemoveRow, Goto, entryRow, output, store, jobs, JobPhase,
       RequestPhase, RowsTyped, StoreTyped, JobsTyped, HandsTyped
  <2>6. CASE EditStatus(r)
    BY <2>6, RespondTyped, GotoTyped DEF Actor, RequestPhase, EditStatus
  <2>7. CASE EditRebuild(r)
    BY <2>7, FirstIn DEF EditRebuild, Goto, Done, rows, output, store, jobs, JobPhase,
       RequestPhase, RowsTyped, StoreTyped, JobsTyped, HandsTyped
  <2>8. CASE EditMaster(r)
    BY <2>8, RespondTyped, GotoTyped DEF Actor, RequestPhase, EditMaster
  <2>9. CASE EditCount(r)
    BY <2>9, RespondTyped, GotoTyped DEF Actor, RequestPhase, EditCount
  <2>10. CASE EditFail(r)
    BY <2>10, FirstIn DEF EditFail, SetStatus, Goto, ResetLocals, Respond, Over, Writes,
       RowExists, output, store, jobs, JobPhase, RequestPhase, RowsTyped, StoreTyped, JobsTyped,
       HandsTyped
  <2>11. CASE DeleteRow(r)
    BY <2>11, FirstIn DEF DeleteRow, RowExists, InHand, output, store, local, JobPhase,
       RequestPhase, RowsTyped, StoreTyped, JobsTyped, HandsTyped
  <2>12. CASE DeleteSweep(r)
    BY <2>12, FirstIn DEF DeleteSweep, Goto, Over, rows, jobs, local, JobPhase, RequestPhase,
       RowsTyped, StoreTyped, JobsTyped, HandsTyped
  <2> QED
    BY <1>11, <2>1, <2>2, <2>3, <2>4, <2>5, <2>6, <2>7, <2>8, <2>9, <2>10, <2>11, <2>12 DEF Serve
<1>12. ASSUME UNCHANGED vars PROVE HandsTyped'
  BY <1>12, FirstIn DEF vars, rows, output, store, jobs, local, JobPhase, RequestPhase, RowsTyped,
     StoreTyped, JobsTyped, HandsTyped
<1> QED
  BY <1>1, <1>2, <1>3, <1>4, <1>5, <1>6, <1>7, <1>8, <1>9, <1>10, <1>11, <1>12 DEF Next, Step, Handle

\* A free slot stays empty, a job that waits is in no hands, and one whose row is
\* gone is in some; a request prepares a flavor that it still has to handle.
LEMMA StepSlots == Typed /\ [Next]_vars => SlotInv' /\ ToPrepare'
<1> SUFFICES ASSUME Typed, [Next]_vars PROVE SlotInv' /\ ToPrepare'
  OBVIOUS
<1> USE PipelineAssumption DEF Typed, PartsTyped, SlotInv, ToPrepare, Actor
<1>1. ASSUME NEW j \in Job, Claim(j) PROVE SlotInv' /\ ToPrepare'
  BY <1>1 DEF Claim, Goto, rows, output, store, local, Guard, JobsTyped, HandsTyped, RowsTyped,
     InHand, RowExists
<1>2. ASSUME NEW j \in Job, Settle(j) PROVE SlotInv' /\ ToPrepare'
  BY <1>2 DEF Settle, Retried, LeftRunning, Drop, Goto, Forget, ResetLocals, rows, output, store, jobs, JobsTyped, HandsTyped,
     RowsTyped, InHand, RowExists
<1>3. ASSUME NEW j \in Job, RequestCancel(j) PROVE SlotInv' /\ ToPrepare'
  BY <1>3 DEF RequestCancel, Drop, Forget, rows, output, store, local, JobsTyped, HandsTyped, RowsTyped,
     InHand, RowExists
<1>4. ASSUME NEW j \in Job, WatcherFires(j) PROVE SlotInv' /\ ToPrepare'
  BY <1>4 DEF WatcherFires, rows, output, store, jobs, JobsTyped, HandsTyped, RowsTyped, InHand,
     RowExists
<1>5. ASSUME NEW j \in Job, Crash(j) PROVE SlotInv' /\ ToPrepare'
  BY <1>5 DEF Crash, Goto, Forget, ResetLocals, rows, output, store, jobs, JobsTyped, HandsTyped,
     RowsTyped, InHand, RowExists
<1>6. ASSUME RequeueStale PROVE SlotInv' /\ ToPrepare'
  BY <1>6 DEF RequeueStale, entryRow, output, store, local, JobsTyped, HandsTyped, RowsTyped,
     InHand, RowExists
<1>7. ASSUME NEW j \in Job, DownloadStep(j) PROVE SlotInv' /\ ToPrepare'
  BY <1>7 DEF DownloadStep, DownloadFetch, SetStatus, Goto, At, FailEntry, Writes, rows, output,
     store, jobs, local, DownloadPut, DownloadUpdate, DownloadEnqueue, Enqueue, FreeJobs,
     CheckEntry, JobsTyped, HandsTyped, RowsTyped, InHand, RowExists
<1>8. ASSUME NEW j \in Job, ProbeStep(j) PROVE SlotInv' /\ ToPrepare'
  <2>1. CASE ProbeSource(j)
    BY <2>1 DEF ProbeSource, SetStatus, Goto, At, FailEntry, Writes, rows, output, store, jobs,
       local, JobsTyped, HandsTyped, RowsTyped, InHand, RowExists
  <2>2. CASE ProbePoster(j)
    BY <2>2 DEF ProbePoster, Goto, At, rows, output, jobs, local, JobsTyped, HandsTyped,
       RowsTyped, InHand, RowExists
  <2>3. CASE ProbeRead(j)
    BY <2>3 DEF ProbeRead, Goto, At, Ticked, Pending, Skipped, rows, output, store, jobs,
       JobsTyped, HandsTyped, RowsTyped, InHand, RowExists
  <2>4. CASE ProbeReset(j)
    BY <2>4 DEF ProbeReset, At, Writes, Skipped, entryRow, output, store, jobs, JobsTyped,
       HandsTyped, RowsTyped, InHand, RowExists
  <2>5. CASE ProbePublish(j)
    BY <2>5 DEF ProbePublish, Goto, At, SourceItself, rows, output, jobs, local, JobsTyped,
       HandsTyped, RowsTyped, InHand, RowExists
  <2>6. CASE ProbeReady(j)
    BY <2>6 DEF ProbeReady, SetStatus, Goto, At, Writes, output, store, jobs, local, JobsTyped,
       HandsTyped, RowsTyped, InHand, RowExists
  <2>7. CASE ProbeTranscoding(j)
    BY <2>7 DEF ProbeTranscoding, SetStatus, Goto, At, Writes, output, store, jobs, local,
       JobsTyped, HandsTyped, RowsTyped, InHand, RowExists
  <2>8. CASE ProbeEnqueue(j)
    <3>1. CASE UNCHANGED jobs
      BY <2>8, <3>1 DEF ProbeEnqueue, At, Goto, rows, store, jobs, JobsTyped, HandsTyped, RowsTyped,
         InHand, RowExists
    <3>2. CASE Enqueue("transcode", First(seen[j])) /\ seen[j] # {} /\ UNCHANGED phase
      <4>1. PICK k \in FreeJobs :
               /\ kind' = [kind EXCEPT ![k] = "transcode"]
               /\ target' = [target EXCEPT ![k] = First(seen[j])]
               /\ state' = [state EXCEPT ![k] = "queued"]
        BY <3>2 DEF Enqueue
      <4>2. First(seen[j]) \in Flavor /\ k \in Job /\ state[k] = "none" /\ phase[k] = "idle"
        BY <3>2, <4>1, FirstIn DEF FreeJobs, HandsTyped
      <4>3. UNCHANGED <<status, phase>> /\ \A r \in Request : todo'[r] = todo[r]
        BY <2>8, <3>2 DEF ProbeEnqueue, rows
      <4> QED
        BY <4>1, <4>2, <4>3 DEF JobsTyped, HandsTyped, InHand, RowExists
    <3> QED
      BY <2>8, <3>1, <3>2 DEF ProbeEnqueue
  <2>9. CASE CheckEntry(j, "probe", "start", "probe")
    BY <2>9 DEF CheckEntry, Goto, At, Writes, rows, output, store, jobs, local, JobsTyped,
       HandsTyped, RowsTyped, InHand, RowExists
  <2>10. CASE CheckEntry(j, "probe", "check", "poster")
    BY <2>10 DEF CheckEntry, Goto, At, Writes, rows, output, store, jobs, local, JobsTyped,
       HandsTyped, RowsTyped, InHand, RowExists
  <2> QED
    BY <1>8, <2>1, <2>2, <2>3, <2>4, <2>5, <2>6, <2>7, <2>8, <2>9, <2>10 DEF ProbeStep
<1>9. ASSUME NEW j \in Job, TranscodeStep(j) PROVE SlotInv' /\ ToPrepare'
  BY <1>9 DEF TranscodeStep, TranscodeSpool, SetStatus, Goto, At, FailEntry, Writes, rows, output,
     store, jobs, local, TranscodeMark, SetFlavor, entryRow, TranscodeEncode, EncodeEnds,
     DropPartial, EncodeCheck, TranscodeDone, FinalizeCheck, FinalizeRemaining, Remaining,
     LastFlavor, FinalizeDone, Done, FinalizeFail, FinalizeBuild, Renditions, FinalizeMaster,
     FinalizeReady, CheckEntry, JobsTyped, HandsTyped, RowsTyped, InHand, RowExists
<1>10. ASSUME NEW r \in Request, Arrive(r) PROVE SlotInv' /\ ToPrepare'
  BY <1>10 DEF Arrive, Reprocess, Goto, Enqueue, Requested, FreeJobs, rows, output, store, local,
     Edit, jobs, Delete, JobsTyped, HandsTyped, RowsTyped, InHand, RowExists
<1>11. ASSUME NEW r \in Request, Serve(r) PROVE SlotInv' /\ ToPrepare'
  <2>1. CASE ReprocessStatus(r)
    BY <2>1 DEF ReprocessStatus, SetStatus, Goto, ResetLocals, Respond, Over, Writes, output,
       store, jobs, JobsTyped, HandsTyped, RowsTyped, InHand, RowExists
  <2>2. CASE EditInsert(r)
    BY <2>2 DEF EditInsert, Goto, ResetLocals, Respond, Over, entryRow, output, store, jobs,
       local, JobsTyped, HandsTyped, RowsTyped, InHand, RowExists
  <2>3. CASE EditEnqueue(r)
    <3>1. CASE UNCHANGED jobs
      BY <2>3, <3>1 DEF EditEnqueue, Respond, Over, Goto, ResetLocals, rows, store, jobs, JobsTyped,
         HandsTyped, RowsTyped, InHand, RowExists
    <3>2. CASE Enqueue("transcode", First(todo[r])) /\ Goto(r, "insert")
      <4>1. PICK k \in FreeJobs :
               /\ kind' = [kind EXCEPT ![k] = "transcode"]
               /\ target' = [target EXCEPT ![k] = First(todo[r])]
               /\ state' = [state EXCEPT ![k] = "queued"]
        BY <3>2 DEF Enqueue
      <4>2. First(todo[r]) \in Flavor /\ k \in Job /\ state[k] = "none" /\ phase[k] = "idle"
        BY <2>3, <4>1, FirstIn DEF EditEnqueue, FreeJobs, HandsTyped
      <4>3. /\ UNCHANGED status /\ \A q \in Request \ {r} : todo'[q] = todo[q]
            /\ phase' = [phase EXCEPT ![r] = "insert"]
        BY <2>3, <3>2, <4>2 DEF EditEnqueue, Respond, Over, Goto, ResetLocals, rows, HandsTyped
      <4> QED
        BY <4>1, <4>2, <4>3 DEF JobsTyped, HandsTyped, InHand, RowExists
    <3> QED
      BY <2>3, <3>1, <3>2 DEF EditEnqueue
  <2>4. CASE EditRemoveFiles(r)
    BY <2>4 DEF EditRemoveFiles, Goto, AtWork, rows, jobs, local, JobsTyped, HandsTyped,
       RowsTyped, InHand, RowExists
  <2>5. CASE EditRemoveRow(r)
    BY <2>5 DEF EditRemoveRow, Goto, entryRow, output, store, jobs, JobsTyped, HandsTyped,
       RowsTyped, InHand, RowExists
  <2>6. CASE EditStatus(r)
    BY <2>6 DEF EditStatus, Goto, ResetLocals, Respond, Over, output, store, jobs, local,
       JobsTyped, HandsTyped, RowsTyped, InHand, RowExists
  <2>7. CASE EditRebuild(r)
    BY <2>7 DEF EditRebuild, Goto, Done, rows, output, store, jobs, JobsTyped, HandsTyped,
       RowsTyped, InHand, RowExists
  <2>8. CASE EditMaster(r)
    BY <2>8 DEF EditMaster, Goto, ResetLocals, Respond, Over, rows, output, jobs, local,
       JobsTyped, HandsTyped, RowsTyped, InHand, RowExists
  <2>9. CASE EditCount(r)
    BY <2>9 DEF EditCount, Goto, ResetLocals, Respond, Over, Done, rows, output, store, jobs,
       local, JobsTyped, HandsTyped, RowsTyped, InHand, RowExists
  <2>10. CASE EditFail(r)
    BY <2>10 DEF EditFail, SetStatus, Goto, ResetLocals, Respond, Over, Writes, output, store,
       jobs, JobsTyped, HandsTyped, RowsTyped, InHand, RowExists
  <2>11. CASE DeleteRow(r)
    BY <2>11 DEF DeleteRow, output, store, local, JobsTyped, HandsTyped, RowsTyped, InHand,
       RowExists
  <2>12. CASE DeleteSweep(r)
    BY <2>12 DEF DeleteSweep, Goto, Over, rows, jobs, local, JobsTyped, HandsTyped, RowsTyped,
       InHand, RowExists
  <2> QED
    BY <1>11, <2>1, <2>2, <2>3, <2>4, <2>5, <2>6, <2>7, <2>8, <2>9, <2>10, <2>11, <2>12 DEF Serve
<1>12. ASSUME UNCHANGED vars PROVE SlotInv' /\ ToPrepare'
  BY <1>12 DEF vars, rows, store, jobs, local, JobsTyped, HandsTyped, RowsTyped, InHand, RowExists
<1> QED
  BY <1>1, <1>2, <1>3, <1>4, <1>5, <1>6, <1>7, <1>8, <1>9, <1>10, <1>11, <1>12 DEF Next, Step, Handle

-----------------------------------------------------------------------------
\* Only a claim sets a transcode running, and the guard lets it when none is.
LEMMA StepAlone == Typed /\ Alone /\ [Next]_vars => Alone'
<1> SUFFICES ASSUME Typed, Alone, [Next]_vars PROVE Alone'
  OBVIOUS
<1> USE PipelineAssumption DEF Typed, PartsTyped, SlotInv, Alone, Transcoding
<1>1. ASSUME NEW j \in Job, Claim(j) PROVE Alone'
  BY <1>1 DEF Claim, Goto, rows, output, store, local, Guard, JobsTyped, HandsTyped, InHand
<1>2. ASSUME NEW j \in Job, Settle(j) PROVE Alone'
  BY <1>2 DEF Settle, Retried, LeftRunning, Drop, Goto, Forget, ResetLocals, rows, output, store, jobs, JobsTyped, HandsTyped,
     InHand
<1>3. ASSUME NEW j \in Job, RequestCancel(j) PROVE Alone'
  BY <1>3 DEF RequestCancel, Drop, Forget, rows, output, store, local, JobsTyped, HandsTyped, InHand
<1>4. ASSUME NEW j \in Job, WatcherFires(j) PROVE Alone'
  BY <1>4 DEF WatcherFires, rows, output, store, jobs, JobsTyped, HandsTyped, InHand
<1>5. ASSUME NEW j \in Job, Crash(j) PROVE Alone'
  BY <1>5 DEF Crash, Goto, Forget, ResetLocals, rows, output, store, jobs, JobsTyped, HandsTyped,
     InHand
<1>6. ASSUME RequeueStale PROVE Alone'
  BY <1>6 DEF RequeueStale, entryRow, output, store, local, JobsTyped, HandsTyped, InHand
<1>7. ASSUME NEW j \in Job, DownloadStep(j) PROVE Alone'
  BY <1>7 DEF DownloadStep, DownloadFetch, SetStatus, Goto, At, FailEntry, Writes, RowExists,
     rows, output, store, jobs, local, DownloadPut, DownloadUpdate, DownloadEnqueue, Enqueue,
     FreeJobs, CheckEntry, JobsTyped, HandsTyped, InHand
<1>8. ASSUME NEW j \in Job, ProbeStep(j) PROVE Alone'
  BY <1>8 DEF ProbeStep, ProbeSource, SetStatus, Goto, At, FailEntry, Writes, RowExists, rows,
     output, store, jobs, local, ProbePoster, ProbeRead, Ticked, Pending, Skipped, ProbeReset,
     entryRow, ProbePublish, SourceItself, ProbeReady, ProbeTranscoding, ProbeEnqueue, Enqueue,
     FreeJobs, CheckEntry, JobsTyped, HandsTyped, InHand
<1>9. ASSUME NEW j \in Job, TranscodeStep(j) PROVE Alone'
  BY <1>9 DEF TranscodeStep, TranscodeSpool, SetStatus, Goto, At, FailEntry, Writes, RowExists,
     rows, output, store, jobs, local, TranscodeMark, SetFlavor, entryRow, TranscodeEncode,
     EncodeEnds, DropPartial, EncodeCheck, TranscodeDone, FinalizeCheck, FinalizeRemaining,
     Remaining, LastFlavor, FinalizeDone, Done, FinalizeFail, FinalizeBuild, Renditions,
     FinalizeMaster, FinalizeReady, CheckEntry, JobsTyped, HandsTyped, InHand
<1>10. ASSUME NEW r \in Request, Arrive(r) PROVE Alone'
  BY <1>10 DEF Arrive, Reprocess, Goto, Enqueue, Requested, RowExists, FreeJobs, rows, output,
     store, local, Edit, jobs, Delete, JobsTyped, HandsTyped, InHand
<1>11. ASSUME NEW r \in Request, Serve(r) PROVE Alone'
  BY <1>11 DEF Serve, ReprocessStatus, SetStatus, Goto, ResetLocals, Respond, Over, Writes,
     RowExists, output, store, jobs, EditInsert, entryRow, local, EditEnqueue, Enqueue, FreeJobs,
     rows, EditRemoveFiles, AtWork, EditRemoveRow, EditStatus, EditRebuild, Done, EditMaster,
     EditCount, EditFail, DeleteRow, DeleteSweep, JobsTyped, HandsTyped, InHand
<1>12. ASSUME UNCHANGED vars PROVE Alone'
  BY <1>12 DEF vars, jobs, JobsTyped, HandsTyped, InHand
<1> QED
  BY <1>1, <1>2, <1>3, <1>4, <1>5, <1>6, <1>7, <1>8, <1>9, <1>10, <1>11, <1>12 DEF Next, Step, Handle

\* A step that leaves alone what FilesInv is about: the files, whether the row
\* exists, the flavors that are not done, the transcodes at work and the requests
\* that remove files.
CalmRows ==
    /\ UNCHANGED <<files, torn>>
    /\ RowExists' = RowExists
    /\ \A f \in Flavor : flavors'[f] = "done" => flavors[f] = "done"
    /\ GoneUnflavored => GoneUnflavored'
CalmJobs ==
    \A j \in Job :
        /\ (kind'[j] = "transcode" /\ phase'[j] \in {"check", "encode", "encoding", "encoded", "done"})
              => /\ kind[j] = "transcode" /\ phase[j] = phase'[j] /\ target[j] = target'[j]
                 /\ ctx'[j] => ctx[j]
        /\ ("crash" \notin scenario /\ kind[j] = "transcode" /\ phase[j] \in {"encoding", "encoded"})
              => kind'[j] = "transcode" /\ phase'[j] = phase[j] /\ target'[j] = target[j]
CalmRequests ==
    \A r \in Request :
        phase[r] \in {"swept", "remove", "sweep"} \/ phase'[r] \in {"swept", "remove", "sweep"}
            => phase'[r] = phase[r] /\ seen'[r] = seen[r]
Calm == CalmRows /\ CalmJobs /\ CalmRequests

\* What is left alone stays as FilesInv has it.
LEMMA CalmKeepsFiles ==
    ASSUME Typed, FilesInv, Calm, UNCHANGED scenario
    PROVE  FilesInv'
<1> USE DEF Typed, PartsTyped, RowsTyped, JobsTyped, Calm, CalmRows, CalmJobs, CalmRequests
<1>1. Swept' = Swept /\ Sweeping' = Sweeping /\ \A f \in Flavor : Removing(f)' = Removing(f)
  BY DEF Swept, Sweeping, Removing, First
<1>2. GoneUnflavored' /\ SweptIsGone'
  BY <1>1 DEF FilesInv, SweptIsGone
<1>3. AtWorkUndone'
  BY DEF FilesInv, AtWorkUndone, At, SlotInv
<1>4. OutputThere'
  BY <1>1 DEF FilesInv, OutputThere
<1>5. DoneThere'
  BY <1>1 DEF FilesInv, DoneThere, Done
<1>6. GoneEmpty'
  <2>1. "crash" \notin scenario => \A f \in files : Writing(f) => Writing(f)'
    BY DEF Writing
  <2> QED
    BY <1>1, <2>1 DEF FilesInv, GoneEmpty
<1> QED
  BY <1>2, <1>3, <1>4, <1>5, <1>6 DEF FilesInv

\* The steps that are calm.
LEMMA QueueCalm ==
    ASSUME Typed, \/ RequeueStale \/ UNCHANGED vars
           \/ \E j \in Job : Claim(j) \/ Settle(j) \/ RequestCancel(j) \/ WatcherFires(j) \/ Crash(j)
    PROVE  Calm
<1> USE PipelineAssumption DEF Typed, PartsTyped, SlotInv, Actor, Calm, CalmRows, CalmJobs, CalmRequests,
     GoneUnflavored
<1>1. CASE RequeueStale
  BY <1>1 DEF RequeueStale, entryRow, output, store, local, JobsTyped, HandsTyped, RowsTyped,
     StoreTyped, RowExists
<1>2. CASE UNCHANGED vars
  BY <1>2 DEF vars, rows, store, output, jobs, local, JobsTyped, HandsTyped, RowsTyped, StoreTyped, RowExists
<1>3. ASSUME NEW j \in Job, Claim(j) PROVE Calm
  BY <1>3 DEF Claim, Goto, rows, output, store, local, Guard, JobsTyped, HandsTyped, RowsTyped,
     StoreTyped, RowExists, InHand
<1>4. ASSUME NEW j \in Job, Settle(j) PROVE Calm
  BY <1>4 DEF Settle, Retried, LeftRunning, Drop, Goto, Forget, ResetLocals, rows, output, store, jobs, JobsTyped, HandsTyped,
     RowsTyped, StoreTyped, RowExists, InHand
<1>5. ASSUME NEW j \in Job, RequestCancel(j) PROVE Calm
  BY <1>5 DEF RequestCancel, Drop, Forget, rows, output, store, local, JobsTyped, HandsTyped, RowsTyped,
     StoreTyped, RowExists, InHand
<1>6. ASSUME NEW j \in Job, WatcherFires(j) PROVE Calm
  BY <1>6 DEF WatcherFires, rows, output, store, jobs, JobsTyped, HandsTyped, RowsTyped,
     StoreTyped, RowExists, InHand
<1>7. ASSUME NEW j \in Job, Crash(j) PROVE Calm
  BY <1>7 DEF Crash, Goto, Forget, ResetLocals, rows, output, store, jobs, JobsTyped, HandsTyped,
     RowsTyped, StoreTyped, RowExists, InHand
<1> QED
  BY <1>1, <1>2, <1>3, <1>4, <1>5, <1>6, <1>7

\* A download touches neither flavors nor their files.
LEMMA DownloadCalm ==
    ASSUME Typed, NEW j \in Job, DownloadStep(j)
    PROVE  Calm
<1> USE PipelineAssumption DEF Typed, PartsTyped, SlotInv, Actor, Calm, CalmRows, CalmJobs, CalmRequests,
     GoneUnflavored
<1>1. CASE DownloadFetch(j)
  BY <1>1 DEF DownloadFetch, SetStatus, Goto, At, FailEntry, Writes, rows, output, store, jobs,
     local, JobsTyped, HandsTyped, RowsTyped, StoreTyped, RowExists
<1>2. CASE DownloadPut(j)
  BY <1>2 DEF DownloadPut, SetStatus, Goto, At, FailEntry, Writes, rows, output, store, jobs,
     local, JobsTyped, HandsTyped, RowsTyped, StoreTyped, RowExists
<1>3. CASE DownloadUpdate(j)
  BY <1>3 DEF DownloadUpdate, SetStatus, Goto, At, Writes, output, store, jobs, local, JobsTyped,
     HandsTyped, RowsTyped, StoreTyped, RowExists
<1>4. CASE DownloadEnqueue(j)
  BY <1>4 DEF DownloadEnqueue, Goto, Enqueue, At, Writes, FreeJobs, rows, output, store, jobs,
     local, JobsTyped, HandsTyped, RowsTyped, StoreTyped, RowExists
<1>5. CASE CheckEntry(j, "download", "start", "fetch")
  BY <1>5 DEF CheckEntry, Goto, At, Writes, rows, output, store, jobs, local, JobsTyped,
     HandsTyped, RowsTyped, StoreTyped, RowExists
<1>6. CASE CheckEntry(j, "download", "check", "put")
  BY <1>6 DEF CheckEntry, Goto, At, Writes, rows, output, store, jobs, local, JobsTyped,
     HandsTyped, RowsTyped, StoreTyped, RowExists
<1> QED
  BY <1>1, <1>2, <1>3, <1>4, <1>5, <1>6 DEF DownloadStep

\* A probe resets flavors, and makes none done.
LEMMA ProbeCalm ==
    ASSUME Typed, NEW j \in Job, ProbeStep(j)
    PROVE  Calm
<1> USE PipelineAssumption DEF Typed, PartsTyped, SlotInv, Actor, Calm, CalmRows, CalmJobs, CalmRequests,
     GoneUnflavored
<1>1. CASE ProbeSource(j)
  BY <1>1 DEF ProbeSource, SetStatus, Goto, At, FailEntry, Writes, rows, output, store, jobs,
     local, JobsTyped, HandsTyped, RowsTyped, StoreTyped, RowExists
<1>2. CASE ProbePoster(j)
  BY <1>2 DEF ProbePoster, Goto, At, rows, output, jobs, local, JobsTyped, HandsTyped, RowsTyped,
     StoreTyped, RowExists
<1>3. CASE ProbeRead(j)
  BY <1>3 DEF ProbeRead, Goto, At, Ticked, Pending, Skipped, rows, output, store, jobs, JobsTyped,
     HandsTyped, RowsTyped, StoreTyped, RowExists
<1>4. CASE ProbeReset(j)
  BY <1>4, FirstIn DEF ProbeReset, At, Writes, Skipped, entryRow, output, store, jobs, JobsTyped,
     HandsTyped, RowsTyped, StoreTyped, RowExists
<1>5. CASE ProbePublish(j)
  BY <1>5 DEF ProbePublish, Goto, At, SourceItself, rows, output, jobs, local, JobsTyped,
     HandsTyped, RowsTyped, StoreTyped, RowExists
<1>6. CASE ProbeReady(j)
  BY <1>6 DEF ProbeReady, SetStatus, Goto, At, Writes, output, store, jobs, local, JobsTyped,
     HandsTyped, RowsTyped, StoreTyped, RowExists
<1>7. CASE ProbeTranscoding(j)
  BY <1>7 DEF ProbeTranscoding, SetStatus, Goto, At, Writes, output, store, jobs, local,
     JobsTyped, HandsTyped, RowsTyped, StoreTyped, RowExists
<1>8. CASE ProbeEnqueue(j)
  BY <1>8 DEF ProbeEnqueue, Goto, Enqueue, At, Writes, FreeJobs, rows, output, store, jobs,
     JobsTyped, HandsTyped, RowsTyped, StoreTyped, RowExists
<1>9. CASE CheckEntry(j, "probe", "start", "probe")
  BY <1>9 DEF CheckEntry, Goto, At, Writes, rows, output, store, jobs, local, JobsTyped,
     HandsTyped, RowsTyped, StoreTyped, RowExists
<1>10. CASE CheckEntry(j, "probe", "check", "poster")
  BY <1>10 DEF CheckEntry, Goto, At, Writes, rows, output, store, jobs, local, JobsTyped,
     HandsTyped, RowsTyped, StoreTyped, RowExists
<1> QED
  BY <1>1, <1>2, <1>3, <1>4, <1>5, <1>6, <1>7, <1>8, <1>9, <1>10 DEF ProbeStep

\* A transcode is calm before it marks its flavor and once it finalizes.
LEMMA TranscodeCalm ==
    ASSUME Typed, NEW j \in Job,
           \/ CheckEntry(j, "transcode", "start", "spool") \/ TranscodeSpool(j)
           \/ FinalizeCheck(j) \/ FinalizeRemaining(j) \/ FinalizeDone(j) \/ FinalizeFail(j)
           \/ FinalizeBuild(j) \/ FinalizeMaster(j) \/ FinalizeReady(j)
    PROVE  Calm
<1> USE PipelineAssumption DEF Typed, PartsTyped, SlotInv, Actor, Calm, CalmRows, CalmJobs, CalmRequests,
     GoneUnflavored
<1>1. CASE TranscodeSpool(j)
  BY <1>1 DEF TranscodeSpool, SetStatus, Goto, At, FailEntry, Writes, rows, output, store, jobs,
     local, JobsTyped, HandsTyped, RowsTyped, StoreTyped, RowExists
<1>2. CASE FinalizeCheck(j)
  BY <1>2 DEF FinalizeCheck, Goto, At, Writes, rows, output, store, jobs, local, JobsTyped,
     HandsTyped, RowsTyped, StoreTyped, RowExists
<1>3. CASE FinalizeRemaining(j)
  BY <1>3 DEF FinalizeRemaining, Goto, At, Remaining, LastFlavor, rows, output, store, jobs,
     local, JobsTyped, HandsTyped, RowsTyped, StoreTyped, RowExists
<1>4. CASE FinalizeDone(j)
  BY <1>4 DEF FinalizeDone, Goto, At, Done, rows, output, store, jobs, local, JobsTyped,
     HandsTyped, RowsTyped, StoreTyped, RowExists
<1>5. CASE FinalizeFail(j)
  BY <1>5 DEF FinalizeFail, SetStatus, Goto, At, FailEntry, Writes, output, store, jobs, local,
     JobsTyped, HandsTyped, RowsTyped, StoreTyped, RowExists
<1>6. CASE FinalizeBuild(j)
  BY <1>6 DEF FinalizeBuild, Goto, At, Done, Renditions, rows, output, store, jobs, JobsTyped,
     HandsTyped, RowsTyped, StoreTyped, RowExists
<1>7. CASE FinalizeMaster(j)
  BY <1>7 DEF FinalizeMaster, Goto, At, rows, output, jobs, local, JobsTyped, HandsTyped,
     RowsTyped, StoreTyped, RowExists
<1>8. CASE FinalizeReady(j)
  BY <1>8 DEF FinalizeReady, SetStatus, Goto, At, Writes, output, store, jobs, local, JobsTyped,
     HandsTyped, RowsTyped, StoreTyped, RowExists
<1>9. CASE CheckEntry(j, "transcode", "start", "spool")
  BY <1>9 DEF CheckEntry, Goto, At, Writes, rows, output, store, jobs, local, JobsTyped,
     HandsTyped, RowsTyped, StoreTyped, RowExists
<1> QED
  BY <1>1, <1>2, <1>3, <1>4, <1>5, <1>6, <1>7, <1>8, <1>9

\* A request is calm unless it removes something.
LEMMA RequestCalm ==
    ASSUME Typed, NEW r \in Request,
           \/ Reprocess(r) \/ \E want \in SUBSET Flavor : Edit(r, want)
           \/ ReprocessStatus(r) \/ EditInsert(r) \/ EditEnqueue(r) \/ EditStatus(r)
           \/ EditRebuild(r) \/ EditMaster(r) \/ EditCount(r) \/ EditFail(r)
    PROVE  Calm
<1> USE PipelineAssumption DEF Typed, PartsTyped, SlotInv, Actor, Calm, CalmRows, CalmJobs, CalmRequests,
     GoneUnflavored
<1>1. CASE Reprocess(r)
  BY <1>1 DEF Reprocess, Goto, Enqueue, Requested, FreeJobs, rows, output, store, local,
     JobsTyped, HandsTyped, RowsTyped, StoreTyped, RowExists
<1>2. CASE \E want \in SUBSET Flavor : Edit(r, want)
  BY <1>2 DEF Edit, Goto, Requested, rows, output, store, jobs, JobsTyped, HandsTyped, RowsTyped,
     StoreTyped, RowExists
<1>3. CASE ReprocessStatus(r)
  BY <1>3 DEF ReprocessStatus, SetStatus, Goto, ResetLocals, Respond, Over, Writes, output, store,
     jobs, JobsTyped, HandsTyped, RowsTyped, StoreTyped, RowExists
<1>4. CASE EditInsert(r)
  BY <1>4, FirstIn DEF EditInsert, Goto, ResetLocals, Respond, Over, entryRow, output, store,
     jobs, local, JobsTyped, HandsTyped, RowsTyped, StoreTyped, RowExists
<1>5. CASE EditEnqueue(r)
  BY <1>5 DEF EditEnqueue, Goto, Enqueue, ResetLocals, Respond, Over, FreeJobs, rows, output,
     store, jobs, JobsTyped, HandsTyped, RowsTyped, StoreTyped, RowExists
<1>6. CASE EditStatus(r)
  BY <1>6 DEF EditStatus, Goto, ResetLocals, Respond, Over, output, store, jobs, local, JobsTyped,
     HandsTyped, RowsTyped, StoreTyped, RowExists
<1>7. CASE EditRebuild(r)
  BY <1>7 DEF EditRebuild, Goto, Done, rows, output, store, jobs, JobsTyped, HandsTyped,
     RowsTyped, StoreTyped, RowExists
<1>8. CASE EditMaster(r)
  BY <1>8 DEF EditMaster, Goto, ResetLocals, Respond, Over, rows, output, jobs, local, JobsTyped,
     HandsTyped, RowsTyped, StoreTyped, RowExists
<1>9. CASE EditCount(r)
  BY <1>9 DEF EditCount, Goto, ResetLocals, Respond, Over, Done, rows, output, store, jobs, local,
     JobsTyped, HandsTyped, RowsTyped, StoreTyped, RowExists
<1>10. CASE EditFail(r)
  BY <1>10 DEF EditFail, SetStatus, Goto, ResetLocals, Respond, Over, Writes, output, store, jobs,
     JobsTyped, HandsTyped, RowsTyped, StoreTyped, RowExists
<1> QED
  BY <1>1, <1>2, <1>3, <1>4, <1>5, <1>6, <1>7, <1>8, <1>9, <1>10

\* Only one job of the entry is at work on a transcode while the row exists, and
\* none is but on a flavor.
LEMMA OneAtWork ==
    ASSUME Typed, Alone, NEW j \in Job, NEW k \in Job, RowExists,
           kind[j] = "transcode", kind[k] = "transcode", InHand(j), InHand(k)
    PROVE  j = k
<1> USE DEF Typed, PartsTyped, JobsTyped, SlotInv
<1>1. state[j] = "running" /\ state[k] = "running"
  BY DEF InHand
<1> QED
  BY <1>1 DEF Alone, Transcoding

\* What the requests do to a deletion or a removal no step of a job changes.
LEMMA RequestsKept ==
    ASSUME Typed, NEW j \in Job, NEW p, Goto(j, p), UNCHANGED seen
    PROVE  Swept' = Swept /\ Sweeping' = Sweeping /\ \A f \in Flavor : Removing(f)' = Removing(f)
<1>1. \A r \in Request : phase'[r] = phase[r]
  BY PipelineAssumption DEF Goto, Typed, PartsTyped, HandsTyped, Actor
<1> QED
  BY <1>1 DEF Swept, Sweeping, Removing, First

\* The steps of a transcode that touch its flavor or its files. It is alone at
\* work, so its failure takes nobody else's output.
LEMMA TranscodeKeepsFiles ==
    ASSUME Typed, Alone, FilesInv, UNCHANGED scenario, NEW j \in Job,
           \/ TranscodeMark(j) \/ CheckEntry(j, "transcode", "check", "encode")
           \/ TranscodeEncode(j) \/ EncodeEnds(j) \/ EncodeCheck(j) \/ TranscodeDone(j)
    PROVE  FilesInv'
<1> USE PipelineAssumption DEF Typed, PartsTyped, RowsTyped, StoreTyped, JobsTyped, HandsTyped, Actor
<1> DEFINE t == target[j]
<1>0. t \in Flavor /\ kind[j] = "transcode" /\ InHand(j)
  BY DEF TranscodeMark, CheckEntry, TranscodeEncode, EncodeEnds, EncodeCheck, TranscodeDone, At,
     InHand, SlotInv
<1>1. PICK p : Goto(j, p)
  BY DEF TranscodeMark, CheckEntry, TranscodeEncode, EncodeEnds, EncodeCheck, TranscodeDone
<1>2. UNCHANGED <<status, kind, target, state, ctx, todo, seen>>
  BY DEF TranscodeMark, CheckEntry, TranscodeEncode, EncodeEnds, EncodeCheck, TranscodeDone, rows,
     entryRow, jobs, local
<1>3. Swept' = Swept /\ Sweeping' = Sweeping /\ \A f \in Flavor : Removing(f)' = Removing(f)
  BY <1>1, <1>2, RequestsKept
<1>4. RowExists' = RowExists /\ SweptIsGone'
  BY <1>2, <1>3 DEF RowExists, FilesInv, SweptIsGone
<1>5. \A k \in Job \ {j} : phase'[k] = phase[k]
  BY <1>1 DEF Goto
<1>6. \A k \in Job \ {j} : RowExists /\ kind[k] = "transcode" => ~InHand(k)
  BY <1>0, OneAtWork
<1>7. phase'[j] = p
  BY <1>1 DEF Goto
<1>8. CASE TranscodeMark(j)
  <2>1. UNCHANGED <<files, torn>> /\ p \in {"check", "finalize"}
    BY <1>7, <1>8 DEF TranscodeMark, Goto, store, output
  <2>2. /\ \A f \in Flavor : flavors'[f] = "done" => flavors[f] = "done"
        /\ GoneUnflavored' /\ (p = "check" /\ ctx[j] => flavors'[t] # "done")
    BY <1>0, <1>4, <1>7, <1>8 DEF TranscodeMark, SetFlavor, Goto, FilesInv, GoneUnflavored
  <2>3. AtWorkUndone'
    <3>1. \A k \in Job : kind[k] = "transcode" => target[k] \in Flavor
      BY DEF SlotInv
    <3>2. \A k \in Job \ {j} : (At(k, "transcode", "check") /\ ctx[k])
            \/ (kind[k] = "transcode" /\ phase[k] \in {"encode", "encoding", "encoded", "done"})
            => flavors'[target[k]] # "done"
      BY <2>2, <3>1 DEF FilesInv, AtWorkUndone, At
    <3> QED
      BY <1>2, <1>5, <1>7, <2>1, <2>2, <3>2 DEF AtWorkUndone, At
  <2>4. OutputThere' /\ DoneThere'
    BY <1>2, <1>3, <1>4, <1>5, <1>7, <2>1, <2>2 DEF FilesInv, OutputThere, DoneThere, Done
  <2>5. GoneEmpty'
    <3>1. \A f \in files : Writing(f) => Writing(f)'
      BY <1>2, <1>5, <1>8 DEF Writing, TranscodeMark, At
    <3> QED
      BY <1>3, <1>4, <2>1, <3>1 DEF FilesInv, GoneEmpty
  <2> QED
    BY <1>4, <2>2, <2>3, <2>4, <2>5 DEF FilesInv
<1>9. CASE CheckEntry(j, "transcode", "check", "encode")
  <2>1. UNCHANGED <<files, torn, flavors>> /\ p = (IF Writes(j) THEN "encode" ELSE "err")
    BY <1>7, <1>9 DEF CheckEntry, Goto, store, output, rows
  <2>2. AtWorkUndone'
    BY <1>2, <1>5, <1>7, <1>9, <2>1 DEF FilesInv, AtWorkUndone, At, Writes, CheckEntry
  <2>3. OutputThere' /\ DoneThere' /\ GoneUnflavored'
    BY <1>2, <1>3, <1>4, <1>5, <1>7, <2>1 DEF FilesInv, OutputThere, DoneThere, Done, GoneUnflavored
  <2>4. GoneEmpty'
    <3>1. \A f \in files : Writing(f) => Writing(f)'
      BY <1>2, <1>5, <1>9 DEF Writing, CheckEntry, At
    <3> QED
      BY <1>3, <1>4, <2>1, <3>1 DEF FilesInv, GoneEmpty
  <2> QED
    BY <1>4, <2>2, <2>3, <2>4 DEF FilesInv
<1>10. CASE TranscodeEncode(j)
  <2>1. /\ files' = files \cup {t} /\ torn' = torn \ {t} /\ UNCHANGED flavors
        /\ p = "encoding" /\ phase[j] = "encode"
    BY <1>7, <1>10 DEF TranscodeEncode, Goto, rows, At
  <2>2. files \cup torn \subseteq files' \cup torn'
    BY <2>1
  <2>3. AtWorkUndone'
    BY <1>0, <1>2, <1>5, <1>7, <2>1 DEF FilesInv, AtWorkUndone, At
  <2>4. OutputThere' /\ DoneThere' /\ GoneUnflavored'
    BY <1>0, <1>2, <1>3, <1>4, <1>5, <1>7, <2>1, <2>2
       DEF FilesInv, OutputThere, DoneThere, Done, GoneUnflavored
  <2>5. GoneEmpty'
    <3>1. \A f \in Flavor : (f = t \/ Writing(f)) => Writing(f)'
      BY <1>0, <1>2, <1>5, <1>7, <2>1 DEF Writing
    <3> QED
      <4>1. ASSUME "crash" \notin scenario, ~RowExists, ~Sweeping, NEW f \in files' PROVE Writing(f)'
        BY <1>0, <2>1, <3>1, <4>1 DEF FilesInv, GoneEmpty
      <4> QED
        BY <1>3, <1>4, <4>1 DEF GoneEmpty
  <2> QED
    BY <1>4, <2>3, <2>4, <2>5 DEF FilesInv
<1>11. CASE EncodeEnds(j)
  <2>1. /\ UNCHANGED torn /\ phase[j] = "encoding"
        /\ \/ p = "encoded" /\ UNCHANGED <<flavors, files>>
           \/ /\ p = "finalize" /\ files' = files \ {t} /\ SetFlavor(j, t, "failed")
    BY <1>7, <1>11 DEF EncodeEnds, Goto, At, DropPartial
  <2>2. flavors[t] # "done" /\ flavors'[t] # "done"
    BY <1>0, <2>1 DEF FilesInv, AtWorkUndone, SetFlavor
  <2>3. /\ \A f \in Flavor \ {t} : flavors'[f] = flavors[f] /\ (f \in files <=> f \in files')
        /\ GoneUnflavored'
    BY <1>0, <1>4, <2>1 DEF FilesInv, GoneUnflavored, SetFlavor
  <2>4. AtWorkUndone'
    <3>1. \A k \in Job : kind[k] = "transcode" => target[k] \in Flavor
      BY DEF SlotInv
    <3>2. \A k \in Job \ {j} : (At(k, "transcode", "check") /\ ctx[k])
            \/ (kind[k] = "transcode" /\ phase[k] \in {"encode", "encoding", "encoded", "done"})
            => flavors'[target[k]] # "done"
      BY <2>2, <2>3, <3>1 DEF FilesInv, AtWorkUndone, At
    <3> QED
      BY <1>0, <1>2, <1>5, <1>7, <2>1, <2>2, <3>2 DEF AtWorkUndone, At
  <2>5. OutputThere'
    <3>1. \A k \in Job \ {j} : RowExists => ~(kind[k] = "transcode" /\ phase[k] \in {"encoding", "encoded", "done"})
      BY <1>6 DEF InHand
    <3> QED
      BY <1>0, <1>2, <1>3, <1>4, <1>5, <1>7, <2>1, <3>1 DEF FilesInv, OutputThere
  <2>6. DoneThere'
    BY <1>3, <2>1, <2>2, <2>3 DEF FilesInv, DoneThere, Done
  <2>7. GoneEmpty'
    <3>1. \A f \in files' : Writing(f) => Writing(f)'
      BY <1>0, <1>2, <1>5, <1>7, <2>1 DEF Writing
    <3> QED
      BY <1>3, <1>4, <2>1, <3>1 DEF FilesInv, GoneEmpty
  <2> QED
    BY <1>4, <2>3, <2>4, <2>5, <2>6, <2>7 DEF FilesInv
<1>12. CASE EncodeCheck(j)
  <2>1. /\ UNCHANGED <<flavors, torn>> /\ phase[j] = "encoded"
        /\ files' = IF Writes(j) THEN files ELSE files \ {t}
        /\ p = IF Writes(j) THEN "done" ELSE "err"
    BY <1>7, <1>12 DEF EncodeCheck, Goto, At, DropPartial, rows
  <2>2. AtWorkUndone'
    BY <1>0, <1>2, <1>5, <1>7, <2>1 DEF FilesInv, AtWorkUndone, At
  <2>3. OutputThere' /\ GoneUnflavored'
    <3>1. \A k \in Job \ {j} : RowExists => ~(kind[k] = "transcode" /\ phase[k] \in {"encoding", "encoded", "done"})
      BY <1>6 DEF InHand
    <3> QED
      BY <1>0, <1>2, <1>3, <1>4, <1>5, <1>7, <2>1, <3>1 DEF FilesInv, OutputThere, GoneUnflavored
  <2>4. DoneThere'
    BY <1>0, <1>3, <2>1 DEF FilesInv, DoneThere, Done, AtWorkUndone
  <2>5. GoneEmpty'
    <3>1. ~RowExists => t \notin files' /\ \A f \in files' : Writing(f) => Writing(f)'
      BY <1>0, <1>2, <1>5, <1>7, <2>1 DEF Writing, Writes
    <3> QED
      BY <1>3, <1>4, <2>1, <3>1 DEF FilesInv, GoneEmpty
  <2> QED
    BY <1>4, <2>2, <2>3, <2>4, <2>5 DEF FilesInv
<1>13. CASE TranscodeDone(j)
  <2>1. UNCHANGED <<files, torn>> /\ phase[j] = "done" /\ p = "finalize" /\ SetFlavor(j, t, "done")
    BY <1>7, <1>13 DEF TranscodeDone, Goto, At, store, output
  <2>2. GoneUnflavored' /\ (~RowExists => UNCHANGED flavors)
    BY <1>0, <1>4, <2>1 DEF FilesInv, GoneUnflavored, SetFlavor
  <2>3. \A f \in Flavor \ {t} : flavors'[f] = flavors[f]
    BY <1>0, <2>1 DEF SetFlavor
  <2>4. AtWorkUndone'
    <3>1. \A k \in Job \ {j} : RowExists =>
            ~(kind[k] = "transcode" /\ phase[k] \in {"check", "encode", "encoding", "encoded", "done"})
      BY <1>6 DEF InHand
    <3> QED
      BY <1>0, <1>2, <1>5, <1>7, <2>1, <2>2, <3>1 DEF FilesInv, AtWorkUndone, At
  <2>5. OutputThere' /\ DoneThere'
    BY <1>0, <1>2, <1>3, <1>4, <1>5, <1>7, <2>1, <2>2, <2>3
       DEF FilesInv, OutputThere, DoneThere, Done, GoneUnflavored
  <2>6. GoneEmpty'
    <3>1. \A f \in files : Writing(f) => Writing(f)'
      BY <1>0, <1>2, <1>5, <2>1 DEF Writing
    <3> QED
      BY <1>3, <1>4, <2>1, <3>1 DEF FilesInv, GoneEmpty
  <2> QED
    BY <1>4, <2>2, <2>4, <2>5, <2>6 DEF FilesInv
<1> QED
  BY <1>8, <1>9, <1>10, <1>11, <1>12, <1>13

\* The steps of the requests that remove files or rows.
LEMMA RequestKeepsFiles ==
    ASSUME Typed, FilesInv, UNCHANGED scenario, NEW r \in Request,
           \/ EditRemoveFiles(r) \/ EditRemoveRow(r)
           \/ Delete(r) \/ DeleteRow(r) \/ DeleteSweep(r)
    PROVE  FilesInv'
<1> USE PipelineAssumption DEF Typed, PartsTyped, RowsTyped, StoreTyped, JobsTyped, HandsTyped, Actor
<1> DEFINE f0 == First(seen[r])
<1>1. CASE EditRemoveFiles(r)
  <2>1. /\ files' = files \ {f0} /\ f0 \in Flavor
        /\ torn' = IF AtWork(f0) = {} THEN torn ELSE torn \cup {f0}
        /\ phase' = [phase EXCEPT ![r] = "remove"] /\ phase[r] = "insert"
        /\ UNCHANGED <<status, flavors, kind, target, ctx, seen>>
    BY <1>1, FirstIn DEF EditRemoveFiles, Goto, rows, jobs, local
  <2>2. \A j \in Job : phase'[j] = phase[j]
    BY <2>1
  <2>3. Swept' = Swept /\ Sweeping' = Sweeping /\ RowExists' = RowExists
    BY <2>1 DEF Swept, Sweeping, RowExists
  <2>4. Removing(First(seen[r]))' /\ \A f \in Flavor : Removing(f) => Removing(f)'
    BY <2>1 DEF Removing, First
  <2>5. AtWorkUndone' /\ GoneUnflavored' /\ SweptIsGone'
    BY <2>1, <2>2, <2>3 DEF FilesInv, AtWorkUndone, GoneUnflavored, SweptIsGone, At
  <2>6. OutputThere'
    <3>1. ASSUME NEW j \in Job, kind[j] = "transcode", phase[j] \in {"encoding", "encoded", "done"}
          PROVE  target[j] \in files' \cup torn' \/ Swept \/ ~RowExists
      <4>1. CASE target[j] = f0
        BY <2>1, <3>1, <4>1 DEF AtWork
      <4>2. CASE target[j] # f0
        BY <2>1, <3>1, <4>2 DEF FilesInv, OutputThere
      <4> QED
        BY <4>1, <4>2
    <3> QED
      BY <2>1, <2>2, <2>3, <3>1 DEF OutputThere
  <2>7. DoneThere'
    BY <2>1, <2>3, <2>4 DEF FilesInv, DoneThere, Done
  <2>8. GoneEmpty'
    <3>1. \A f \in files : Writing(f) => Writing(f)'
      BY <2>1, <2>2 DEF Writing
    <3> QED
      BY <2>1, <2>3, <3>1 DEF FilesInv, GoneEmpty
  <2> QED
    BY <2>5, <2>6, <2>7, <2>8 DEF FilesInv
<1>2. CASE EditRemoveRow(r)
  <2>1. /\ flavors' = [flavors EXCEPT ![f0] = "none"] /\ UNCHANGED <<files, torn>>
        /\ phase' = [phase EXCEPT ![r] = "insert"] /\ phase[r] = "remove"
        /\ seen' = [seen EXCEPT ![r] = @ \ {f0}]
        /\ UNCHANGED <<status, kind, target, ctx>>
    BY <1>2 DEF EditRemoveRow, Goto, entryRow, store, output, jobs
  <2>2. \A j \in Job : phase'[j] = phase[j]
    BY <2>1
  <2>3. Swept' = Swept /\ Sweeping' = Sweeping /\ RowExists' = RowExists
    BY <2>1 DEF Swept, Sweeping, RowExists
  <2>4. \A f \in Flavor \ {f0} : Removing(f) => Removing(f)'
    BY <2>1 DEF Removing, First
  <2>5. \A f \in Flavor : flavors'[f] = "none" \/ (f # f0 /\ flavors'[f] = flavors[f])
    BY <2>1
  <2>6. GoneUnflavored' /\ SweptIsGone'
    BY <2>1, <2>3, <2>5 DEF FilesInv, GoneUnflavored, SweptIsGone
  <2>7. AtWorkUndone'
    <3>1. \A j \in Job : kind[j] = "transcode" => target[j] \in Flavor
      BY DEF SlotInv
    <3> QED
      BY <2>1, <2>2, <2>5, <3>1 DEF FilesInv, AtWorkUndone, At
  <2>8. OutputThere'
    BY <2>1, <2>2, <2>3 DEF FilesInv, OutputThere
  <2>9. DoneThere'
    BY <2>1, <2>3, <2>4, <2>5 DEF FilesInv, DoneThere, Done
  <2>10. GoneEmpty'
    <3>1. \A f \in files : Writing(f) => Writing(f)'
      BY <2>1, <2>2 DEF Writing
    <3> QED
      BY <2>1, <2>3, <3>1 DEF FilesInv, GoneEmpty
  <2> QED
    BY <2>6, <2>7, <2>8, <2>9, <2>10 DEF FilesInv
<1>3. CASE Delete(r)
  <2>1. /\ files' = {} /\ phase' = [phase EXCEPT ![r] = "swept"] /\ phase[r] = "idle" /\ RowExists
        /\ UNCHANGED <<status, flavors, torn, kind, target, ctx, seen>>
    BY <1>3 DEF Delete, Requested, Goto, rows, jobs, local
  <2>2. \A j \in Job : phase'[j] = phase[j]
    BY <2>1
  <2>3. Swept' /\ Sweeping' = Sweeping /\ RowExists'
    BY <2>1 DEF Swept, Sweeping, RowExists
  <2> QED
    BY <2>1, <2>2, <2>3 DEF FilesInv, AtWorkUndone, GoneUnflavored, SweptIsGone, OutputThere,
       DoneThere, GoneEmpty, At
<1>4. CASE DeleteRow(r)
  <2>1. /\ status' = "gone" /\ \A f \in Flavor : flavors'[f] = "none"
        /\ UNCHANGED <<files, torn, seen>> /\ phase[r] = "swept"
    BY <1>4 DEF DeleteRow, store, output, local
  <2>2. ~RowExists' /\ GoneUnflavored' /\ SweptIsGone' /\ OutputThere' /\ DoneThere'
    BY <2>1 DEF RowExists, GoneUnflavored, SweptIsGone, OutputThere, DoneThere, Done
  <2>3. \A j \in Job : phase'[j] \notin {"idle", "lost"}
          => phase'[j] = phase[j] /\ kind'[j] = kind[j] /\ target'[j] = target[j]
    BY <1>4 DEF DeleteRow, InHand, SlotInv
  <2>4. AtWorkUndone'
    <3>1. \A j \in Job : At(j, "transcode", "check")' \/
             (kind'[j] = "transcode" /\ phase'[j] \in {"encode", "encoding", "encoded", "done"})
             => target'[j] \in Flavor
      BY <2>3 DEF At, SlotInv
    <3> QED
      BY <2>1, <3>1 DEF AtWorkUndone, At
  <2>5. GoneEmpty'
    <3>1. RowExists => Sweeping'
      BY <1>4 DEF DeleteRow, Sweeping
    <3>2. Sweeping => Sweeping'
      BY <1>4, <2>1 DEF DeleteRow, Sweeping
    <3>3. \A f \in files : Writing(f) => Writing(f)'
      BY <1>4 DEF DeleteRow, Writing, InHand
    <3> QED
      BY <2>1, <3>1, <3>2, <3>3 DEF FilesInv, GoneEmpty
  <2> QED
    BY <2>2, <2>4, <2>5 DEF FilesInv
<1>5. CASE DeleteSweep(r)
  <2>1. /\ files' = {} /\ phase' = [phase EXCEPT ![r] = "over"] /\ phase[r] = "sweep"
        /\ UNCHANGED <<status, flavors, torn, kind, target, ctx, seen>>
    BY <1>5 DEF DeleteSweep, Over, Goto, rows, jobs, local
  <2>2. ~RowExists /\ ~RowExists'
    BY <2>1 DEF FilesInv, SweptIsGone, Sweeping, RowExists
  <2>3. \A j \in Job : phase'[j] = phase[j]
    BY <2>1
  <2> QED
    BY <2>1, <2>2, <2>3 DEF FilesInv, AtWorkUndone, GoneUnflavored, SweptIsGone, OutputThere,
       DoneThere, GoneEmpty, Done, At
<1> QED
  BY <1>1, <1>2, <1>3, <1>4, <1>5

-----------------------------------------------------------------------------
\* Every step keeps the types.
LEMMA StepTyped == Typed /\ [Next]_vars => Typed'
  BY StepRowsTyped, StepStoreTyped, StepJobsTyped, StepHandsTyped, StepSlots DEF Typed, PartsTyped

\* Every step keeps the files with the rows.
LEMMA StepFiles == PipelineInv /\ [Next]_vars => FilesInv'
<1> SUFFICES ASSUME Typed, Alone, FilesInv, [Next]_vars PROVE FilesInv'
  BY DEF PipelineInv
<1>0. UNCHANGED scenario
  BY DEF Next, vars
<1>1. CASE UNCHANGED vars \/ RequeueStale
  BY <1>0, <1>1, QueueCalm, CalmKeepsFiles
<1>2. ASSUME NEW j \in Job, Claim(j) \/ Handle(j) \/ RequestCancel(j) \/ WatcherFires(j) \/ Crash(j)
      PROVE  FilesInv'
  <2>1. CASE Claim(j) \/ Settle(j) \/ RequestCancel(j) \/ WatcherFires(j) \/ Crash(j)
    BY <1>0, <2>1, QueueCalm, CalmKeepsFiles
  <2>2. CASE DownloadStep(j)
    BY <1>0, <2>2, DownloadCalm, CalmKeepsFiles
  <2>3. CASE ProbeStep(j)
    BY <1>0, <2>3, ProbeCalm, CalmKeepsFiles
  <2>4. CASE TranscodeStep(j)
    <3>1. CASE \/ TranscodeMark(j) \/ CheckEntry(j, "transcode", "check", "encode")
               \/ TranscodeEncode(j) \/ EncodeEnds(j) \/ EncodeCheck(j) \/ TranscodeDone(j)
      BY <1>0, <3>1, TranscodeKeepsFiles
    <3>2. CASE \/ CheckEntry(j, "transcode", "start", "spool") \/ TranscodeSpool(j)
               \/ FinalizeCheck(j) \/ FinalizeRemaining(j) \/ FinalizeDone(j) \/ FinalizeFail(j)
               \/ FinalizeBuild(j) \/ FinalizeMaster(j) \/ FinalizeReady(j)
      BY <1>0, <3>2, TranscodeCalm, CalmKeepsFiles
    <3> QED
      BY <2>4, <3>1, <3>2 DEF TranscodeStep
  <2> QED
    BY <1>2, <2>1, <2>2, <2>3, <2>4 DEF Handle
<1>3. ASSUME NEW r \in Request, Arrive(r) \/ Serve(r) PROVE FilesInv'
  <2>1. CASE \/ EditRemoveFiles(r) \/ EditRemoveRow(r)
             \/ Delete(r) \/ DeleteRow(r) \/ DeleteSweep(r)
    BY <1>0, <2>1, RequestKeepsFiles
  <2>2. CASE \/ Reprocess(r) \/ \E want \in SUBSET Flavor : Edit(r, want)
             \/ ReprocessStatus(r) \/ EditInsert(r) \/ EditEnqueue(r) \/ EditStatus(r)
             \/ EditRebuild(r) \/ EditMaster(r) \/ EditCount(r) \/ EditFail(r)
    BY <1>0, <2>2, RequestCalm, CalmKeepsFiles
  <2> QED
    BY <1>3, <2>1, <2>2 DEF Arrive, Serve
<1> QED
  BY <1>1, <1>2, <1>3 DEF Next, Step

\* An entry whose jobs and requests have yet to come is in order.
LEMMA InitInv == Init => PipelineInv
<1> SUFFICES ASSUME Init PROVE PipelineInv
  OBVIOUS
<1>1. PartsTyped /\ scenario \in Scenarios
  <2>1. RowsTyped /\ StoreTyped
    BY DEF Init, Uploaded, Submitted, Published, RowsTyped, StoreTyped, EntryStatus, FlavorStatus
  <2>2. JobsTyped
    <3>1. /\ target \in [Job -> Flavor \cup {0}]
          /\ attempts \in [Job -> Nat] /\ flagged \in [Job -> BOOLEAN] /\ dropped = {}
      BY DEF Init
    <3>2. /\ kind \in [Job -> {"none", "download", "probe", "transcode"}]
          /\ state \in [Job -> {"none", "queued", "running", "deleted"}]
      BY DEF Init, Uploaded, Submitted, Published
    <3> QED
      BY <3>1, <3>2 DEF JobsTyped
  <2>3. HandsTyped
    BY DEF Init, HandsTyped, JobPhase
  <2> QED
    BY <2>1, <2>2, <2>3 DEF PartsTyped, Init
<1>2. \A a \in Actor : phase[a] = "idle"
  BY DEF Init
<1>3. /\ RowExists
      /\ \A j \in Job : kind[j] # "transcode" /\ state[j] \in {"none", "queued"}
      /\ \A j \in Job : state[j] = "none" => kind[j] = "none"
  BY DEF Init, Uploaded, Submitted, Published, RowExists
<1>4. Done \subseteq files
  BY DEF Init, Uploaded, Submitted, Published, Done
<1>5. SlotInv /\ ToPrepare /\ Alone
  <2>1. SlotInv
    BY <1>2, <1>3 DEF SlotInv, Actor
  <2>2. ToPrepare /\ Alone
    BY <1>2, <1>3 DEF ToPrepare, Alone, Transcoding, Actor
  <2> QED
    BY <2>1, <2>2
<1>6. FilesInv
  BY <1>2, <1>3, <1>4 DEF FilesInv, GoneUnflavored, AtWorkUndone, OutputThere, DoneThere, SweptIsGone,
     GoneEmpty, Sweeping, At, Actor
<1> QED
  BY <1>1, <1>5, <1>6 DEF PipelineInv, Typed

\* The rows, the store, the outstanding jobs and the goroutines of an entry stay
\* in their domains.
THEOREM SpecTypeOK == Spec => []TypeOK
<1> DEFINE I == Typed /\ scenario \in Scenarios
<1>1. Init => I
  BY InitInv DEF PipelineInv, Init
<1>2. I /\ [Next]_vars => I'
  BY StepTyped DEF Next, vars
<1>3. I => TypeOK
  BY DEF Typed, PartsTyped, RowsTyped, StoreTyped, JobsTyped, HandsTyped, TypeOK
<1> QED
  BY <1>1, <1>2, <1>3, PTL DEF Spec

\* Whatever the jobs and the requests of an entry do to it: when all of it is
\* over, a flavor that reads 'done' has its files, or lost them to a removal in
\* the middle of its transcode; and a deleted entry has none, unless a worker has
\* died (jobs.go:569-615, entries.go:338-356, 470-510).
THEOREM SpecFilesMatchRows == Spec => []FilesMatchRows
<1>1. Init => PipelineInv
  BY InitInv
<1>2. PipelineInv /\ [Next]_vars => PipelineInv'
  BY StepTyped, StepAlone, StepFiles DEF PipelineInv
<1>3. PipelineInv => FilesMatchRows
  <2> SUFFICES ASSUME PipelineInv, Quiet
               PROVE  /\ Done \ torn \subseteq files
                      /\ "crash" \notin scenario /\ ~RowExists => files = {}
    BY DEF FilesMatchRows
  <2>1. \A r \in Request : phase[r] \in {"idle", "over"}
    BY DEF Quiet, Serving
  <2>2. \A j \in Job : phase[j] = "idle"
    BY DEF PipelineInv, Typed, SlotInv, Quiet, Abandoned
  <2>3. ~Swept /\ ~Sweeping /\ \A f \in Flavor : ~Removing(f) /\ ~Writing(f)
    BY <2>1, <2>2 DEF Swept, Sweeping, Removing, Writing
  <2>4. files \subseteq Flavor
    BY DEF PipelineInv, Typed, PartsTyped, StoreTyped
  <2> QED
    BY <2>3, <2>4 DEF PipelineInv, FilesInv, DoneThere, GoneEmpty, Done
<1> QED
  BY <1>1, <1>2, <1>3, PTL DEF Spec
-----------------------------------------------------------------------------
\* Flavors are added and probed over a source, but for those that are added to
\* an entry while it is downloading; and the source stays until the deletion.
Sourced ==
    /\ ~source => "submitted" \in scenario /\ \A j \in Job : kind[j] # "probe"
    /\ \A r \in Request : phase[r] \in {"insert", "prepare", "remove"} => "edit" \in scenario
    /\ \A j \in Job : kind[j] = "transcode" /\ ~source => "edit" \in scenario
    /\ \A j \in Job : At(j, "download", "enqueue") => source \/ ~RowExists
    /\ source \/ (\E j \in Job : At(j, "download", "update")) =>
          "original" \in media \/ Swept \/ ~RowExists

\* No step probes or transcodes an entry without a source.
LEMMA StepSourced == Typed /\ SweptIsGone /\ Sourced /\ [Next]_vars => Sourced'
<1> SUFFICES ASSUME Typed, SweptIsGone, Sourced, [Next]_vars PROVE Sourced'
  OBVIOUS
<1> USE PipelineAssumption DEF Typed, PartsTyped, SlotInv, JobsTyped, HandsTyped, RowsTyped, StoreTyped,
     Actor, RowExists, At, Goto, Sourced, Swept, SweptIsGone, Sweeping
<1>0. UNCHANGED scenario
  BY DEF Next, vars
<1>1. ASSUME NEW j \in Job, Claim(j) \/ Settle(j) \/ RequestCancel(j) \/ WatcherFires(j) \/ Crash(j)
      PROVE  Sourced'
  BY <1>0, <1>1 DEF Claim, Settle, Retried, LeftRunning, RequestCancel, WatcherFires, Crash, Drop,
     Forget, InHand, rows, store, jobs
<1>2. CASE RequeueStale \/ UNCHANGED vars
  BY <1>0, <1>2 DEF RequeueStale, vars, rows, entryRow, store, jobs
<1>3. ASSUME NEW j \in Job, DownloadStep(j) PROVE Sourced'
  <2>1. CASE DownloadFetch(j) \/ DownloadPut(j) \/ DownloadUpdate(j)
    BY <1>0, <2>1 DEF DownloadFetch, DownloadPut, DownloadUpdate, FailEntry, SetStatus, Writes, rows, store, jobs
  <2>2. CASE DownloadEnqueue(j)
    BY <1>0, <2>2 DEF DownloadEnqueue, Enqueue, FreeJobs, Writes, rows, store, jobs
  <2>3. CASE CheckEntry(j, "download", "start", "fetch") \/ CheckEntry(j, "download", "check", "put")
    BY <1>0, <2>3 DEF CheckEntry, rows, store, jobs
  <2> QED
    BY <1>3, <2>1, <2>2, <2>3 DEF DownloadStep
<1>4. ASSUME NEW j \in Job, ProbeStep(j) PROVE Sourced'
  <2>1. CASE ProbeSource(j) \/ ProbePoster(j) \/ ProbeRead(j) \/ ProbeReset(j) \/ ProbePublish(j)
             \/ ProbeReady(j) \/ ProbeTranscoding(j)
    BY <1>0, <2>1 DEF ProbeSource, ProbePoster, ProbeRead, ProbeReset, ProbePublish, ProbeReady,
       ProbeTranscoding, FailEntry, SetStatus, Writes, rows, entryRow, store, jobs
  <2>2. CASE ProbeEnqueue(j)
    BY <1>0, <2>2 DEF ProbeEnqueue, Enqueue, FreeJobs, rows, store, jobs
  <2>3. CASE CheckEntry(j, "probe", "start", "probe") \/ CheckEntry(j, "probe", "check", "poster")
    BY <1>0, <2>3 DEF CheckEntry, rows, store, jobs
  <2> QED
    BY <1>4, <2>1, <2>2, <2>3 DEF ProbeStep
<1>5. ASSUME NEW j \in Job, TranscodeStep(j) PROVE Sourced'
  <2>1. CASE TranscodeSpool(j) \/ EncodeCheck(j) \/ FinalizeCheck(j) \/ FinalizeRemaining(j)
             \/ FinalizeDone(j) \/ FinalizeBuild(j)
    BY <1>0, <2>1 DEF TranscodeSpool, EncodeCheck, FinalizeCheck, FinalizeRemaining, FinalizeDone,
       FinalizeBuild, FailEntry, SetStatus, Writes, rows, entryRow, store, jobs
  <2>2. CASE TranscodeMark(j) \/ TranscodeEncode(j) \/ EncodeEnds(j) \/ TranscodeDone(j)
    BY <1>0, <2>2 DEF TranscodeMark, TranscodeEncode, EncodeEnds, TranscodeDone, rows, entryRow, store, jobs
  <2>3. CASE FinalizeFail(j) \/ FinalizeMaster(j) \/ FinalizeReady(j)
    BY <1>0, <2>3 DEF FinalizeFail, FinalizeMaster, FinalizeReady, FailEntry, SetStatus, Writes, rows,
       entryRow, output, store, jobs
  <2>4. CASE CheckEntry(j, "transcode", "start", "spool") \/ CheckEntry(j, "transcode", "check", "encode")
    BY <1>0, <2>4 DEF CheckEntry, rows, store, jobs
  <2> QED
    BY <1>5, <2>1, <2>2, <2>3, <2>4 DEF TranscodeStep
<1>6. ASSUME NEW r \in Request, Arrive(r) \/ Serve(r) PROVE Sourced'
  <2>1. CASE Reprocess(r) \/ (\E want \in SUBSET Flavor : Edit(r, want)) \/ Delete(r)
    BY <1>0, <2>1 DEF Reprocess, Edit, Delete, Requested, Enqueue, FreeJobs, rows, store, jobs
  <2>2. CASE ReprocessStatus(r) \/ EditInsert(r) \/ EditRemoveFiles(r) \/ EditRemoveRow(r)
    BY <1>0, <2>2 DEF ReprocessStatus, EditInsert, EditRemoveFiles, EditRemoveRow, SetStatus, Writes,
       Respond, Over, rows, entryRow, store, jobs
  <2>3. CASE EditEnqueue(r)
    BY <1>0, <2>3 DEF EditEnqueue, Enqueue, FreeJobs, Respond, Over, rows, store, jobs
  <2>4. CASE EditStatus(r) \/ EditRebuild(r) \/ EditMaster(r) \/ EditCount(r) \/ EditFail(r)
    BY <1>0, <2>4 DEF EditStatus, EditRebuild, EditMaster, EditCount, EditFail, SetStatus, Writes,
       Respond, Over, rows, entryRow, store, jobs
  <2>5. CASE DeleteRow(r)
    BY <1>0, <2>5 DEF DeleteRow, InHand, store
  <2>6. CASE DeleteSweep(r)
    BY <1>0, <2>6 DEF DeleteSweep, Over, rows, jobs
  <2> QED
    BY <1>6, <2>1, <2>2, <2>3, <2>4, <2>5, <2>6 DEF Arrive, Serve
<1> QED
  BY <1>1, <1>2, <1>3, <1>4, <1>5, <1>6 DEF Next, Step, Handle
-----------------------------------------------------------------------------
(* What becomes of the flavors and of the status, whatever dies, fails or   *)
(* is cancelled.                                                           *)

\* A probe that resets the flavors will enqueue those that it resets to pending;
\* downloads and probes work for the source.
ResetSeen ==
    \A j \in Job : At(j, "probe", "reset") => todo[j] \ Skipped \subseteq seen[j]
ForSource == \A j \in Job : kind[j] \in {"download", "probe"} => target[j] = SourceItself

\* Who sees to it that a flavor is settled, and what else the queue shows of it.
Covers(a, f) ==
    \/ a \in Job /\ Settles(a, f)
    \/ a \in Request /\ (phase[a] = "swept" \/ (phase[a] = "prepare" /\ f = First(todo[a])))
Covered(f) == \E a \in Actor : Covers(a, f)
Shown(f) == Lapsed(f) \/ Lapsed(SourceItself)
CoverInv == \A f \in Remaining : Covered(f) \/ Shown(f)

\* Who will take an entry out of 'transcoding', and who out of 'probing'.
Busy(a) ==
    \/ /\ a \in Job /\ Outstanding(a)
       /\ \/ kind[a] = "transcode" /\ (phase[a] # "ok" \/ ~ctx[a])
          \/ kind[a] = "probe" /\ (phase[a] \in ToCome \cup {"reset", "publish"} \/ ~ctx[a])
          \/ At(a, "probe", "enqueue") /\ seen[a] # {}
    \/ a \in Request /\ phase[a] \in {"prepare", "swept"}
Probes(a) ==
    \/ /\ a \in Job /\ Outstanding(a)
       /\ \/ kind[a] = "probe" /\ (phase[a] \in ToCome \cup {"reset", "publish"} \/ ~ctx[a])
          \/ kind[a] = "download" /\ (phase[a] # "ok" \/ ~ctx[a])
    \/ a \in Request /\ phase[a] \in {"rebuild", "master", "empty", "failed", "over", "swept"}
AnyShown == \E f \in Flavor \cup {SourceItself} : Lapsed(f)
StatusInv ==
    /\ status = "transcoding" => (\E a \in Actor : Busy(a)) \/ AnyShown
    /\ status = "probing" => (\E a \in Actor : Probes(a)) \/ Lapsed(SourceItself)

SettledInv == ResetSeen /\ ForSource /\ CoverInv /\ StatusInv

\* What a step of one actor leaves to the others, and what it must do for the
\* flavors and the status that it was the one to see to.
Moves(a) ==
    /\ \A b \in Actor \ {a} : /\ phase'[b] = phase[b] /\ ctx'[b] = ctx[b]
                              /\ todo'[b] = todo[b] /\ seen'[b] = seen[b]
    /\ \A k \in Job \ {a} : state[k] # "none" =>
          kind'[k] = kind[k] /\ target'[k] = target[k] /\ state'[k] = state[k]
Hands(a) ==
    /\ \A f \in Remaining' : \/ Covered(f)' \/ Shown(f)'
                             \/ /\ f \in Remaining /\ (Covers(a, f) => Covers(a, f)')
                                /\ Shown(f) => Shown(f)'
    /\ status' = "transcoding" => \/ (\E b \in Actor : Busy(b)') \/ AnyShown'
                                  \/ /\ status = "transcoding" /\ (Busy(a) => Busy(a)')
                                     /\ AnyShown => AnyShown'
    /\ status' = "probing" => \/ (\E b \in Actor : Probes(b)') \/ Lapsed(SourceItself)'
                              \/ /\ status = "probing" /\ (Probes(a) => Probes(a)')
                                 /\ Lapsed(SourceItself) => Lapsed(SourceItself)'
SettledFor(a) == ResetSeen' /\ ForSource' /\ Moves(a) /\ Hands(a)

\* The same for a step that leaves the queue alone.
Keeps(a) ==
    /\ \A f \in Remaining' : Covered(f)' \/ (f \in Remaining /\ (Covers(a, f) => Covers(a, f)'))
    /\ status' = "transcoding" => \/ (\E b \in Actor : Busy(b)') \/ AnyShown'
                                  \/ status = "transcoding" /\ (Busy(a) => Busy(a)')
    /\ status' = "probing" => \/ \E b \in Actor : Probes(b)'
                              \/ status = "probing" /\ (Probes(a) => Probes(a)')

\* A step keeps the invariant if it moves only its own actor and hands over what that saw to.
LEMMA SettledKept ==
    ASSUME Typed, SettledInv, NEW a \in Actor, SettledFor(a)
    PROVE  SettledInv'
<1> USE DEF SettledFor, SettledInv
<1>1. \A b \in Actor \ {a}, f \in Flavor : Covers(b, f) => Covers(b, f)'
  BY DEF Moves, Covers, Settles, Outstanding, Abandoned, At, First, Actor
<1>2. \A b \in Actor \ {a} : (Busy(b) => Busy(b)') /\ (Probes(b) => Probes(b)')
  BY DEF Moves, Busy, Probes, Outstanding, Abandoned, At, Actor
<1>3. CoverInv'
  BY <1>1 DEF Hands, CoverInv, Covered, Remaining
<1>4. StatusInv'
  BY <1>2 DEF Hands, StatusInv
<1> QED
  BY <1>3, <1>4

\* What the queue shows stays while nothing is enqueued or deleted.
LEMMA LapsedKept ==
    ASSUME dropped \subseteq dropped', NEW f,
           \A k \in Job : Abandoned(k) => Abandoned(k)' /\ target'[k] = target[k]
    PROVE  Lapsed(f) => Lapsed(f)'
BY DEF Lapsed

LEMMA KeepsSettles ==
    ASSUME Typed, SettledInv, NEW a \in Actor, UNCHANGED jobs, a \in Job => phase[a] # "idle",
           ResetSeen', Moves(a), Keeps(a)
    PROVE  SettledFor(a)
<1>1. \A k \in Job : Abandoned(k) => Abandoned(k)' /\ target'[k] = target[k]
  BY DEF jobs, Moves, Abandoned, Actor
<1>2. \A f : Lapsed(f) => Lapsed(f)'
  BY <1>1, LapsedKept DEF jobs
<1>3. ForSource'
  BY DEF SettledInv, ForSource, jobs
<1>4. (\A f : Shown(f) => Shown(f)') /\ (AnyShown => AnyShown')
  BY <1>2 DEF Shown, AnyShown
<1> QED
  BY <1>2, <1>3, <1>4 DEF SettledFor, Keeps, Hands

\* While an entry is transcoding somebody sees to each flavor that is not settled,
\* or the queue shows why nobody does.
LEMMA SomebodySeesTo ==
    ASSUME SettledInv, Remaining # {}
    PROVE  AnyShown \/ \E f \in Remaining, b \in Actor : Covers(b, f)
BY SMTT(60) DEF SettledInv, CoverInv, Shown, AnyShown, Covered, Remaining

\* An enqueued job is a new one ...
LEMMA EnqueueMoves ==
    ASSUME Typed, NEW k, NEW f, Enqueue(k, f)
    PROVE  state' # state
BY DEF Enqueue, FreeJobs, Typed, PartsTyped, JobsTyped

\* ... and this is what it covers.
LEMMA EnqueueSettles ==
    ASSUME Typed, NEW k \in {"probe", "transcode"}, NEW f \in Flavor \cup {SourceItself}, Enqueue(k, f),
           k = "probe" => f = SourceItself, k = "transcode" => f \in Flavor, SettledInv,
           \A j \in Job : phase[j] = "idle" => phase'[j] = "idle"
    PROVE  \E n \in FreeJobs :
              /\ \A j \in Job \ {n} : kind'[j] = kind[j] /\ target'[j] = target[j] /\ state'[j] = state[j]
              /\ ForSource' /\ Busy(n)' /\ (k = "probe" => Probes(n)')
              /\ \A g \in Flavor : (k = "probe" \/ g = f) => Covers(n, g)'
              /\ \A g \in Flavor \cup {SourceItself} : g # f /\ Lapsed(g) => Lapsed(g)'
<1>1. PICK n \in FreeJobs :
         /\ kind' = [kind EXCEPT ![n] = k] /\ target' = [target EXCEPT ![n] = f]
         /\ state' = [state EXCEPT ![n] = "queued"] /\ dropped' = dropped \ {f}
  BY DEF Enqueue
<1> USE DEF Typed, PartsTyped, SlotInv, JobsTyped, HandsTyped, Actor, FreeJobs
<1>2. n \in Job /\ state[n] = "none" /\ phase'[n] = "idle"
  BY <1>1
<1>3. ForSource'
  BY <1>1 DEF SettledInv, ForSource
<1>4. kind'[n] = k /\ target'[n] = f /\ state'[n] = "queued"
  BY <1>1, <1>2
<1>5. Busy(n)' /\ (k = "probe" => Probes(n)')
  BY <1>2, <1>4 DEF Busy, Probes, Outstanding, Abandoned, ToCome
<1>6. \A g \in Flavor : (k = "probe" \/ g = f) => Covers(n, g)'
  BY <1>2, <1>4 DEF Covers, Settles, Outstanding, Abandoned, ToCome, Undecided
<1>7. \A g \in Flavor \cup {SourceItself} : g # f /\ Lapsed(g) => Lapsed(g)'
  <2> SUFFICES ASSUME NEW g \in Flavor \cup {SourceItself}, g # f, Lapsed(g) PROVE Lapsed(g)'
    OBVIOUS
  <2>1. CASE g \in dropped
    BY <1>1, <2>1 DEF Lapsed
  <2>2. ASSUME NEW j \in Job, Abandoned(j), target[j] = g PROVE Lapsed(g)'
    <3>1. j # n
      BY <1>2, <2>2 DEF Abandoned
    <3> QED
      BY <1>1, <2>2, <3>1 DEF Lapsed, Abandoned
  <2> QED
    BY <2>1, <2>2 DEF Lapsed
<1> QED
  BY <1>1, <1>3, <1>5, <1>6, <1>7

\* A download hands over to the probe.
LEMMA DownloadSettles ==
    ASSUME Typed, GoneUnflavored, SettledInv, UNCHANGED scenario,
           NEW j \in Job, DownloadStep(j)
    PROVE  SettledFor(j)
<1>0. ResetSeen /\ j \in Actor
  BY DEF SettledInv, Actor
<1>1. CASE DownloadEnqueue(j) /\ Enqueue("probe", 0)
  <2> DEFINE P(n) == /\ \A k \in Job \ {n} : kind'[k] = kind[k] /\ target'[k] = target[k] /\ state'[k] = state[k]
                     /\ ForSource' /\ Busy(n)' /\ Probes(n)'
                     /\ \A g \in Flavor : Covers(n, g)'
  <2>1. \E n \in FreeJobs : P(n)
    BY <1>1, EnqueueSettles DEF DownloadEnqueue, Goto, At, SourceItself, Typed, PartsTyped, HandsTyped, Actor
  <2>2. PICK n \in FreeJobs : P(n)
    BY <2>1
  <2>3. Hands(j)
    BY <2>2 DEF Hands, Covered, FreeJobs, Actor, Remaining
  <2>4. /\ phase' = [phase EXCEPT ![j] = "ok"] /\ phase[j] = "enqueue" /\ kind[j] = "download"
        /\ state[j] # "none" /\ UNCHANGED local
    BY <1>1, EnqueueMoves DEF DownloadEnqueue, Goto, At, Typed, SlotInv, jobs
  <2>5. Moves(j) /\ ResetSeen'
    BY <1>0, <2>2, <2>4 DEF At, Moves, ResetSeen, FreeJobs, local, Skipped, Typed, PartsTyped, HandsTyped,
       JobsTyped, SlotInv, Actor
  <2> QED
    BY <2>2, <2>3, <2>5 DEF SettledFor
<1>2. CASE ~Enqueue("probe", 0)
  <2>1. ResetSeen' /\ Moves(j) /\ Keeps(j) /\ phase[j] # "idle" /\ UNCHANGED jobs
    <3> USE PipelineAssumption DEF Typed, PartsTyped, SlotInv, JobsTyped, HandsTyped, RowsTyped, StoreTyped,
         Actor, RowExists, At, Goto, ResetSeen, Skipped, Moves, Keeps, Covered, Covers, Settles,
         Outstanding, Abandoned, Busy, Probes, Remaining, Undecided, ToCome, GoneUnflavored
    <3>1. CASE DownloadFetch(j)
      BY <1>0, <1>2, <3>1 DEF DownloadFetch, SetStatus, FailEntry, Writes, rows, output, store, jobs, local
    <3>2. CASE DownloadPut(j)
      BY <1>0, <1>2, <3>2 DEF DownloadPut, SetStatus, FailEntry, Writes, rows, output, store, jobs, local
    <3>3. CASE DownloadUpdate(j)
      BY <1>0, <1>2, <3>3 DEF DownloadUpdate, SetStatus, Writes, output, store, jobs, local
    <3>4. CASE DownloadEnqueue(j)
      BY <1>0, <1>2, <3>4 DEF DownloadEnqueue, Writes, rows, output, store, jobs, local
    <3>5. CASE CheckEntry(j, "download", "start", "fetch")
      BY <1>0, <1>2, <3>5 DEF CheckEntry, Writes, rows, output, store, jobs, local
    <3>6. CASE CheckEntry(j, "download", "check", "put")
      BY <1>0, <1>2, <3>6 DEF CheckEntry, Writes, rows, output, store, jobs, local
    <3> QED
      BY <1>2, <3>1, <3>2, <3>3, <3>4, <3>5, <3>6 DEF DownloadStep
  <2> QED
    BY <1>0, <2>1, KeepsSettles
<1>3. Enqueue("probe", 0) /\ DownloadStep(j) => DownloadEnqueue(j)
  BY EnqueueMoves DEF DownloadStep, DownloadFetch, DownloadPut, DownloadUpdate, CheckEntry, FailEntry, jobs
<1> QED
  BY <1>1, <1>2, <1>3

\* A probe hands each flavor that it has reset to a transcode, or makes the entry ready.
LEMMA ProbeSettles ==
    ASSUME Typed, GoneUnflavored, SettledInv, UNCHANGED scenario,
           NEW j \in Job, ProbeStep(j)
    PROVE  SettledFor(j)
<1>0. ResetSeen /\ j \in Actor
  BY DEF SettledInv, Actor
<1>1. CASE ProbeEnqueue(j) /\ ~UNCHANGED jobs
  <2>0. PICK f \in Flavor : f = First(seen[j]) /\ f # SourceItself
    BY <1>1, FirstIn, PipelineAssumption DEF ProbeEnqueue, Typed, PartsTyped, HandsTyped, Actor, SourceItself
  <2> DEFINE P(n) == /\ \A k \in Job \ {n} : kind'[k] = kind[k] /\ target'[k] = target[k] /\ state'[k] = state[k]
                     /\ ForSource' /\ Busy(n)' /\ Covers(n, f)'
                     /\ \A g \in Flavor \cup {SourceItself} : g # f /\ Lapsed(g) => Lapsed(g)'
  <2>1. /\ At(j, "probe", "enqueue") /\ seen[j] # {} /\ Writes(j) /\ Enqueue("transcode", f)
        /\ seen' = [seen EXCEPT ![j] = @ \ {f}] /\ UNCHANGED <<phase, rows, store, ctx, todo, grew>>
    BY <1>1, <2>0 DEF ProbeEnqueue
  <2>2. f # SourceItself
    BY <2>0
  <2>3. \A i \in Job : phase[i] = "idle" => phase'[i] = "idle"
    BY <2>1
  <2>4. PICK n \in FreeJobs : P(n)
    BY <2>1, <2>2, <2>3, EnqueueSettles
  <2>5. n # j /\ n \in Actor
    BY <2>1 DEF FreeJobs, At, Typed, SlotInv, Actor
  <2>6. Moves(j) /\ ResetSeen'
    BY <1>0, <2>1, <2>4 DEF At, Moves, ResetSeen, FreeJobs, Skipped, Typed, PartsTyped, HandsTyped,
       JobsTyped, SlotInv, Actor
  <2>7. ASSUME NEW g \in Remaining', ~Covered(g)', ~Shown(g)'
        PROVE  g \in Remaining /\ (Covers(j, g) => Covers(j, g)') /\ (Shown(g) => Shown(g)')
    <3>0. g \in Flavor /\ g \in Remaining
      BY <2>1, <2>7 DEF Remaining, rows
    <3>1. g # f
      <4>1. Covered(f)'
        BY <2>4, <2>5 DEF Covered
      <4> QED
        BY <2>7, <4>1
    <3>2. Shown(g) => Shown(g)'
      BY <2>2, <2>4, <3>0, <3>1 DEF Shown, SourceItself
    <3>3. Covers(j, g) => Covers(j, g)'
      BY <2>1, <2>4, <2>5, <3>1 DEF Covers, Settles, Outstanding, Abandoned, At, Undecided, ToCome, FreeJobs,
         Typed, PartsTyped, HandsTyped, Actor
    <3> QED
      BY <3>0, <3>2, <3>3
  <2>8. status' = "transcoding" => \E b \in Actor : Busy(b)'
    BY <2>4, <2>5
  <2>9. status' = "probing" => status = "probing" /\ (Probes(j) => Probes(j)') /\ (Lapsed(SourceItself) => Lapsed(SourceItself)')
    BY <2>1, <2>2, <2>4, <2>5 DEF rows, entryRow, Probes, Outstanding, Abandoned, At, ToCome, Writes
  <2> QED
    BY <2>4, <2>6, <2>7, <2>8, <2>9 DEF SettledFor, Hands
<1>2. CASE UNCHANGED jobs
  <2>1. ResetSeen' /\ Moves(j) /\ Keeps(j) /\ phase[j] # "idle"
    <3> USE PipelineAssumption DEF Typed, PartsTyped, SlotInv, JobsTyped, HandsTyped, RowsTyped, StoreTyped,
         Actor, RowExists, At, Goto, ResetSeen, Skipped, Moves, Keeps, Covered, Covers, Settles,
         Outstanding, Abandoned, Busy, Probes, Remaining, Undecided, ToCome, GoneUnflavored
    <3>1. CASE ProbeSource(j)
      BY <1>0, <1>2, <3>1 DEF ProbeSource, SetStatus, FailEntry, Writes, rows, output, store, jobs, local
    <3>2. CASE ProbePoster(j)
      BY <1>0, <1>2, <3>2 DEF ProbePoster, rows, output, jobs, local
    <3>3. CASE ProbeRead(j)
      <4>1. Ticked \in SUBSET Flavor /\ Remaining \subseteq Ticked
        BY DEF Ticked, Unsettled
      <4>2. /\ phase[j] = "read" /\ kind[j] = "probe" /\ UNCHANGED <<rows, store, jobs, ctx, grew>>
            /\ \/ /\ ctx[j] /\ phase' = [phase EXCEPT ![j] = "reset"]
                  /\ todo' = [todo EXCEPT ![j] = Ticked] /\ seen' = [seen EXCEPT ![j] = Ticked \ Skipped]
               \/ ~ctx[j] /\ phase' = [phase EXCEPT ![j] = "err"] /\ UNCHANGED <<todo, seen>>
        BY <3>3 DEF ProbeRead, Pending
      <4> QED
        BY <1>0, <4>1, <4>2 DEF rows, store, output, jobs
    <3>4. CASE ProbeReset(j)
      <4> DEFINE f == First(todo[j])
      <4>1. /\ phase[j] = "reset" /\ kind[j] = "probe" /\ f \in Flavor
            /\ todo' = [todo EXCEPT ![j] = @ \ {f}] /\ f \in todo[j]
            /\ UNCHANGED <<entryRow, store, jobs, phase, ctx, seen, grew>>
        BY <3>4, FirstIn DEF ProbeReset
      <4>2. f \notin Skipped => f \in seen[j]
        BY <1>0, <4>1
      <4>3. /\ \A g \in Flavor \ {f} : flavors'[g] = flavors[g]
            /\ flavors'[f] \in Unsettled => f \in seen[j] \/ ~ctx[j] \/ ~RowExists
            /\ ~RowExists => flavors' = flavors
        BY ZenonT(60), <3>4, <4>1, <4>2 DEF ProbeReset, Writes, Unsettled
      <4> HIDE DEF f
      <4>4. ResetSeen' /\ Moves(j)
        BY <1>0, <4>1 DEF entryRow, store, output, jobs
      <4>5. CASE ~RowExists
        <5>1. Remaining' = {} /\ status' = "gone"
          BY <4>1, <4>3, <4>5 DEF entryRow, Unsettled
        <5> QED
          BY <4>1, <4>4, <5>1
      <4>6. CASE RowExists
        <5>1. state[j] = "running"
          BY <4>1, <4>6
        <5>2. ASSUME NEW g \in Remaining'
              PROVE  Covered(g)' \/ (g \in Remaining /\ (Covers(j, g) => Covers(j, g)'))
          <6>1. CASE g = f
            BY <1>0, <4>1, <4>3, <4>6, <5>1, <5>2, <6>1 DEF jobs
          <6>2. CASE g # f
            BY <1>0, <4>1, <4>3, <5>1, <5>2, <6>2 DEF jobs
          <6> QED
            BY <6>1, <6>2
        <5>3. /\ status' = status /\ (Busy(j) => Busy(j)') /\ (Probes(j) => Probes(j)')
          BY <4>1 DEF entryRow, jobs
        <5> QED
          BY <4>1, <4>4, <5>2, <5>3
      <4> QED
        BY <4>5, <4>6
    <3>5. CASE ProbePublish(j)
      BY <1>0, <1>2, <3>5 DEF ProbePublish, rows, output, jobs, local
    <3>6. CASE ProbeReady(j)
      BY <1>0, <1>2, <3>6 DEF ProbeReady, SetStatus, Writes, output, store, jobs, local
    <3>7. CASE ProbeTranscoding(j)
      BY <1>0, <1>2, <3>7 DEF ProbeTranscoding, SetStatus, Writes, output, store, jobs, local
    <3>8. CASE ProbeEnqueue(j)
      <4>1. /\ phase[j] = "enqueue" /\ kind[j] = "probe" /\ UNCHANGED <<rows, store, ctx, todo, seen, grew, jobs>>
            /\ \/ seen[j] # {} /\ ~Writes(j) /\ phase' = [phase EXCEPT ![j] = "err"]
               \/ seen[j] = {} /\ phase' = [phase EXCEPT ![j] = "ok"]
        BY <1>2, <3>8, EnqueueMoves DEF ProbeEnqueue, jobs
      <4> QED
        BY <1>0, <4>1 DEF Writes, rows, entryRow, store, output, jobs, Unsettled
    <3>9. CASE CheckEntry(j, "probe", "start", "probe")
      BY <1>0, <1>2, <3>9 DEF CheckEntry, Writes, rows, output, store, jobs, local
    <3>10. CASE CheckEntry(j, "probe", "check", "poster")
      BY <1>0, <1>2, <3>10 DEF CheckEntry, Writes, rows, output, store, jobs, local
    <3> QED
      BY <3>1, <3>2, <3>3, <3>4, <3>5, <3>6, <3>7, <3>8, <3>9, <3>10 DEF ProbeStep
  <2> QED
    BY <1>0, <1>2, <2>1, KeepsSettles
<1>3. UNCHANGED jobs \/ ProbeEnqueue(j)
  BY DEF ProbeStep, ProbeSource, FailEntry, ProbePoster, ProbeRead, ProbeReset, ProbePublish, ProbeReady,
     ProbeTranscoding, CheckEntry
<1> QED
  BY <1>1, <1>2, <1>3

\* A transcode settles its flavor, and the last one the entry.
LEMMA TranscodeSettles ==
    ASSUME Typed, GoneUnflavored, SettledInv, UNCHANGED scenario,
           NEW j \in Job, TranscodeStep(j)
    PROVE  SettledFor(j)
<1>0. ResetSeen /\ j \in Actor /\ UNCHANGED jobs /\ phase[j] # "idle"
  BY DEF SettledInv, Actor, TranscodeStep, TranscodeSpool, FailEntry, TranscodeMark, TranscodeEncode,
     EncodeEnds, EncodeCheck, TranscodeDone, FinalizeCheck, FinalizeRemaining, FinalizeDone, FinalizeFail,
     FinalizeBuild, FinalizeMaster, FinalizeReady, CheckEntry, At, store
<1>a. ASSUME ResetSeen' /\ Moves(j) /\ Keeps(j) PROVE SettledFor(j)
  BY <1>0, <1>a, KeepsSettles
<1> USE PipelineAssumption DEF Typed, PartsTyped, SlotInv, JobsTyped, HandsTyped, RowsTyped, StoreTyped,
     Actor, RowExists, At, Goto, ResetSeen, Skipped, Moves, Keeps, Covered, Covers, Settles,
     Outstanding, Abandoned, Busy, Probes, Remaining, Undecided, ToCome, GoneUnflavored
<1>1. CASE TranscodeSpool(j)
  BY <1>0, <1>a, <1>1 DEF TranscodeSpool, SetStatus, FailEntry, Writes, rows, output, store, jobs, local
<1>2. CASE TranscodeMark(j)
  <2>1. /\ phase[j] = "mark" /\ kind[j] = "transcode"
        /\ phase' = [phase EXCEPT ![j] = "check"] \/ (~ctx[j] /\ phase' = [phase EXCEPT ![j] = "finalize"])
        /\ \A f \in Flavor \ {target[j]} : flavors'[f] = flavors[f]
        /\ ctx[j] \/ flavors' = flavors
        /\ flavors[target[j]] = "none" => flavors'[target[j]] = "none"
        /\ UNCHANGED <<entryRow, store, jobs, local>>
    BY <1>2 DEF TranscodeMark, SetFlavor
  <2>2. ResetSeen' /\ Moves(j)
    BY <1>0, <2>1 DEF jobs, local
  <2>3. Busy(j) => Busy(j)'
    BY <2>1 DEF jobs, local
  <2>4. Probes(j) => Probes(j)'
    BY <2>1 DEF jobs, local
  <2>5. ASSUME NEW f \in Remaining'
        PROVE  Covered(f)' \/ (f \in Remaining /\ (Covers(j, f) => Covers(j, f)'))
    <3>1. CASE f = target[j]
      <4>1. CASE ctx[j]
        <5>1. phase' = [phase EXCEPT ![j] = "check"]
          BY <2>1, <4>1
        <5>2. state[j] \in {"running", "deleted"}
          BY <2>1
        <5>3. CASE state[j] = "running"
          BY <1>0, <2>1, <3>1, <4>1, <5>1, <5>3 DEF jobs, local
        <5>4. CASE state[j] = "deleted"
          BY <1>0, <2>1, <2>5, <3>1, <4>1, <5>1, <5>4 DEF jobs, local, Unsettled
        <5> QED
          BY <5>2, <5>3, <5>4
      <4>2. CASE ~ctx[j]
        BY <1>0, <2>1, <2>5, <4>2 DEF jobs, local
      <4> QED
        BY <4>1, <4>2
    <3>2. CASE f # target[j]
      BY <1>0, <2>1, <2>5, <3>2 DEF jobs, local
    <3> QED
      BY <3>1, <3>2
  <2> QED
    BY <1>a, <2>1, <2>2, <2>3, <2>4, <2>5 DEF entryRow
<1>3. CASE TranscodeEncode(j)
  BY <1>0, <1>a, <1>3 DEF TranscodeEncode, rows, jobs, local
<1>4. CASE EncodeEnds(j)
  <2>1. /\ phase[j] = "encoding" /\ kind[j] = "transcode"
        /\ \/ UNCHANGED flavors /\ phase' = [phase EXCEPT ![j] = "encoded"]
           \/ /\ ~ctx[j] \/ flavors'[target[j]] \notin Unsettled
              /\ ctx[j] \/ flavors' = flavors
              /\ phase' = [phase EXCEPT ![j] = "finalize"]
        /\ \A f \in Flavor \ {target[j]} : flavors'[f] = flavors[f]
        /\ UNCHANGED <<entryRow, media, torn, listed, jobs, local>>
    BY <1>4 DEF EncodeEnds, SetFlavor, Unsettled
  <2> QED
    BY <1>0, <1>a, <2>1 DEF entryRow, jobs, local
<1>5. CASE EncodeCheck(j)
  BY <1>0, <1>a, <1>5 DEF EncodeCheck, Writes, DropPartial, rows, jobs, local
<1>6. CASE TranscodeDone(j)
  <2>1. /\ phase[j] = "done" /\ kind[j] = "transcode"
        /\ ~ctx[j] \/ flavors'[target[j]] \notin Unsettled
        /\ ctx[j] \/ flavors' = flavors
        /\ phase' = [phase EXCEPT ![j] = "finalize"]
        /\ \A f \in Flavor \ {target[j]} : flavors'[f] = flavors[f]
        /\ UNCHANGED <<entryRow, store, jobs, local>>
    BY <1>6 DEF TranscodeDone, SetFlavor, Unsettled
  <2> QED
    BY <1>0, <1>a, <2>1 DEF entryRow, store, output, jobs, local
<1>7. CASE FinalizeCheck(j)
  BY <1>0, <1>a, <1>7 DEF FinalizeCheck, Writes, rows, output, store, jobs, local
<1>8. CASE FinalizeRemaining(j)
  <2>1. /\ phase[j] = "remaining" /\ kind[j] = "transcode" /\ UNCHANGED <<rows, store, jobs, local>>
        /\ phase' = [phase EXCEPT ![j] = IF ~ctx[j] THEN "err" ELSE IF Remaining = {} THEN "count" ELSE "ok"]
    BY <1>8 DEF FinalizeRemaining, LastFlavor
  <2>2. ResetSeen' /\ Moves(j) /\ (\A f : Covers(j, f) => Covers(j, f)') /\ (Probes(j) => Probes(j)')
    BY <1>0, <2>1 DEF jobs, local
  <2>3. CASE ~ctx[j] \/ Remaining = {}
    BY <1>0, <1>a, <2>1, <2>2, <2>3 DEF rows, store, output, jobs, local
  <2>4. CASE ctx[j] /\ Remaining # {}
    <3>1. AnyShown \/ \E f \in Remaining, b \in Actor : Covers(b, f)
      BY <2>4, SomebodySeesTo
    <3>2. AnyShown => AnyShown'
      <4>1. \A k \in Job : Abandoned(k) => Abandoned(k)' /\ target'[k] = target[k]
        BY <2>1 DEF jobs
      <4> QED
        BY <2>1, <4>1, LapsedKept DEF AnyShown, jobs
    <3>3. ASSUME NEW f \in Remaining, NEW b \in Actor, Covers(b, f)
          PROVE  Busy(b)'
      <4>1. b # j
        BY <2>1, <2>4, <3>3
      <4>2. Busy(b)
        BY <3>3
      <4> QED
        BY <2>1, <4>1, <4>2 DEF jobs, local
    <3>4. AnyShown' \/ \E b \in Actor : Busy(b)'
      BY <3>1, <3>2, <3>3
    <3>5. Keeps(j)
      BY <2>1, <2>2, <3>4 DEF rows, entryRow
    <3> QED
      BY <1>a, <2>2, <3>5
  <2> QED
    BY <2>3, <2>4
<1>9. CASE FinalizeDone(j)
  BY <1>0, <1>a, <1>9 DEF FinalizeDone, Done, rows, output, store, jobs, local
<1>10. CASE FinalizeFail(j)
  BY <1>0, <1>a, <1>10 DEF FinalizeFail, SetStatus, FailEntry, Writes, output, store, jobs, local
<1>11. CASE FinalizeBuild(j)
  BY <1>0, <1>a, <1>11 DEF FinalizeBuild, Done, Renditions, rows, output, store, jobs
<1>12. CASE FinalizeMaster(j)
  BY <1>0, <1>a, <1>12 DEF FinalizeMaster, rows, output, jobs, local
<1>13. CASE FinalizeReady(j)
  BY <1>0, <1>a, <1>13 DEF FinalizeReady, SetStatus, Writes, output, store, jobs, local
<1>14. CASE CheckEntry(j, "transcode", "start", "spool")
  BY <1>0, <1>a, <1>14 DEF CheckEntry, Writes, rows, output, store, jobs, local
<1>15. CASE CheckEntry(j, "transcode", "check", "encode")
  BY <1>0, <1>a, <1>15 DEF CheckEntry, Writes, rows, output, store, jobs, local
<1> QED
  BY ZenonT(60), <1>1, <1>2, <1>3, <1>4, <1>5, <1>6, <1>7, <1>8, <1>9, <1>10, <1>11, <1>12, <1>13, <1>14,
     <1>15 DEF TranscodeStep

\* A job that is claimed, settled or cancelled, or whose worker dies, goes on, or
\* shows in the queue that it does not.
LEMMA QueueSettles ==
    ASSUME Typed, GoneUnflavored, SettledInv, UNCHANGED scenario,
           NEW j \in Job, Claim(j) \/ Settle(j) \/ RequestCancel(j) \/ WatcherFires(j) \/ Crash(j)
    PROVE  SettledFor(j)
<1> DEFINE Stays == /\ \A f \in Flavor : Covers(j, f) => Covers(j, f)'
                    /\ (Busy(j) => Busy(j)') /\ (Probes(j) => Probes(j)')
<1> USE PipelineAssumption DEF Typed, PartsTyped, SlotInv, JobsTyped, HandsTyped, RowsTyped, StoreTyped,
     Actor, RowExists, At, Goto, ResetSeen, Skipped, Moves, Keeps, Covered, Covers, Settles,
     Outstanding, Abandoned, Busy, Probes, Remaining, Undecided, ToCome, GoneUnflavored
<1>0. /\ j \in Actor /\ ForSource /\ ResetSeen /\ target[j] \in Flavor \cup {SourceItself}
      /\ state[j] = "queued" => phase[j] = "idle"
  BY DEF SettledInv, SourceItself
<1>t. PICK t \in Flavor \cup {SourceItself} : t = target[j]
  BY <1>0
<1>1. ASSUME ForSource', ResetSeen', Moves(j), UNCHANGED rows, dropped \subseteq dropped',
             Abandoned(j) => Abandoned(j)' /\ target'[j] = target[j], Stays \/ Lapsed(t)'
      PROVE  SettledFor(j)
  <2>1. \A f : Lapsed(f) => Lapsed(f)'
    <3>1. \A k \in Job : Abandoned(k) => Abandoned(k)' /\ target'[k] = target[k]
      BY <1>1
    <3> QED
      BY <1>1, <3>1, LapsedKept
  <2>2. (\A f : Shown(f) => Shown(f)') /\ (AnyShown => AnyShown')
    BY <2>1 DEF Shown, AnyShown
  <2>3. Remaining' = Remaining /\ status' = status
    BY <1>1 DEF rows, entryRow
  <2>4. CASE Stays
    BY <1>1, <2>1, <2>2, <2>3, <2>4 DEF SettledFor, Hands
  <2>5. CASE Lapsed(t)' /\ ~Stays
    <3>1. AnyShown'
      BY <2>5 DEF AnyShown
    <3>2. kind[j] \in {"download", "probe"} => Lapsed(SourceItself)'
      BY <1>0, <1>t, <2>5 DEF ForSource
    <3>3. \A f \in Flavor : Covers(j, f) => Shown(f)'
      BY <1>t, <2>5, <3>2 DEF Shown
    <3>4. Probes(j) => Lapsed(SourceItself)'
      BY <3>2
    <3> QED
      BY <1>1, <2>1, <2>2, <2>3, <3>1, <3>3, <3>4 DEF SettledFor, Hands
  <2> QED
    BY <1>1, <2>4, <2>5
<1>2. CASE Claim(j)
  <2>1. /\ state[j] = "queued" /\ state' = [state EXCEPT ![j] = "running"]
        /\ phase' = [phase EXCEPT ![j] = "start"] /\ phase[j] = "idle"
        /\ UNCHANGED <<rows, store, kind, target, flagged, dropped, local>>
    BY <1>0, <1>2 DEF Claim
  <2>2. ForSource' /\ ResetSeen' /\ Moves(j) /\ ~Abandoned(j)
    BY <1>0, <2>1 DEF ForSource, local
  <2>3. Stays
    BY <2>1 DEF local
  <2> QED
    BY <1>1, <2>1, <2>2, <2>3
<1>3. CASE Settle(j)
  <2>1. /\ phase[j] \in {"ok", "err"} /\ phase' = [phase EXCEPT ![j] = "idle"]
        /\ ctx' = [ctx EXCEPT ![j] = TRUE] /\ todo' = [todo EXCEPT ![j] = {}]
        /\ seen' = [seen EXCEPT ![j] = {}] /\ UNCHANGED rows
        /\ state[j] \in {"running", "deleted"}
    BY <1>3 DEF Settle, ResetLocals
  <2>2. CASE Retried(j) /\ state' = [state EXCEPT ![j] = "queued"] /\ UNCHANGED <<kind, target, attempts, flagged, dropped>>
    <3>1. ForSource' /\ ResetSeen' /\ Moves(j) /\ ~Abandoned(j)
      BY <1>0, <2>1, <2>2 DEF ForSource
    <3>2. Stays
      BY <2>1, <2>2
    <3> QED
      BY <1>1, <2>1, <2>2, <3>1, <3>2
  <2>3. CASE LeftRunning(j) /\ UNCHANGED jobs
    <3>1. ForSource' /\ ResetSeen' /\ Moves(j) /\ ~Abandoned(j)
      BY <1>0, <2>1, <2>3 DEF ForSource, jobs
    <3>2. Abandoned(j)' /\ target'[j] = target[j]
      BY <2>1, <2>3 DEF LeftRunning, jobs
    <3>3. Lapsed(t)'
      BY <1>t, <3>2 DEF Lapsed
    <3> QED
      BY <1>1, <2>1, <2>3, <3>1, <3>3 DEF jobs
  <2>4. CASE Drop(j)
    <3>1. ForSource' /\ ResetSeen' /\ Moves(j) /\ ~Abandoned(j)
      BY <1>0, <2>1, <2>4 DEF ForSource, Drop, Forget
    <3>2. Lapsed(t)' /\ dropped \subseteq dropped'
      BY <1>t, <2>4 DEF Lapsed, Drop
    <3> QED
      BY <1>1, <2>1, <3>1, <3>2
  <2>5. CASE Forget(j) /\ (state[j] = "deleted" \/ (phase[j] = "ok" /\ ~LeftRunning(j))) /\ UNCHANGED dropped
    <3>1. ForSource' /\ ResetSeen' /\ Moves(j) /\ ~Abandoned(j)
      BY <1>0, <2>1, <2>5 DEF ForSource, Forget
    <3>2. Stays
      BY <2>1, <2>5 DEF LeftRunning
    <3> QED
      BY <1>1, <2>1, <2>5, <3>1, <3>2
  <2> QED
    BY <1>3, <2>2, <2>3, <2>4, <2>5 DEF Settle
<1>4. CASE RequestCancel(j)
  <2>1. UNCHANGED <<rows, store, phase, local>>
    BY <1>4 DEF RequestCancel
  <2>2. CASE state[j] = "queued" /\ Drop(j)
    <3>1. ForSource' /\ ResetSeen' /\ Moves(j) /\ ~Abandoned(j)
      BY <1>0, <2>1, <2>2 DEF ForSource, Drop, Forget, local
    <3>2. Lapsed(t)' /\ dropped \subseteq dropped'
      BY <1>t, <2>2 DEF Lapsed, Drop
    <3> QED
      BY <1>1, <2>1, <3>1, <3>2
  <2>3. CASE UNCHANGED <<kind, target, state, attempts, dropped>>
    <3>1. ForSource' /\ ResetSeen' /\ Moves(j) /\ (Abandoned(j) => Abandoned(j)' /\ target'[j] = target[j])
      BY <1>0, <2>1, <2>3 DEF ForSource, local
    <3>2. Stays
      BY <2>1, <2>3 DEF local, First
    <3> QED
      BY <1>1, <2>1, <2>3, <3>1, <3>2
  <2> QED
    BY <1>4, <2>2, <2>3 DEF RequestCancel
<1>5. CASE WatcherFires(j)
  <2>1. ForSource' /\ ResetSeen' /\ Moves(j) /\ (Abandoned(j) => Abandoned(j)' /\ target'[j] = target[j])
    BY <1>0, <1>5 DEF WatcherFires, ForSource, jobs
  <2>2. Stays
    BY <1>5 DEF WatcherFires, jobs
  <2> QED
    BY <1>1, <1>5, <2>1, <2>2 DEF WatcherFires, jobs
<1>6. CASE Crash(j)
  <2>1. /\ phase[j] \notin {"idle", "lost"} /\ UNCHANGED rows
        /\ ctx' = [ctx EXCEPT ![j] = TRUE] /\ todo' = [todo EXCEPT ![j] = {}]
        /\ seen' = [seen EXCEPT ![j] = {}]
        /\ \/ state[j] = "deleted" /\ phase' = [phase EXCEPT ![j] = "idle"] /\ Forget(j) /\ UNCHANGED dropped
           \/ state[j] # "deleted" /\ phase' = [phase EXCEPT ![j] = "lost"] /\ UNCHANGED jobs
    BY <1>6 DEF Crash, InHand, ResetLocals
  <2>2. ForSource' /\ ResetSeen' /\ Moves(j) /\ ~Abandoned(j)
    BY <1>0, <2>1 DEF ForSource, Forget, jobs
  <2>3. Stays
    BY <2>1 DEF jobs
  <2> QED
    BY <1>1, <2>1, <2>2, <2>3 DEF jobs
<1> QED
  BY <1>2, <1>3, <1>4, <1>5, <1>6

\* A request hands each flavor that it adds to a transcode.
LEMMA RequestSettles ==
    ASSUME Typed, GoneUnflavored, SettledInv, UNCHANGED scenario,
           NEW r \in Request, Arrive(r) \/ Serve(r), ~DeleteRow(r)
    PROVE  SettledFor(r)
<1>0. ResetSeen /\ r \in Actor /\ r \notin Job
  BY PipelineAssumption DEF SettledInv, Actor
<1>a. ASSUME ResetSeen', Moves(r), Keeps(r), UNCHANGED jobs PROVE SettledFor(r)
  BY <1>0, <1>a, KeepsSettles
<1>1. CASE Reprocess(r)
  <2>1. /\ phase[r] = "idle" /\ phase' = [phase EXCEPT ![r] = "reprocess"] /\ Enqueue("probe", SourceItself)
        /\ UNCHANGED <<rows, store, local>>
    BY <1>1 DEF Reprocess, Requested, SourceItself, Goto
  <2>2. \A j \in Job : phase[j] = "idle" => phase'[j] = "idle"
    BY <1>0, <2>1
  <2>a. SourceItself \notin Flavor
    BY PipelineAssumption DEF SourceItself
  <2>3. PICK n \in FreeJobs :
           /\ \A j \in Job \ {n} : kind'[j] = kind[j] /\ target'[j] = target[j] /\ state'[j] = state[j]
           /\ ForSource' /\ Busy(n)' /\ Probes(n)'
           /\ \A g \in Flavor : Covers(n, g)'
    BY <2>1, <2>2, <2>a, EnqueueSettles
  <2>4. n \in Actor /\ n # r /\ state[n] = "none"
    BY <1>0, <2>3 DEF FreeJobs, Actor
  <2>5. ResetSeen' /\ Moves(r)
    BY <1>0, <2>1, <2>3, <2>4 DEF local, ResetSeen, Moves, At, FreeJobs, Skipped, Actor, Typed, PartsTyped,
       HandsTyped, JobsTyped, SlotInv
  <2>6. Hands(r)
    BY <2>3, <2>4 DEF Hands, Covered, Remaining
  <2> QED
    BY <2>3, <2>5, <2>6 DEF SettledFor
<1> USE PipelineAssumption DEF Typed, PartsTyped, SlotInv, JobsTyped, HandsTyped, RowsTyped, StoreTyped,
     Actor, RowExists, At, Goto, ResetSeen, Skipped, Moves, Keeps, Covered, Covers, Settles,
     Outstanding, Abandoned, Busy, Probes, Remaining, Undecided, ToCome, GoneUnflavored
<1>2. CASE \E want \in SUBSET Flavor : Edit(r, want)
  BY <1>0, <1>a, <1>2 DEF Edit, Requested, rows, output, store, jobs
<1>3. CASE Delete(r)
  BY <1>0, <1>a, <1>3 DEF Delete, Requested, rows, jobs, local
<1>4. CASE ReprocessStatus(r)
  BY <1>0, <1>a, <1>4 DEF ReprocessStatus, SetStatus, ResetLocals, Respond, Over, Writes, output, store, jobs
<1>5. CASE EditInsert(r)
  BY SMTT(60), <1>0, <1>a, <1>5, FirstIn DEF EditInsert, ResetLocals, Respond, Over, entryRow, output, store, jobs,
     local
<1>6. CASE EditEnqueue(r)
  <2>1. CASE ~RowExists
    <3>1. /\ phase' = [phase EXCEPT ![r] = "over"] /\ UNCHANGED <<rows, store, jobs>>
          /\ ctx' = [ctx EXCEPT ![r] = TRUE] /\ todo' = [todo EXCEPT ![r] = {}]
          /\ seen' = [seen EXCEPT ![r] = {}]
      BY <1>6, <2>1 DEF EditEnqueue, ResetLocals, Respond, Over
    <3>2. ResetSeen' /\ Moves(r)
      BY <1>0, <2>1, <3>1 DEF rows, store, output, jobs
    <3>3. Keeps(r)
      <4>1. Remaining' = {} /\ status' = "gone"
        BY <2>1, <3>1 DEF rows, Unsettled
      <4> QED
        BY <4>1
    <3> QED
      BY <1>a, <3>1, <3>2, <3>3
  <2>2. CASE RowExists
    <3>1. PICK f \in Flavor : f = First(todo[r])
      BY ZenonT(60), <1>6, FirstIn DEF EditEnqueue, ToPrepare
    <3>2. /\ phase[r] = "prepare" /\ phase' = [phase EXCEPT ![r] = "insert"]
          /\ todo' = [todo EXCEPT ![r] = @ \ {f}] /\ Enqueue("transcode", f)
          /\ UNCHANGED <<rows, store, ctx, seen, grew>>
      BY <1>6, <2>2, <3>1 DEF EditEnqueue
    <3>3. \A j \in Job : phase[j] = "idle" => phase'[j] = "idle"
      BY <1>0, <3>2
    <3>4. f # SourceItself
      BY DEF SourceItself
    <3>5. PICK n \in FreeJobs :
             /\ \A j \in Job \ {n} : kind'[j] = kind[j] /\ target'[j] = target[j] /\ state'[j] = state[j]
             /\ ForSource' /\ Busy(n)' /\ Covers(n, f)'
             /\ \A g \in Flavor \cup {SourceItself} : g # f /\ Lapsed(g) => Lapsed(g)'
      BY <3>2, <3>3, EnqueueSettles
    <3>6. n \in Actor /\ n # r /\ state[n] = "none"
      BY <1>0, <3>5 DEF FreeJobs
    <3>7. ResetSeen' /\ Moves(r)
      BY <1>0, <3>2, <3>5, <3>6
    <3>8. ASSUME NEW g \in Remaining', ~Covered(g)', ~Shown(g)'
          PROVE  g \in Remaining /\ (Covers(r, g) => Covers(r, g)') /\ (Shown(g) => Shown(g)')
      <4>1. g \in Flavor /\ g \in Remaining
        BY <3>2 DEF rows
      <4>2. g # f
        <5>1. Covered(f)'
          BY <3>5, <3>6
        <5> QED
          BY <3>8, <5>1
      <4>3. Shown(g) => Shown(g)'
        BY <3>4, <3>5, <4>1, <4>2 DEF Shown, SourceItself
      <4>4. ~Covers(r, g)
        BY <1>0, <3>1, <3>2, <4>2
      <4> QED
        BY <4>1, <4>3, <4>4
    <3>9. status' = "transcoding" => \E b \in Actor : Busy(b)'
      BY <3>5, <3>6
    <3>10. status' = "probing" => status = "probing" /\ (Probes(r) => Probes(r)')
                                  /\ (Lapsed(SourceItself) => Lapsed(SourceItself)')
      BY <1>0, <3>2, <3>4, <3>5 DEF rows, entryRow
    <3> QED
      BY <3>5, <3>7, <3>8, <3>9, <3>10 DEF SettledFor, Hands
  <2> QED
    BY <2>1, <2>2
<1>7. CASE EditRemoveFiles(r)
  BY <1>0, <1>a, <1>7 DEF EditRemoveFiles, rows, jobs, local
<1>8. CASE EditRemoveRow(r)
  <2>1. /\ phase[r] = "remove" /\ phase' = [phase EXCEPT ![r] = "insert"]
        /\ \A f \in Flavor : flavors'[f] = flavors[f] \/ flavors'[f] = "none"
        /\ seen' = [seen EXCEPT ![r] = @ \ {First(seen[r])}]
        /\ UNCHANGED <<entryRow, store, jobs, ctx, todo, grew>>
    BY <1>8 DEF EditRemoveRow
  <2> QED
    BY <1>0, <1>a, <2>1 DEF entryRow, store, output, jobs, Unsettled
<1>9. CASE EditStatus(r)
  BY <1>0, <1>a, <1>9 DEF EditStatus, ResetLocals, Respond, Over, output, store, jobs, local
<1>10. CASE EditRebuild(r)
  BY <1>0, <1>a, <1>10 DEF EditRebuild, Done, rows, output, store, jobs
<1>11. CASE EditMaster(r)
  BY <1>0, <1>a, <1>11 DEF EditMaster, ResetLocals, Respond, Over, rows, output, jobs, local
<1>12. CASE EditCount(r)
  BY SMTT(60), <1>0, <1>a, <1>12 DEF EditCount, ResetLocals, Respond, Over, Done, rows, output, store, jobs, local
<1>13. CASE EditFail(r)
  BY <1>0, <1>a, <1>13 DEF EditFail, SetStatus, ResetLocals, Respond, Over, Writes, output, store, jobs
<1>14. CASE DeleteSweep(r)
  BY <1>0, <1>a, <1>14 DEF DeleteSweep, Over, rows, jobs, local
<1> QED
  BY ZenonT(60), <1>1, <1>2, <1>3, <1>4, <1>5, <1>6, <1>7, <1>8, <1>9, <1>10, <1>11, <1>12, <1>13, <1>14 DEF Arrive, Serve

\* When stale jobs are requeued, the lost ones go on, and transcoding flavors read pending.
LEMMA RequeueSettles ==
    ASSUME Typed, SettledInv, UNCHANGED scenario, RequeueStale
    PROVE  SettledInv'
<1>1. /\ \A f \in Flavor : flavors'[f] \in Unsettled => flavors[f] \in Unsettled
      /\ UNCHANGED <<entryRow, store, kind, target, attempts, flagged, dropped, local>>
  BY DEF RequeueStale, Unsettled, Typed, PartsTyped, RowsTyped
<1>2. /\ \A j \in Job : \/ phase[j] # "lost" /\ state'[j] = state[j] /\ phase'[j] = phase[j]
                        \/ phase[j] = "lost" /\ state'[j] = "queued" /\ phase'[j] = "idle"
      /\ \A r \in Request : phase'[r] = phase[r]
  <2> DEFINE lost == {j \in Job : phase[j] = "lost"}
  <2>1. /\ state' = [j \in Job |-> IF j \in lost THEN "queued" ELSE state[j]]
        /\ phase' = [a \in Actor |-> IF a \in lost THEN "idle" ELSE phase[a]]
    BY DEF RequeueStale
  <2> HIDE DEF lost
  <2>2. \A j \in Job : state'[j] = IF j \in lost THEN "queued" ELSE state[j]
    BY <2>1
  <2>3. \A a \in Actor : phase'[a] = IF a \in lost THEN "idle" ELSE phase[a]
    BY <2>1
  <2>4. lost \subseteq Job /\ \A j \in Job : j \in lost <=> phase[j] = "lost"
    BY DEF lost
  <2>5. \A r \in Request : r \notin lost
    BY <2>4, PipelineAssumption
  <2>6. ASSUME NEW j \in Job
        PROVE  \/ phase[j] # "lost" /\ state'[j] = state[j] /\ phase'[j] = phase[j]
               \/ phase[j] = "lost" /\ state'[j] = "queued" /\ phase'[j] = "idle"
    BY <2>2, <2>3, <2>4 DEF Actor
  <2>7. \A r \in Request : phase'[r] = phase[r]
    BY <2>3, <2>5 DEF Actor
  <2> QED
    BY <2>6, <2>7
<1>3. ForSource' /\ ResetSeen'
  BY <1>1, <1>2 DEF SettledInv, ForSource, ResetSeen, Skipped, At, local, Actor
<1>4. \A a \in Actor : /\ \A f \in Flavor : Covers(a, f) => Covers(a, f)'
                       /\ Busy(a) => Busy(a)'
                       /\ Probes(a) => Probes(a)'
  BY <1>1, <1>2 DEF Covers, Settles, Outstanding, Abandoned, Busy, Probes, First, local, Actor,
     Undecided, ToCome, At
<1>5. \A f : Lapsed(f) => Lapsed(f)'
  <2>1. \A k \in Job : Abandoned(k) => Abandoned(k)' /\ target'[k] = target[k]
    BY <1>1, <1>2 DEF Abandoned
  <2> QED
    BY <1>1, <2>1, LapsedKept
<1>6. CoverInv' /\ StatusInv'
  BY <1>1, <1>4, <1>5 DEF SettledInv, CoverInv, Covered, Shown, AnyShown, StatusInv, Remaining, entryRow
<1> QED
  BY <1>3, <1>6 DEF SettledInv

\* A deletion leaves no flavor, and no job but those whose goroutines go on.
LEMMA DeleteRowSettles ==
    ASSUME Typed, SettledInv, UNCHANGED scenario, NEW r \in Request, DeleteRow(r)
    PROVE  SettledInv'
<1> USE PipelineAssumption DEF Typed, PartsTyped, SlotInv, JobsTyped, HandsTyped, Actor, At, InHand, local
<1>1. status' = "gone" /\ Remaining' = {}
  BY DEF DeleteRow, Remaining, Unsettled
<1>2. \A j \in Job : /\ phase'[j] \in {phase[j], "idle"}
                     /\ (kind'[j] = kind[j] /\ target'[j] = target[j]) \/ kind'[j] = "none"
  BY DEF DeleteRow
<1>3. ForSource' /\ ResetSeen'
  BY <1>2 DEF DeleteRow, SettledInv, ResetSeen, ForSource, Skipped
<1>4. CoverInv' /\ StatusInv'
  BY <1>1 DEF CoverInv, StatusInv
<1> QED
  BY <1>3, <1>4 DEF SettledInv

\* Every step keeps somebody at each flavor, or shows in the queue that nobody is.
LEMMA StepSettled ==
    ASSUME PipelineInv, SettledInv, [Next]_vars
    PROVE  SettledInv'
<1>0. UNCHANGED scenario /\ Typed /\ GoneUnflavored
  BY DEF Next, vars, PipelineInv, FilesInv
<1>1. CASE UNCHANGED vars
  BY <1>1 DEF vars, rows, entryRow, store, output, jobs, local, SettledInv, ForSource, ResetSeen, CoverInv,
     StatusInv, Skipped, At, Covered, Covers, Shown, AnyShown, Lapsed, Settles, Outstanding,
     Abandoned, Busy, Probes, Remaining, First
<1>2. CASE RequeueStale
  BY <1>0, <1>2, RequeueSettles
<1>3. ASSUME NEW j \in Job, Claim(j) \/ Handle(j) \/ RequestCancel(j) \/ WatcherFires(j) \/ Crash(j)
      PROVE  SettledInv'
  <2>1. SettledFor(j)
    BY <1>0, <1>3, QueueSettles, DownloadSettles, ProbeSettles, TranscodeSettles DEF Handle
  <2> QED
    BY <1>0, <2>1, SettledKept DEF Actor
<1>4. ASSUME NEW r \in Request, Arrive(r) \/ Serve(r) PROVE SettledInv'
  <2>1. CASE DeleteRow(r)
    BY <1>0, <2>1, DeleteRowSettles
  <2>2. CASE ~DeleteRow(r)
    <3>1. SettledFor(r)
      BY <1>0, <1>4, <2>2, RequestSettles
    <3> QED
      BY <1>0, <3>1, SettledKept DEF Actor
  <2> QED
    BY <2>1, <2>2
<1> QED
  BY <1>1, <1>2, <1>3, <1>4 DEF Next, Step

\* At the beginning there is nothing to settle, or a job that has yet to be claimed.
LEMMA InitSettled == Init => Sourced /\ SettledInv
<1> SUFFICES ASSUME Init PROVE Sourced /\ SettledInv
  OBVIOUS
<1>1. /\ \A a \in Actor : phase[a] = "idle" /\ ctx[a]
      /\ \A j \in Job : state[j] # "running" /\ target[j] = 0 /\ kind[j] # "transcode"
      /\ Remaining = {} /\ status # "transcoding"
      /\ source => "original" \in media
      /\ ~source => "submitted" \in scenario /\ \A j \in Job : kind[j] # "probe"
  BY DEF Init, Uploaded, Submitted, Published, Remaining, Unsettled
<1>2. ForSource /\ Sourced /\ ResetSeen /\ CoverInv
  <2>1. ForSource /\ ResetSeen /\ CoverInv
    BY <1>1 DEF ForSource, ResetSeen, CoverInv, At, Actor, SourceItself
  <2>2. Sourced
    BY <1>1 DEF Sourced, At, Actor
  <2> QED
    BY <2>1, <2>2
<1>3. StatusInv
  BY <1>1 DEF Init, Uploaded, Submitted, Published, StatusInv, Probes, ToCome, Outstanding, Abandoned, Actor
<1> QED
  BY <1>2, <1>3 DEF SettledInv

\* So the invariants hold for ever.
LEMMA SpecSettled == Spec => [](PipelineInv /\ Sourced /\ SettledInv)
<1> DEFINE I == PipelineInv /\ Sourced /\ SettledInv
<1>1. Init => I
  BY InitInv, InitSettled
<1>2. I /\ [Next]_vars => I'
  <2> SUFFICES ASSUME PipelineInv, Sourced, SettledInv, [Next]_vars
               PROVE  PipelineInv' /\ Sourced' /\ SettledInv'
    OBVIOUS
  <2>1. PipelineInv'
    BY StepTyped, StepAlone, StepFiles DEF PipelineInv
  <2>2. Sourced'
    BY StepSourced DEF PipelineInv, FilesInv
  <2>3. SettledInv'
    BY StepSettled
  <2> QED
    BY <2>1, <2>2, <2>3
<1> QED
  BY <1>1, <1>2, PTL DEF Spec

\* Whatever is done to an entry, and whatever dies, fails or is cancelled, no flavor
\* is left pending or transcoding with nobody to settle it, unless the queue shows a
\* job for it, or the probe, that failed for good or was cancelled
\* (jobs.go:449-491, 532-536, entries.go:281-301).
THEOREM SpecUnsettledHasJob == Spec => []UnsettledHasJob
<1>1. SettledInv => UnsettledHasJob
  BY DEF SettledInv, CoverInv, Covered, Covers, Shown, UnsettledHasJob
<1> QED
  BY <1>1, SpecSettled, PTL

\* And when all the work is over the entry is left transcoding only if a job of it
\* failed for good or was cancelled, and probing only if its probe or download did
\* or a request said so too late (jobs.go:379-382, 609-640, entries.go:296-300,
\* 464-469).
THEOREM SpecQuietSettled == Spec => []QuietSettled
<1>1. SettledInv => QuietSettled
  <2> SUFFICES ASSUME SettledInv, Quiet
               PROVE  /\ status = "transcoding" => AnyShown
                      /\ status = "probing" => Lapsed(SourceItself) \/ \E r \in Request : phase[r] = "over"
    BY DEF QuietSettled, AnyShown
  <2>1. \A j \in Job : ~Outstanding(j)
    BY DEF Quiet, Outstanding
  <2>2. \A r \in Request : phase[r] \in {"idle", "over"}
    BY DEF Quiet, Serving
  <2>3. \A a \in Actor : ~Busy(a) /\ (Probes(a) => a \in Request /\ phase[a] = "over")
    BY <2>1, <2>2 DEF Busy, Probes
  <2> QED
    BY <2>3 DEF SettledInv, StatusInv
<1> QED
  BY <1>1, SpecSettled, PTL
-----------------------------------------------------------------------------
(* What a ready entry plays, if its flavors are not changed and its runs do *)
(* not disturb each other.                                                 *)

\* What follows for the runs of an entry, and the two ways to go on from there.
Tame ==
    /\ "edit" \notin scenario
    /\ "reprocess" \in scenario => "uploaded" \notin scenario /\ "submitted" \notin scenario
    /\ "submitted" \in scenario => "crash" \notin scenario
Uncut  == "cancel" \notin scenario
OneRun == "crash" \notin scenario /\ "reprocess" \notin scenario

\* Each of the three kinds of undisturbed runs is one of the two.
LEMMA UndisturbedRuns ==
    "edit" \notin scenario /\ Undisturbed => Tame /\ (OneRun \/ (Uncut /\ dropped \subseteq {SourceItself}))
BY DEF Undisturbed, Tame, Uncut, OneRun

\* The requests that do not change the flavors.
Unedited ==
    /\ torn = {}
    /\ \A r \in Request : phase[r] \in {"idle", "reprocess", "swept", "sweep", "over"}

\* A flavor is skipped or transcoded, never both, and has a row before it has a job.
Rowed(f) == ~RowExists \/ flavors[f] # "none"
RowsSorted ==
    \A f \in Flavor : IF f \in Skipped THEN flavors[f] \in {"none", "skipped"}
                                      ELSE flavors[f] # "skipped"
TargetsSorted == \A j \in Job : kind[j] = "transcode" => target[j] \notin Skipped /\ Rowed(target[j])
ProbesSorted ==
    \A j \in Job : kind[j] = "probe" /\ phase[j] \in {"reset", "enqueue"} =>
        /\ seen[j] \cap Skipped = {}
        /\ phase[j] = "reset" => todo[j] \ Skipped \subseteq seen[j]
        /\ ctx[j] => \A f \in seen[j] : Rowed(f) \/ (phase[j] = "reset" /\ f \in todo[j])
FlavorsInv == RowsSorted /\ TargetsSorted /\ ProbesSorted

\* A first run has one probe, and the download before it; later runs find rows.
Starter(j) ==
    \/ kind[j] = "probe"
    \/ kind[j] = "download" /\ phase[j] # "ok" /\ ~Abandoned(j)
FirstRun == "uploaded" \in scenario \/ "submitted" \in scenario
Rooted == RowExists => \E f \in Flavor \ Skipped : flavors[f] # "none"
RunsInv ==
    /\ \A j \in Job : kind[j] = "download" => "submitted" \in scenario
    /\ "reprocess" \notin scenario => \A j, k \in Job : Starter(j) /\ Starter(k) => j = k
    /\ ~FirstRun => Rooted

\* A probe with nothing to transcode is right about it.
NothingToTranscode ==
    \A j \in Job : At(j, "probe", "publish") \/ (At(j, "probe", "reset") /\ seen[j] = {}) =>
        ~RowExists \/ \A f \in Flavor \ Skipped : flavors[f] = "none"

\* A playlist lists flavors that have a row, and is in the store.
Listable(S) == \A f \in S \ {SourceItself} : f \in Flavor \ Skipped /\ Rowed(f)
PlaylistInv ==
    /\ listed # {} => "master" \in media
    /\ Listable(listed)
    /\ \A j \in Job : At(j, "transcode", "master") => Listable(seen[j])

RunInv == Unedited /\ FlavorsInv /\ RunsInv /\ NothingToTranscode /\ PlaylistInv

\* What a playlist may list.
Right(S) == Done \subseteq S /\ S \subseteq files \cup {SourceItself}
Fresh == Right(listed)
Leaving == Swept \/ ~RowExists

\* Without cancels: a playlist that is not right will be written again, because a
\* flavor is not settled or a transcode has yet to look at all of them; or a
\* transcode has failed for good.
Toils(j) ==
    kind[j] = "transcode" /\ state[j] \in {"queued", "running"} /\ phase[j] \notin {"ready", "ok"}
Fixes(j) == Toils(j) /\ (phase[j] = "master" => Right(seen[j]))
GivenUp == dropped \cap Flavor # {}
Mending == Leaving \/ Remaining # {} \/ GivenUp \/ \E j \in Job : Fixes(j)
AllAlive ==
    /\ \A a \in Actor : ctx[a]
    /\ \A j \in Job : ~flagged[j] /\ (state[j] = "running" => phase[j] # "idle")
Publishing == \E j \in Job : At(j, "transcode", "ready") \/ At(j, "probe", "publish")
ReadyMends  == status = "ready" \/ Publishing => Fresh \/ Mending
MasterMends == \A j \in Job : At(j, "transcode", "master") => Right(seen[j]) \/ Mending
UncutInv == AllAlive /\ ReadyMends /\ MasterMends

\* In one run, which may be cancelled: the jobs that do nothing more, and the last
\* one that may.
Dead(j) == Abandoned(j) \/ phase[j] = "ok" \/ (phase[j] = "err" /\ flagged[j])
Early(j) == Starter(j) /\ ~Dead(j) /\ ~At(j, "probe", "enqueue")
NoMore == \A j \in Job : At(j, "probe", "enqueue") => seen[j] = {} \/ ~ctx[j]
LastAlive(j) == NoMore /\ \A k \in Job \ {j} : kind[k] = "transcode" => Dead(k)
AllDead ==
    /\ NoMore
    /\ \A k \in Job : Early(k) \/ kind[k] = "transcode" => Dead(k)
Finishing == {"count", "fail", "build", "master", "ready"}

\* Contexts end by cancels only.
CancelsOnly ==
    \A j \in Job : /\ phase[j] = "idle" => ctx[j]
                   /\ phase[j] # "lost"
                   /\ ~ctx[j] /\ RowExists => flagged[j]
\* Transcodes come after the probe, one for each flavor.
OneTranscodeEach ==
    \A j, k \in Job : /\ Early(j) => kind[k] # "transcode"
                      /\ kind[j] = "transcode" /\ kind[k] = "transcode" /\ target[j] = target[k] => j = k
\* What the probe has yet to hand over is not settled, and has no transcode.
ProbeHands ==
    \A j \in Job : kind[j] = "probe" /\ phase[j] \in {"reset", "enqueue"} /\ ctx[j] =>
        \A f \in seen[j] :
            \/ phase[j] = "reset" /\ f \in todo[j]
            \/ /\ flavors[f] \in Unsettled
               /\ \A k \in Job : kind[k] = "transcode" => target[k] # f
\* Only the last job alive may find its flavor settled, or look at all flavors; and
\* then they are settled for good.
LastFinishes ==
    \A j \in Job : kind[j] = "transcode" /\ ~Dead(j) =>
        /\ phase[j] \in Undecided /\ flavors[target[j]] \notin Unsettled => LastAlive(j)
        /\ phase[j] \in Finishing => LastAlive(j) /\ Remaining = {}
ListsRight ==
    \A j \in Job : /\ At(j, "transcode", "master") => Right(seen[j])
                   /\ At(j, "transcode", "ready") \/ (At(j, "probe", "publish") /\ ctx[j]) => Fresh
ReadyEnds == status = "ready" => Fresh /\ AllDead
OneRunInv ==
    /\ CancelsOnly
    /\ ~Leaving => OneTranscodeEach /\ ProbeHands /\ LastFinishes /\ ListsRight /\ ReadyEnds

\* A playlist that is not right will still be written again after a step that
\* leaves alone what playlists are about, or that leaves something to settle.
Bland ==
    /\ UNCHANGED <<files, listed>> /\ (Leaving => Leaving') /\ (GivenUp => GivenUp')
    /\ \A f \in Flavor : /\ flavors'[f] = "done" <=> flavors[f] = "done"
                         /\ flavors'[f] \in Unsettled <=> flavors[f] \in Unsettled
    /\ status' = "ready" => status = "ready" \/ Publishing
    /\ \A j \in Job : /\ Toils(j) => Toils(j)'
                      /\ \A p \in {"master", "ready"} :
                            At(j, "transcode", p)' => At(j, "transcode", p) /\ seen'[j] = seen[j]
                      /\ At(j, "probe", "publish")' => At(j, "probe", "publish")

\* Such a step keeps the invariant.
LEMMA BlandMends ==
    ASSUME UncutInv, AllAlive', Bland
    PROVE  UncutInv'
<1> USE DEF UncutInv, Bland
<1>0. Done' = Done /\ Remaining' = Remaining
  BY DEF Done, Remaining
<1>1. \A S \in SUBSET (Flavor \cup {SourceItself}) : Right(S)' = Right(S)
  BY <1>0 DEF Right
<1>2. \A j \in Job : Fixes(j) => Fixes(j)'
  BY <1>0 DEF Fixes, Toils, Right, At
<1>3. (Mending => Mending') /\ (Fresh => Fresh')
  BY <1>0, <1>2 DEF Mending, Fresh, Right
<1>4. ReadyMends'
  BY <1>3 DEF ReadyMends, Publishing
<1>5. MasterMends'
  BY <1>0, <1>3 DEF MasterMends, Right
<1> QED
  BY <1>4, <1>5

\* And so does one that leaves something to settle, or somebody to look.
LEMMA Mended ==
    ASSUME AllAlive', Mending'
    PROVE  UncutInv'
BY DEF UncutInv, ReadyMends, MasterMends

\* A download hands over to the probe and is one no more.
LEMMA DownloadRuns ==
    ASSUME Typed, GoneUnflavored, Tame, RunInv, UNCHANGED scenario,
           NEW j \in Job, DownloadStep(j)
    PROVE  RunInv'
<1> USE PipelineAssumption DEF Typed, PartsTyped, SlotInv, JobsTyped, HandsTyped, RowsTyped,
     StoreTyped, Actor, RowExists, At, Goto, Tame, GoneUnflavored, RunInv, Unedited, FlavorsInv,
     RowsSorted, TargetsSorted, ProbesSorted, Rowed, Starter, Abandoned, FirstRun, Rooted,
     RunsInv, NothingToTranscode, Skipped, PlaylistInv, Listable
<1>1. CASE DownloadFetch(j)
  <2>1. /\ kind[j] = "download" /\ phase[j] = "fetch" /\ \E p \in {"check", "err"} : phase' = [phase EXCEPT ![j] = p]
        /\ status' = "gone" <=> status = "gone"
        /\ UNCHANGED <<flavors, store, jobs, local>>
    BY <1>1 DEF DownloadFetch, SetStatus, FailEntry, Writes, rows
  <2>a. Unedited' /\ RunsInv'
    BY <2>1 DEF store, output, jobs, local
  <2>b. FlavorsInv'
    BY <2>1 DEF store, output, jobs, local
  <2>c. NothingToTranscode'
    BY <2>1 DEF store, output, jobs, local
  <2>d. PlaylistInv'
    BY <2>1 DEF store, output, jobs, local
  <2> QED
    BY <2>a, <2>b, <2>c, <2>d
<1>2. CASE DownloadPut(j)
  <2>1. /\ kind[j] = "download" /\ phase[j] = "put" /\ \E p \in {"update", "err"} : phase' = [phase EXCEPT ![j] = p]
        /\ status' = "gone" <=> status = "gone"
        /\ media \subseteq media' /\ UNCHANGED <<flavors, output, listed, jobs, local>>
    BY <1>2 DEF DownloadPut, SetStatus, FailEntry, Writes, rows, store
  <2>a. Unedited' /\ RunsInv'
    BY <2>1 DEF output, jobs, local
  <2>b. FlavorsInv'
    BY <2>1 DEF output, jobs, local
  <2>c. NothingToTranscode'
    BY <2>1 DEF output, jobs, local
  <2>d. PlaylistInv'
    BY <2>1 DEF output, jobs, local
  <2> QED
    BY <2>a, <2>b, <2>c, <2>d
<1>3. CASE DownloadUpdate(j)
  BY <1>3 DEF DownloadUpdate, SetStatus, Writes, output, store, jobs, local
<1>4. CASE DownloadEnqueue(j)
  BY SMTT(60), <1>4 DEF DownloadEnqueue, Enqueue, Writes, FreeJobs, rows, output, store, jobs, local
<1>5. CASE CheckEntry(j, "download", "start", "fetch")
  BY <1>5 DEF CheckEntry, Writes, rows, output, store, jobs, local
<1>6. CASE CheckEntry(j, "download", "check", "put")
  BY <1>6 DEF CheckEntry, Writes, rows, output, store, jobs, local
<1> QED
  BY <1>1, <1>2, <1>3, <1>4, <1>5, <1>6 DEF DownloadStep

\* A probe sorts the flavors.
LEMMA ProbeRuns ==
    ASSUME Typed, GoneUnflavored, Tame, RunInv, UNCHANGED scenario,
           NEW j \in Job, ProbeStep(j)
    PROVE  RunInv'
<1> USE PipelineAssumption DEF Typed, PartsTyped, SlotInv, JobsTyped, HandsTyped, RowsTyped,
     StoreTyped, Actor, RowExists, At, Goto, Tame, GoneUnflavored, RunInv, Unedited, FlavorsInv,
     RowsSorted, TargetsSorted, ProbesSorted, Rowed, Starter, Abandoned, FirstRun, Rooted,
     RunsInv, NothingToTranscode, Skipped, PlaylistInv, Listable
<1>1. CASE ProbeSource(j)
  <2>1. /\ kind[j] = "probe" /\ phase[j] = "probe"
        /\ \E p \in {"check", "err"} : phase' = [phase EXCEPT ![j] = p]
        /\ status' = "gone" <=> status = "gone"
        /\ UNCHANGED <<flavors, store, jobs, local>>
    BY <1>1 DEF ProbeSource, SetStatus, FailEntry, Writes, rows
  <2> QED
    BY <2>1 DEF store, output, jobs, local
<1>2. CASE ProbePoster(j)
  BY <1>2 DEF ProbePoster, rows, output, jobs, local
<1>3. CASE ProbeRead(j)
  <2>1. CASE ~ctx[j]
    <3>1. /\ phase[j] = "read" /\ kind[j] = "probe" /\ phase' = [phase EXCEPT ![j] = "err"]
          /\ UNCHANGED <<rows, store, jobs, ctx, todo, seen, grew>>
      BY <1>3, <2>1 DEF ProbeRead
    <3>s. Skipped' = Skipped
      BY DEF Skipped
    <3> HIDE DEF Skipped
    <3>a. Unedited' /\ RunsInv'
      BY <3>1, <3>s DEF rows, store, output, jobs
    <3>b. FlavorsInv'
      BY <3>1, <3>s DEF rows, store, output, jobs
    <3>c. NothingToTranscode'
      BY <3>1, <3>s DEF rows, store, output, jobs
    <3>d. PlaylistInv'
      BY <3>1, <3>s DEF rows, store, output, jobs
    <3> QED
      BY <3>a, <3>b, <3>c, <3>d
  <2>2. CASE ctx[j]
    <3>1. /\ phase[j] = "read" /\ kind[j] = "probe" /\ phase' = [phase EXCEPT ![j] = "reset"]
          /\ todo' = [todo EXCEPT ![j] = Ticked] /\ seen' = [seen EXCEPT ![j] = Ticked \ Skipped]
          /\ UNCHANGED <<rows, store, jobs, ctx, grew>>
      BY <1>3, <2>2 DEF ProbeRead, Pending
    <3>2. /\ Ticked \in SUBSET Flavor
          /\ \A f \in Flavor : f \notin Ticked => flavors[f] = "none"
      BY DEF Ticked
    <3>s. Skipped' = Skipped
      BY DEF Skipped
    <3> HIDE DEF Skipped
    <3>a. Unedited' /\ RunsInv'
      BY <3>1, <3>s, <3>2 DEF rows, store, output, jobs
    <3>b. FlavorsInv'
      BY <3>1, <3>s, <3>2 DEF rows, store, output, jobs
    <3>c. NothingToTranscode'
      BY <3>1, <3>s, <3>2 DEF rows, store, output, jobs
    <3>d. PlaylistInv'
      BY <3>1, <3>s, <3>2 DEF rows, store, output, jobs
    <3> QED
      BY <3>a, <3>b, <3>c, <3>d
  <2> QED
    BY <2>1, <2>2
<1>4. CASE ProbeReset(j)
  BY <1>4, FirstIn DEF ProbeReset, Writes, entryRow, output, store, jobs
<1>5. CASE ProbePublish(j)
  <2>1. /\ kind[j] = "probe" /\ phase[j] = "reset" /\ seen[j] = {} /\ phase' = [phase EXCEPT ![j] = "publish"]
        /\ \/ UNCHANGED <<media, listed>> \/ ("master" \in media' /\ listed' = {SourceItself})
        /\ UNCHANGED <<rows, output, jobs, local>>
    BY <1>5 DEF ProbePublish
  <2>a. Unedited' /\ RunsInv'
    BY <2>1 DEF SourceItself, rows, output, jobs, local
  <2>b. FlavorsInv'
    BY <2>1 DEF SourceItself, rows, output, jobs, local
  <2>c. NothingToTranscode'
    BY <2>1 DEF SourceItself, rows, output, jobs, local
  <2>d. PlaylistInv'
    BY <2>1 DEF SourceItself, rows, output, jobs, local
  <2> QED
    BY <2>a, <2>b, <2>c, <2>d
<1>6. CASE ProbeReady(j)
  BY <1>6 DEF ProbeReady, SetStatus, Writes, output, store, jobs, local
<1>7. CASE ProbeTranscoding(j)
  BY <1>7 DEF ProbeTranscoding, SetStatus, Writes, output, store, jobs, local
<1>8. CASE ProbeEnqueue(j)
  <2>1. CASE UNCHANGED jobs
    <3>1. /\ phase[j] = "enqueue" /\ kind[j] = "probe" /\ (\E p \in {"ok", "err"} : phase' = [phase EXCEPT ![j] = p])
          /\ UNCHANGED <<rows, store, jobs, ctx, todo, seen, grew>>
      BY <1>8, <2>1 DEF ProbeEnqueue, Enqueue, FreeJobs, jobs
    <3>s. Skipped' = Skipped
      BY DEF Skipped
    <3> HIDE DEF Skipped
    <3>a. Unedited' /\ RunsInv'
      BY <3>1, <3>s DEF rows, store, output, jobs
    <3>b. FlavorsInv'
      BY <3>1, <3>s DEF rows, store, output, jobs
    <3>c. NothingToTranscode'
      BY <3>1, <3>s DEF rows, store, output, jobs
    <3>d. PlaylistInv'
      BY <3>1, <3>s DEF rows, store, output, jobs
    <3> QED
      BY <3>a, <3>b, <3>c, <3>d
  <2>2. CASE ~UNCHANGED jobs
    <3>1. PICK f \in seen[j] : f = First(seen[j])
      BY <1>8, <2>2, FirstIn DEF ProbeEnqueue
    <3>2. PICK k \in FreeJobs :
             /\ kind' = [kind EXCEPT ![k] = "transcode"] /\ target' = [target EXCEPT ![k] = f]
             /\ state' = [state EXCEPT ![k] = "queued"]
      BY <1>8, <2>2, <3>1 DEF ProbeEnqueue, Enqueue
    <3>3. /\ kind[j] = "probe" /\ phase[j] = "enqueue" /\ Writes(j)
          /\ seen' = [seen EXCEPT ![j] = @ \ {f}]
          /\ UNCHANGED <<rows, store, phase, ctx, todo>>
      BY <1>8, <2>2, <3>1 DEF ProbeEnqueue
    <3>4. Unedited' /\ RunsInv'
      BY <3>2, <3>3 DEF FreeJobs, rows, store, output
    <3>5. FlavorsInv'
      BY <3>1, <3>2, <3>3 DEF FreeJobs, Writes, rows, store, output
    <3>6. NothingToTranscode'
      BY <3>2, <3>3 DEF FreeJobs, rows, store, output
    <3>7. PlaylistInv'
      BY <3>2, <3>3 DEF FreeJobs, rows, store, output
    <3> QED
      BY <3>4, <3>5, <3>6, <3>7
  <2> QED
    BY <2>1, <2>2
<1>9. CASE CheckEntry(j, "probe", "start", "probe")
  BY <1>9 DEF CheckEntry, Writes, rows, output, store, jobs, local
<1>10. CASE CheckEntry(j, "probe", "check", "poster")
  BY SMTT(60), <1>10 DEF CheckEntry, Writes, rows, output, store, jobs, local
<1> QED
  BY <1>1, <1>2, <1>3, <1>4, <1>5, <1>6, <1>7, <1>8, <1>9, <1>10 DEF ProbeStep

\* A transcode leaves the flavors sorted.
LEMMA TranscodeRuns ==
    ASSUME Typed, GoneUnflavored, Tame, RunInv, UNCHANGED scenario,
           NEW j \in Job, TranscodeStep(j)
    PROVE  RunInv'
<1> USE PipelineAssumption DEF Typed, PartsTyped, SlotInv, JobsTyped, HandsTyped, RowsTyped,
     StoreTyped, Actor, RowExists, At, Goto, Tame, GoneUnflavored, RunInv, Unedited, FlavorsInv,
     RowsSorted, TargetsSorted, ProbesSorted, Rowed, Starter, Abandoned, FirstRun, Rooted,
     RunsInv, NothingToTranscode, Skipped, PlaylistInv, Listable
<1>1. CASE TranscodeSpool(j)
  <2>1. /\ kind[j] = "transcode" /\ phase[j] = "spool"
        /\ \E p \in {"mark", "err"} : phase' = [phase EXCEPT ![j] = p]
        /\ status' = "gone" <=> status = "gone"
        /\ UNCHANGED <<flavors, store, jobs, local>>
    BY <1>1 DEF TranscodeSpool, SetStatus, FailEntry, Writes, rows
  <2> QED
    BY <2>1 DEF store, output, jobs, local
<1>2. CASE TranscodeMark(j)
  <2>1. /\ kind[j] = "transcode" /\ phase[j] = "mark"
        /\ \E p \in {"check", "finalize"} : phase' = [phase EXCEPT ![j] = p]
        /\ \A f \in Flavor : flavors'[f] = flavors[f] \/ (f = target[j] /\ flavors'[f] = "transcoding"
                                                          /\ flavors[f] # "none")
        /\ flavors' \in [Flavor -> FlavorStatus]
        /\ UNCHANGED <<entryRow, store, jobs, local>>
    BY <1>2 DEF TranscodeMark, SetFlavor, FlavorStatus
  <2>s. Skipped' = Skipped
    BY DEF Skipped
  <2> HIDE DEF Skipped
  <2>a. Unedited' /\ RunsInv'
    BY <2>1, <2>s DEF entryRow, store, output, jobs, local
  <2>2. target[j] \in Flavor \ Skipped
    BY <2>1
  <2>3. \A f \in Flavor : flavors[f] # "none" => flavors'[f] # "none"
    BY <2>1
  <2>4. \A f \in Flavor : IF f \in Skipped THEN flavors'[f] \in {"none", "skipped"}
                                           ELSE flavors'[f] # "skipped"
    BY <2>1, <2>2
  <2>5. TargetsSorted'
    <3>1. \A k \in Job : kind[k] = "transcode" => target[k] \in Flavor \ Skipped /\ Rowed(target[k])
      OBVIOUS
    <3>2. UNCHANGED <<status, kind, target>>
      BY <2>1 DEF entryRow, jobs
    <3> QED
      BY <3>1, <3>2, <2>3, <2>s
  <2>6. ProbesSorted'
    BY <2>1, <2>s, <2>3 DEF entryRow, store, output, jobs, local
  <2>b. FlavorsInv'
    BY <2>s, <2>4, <2>5, <2>6
  <2>c. NothingToTranscode'
    BY <2>1, <2>s DEF entryRow, store, output, jobs, local
  <2>d. PlaylistInv'
    BY <2>1, <2>s DEF entryRow, store, output, jobs, local
  <2> QED
    BY <2>a, <2>b, <2>c, <2>d
<1>3. CASE TranscodeEncode(j)
  BY <1>3 DEF TranscodeEncode, rows, jobs, local
<1>4. CASE EncodeEnds(j)
  <2>1. /\ kind[j] = "transcode" /\ phase[j] = "encoding"
        /\ \E p \in {"encoded", "finalize"} : phase' = [phase EXCEPT ![j] = p]
        /\ \A f \in Flavor : flavors'[f] = flavors[f] \/ (f = target[j] /\ flavors'[f] = "failed"
                                                          /\ flavors[f] # "none")
        /\ flavors' \in [Flavor -> FlavorStatus]
        /\ UNCHANGED <<entryRow, media, torn, listed, jobs, local>>
    BY <1>4 DEF EncodeEnds, SetFlavor, FlavorStatus
  <2>s. Skipped' = Skipped
    BY DEF Skipped
  <2> HIDE DEF Skipped
  <2>a. Unedited' /\ RunsInv'
    BY <2>1, <2>s DEF entryRow, jobs, local
  <2>2. target[j] \in Flavor \ Skipped
    BY <2>1
  <2>3. \A f \in Flavor : flavors[f] # "none" => flavors'[f] # "none"
    BY <2>1
  <2>4. \A f \in Flavor : IF f \in Skipped THEN flavors'[f] \in {"none", "skipped"}
                                           ELSE flavors'[f] # "skipped"
    BY <2>1, <2>2
  <2>5. TargetsSorted'
    <3>1. \A k \in Job : kind[k] = "transcode" => target[k] \in Flavor \ Skipped /\ Rowed(target[k])
      OBVIOUS
    <3>2. UNCHANGED <<status, kind, target>>
      BY <2>1 DEF entryRow, jobs
    <3> QED
      BY <3>1, <3>2, <2>3, <2>s
  <2>6. ProbesSorted'
    BY <2>1, <2>s, <2>3 DEF entryRow, jobs, local
  <2>b. FlavorsInv'
    BY <2>s, <2>4, <2>5, <2>6
  <2>c. NothingToTranscode'
    BY <2>1, <2>s DEF entryRow, jobs, local
  <2>d. PlaylistInv'
    BY <2>1, <2>s DEF entryRow, jobs, local
  <2> QED
    BY <2>a, <2>b, <2>c, <2>d
<1>5. CASE EncodeCheck(j)
  BY <1>5 DEF EncodeCheck, Writes, DropPartial, rows, jobs, local
<1>6. CASE TranscodeDone(j)
  BY <1>6 DEF TranscodeDone, SetFlavor, entryRow, output, store, jobs, local
<1>7. CASE FinalizeCheck(j)
  BY <1>7 DEF FinalizeCheck, Writes, rows, output, store, jobs, local
<1>8. CASE FinalizeRemaining(j)
  BY <1>8 DEF FinalizeRemaining, Remaining, LastFlavor, rows, output, store, jobs, local
<1>9. CASE FinalizeDone(j)
  BY <1>9 DEF FinalizeDone, Done, rows, output, store, jobs, local
<1>10. CASE FinalizeFail(j)
  BY <1>10 DEF FinalizeFail, SetStatus, FailEntry, Writes, output, store, jobs, local
<1>11. CASE FinalizeBuild(j)
  BY <1>11 DEF FinalizeBuild, Done, Renditions, rows, output, store, jobs
<1>12. CASE FinalizeMaster(j)
  <2>1. /\ kind[j] = "transcode" /\ phase[j] = "master" /\ \E p \in {"ready", "err"} : phase' = [phase EXCEPT ![j] = p]
        /\ \/ UNCHANGED <<media, listed>> \/ ("master" \in media' /\ listed' = seen[j])
        /\ UNCHANGED <<rows, output, jobs, local>>
    BY <1>12 DEF FinalizeMaster
  <2>a. Unedited' /\ RunsInv'
    BY <2>1 DEF rows, output, jobs, local
  <2>b. FlavorsInv'
    BY <2>1 DEF rows, output, jobs, local
  <2>c. NothingToTranscode'
    BY <2>1 DEF rows, output, jobs, local
  <2>s. Skipped' = Skipped
    BY DEF Skipped
  <2>d. PlaylistInv'
    <3> HIDE DEF Skipped
    <3>1. Listable(seen[j]) /\ (\A S : Listable(S)' <=> Listable(S))
      BY <2>1, <2>s DEF rows
    <3>2. Listable(listed)' /\ (listed' # {} => "master" \in media')
      BY <2>1, <3>1
    <3>3. ASSUME NEW k \in Job, At(k, "transcode", "master")' PROVE Listable(seen[k])'
      BY <2>1, <2>s, <3>3 DEF rows, jobs, local
    <3> QED
      BY <3>2, <3>3
  <2> QED
    BY <2>a, <2>b, <2>c, <2>d
<1>13. CASE FinalizeReady(j)
  BY <1>13 DEF FinalizeReady, SetStatus, Writes, output, store, jobs, local
<1>14. CASE CheckEntry(j, "transcode", "start", "spool")
  BY <1>14 DEF CheckEntry, Writes, rows, output, store, jobs, local
<1>15. CASE CheckEntry(j, "transcode", "check", "encode")
  BY <1>15 DEF CheckEntry, Writes, rows, output, store, jobs, local
<1> QED
  BY <1>1, <1>2, <1>3, <1>4, <1>5, <1>6, <1>7, <1>8, <1>9, <1>10, <1>11, <1>12, <1>13, <1>14,
     <1>15 DEF TranscodeStep

\* Jobs that are claimed, settled, cancelled or lost.
LEMMA QueueRuns ==
    ASSUME Typed, GoneUnflavored, Tame, RunInv, UNCHANGED scenario,
           NEW j \in Job, Claim(j) \/ Settle(j) \/ RequestCancel(j) \/ WatcherFires(j) \/ Crash(j)
    PROVE  RunInv'
<1> USE PipelineAssumption DEF Typed, PartsTyped, SlotInv, JobsTyped, HandsTyped, RowsTyped,
     StoreTyped, Actor, RowExists, At, Goto, Tame, GoneUnflavored, RunInv, Unedited, FlavorsInv,
     RowsSorted, TargetsSorted, ProbesSorted, Rowed, Starter, Abandoned, FirstRun, Rooted,
     RunsInv, NothingToTranscode, Skipped, PlaylistInv, Listable
<1>1. CASE Claim(j)
  BY <1>1 DEF Claim, Guard, rows, output, store, local
<1>2. CASE Settle(j)
  BY <1>2 DEF Settle, Retried, LeftRunning, Drop, Forget, ResetLocals, rows, output, store, jobs
<1>3. CASE RequestCancel(j)
  BY SMTT(60), <1>3 DEF RequestCancel, Drop, Forget, rows, output, store, local
<1>4. CASE WatcherFires(j)
  BY <1>4 DEF WatcherFires, InHand, rows, output, store, jobs
<1>5. CASE Crash(j)
  BY SMTT(60), <1>5 DEF Crash, InHand, Forget, ResetLocals, rows, output, store, jobs
<1> QED
  BY <1>1, <1>2, <1>3, <1>4, <1>5

\* Reprocess and deletion.
LEMMA RequestRuns ==
    ASSUME Typed, GoneUnflavored, Tame, RunInv, UNCHANGED scenario,
           NEW r \in Request, Arrive(r) \/ Serve(r)
    PROVE  RunInv'
<1> USE PipelineAssumption DEF Typed, PartsTyped, SlotInv, JobsTyped, HandsTyped, RowsTyped,
     StoreTyped, Actor, RowExists, At, Goto, Tame, GoneUnflavored, RunInv, Unedited, FlavorsInv,
     RowsSorted, TargetsSorted, ProbesSorted, Rowed, Starter, Abandoned, FirstRun, Rooted,
     RunsInv, NothingToTranscode, Skipped, PlaylistInv, Listable
<1>1. CASE Reprocess(r)
  BY <1>1 DEF Reprocess, Enqueue, Requested, FreeJobs, rows, output, store, local
<1>2. CASE Delete(r)
  BY <1>2 DEF Delete, Requested, rows, jobs, local
<1>3. CASE ReprocessStatus(r)
  BY <1>3 DEF ReprocessStatus, SetStatus, ResetLocals, Respond, Over, Writes, output, store, jobs
<1>4. CASE DeleteRow(r)
  BY <1>4 DEF DeleteRow, InHand, store, output, local
<1>5. CASE DeleteSweep(r)
  BY <1>5 DEF DeleteSweep, Over, rows, jobs, local
<1>6. ASSUME phase[r] \in {"idle", "reprocess", "swept", "sweep", "over"}, "edit" \notin scenario
      PROVE  Reprocess(r) \/ Delete(r) \/ ReprocessStatus(r) \/ DeleteRow(r) \/ DeleteSweep(r)
  BY <1>6 DEF Arrive, Serve, Edit, Requested, EditInsert, EditEnqueue, EditRemoveFiles, EditRemoveRow,
     EditStatus, EditRebuild, EditMaster, EditCount, EditFail
<1> QED
  BY <1>1, <1>2, <1>3, <1>4, <1>5, <1>6

\* The sweep.
LEMMA RequeueRuns ==
    ASSUME Typed, GoneUnflavored, Tame, RunInv, UNCHANGED scenario,
           RequeueStale
    PROVE  RunInv'
<1> USE PipelineAssumption DEF Typed, PartsTyped, SlotInv, JobsTyped, HandsTyped, RowsTyped,
     StoreTyped, Actor, RowExists, At, Goto, Tame, GoneUnflavored, RunInv, Unedited, FlavorsInv,
     RowsSorted, TargetsSorted, ProbesSorted, Rowed, Starter, Abandoned, FirstRun, Rooted,
     RunsInv, NothingToTranscode, Skipped, PlaylistInv, Listable
<1>1. CASE RequeueStale
  BY <1>1 DEF RequeueStale, entryRow, output, store, local
<1> QED
  BY <1>1

\* A download has nothing to do with playlists.
LEMMA DownloadMends ==
    ASSUME Typed, Tame, Alone, FilesInv, RunInv, Uncut, UncutInv, UNCHANGED scenario,
           NEW j \in Job, DownloadStep(j)
    PROVE  AllAlive' /\ Bland
<1> USE PipelineAssumption DEF Typed, PartsTyped, SlotInv, JobsTyped, HandsTyped, RowsTyped,
     StoreTyped, Actor, RowExists, At, Goto, Swept, Tame, Abandoned, Skipped, UncutInv, AllAlive,
     Leaving, Done, Remaining, Unsettled, FilesInv, GoneUnflavored, RunInv, FlavorsInv,
     RowsSorted, TargetsSorted, NothingToTranscode, Bland, GivenUp, Toils, Publishing
<1>1. CASE DownloadFetch(j)
  BY <1>1 DEF DownloadFetch, SetStatus, FailEntry, Writes, rows, output, store, jobs, local
<1>2. CASE DownloadPut(j)
  BY <1>2 DEF DownloadPut, SetStatus, FailEntry, Writes, rows, output, store, jobs, local
<1>3. CASE DownloadUpdate(j)
  BY <1>3 DEF DownloadUpdate, SetStatus, Writes, output, store, jobs, local
<1>4. CASE DownloadEnqueue(j)
  BY <1>4 DEF DownloadEnqueue, Enqueue, Writes, FreeJobs, rows, output, store, jobs, local
<1>5. CASE CheckEntry(j, "download", "start", "fetch")
  <2>1. AllAlive' /\ Bland
    BY <1>5 DEF CheckEntry, Writes, rows, output, store, jobs, local, Bland, GivenUp, Toils, Publishing
  <2> QED
    BY <2>1, BlandMends
<1>6. CASE CheckEntry(j, "download", "check", "put")
  <2>1. AllAlive' /\ Bland
    BY <1>6 DEF CheckEntry, Writes, rows, output, store, jobs, local, Bland, GivenUp, Toils, Publishing
  <2> QED
    BY <2>1, BlandMends
<1> QED
  BY <1>1, <1>2, <1>3, <1>4, <1>5, <1>6 DEF DownloadStep

\* Nor has the queue, until a transcode has failed for good.
LEMMA QueueMends ==
    ASSUME Typed, Tame, Alone, FilesInv, RunInv, Uncut, UncutInv, UNCHANGED scenario,
           NEW j \in Job, Claim(j) \/ Settle(j) \/ RequestCancel(j) \/ WatcherFires(j) \/ Crash(j)
    PROVE  UncutInv'
<1> USE PipelineAssumption DEF Typed, PartsTyped, SlotInv, JobsTyped, HandsTyped, RowsTyped,
     StoreTyped, Actor, RowExists, At, Goto, Swept, Tame, Abandoned, Skipped, UncutInv, AllAlive,
     Leaving, Done, Remaining, Unsettled, FilesInv, GoneUnflavored, RunInv, FlavorsInv,
     RowsSorted, TargetsSorted, NothingToTranscode, Toils, Publishing
<1>1. CASE Claim(j)
  <2>1. AllAlive' /\ Bland
    BY <1>1 DEF Claim, Guard, rows, output, store, local, Bland, GivenUp
  <2> QED
    BY <2>1, BlandMends
<1>2. CASE Settle(j)
  <2>1. /\ phase[j] \in {"ok", "err"} /\ phase' = [phase EXCEPT ![j] = "idle"]
        /\ ctx' = [ctx EXCEPT ![j] = TRUE] /\ seen' = [seen EXCEPT ![j] = {}]
        /\ state[j] \in {"running", "deleted"} /\ ctx[j] /\ UNCHANGED <<rows, store>>
    BY <1>2 DEF Settle, ResetLocals
  <2>2. CASE state' = [state EXCEPT ![j] = "queued"] /\ UNCHANGED <<kind, target, attempts, flagged, dropped>>
    <3>1. AllAlive' /\ Bland
      BY <2>1, <2>2 DEF rows, store, output, Bland, GivenUp
    <3> QED
      BY <3>1, BlandMends
  <2>3. CASE Drop(j)
    <3>1. AllAlive'
      BY <2>1, <2>3 DEF Drop, Forget
    <3>2. CASE kind[j] = "transcode"
      <4>1. GivenUp'
        BY <2>3, <3>2 DEF Drop, GivenUp
      <4> QED
        BY <3>1, <4>1, Mended DEF Mending
    <3>3. CASE kind[j] # "transcode"
      <4>1. Bland
        BY <2>1, <2>3, <3>3 DEF rows, store, output, Bland, Drop, Forget, GivenUp
      <4> QED
        BY <3>1, <4>1, BlandMends
    <3> QED
      BY <3>2, <3>3
  <2>4. CASE /\ Forget(j) /\ UNCHANGED dropped
             /\ state[j] = "deleted" \/ (phase[j] = "ok" /\ ~LeftRunning(j))
    <3>1. AllAlive' /\ Bland
      BY <2>1, <2>4 DEF rows, store, output, Bland, Forget, GivenUp
    <3> QED
      BY <3>1, BlandMends
  <2> QED
    BY <1>2, <2>1, <2>2, <2>3, <2>4 DEF Settle, LeftRunning
<1>3. CASE RequestCancel(j)
  BY <1>3 DEF RequestCancel, Uncut
<1>4. CASE WatcherFires(j)
  BY <1>4 DEF WatcherFires
<1>5. CASE Crash(j)
  <2>1. AllAlive' /\ Bland
    BY <1>5 DEF Crash, InHand, Forget, ResetLocals, rows, output, store, jobs, Bland, GivenUp
  <2> QED
    BY <2>1, BlandMends
<1> QED
  BY <1>1, <1>2, <1>3, <1>4, <1>5

\* Nor has the sweep, which takes back no outcome.
LEMMA RequeueMends ==
    ASSUME Typed, Tame, Alone, FilesInv, RunInv, Uncut, UncutInv, UNCHANGED scenario,
           RequeueStale
    PROVE  AllAlive' /\ Bland
<1> USE PipelineAssumption DEF Typed, PartsTyped, SlotInv, JobsTyped, HandsTyped, RowsTyped,
     StoreTyped, Actor, RowExists, At, Goto, Swept, Tame, Abandoned, Skipped, UncutInv, AllAlive,
     Leaving, Done, Remaining, Unsettled, FilesInv, GoneUnflavored, RunInv, FlavorsInv,
     RowsSorted, TargetsSorted, NothingToTranscode, Bland, GivenUp, Toils, Publishing
<1>1. CASE RequeueStale
  BY <1>1 DEF RequeueStale, entryRow, output, store, local
<1> QED
  BY <1>1

\* Nor has reprocess; and after a deletion there is none to mend.
LEMMA RequestMends ==
    ASSUME Typed, Tame, Alone, FilesInv, RunInv, Uncut, UncutInv, UNCHANGED scenario,
           NEW r \in Request, Arrive(r) \/ Serve(r)
    PROVE  UncutInv'
<1> USE PipelineAssumption DEF Typed, PartsTyped, SlotInv, JobsTyped, HandsTyped, RowsTyped,
     StoreTyped, Actor, RowExists, At, Goto, Swept, Tame, Abandoned, Skipped, UncutInv, AllAlive,
     Leaving, Done, Remaining, Unsettled, FilesInv, GoneUnflavored, RunInv, FlavorsInv,
     RowsSorted, TargetsSorted, NothingToTranscode
<1>1. CASE Reprocess(r)
  <2>1. AllAlive' /\ Bland
    BY <1>1 DEF Reprocess, Enqueue, Requested, FreeJobs, rows, output, store, local, Bland, GivenUp, Toils, Publishing
  <2> QED
    BY <2>1, BlandMends
<1>2. CASE Delete(r)
  <2>1. AllAlive' /\ Leaving'
    BY <1>2 DEF Delete, Requested, rows, jobs, local, SweptIsGone, Sweeping
  <2> QED
    BY <2>1, Mended DEF Mending
<1>3. CASE ReprocessStatus(r)
  <2>1. AllAlive' /\ Bland
    BY <1>3 DEF ReprocessStatus, SetStatus, ResetLocals, Respond, Over, Writes, output, store, jobs, Bland, GivenUp, Toils, Publishing
  <2> QED
    BY <2>1, BlandMends
<1>4. CASE DeleteRow(r)
  <2>1. AllAlive' /\ Leaving'
    BY <1>4 DEF DeleteRow, InHand, store, output, local, SweptIsGone, Sweeping
  <2> QED
    BY <2>1, Mended DEF Mending
<1>5. CASE DeleteSweep(r)
  <2>1. AllAlive' /\ Leaving'
    BY <1>5 DEF DeleteSweep, Over, rows, jobs, local, SweptIsGone, Sweeping
  <2> QED
    BY <2>1, Mended DEF Mending
<1>6. ASSUME phase[r] \in {"idle", "reprocess", "swept", "sweep", "over"}, "edit" \notin scenario
      PROVE  Reprocess(r) \/ Delete(r) \/ ReprocessStatus(r) \/ DeleteRow(r) \/ DeleteSweep(r)
  BY <1>6 DEF Arrive, Serve, Edit, Requested, EditInsert, EditEnqueue, EditRemoveFiles, EditRemoveRow,
     EditStatus, EditRebuild, EditMaster, EditCount, EditFail
<1> QED
  BY <1>1, <1>2, <1>3, <1>4, <1>5, <1>6 DEF Tame, RunInv, Unedited

\* A probe leaves flavors to settle, or writes the playlist of an entry that has none.
LEMMA ProbeMends ==
    ASSUME Typed, Tame, Alone, FilesInv, RunInv, Uncut, UncutInv, UNCHANGED scenario,
           NEW j \in Job, ProbeStep(j)
    PROVE  UncutInv'
<1> USE PipelineAssumption DEF Typed, PartsTyped, SlotInv, JobsTyped, HandsTyped, RowsTyped,
     StoreTyped, Actor, RowExists, At, Goto, Swept, Tame, Abandoned, Skipped, UncutInv, AllAlive,
     Leaving, Done, Remaining, Unsettled, FilesInv, GoneUnflavored, RunInv, FlavorsInv,
     RowsSorted, TargetsSorted, NothingToTranscode
<1>1. CASE ProbeSource(j)
  <2>1. AllAlive' /\ Bland
    BY <1>1 DEF ProbeSource, SetStatus, FailEntry, Writes, rows, output, store, jobs, local, Bland, GivenUp, Toils, Publishing
  <2> QED
    BY <2>1, BlandMends
<1>2. CASE ProbePoster(j)
  <2>1. AllAlive' /\ Bland
    BY <1>2 DEF ProbePoster, rows, output, jobs, local, Bland, GivenUp, Toils, Publishing
  <2> QED
    BY <2>1, BlandMends
<1>3. CASE ProbeRead(j)
  <2>1. AllAlive' /\ Bland
    BY <1>3 DEF ProbeRead, Ticked, Pending, rows, output, store, jobs, Bland, GivenUp, Toils, Publishing
  <2> QED
    BY <2>1, BlandMends
<1>4. CASE ProbeReset(j)
  <2> DEFINE f == First(todo[j])
  <2>1. f \in Flavor /\ f \in todo[j]
    BY <1>4, FirstIn DEF ProbeReset
  <2>2. AllAlive' /\ UNCHANGED <<status, store, jobs, phase, ctx, seen>>
    BY <1>4 DEF ProbeReset, entryRow, jobs
  <2>3. CASE ~RowExists
    BY <2>2, <2>3, Mended DEF Mending
  <2>4. CASE RowExists /\ f \in Skipped
    <3>1. \A g \in Flavor : /\ flavors'[g] = "done" <=> flavors[g] = "done"
                            /\ flavors'[g] \in Unsettled <=> flavors[g] \in Unsettled
      BY <1>4, <2>1, <2>4 DEF ProbeReset, Writes
    <3>2. Bland
      BY <2>2, <3>1 DEF store, output, jobs, Bland, GivenUp, Toils
    <3> QED
      BY <2>2, <3>2, BlandMends
  <2>5. CASE RowExists /\ f \notin Skipped
    <3>1. f \in Remaining'
      BY <1>4, <2>1, <2>5 DEF ProbeReset, Writes
    <3> QED
      BY <2>2, <3>1, Mended DEF Mending
  <2> QED
    BY <2>3, <2>4, <2>5
<1>5. CASE ProbePublish(j)
  <2>1. /\ kind[j] = "probe" /\ phase[j] = "reset" /\ seen[j] = {}
        /\ listed' \in {listed, {SourceItself}}
        /\ phase' = [phase EXCEPT ![j] = "publish"] /\ UNCHANGED <<rows, output, jobs, local>>
    BY <1>5 DEF ProbePublish
  <2>2. AllAlive'
    BY <2>1 DEF jobs, local
  <2>3. CASE ~RowExists
    BY <2>1, <2>2, <2>3, Mended DEF Mending, rows
  <2>4. CASE RowExists
    <3>1. Done = {} /\ \A f \in Flavor \ Skipped : flavors[f] = "none"
      BY <2>1, <2>4
    <3>2. listed \subseteq {SourceItself}
      <4> HIDE DEF Skipped
      <4> QED
        BY <2>4, <3>1 DEF PlaylistInv, Listable, Rowed
    <3>3. Fresh'
      BY <2>1, <3>1, <3>2 DEF Fresh, Right, rows
    <3>4. MasterMends'
      BY SMTT(60), <2>1 DEF MasterMends, Right, Mending, GivenUp, Fixes, Toils, rows, output, jobs, local
    <3> QED
      BY <2>2, <3>3, <3>4 DEF ReadyMends
  <2> QED
    BY <2>3, <2>4
<1>6. CASE ProbeReady(j)
  <2>1. AllAlive' /\ Bland
    BY <1>6 DEF ProbeReady, SetStatus, Writes, output, store, jobs, local, Bland, GivenUp, Toils, Publishing
  <2> QED
    BY <2>1, BlandMends
<1>7. CASE ProbeTranscoding(j)
  <2>1. AllAlive' /\ Bland
    BY <1>7 DEF ProbeTranscoding, SetStatus, Writes, output, store, jobs, local, Bland, GivenUp, Toils, Publishing
  <2> QED
    BY <2>1, BlandMends
<1>8. CASE ProbeEnqueue(j)
  <2>1. CASE UNCHANGED dropped
    <3>1. AllAlive' /\ Bland
      BY <1>8, <2>1, FirstIn DEF ProbeEnqueue, Enqueue, Writes, FreeJobs, rows, output, store, jobs, Bland, GivenUp, Toils, Publishing
    <3> QED
      BY <3>1, BlandMends
  <2>2. CASE ~UNCHANGED dropped
    <3>1. PICK f \in seen[j] : f = First(seen[j])
      BY <1>8, <2>2, FirstIn DEF ProbeEnqueue, jobs
    <3>2. PICK k \in FreeJobs :
             /\ kind' = [kind EXCEPT ![k] = "transcode"] /\ state' = [state EXCEPT ![k] = "queued"]
             /\ UNCHANGED <<attempts, flagged>>
      BY <1>8, <2>2, <3>1 DEF ProbeEnqueue, Enqueue, jobs
    <3>3. UNCHANGED <<phase, ctx>>
      BY <1>8, <2>2 DEF ProbeEnqueue, jobs
    <3>4. AllAlive' /\ Toils(k)' /\ phase'[k] # "master"
      BY <3>2, <3>3 DEF FreeJobs, Toils
    <3> QED
      BY <3>2, <3>4, Mended DEF Mending, Fixes, FreeJobs
  <2> QED
    BY <2>1, <2>2
<1>9. CASE CheckEntry(j, "probe", "start", "probe")
  <2>1. AllAlive' /\ Bland
    BY <1>9 DEF CheckEntry, Writes, rows, output, store, jobs, local, Bland, GivenUp, Toils, Publishing
  <2> QED
    BY <2>1, BlandMends
<1>10. CASE CheckEntry(j, "probe", "check", "poster")
  <2>1. AllAlive' /\ Bland
    BY <1>10 DEF CheckEntry, Writes, rows, output, store, jobs, local, Bland, GivenUp, Toils, Publishing
  <2> QED
    BY <2>1, BlandMends
<1> QED
  BY <1>1, <1>2, <1>3, <1>4, <1>5, <1>6, <1>7, <1>8, <1>9, <1>10 DEF ProbeStep

\* A transcode that goes on toils, and so does one that will be tried again; the
\* last one to look leaves a playlist that is right.
LEMMA TranscodeMends ==
    ASSUME Typed, Tame, Alone, FilesInv, RunInv, Uncut, UncutInv, UNCHANGED scenario,
           NEW j \in Job, TranscodeStep(j)
    PROVE  UncutInv'
<1> USE PipelineAssumption DEF Typed, PartsTyped, SlotInv, JobsTyped, HandsTyped, RowsTyped,
     StoreTyped, Actor, RowExists, At, Goto, Swept, Skipped, Leaving, Done, Remaining, Unsettled,
     GoneUnflavored
<1>0. /\ AllAlive /\ ReadyMends /\ MasterMends /\ GoneUnflavored
      /\ \A f \in Flavor : flavors[f] = "done" => f \in files \/ \E q \in Request : phase[q] = "swept"
  BY DEF FilesInv, RunInv, Unedited, DoneThere, Removing, UncutInv
<1>1. ASSUME UNCHANGED <<ctx, status, jobs>>, kind[j] = "transcode", phase[j] \notin {"idle", "lost"},
             \E p \in {"spool", "mark", "check", "encode", "encoding", "encoded", "done", "finalize",
                       "remaining", "count", "fail", "build", "err"} : phase' = [phase EXCEPT ![j] = p]
      PROVE  UncutInv'
  <2>1. AllAlive'
    BY <1>0, <1>1 DEF AllAlive, jobs
  <2>2. state[j] = "deleted" => ~RowExists
    BY <1>1 DEF PartsTyped
  <2>3. Leaving' \/ Toils(j)'
    BY <1>1, <2>2 DEF Toils, jobs
  <2>4. Mending'
    BY <1>1, <2>3 DEF Mending, Fixes
  <2> QED
    BY <2>1, <2>4, Mended
<1>2. CASE TranscodeMark(j) \/ TranscodeEncode(j) \/ EncodeEnds(j) \/ TranscodeDone(j)
  BY <1>1, <1>2 DEF TranscodeMark, TranscodeEncode, EncodeEnds, TranscodeDone, rows, entryRow, local
<1>3. CASE CheckEntry(j, "transcode", "start", "spool") \/ CheckEntry(j, "transcode", "check", "encode")
  BY <1>1, <1>3 DEF CheckEntry, rows, entryRow, local
<1>4. CASE EncodeCheck(j) \/ FinalizeDone(j)
  BY <1>1, <1>4 DEF EncodeCheck, FinalizeDone, rows, entryRow, local
<1>5. CASE FinalizeCheck(j) \/ FinalizeRemaining(j)
  <2>1. /\ UNCHANGED <<rows, store, jobs, local>> /\ kind[j] = "transcode"
        /\ phase[j] \in {"finalize", "remaining"}
        /\ \/ \E p \in {"remaining", "count"} : phase' = [phase EXCEPT ![j] = p]
           \/ phase' = [phase EXCEPT ![j] = "ok"] /\ (~RowExists \/ Remaining # {})
    BY <1>0, <1>5 DEF FinalizeCheck, FinalizeRemaining, LastFlavor, Writes, AllAlive
  <2>2. CASE ~RowExists \/ Remaining # {}
    <3>1. AllAlive'
      BY <1>0, <2>1 DEF AllAlive, jobs, local
    <3>2. Mending'
      BY <2>1, <2>2 DEF Mending, rows, entryRow
    <3> QED
      BY <3>1, <3>2, Mended
  <2>3. CASE ~(~RowExists \/ Remaining # {})
    BY <1>1, <2>1, <2>3 DEF rows, entryRow, local
  <2> QED
    BY <2>2, <2>3
<1>6. CASE FinalizeBuild(j)
  <2>1. AllAlive' /\ UNCHANGED <<rows, store, jobs, ctx>> /\ seen' = [seen EXCEPT ![j] = Done]
    BY <1>0, <1>6 DEF FinalizeBuild, Renditions, rows, jobs, AllAlive
  <2>2. phase[j] = "build" /\ kind[j] = "transcode" /\ phase' = [phase EXCEPT ![j] = "master"]
    BY <1>0, <1>6 DEF FinalizeBuild, AllAlive
  <2>3. Mending'
    <3>1. CASE Leaving
      BY <2>1, <2>2, <3>1 DEF Mending, rows
    <3>2. CASE ~Leaving
      <4>1. Right(seen[j])' /\ Toils(j)'
        BY <1>0, <2>1, <2>2, <3>2 DEF Right, Toils, InHand, rows, store, output, jobs
      <4> QED
        BY <4>1 DEF Mending, Fixes
    <3> QED
      BY <3>1, <3>2
  <2> QED
    BY <2>1, <2>3, Mended
<1>7. CASE FinalizeReady(j)
  <2>1. AllAlive'
    BY <1>0, <1>7 DEF FinalizeReady, SetStatus, Writes, jobs, local, AllAlive
  <2>2. Bland
    BY <1>0, <1>7 DEF FinalizeReady, SetStatus, Writes, store, output, jobs, local, Bland, GivenUp, Toils, Publishing
  <2> QED
    BY <2>1, <2>2, BlandMends
<1>8. CASE FinalizeMaster(j)
  <2>1. CASE phase' = [phase EXCEPT ![j] = "err"]
    BY <1>1, <1>8, <2>1 DEF FinalizeMaster, rows, entryRow, local
  <2>2. CASE phase' # [phase EXCEPT ![j] = "err"]
    <3>1. /\ kind[j] = "transcode" /\ phase[j] = "master" /\ phase' = [phase EXCEPT ![j] = "ready"]
          /\ listed' = seen[j] /\ UNCHANGED <<rows, output, jobs, local>>
      BY <1>8, <2>2 DEF FinalizeMaster
    <3>2. AllAlive'
      BY <1>0, <3>1 DEF AllAlive, jobs, local
    <3>3. CASE Right(seen[j])
      <4>1. Fresh'
        BY <3>1, <3>3 DEF Fresh, Right, rows, output
      <4>2. \A k \in Job : phase[k] # "idle" /\ kind[k] = "transcode" => k = j \/ phase[k] = "lost" \/ ~RowExists
        BY <3>1 DEF Alone, Transcoding
      <4>3. MasterMends'
        BY <3>1, <4>2 DEF MasterMends, Mending, rows, jobs
      <4> QED
        BY <3>2, <4>1, <4>3 DEF UncutInv, ReadyMends
    <3>4. CASE ~Right(seen[j])
      <4>1. Mending
        BY <1>0, <3>1, <3>4 DEF MasterMends
      <4>2. ~Fixes(j)
        BY <3>1, <3>4 DEF Fixes
      <4>3. Mending'
        BY <3>1, <4>1, <4>2 DEF Mending, GivenUp, Fixes, Toils, Right, rows, output, jobs, local
      <4> QED
        BY <3>2, <4>3, Mended
    <3> QED
      BY <3>3, <3>4
  <2> QED
    BY <2>1, <2>2
<1>9. CASE TranscodeSpool(j) \/ FinalizeFail(j)
  <2>1. /\ UNCHANGED <<flavors, store, jobs, local>> /\ kind[j] = "transcode" /\ phase[j] \in {"spool", "fail"}
        /\ \E p \in {"mark", "err"} : phase' = [phase EXCEPT ![j] = p]
        /\ status' = "gone" <=> status = "gone"
    BY <1>9 DEF TranscodeSpool, FinalizeFail, FailEntry, SetStatus, Writes, rows
  <2>2. AllAlive'
    BY <1>0, <2>1 DEF AllAlive, jobs, local
  <2>3. Leaving' \/ Toils(j)'
    BY <2>1 DEF Toils, jobs
  <2>4. Mending'
    BY <2>1, <2>3 DEF Mending, Fixes
  <2> QED
    BY <2>2, <2>4, Mended
<1> QED
  BY <1>2, <1>3, <1>4, <1>5, <1>6, <1>7, <1>8, <1>9 DEF TranscodeStep

\* A download comes before all transcodes.
LEMMA DownloadOneRun ==
    ASSUME Typed, Tame, Alone, Sourced, FilesInv, RunInv, OneRun, OneRunInv, UNCHANGED scenario,
           NEW j \in Job, DownloadStep(j)
    PROVE  OneRunInv'
<1> USE PipelineAssumption DEF Typed, PartsTyped, SlotInv, JobsTyped, HandsTyped, RowsTyped,
     StoreTyped, Actor, RowExists, At, Goto, Swept, Tame, Abandoned, Dead, Early, NoMore,
     LastAlive, AllDead, Finishing, Starter, Undecided, OneRun, OneRunInv, CancelsOnly,
     OneTranscodeEach, ProbeHands, LastFinishes, ListsRight, ReadyEnds, Fresh, Right, Skipped,
     Leaving, Done, Remaining, Unsettled, FilesInv, GoneUnflavored, AtWorkUndone, RunInv,
     FlavorsInv, RowsSorted, TargetsSorted, ProbesSorted, RunsInv, FirstRun, NothingToTranscode
<1>1. CASE DownloadFetch(j)
  BY SMTT(60), <1>1 DEF DownloadFetch, SetStatus, FailEntry, Writes, rows, output, store, jobs, local
<1>2. CASE DownloadPut(j)
  BY <1>2 DEF DownloadPut, SetStatus, FailEntry, Writes, rows, output, store, jobs, local
<1>3. CASE DownloadUpdate(j)
  BY <1>3 DEF DownloadUpdate, SetStatus, Writes, output, store, jobs, local
<1>4. CASE DownloadEnqueue(j)
  <2>a. CancelsOnly'
    BY <1>4 DEF DownloadEnqueue, Enqueue, Writes, FreeJobs, rows, output, store, jobs, local
  <2>b. ASSUME ~Leaving' PROVE ~Leaving
    BY <1>4, <2>b DEF DownloadEnqueue, Enqueue, Writes, FreeJobs, rows, output, store, jobs, local
  <2>c. ASSUME ~Leaving' PROVE OneTranscodeEach'
    BY <1>4, <2>b, <2>c DEF DownloadEnqueue, Enqueue, Writes, FreeJobs, rows, output, store, jobs, local
  <2>d. ASSUME ~Leaving' PROVE ProbeHands'
    BY <1>4, <2>b, <2>d DEF DownloadEnqueue, Enqueue, Writes, FreeJobs, rows, output, store, jobs, local
  <2>e. ASSUME ~Leaving' PROVE LastFinishes'
    BY <1>4, <2>b, <2>e DEF DownloadEnqueue, Enqueue, Writes, FreeJobs, rows, output, store, jobs, local
  <2>f. ASSUME ~Leaving' PROVE ListsRight'
    BY <1>4, <2>b, <2>f DEF DownloadEnqueue, Enqueue, Writes, FreeJobs, rows, output, store, jobs, local
  <2>g. ASSUME ~Leaving' PROVE ReadyEnds'
    BY <1>4, <2>b, <2>g DEF DownloadEnqueue, Enqueue, Writes, FreeJobs, rows, output, store, jobs, local
  <2> QED
    BY <2>a, <2>c, <2>d, <2>e, <2>f, <2>g
<1>5. CASE CheckEntry(j, "download", "start", "fetch")
  BY <1>5 DEF CheckEntry, Writes, rows, output, store, jobs, local
<1>6. CASE CheckEntry(j, "download", "check", "put")
  BY SMTT(60), <1>6 DEF CheckEntry, Writes, rows, output, store, jobs, local
<1> QED
  BY <1>1, <1>2, <1>3, <1>4, <1>5, <1>6 DEF DownloadStep

\* A job that is settled or cancelled is out of the way of the others.
LEMMA QueueOneRun ==
    ASSUME Typed, Tame, Alone, Sourced, FilesInv, RunInv, OneRun, OneRunInv, UNCHANGED scenario,
           NEW j \in Job, Claim(j) \/ Settle(j) \/ RequestCancel(j) \/ WatcherFires(j) \/ Crash(j)
    PROVE  OneRunInv'
<1> USE PipelineAssumption DEF Typed, PartsTyped, SlotInv, JobsTyped, HandsTyped, RowsTyped,
     StoreTyped, Actor, RowExists, At, Goto, Swept, Tame, Abandoned, Dead, Early, NoMore,
     LastAlive, AllDead, Finishing, Starter, Undecided, OneRun, OneRunInv, CancelsOnly,
     OneTranscodeEach, ProbeHands, LastFinishes, ListsRight, ReadyEnds, Fresh, Right, Skipped,
     Leaving, Done, Remaining, Unsettled, FilesInv, GoneUnflavored, AtWorkUndone, RunInv,
     FlavorsInv, RowsSorted, TargetsSorted, ProbesSorted, RunsInv, FirstRun, NothingToTranscode
<1>1. CASE Claim(j)
  <2>a. CancelsOnly'
    BY <1>1 DEF Claim, Guard, rows, output, store, local
  <2>b. ASSUME ~Leaving' PROVE ~Leaving
    BY <1>1, <2>b DEF Claim, Guard, rows, output, store, local
  <2>c. ASSUME ~Leaving' PROVE OneTranscodeEach'
    BY <1>1, <2>b, <2>c DEF Claim, Guard, rows, output, store, local
  <2>d. ASSUME ~Leaving' PROVE ProbeHands'
    BY <1>1, <2>b, <2>d DEF Claim, Guard, rows, output, store, local
  <2>e. ASSUME ~Leaving' PROVE LastFinishes'
    BY <1>1, <2>b, <2>e DEF Claim, Guard, rows, output, store, local
  <2>f. ASSUME ~Leaving' PROVE ListsRight'
    BY <1>1, <2>b, <2>f DEF Claim, Guard, rows, output, store, local
  <2>g. ASSUME ~Leaving' PROVE ReadyEnds'
    BY <1>1, <2>b, <2>g DEF Claim, Guard, rows, output, store, local
  <2> QED
    BY <2>a, <2>c, <2>d, <2>e, <2>f, <2>g
<1>2. CASE Settle(j)
  BY <1>2 DEF Settle, Retried, LeftRunning, Drop, Forget, ResetLocals, rows, output, store, jobs
<1>3. CASE RequestCancel(j)
  <2>a. CancelsOnly'
    BY SMTT(60), <1>3 DEF RequestCancel, Drop, Forget, rows, output, store, local
  <2>b. ASSUME ~Leaving' PROVE ~Leaving
    BY <1>3, <2>b DEF RequestCancel, Drop, Forget, rows, output, store, local
  <2>c. ASSUME ~Leaving' PROVE OneTranscodeEach'
    BY <1>3, <2>b, <2>c DEF RequestCancel, Drop, Forget, rows, output, store, local
  <2>d. ASSUME ~Leaving' PROVE ProbeHands'
    BY SMTT(60), <1>3, <2>b, <2>d DEF RequestCancel, Drop, Forget, rows, output, store, local
  <2>e. ASSUME ~Leaving' PROVE LastFinishes'
    BY SMTT(60), <1>3, <2>b, <2>e DEF RequestCancel, Drop, Forget, rows, output, store, local
  <2>f. ASSUME ~Leaving' PROVE ListsRight'
    BY <1>3, <2>b, <2>f DEF RequestCancel, Drop, Forget, rows, output, store, local
  <2>g. ASSUME ~Leaving' PROVE ReadyEnds'
    BY <1>3, <2>b, <2>g DEF RequestCancel, Drop, Forget, rows, output, store, local
  <2> QED
    BY <2>a, <2>c, <2>d, <2>e, <2>f, <2>g
<1>4. CASE WatcherFires(j)
  BY <1>4 DEF WatcherFires, InHand, rows, output, store, jobs
<1>5. CASE Crash(j)
  BY <1>5 DEF Crash, InHand, Forget, ResetLocals, rows, output, store, jobs
<1> QED
  BY <1>1, <1>2, <1>3, <1>4, <1>5

\* The sweep makes no outcome undone.
LEMMA RequeueOneRun ==
    ASSUME Typed, Tame, Alone, Sourced, FilesInv, RunInv, OneRun, OneRunInv, UNCHANGED scenario,
           RequeueStale
    PROVE  OneRunInv'
<1> USE PipelineAssumption DEF Typed, PartsTyped, SlotInv, JobsTyped, HandsTyped, RowsTyped,
     StoreTyped, Actor, RowExists, At, Goto, Swept, Tame, Abandoned, Dead, Early, NoMore,
     LastAlive, AllDead, Finishing, Starter, Undecided, OneRun, OneRunInv, CancelsOnly,
     OneTranscodeEach, ProbeHands, LastFinishes, ListsRight, ReadyEnds, Fresh, Right, Skipped,
     Leaving, Done, Remaining, Unsettled, FilesInv, GoneUnflavored, AtWorkUndone, RunInv,
     FlavorsInv, RowsSorted, TargetsSorted, ProbesSorted, RunsInv, FirstRun, NothingToTranscode
<1>1. CASE RequeueStale
  <2>a. CancelsOnly'
    BY <1>1 DEF RequeueStale, entryRow, output, store, local
  <2>b. ASSUME ~Leaving' PROVE ~Leaving
    BY <1>1, <2>b DEF RequeueStale, entryRow, output, store, local
  <2>c. ASSUME ~Leaving' PROVE OneTranscodeEach'
    BY <1>1, <2>b, <2>c DEF RequeueStale, entryRow, output, store, local
  <2>d. ASSUME ~Leaving' PROVE ProbeHands'
    BY <1>1, <2>b, <2>d DEF RequeueStale, entryRow, output, store, local
  <2>e. ASSUME ~Leaving' PROVE LastFinishes'
    BY <1>1, <2>b, <2>e DEF RequeueStale, entryRow, output, store, local
  <2>f. ASSUME ~Leaving' PROVE ListsRight'
    BY <1>1, <2>b, <2>f DEF RequeueStale, entryRow, output, store, local
  <2>g. ASSUME ~Leaving' PROVE ReadyEnds'
    BY SMTT(60), <1>1, <2>b, <2>g DEF RequeueStale, entryRow, output, store, local
  <2> QED
    BY <2>a, <2>c, <2>d, <2>e, <2>f, <2>g
<1> QED
  BY <1>1

\* A deletion ends it all.
LEMMA RequestOneRun ==
    ASSUME Typed, Tame, Alone, Sourced, FilesInv, RunInv, OneRun, OneRunInv, UNCHANGED scenario,
           NEW r \in Request, Arrive(r) \/ Serve(r)
    PROVE  OneRunInv'
<1> USE PipelineAssumption DEF Typed, PartsTyped, SlotInv, JobsTyped, HandsTyped, RowsTyped,
     StoreTyped, Actor, RowExists, At, Goto, Swept, Tame, Abandoned, Dead, Early, NoMore,
     LastAlive, AllDead, Finishing, Starter, Undecided, OneRun, OneRunInv, CancelsOnly,
     OneTranscodeEach, ProbeHands, LastFinishes, ListsRight, ReadyEnds, Fresh, Right, Skipped,
     Leaving, Done, Remaining, Unsettled, FilesInv, GoneUnflavored, AtWorkUndone, RunInv,
     FlavorsInv, RowsSorted, TargetsSorted, ProbesSorted, RunsInv, FirstRun, NothingToTranscode
<1>1. CASE Reprocess(r)
  BY <1>1 DEF Reprocess, Enqueue, Requested, FreeJobs, rows, output, store, local
<1>2. CASE Delete(r)
  BY <1>2 DEF Delete, Requested, rows, jobs, local
<1>3. CASE ReprocessStatus(r)
  BY <1>3 DEF ReprocessStatus, SetStatus, ResetLocals, Respond, Over, Writes, output, store, jobs
<1>4. CASE DeleteRow(r)
  BY <1>4 DEF DeleteRow, InHand, store, output, local
<1>5. CASE DeleteSweep(r)
  BY <1>5 DEF DeleteSweep, Over, rows, jobs, local, SweptIsGone, Sweeping
<1>6. ASSUME phase[r] \in {"idle", "reprocess", "swept", "sweep", "over"}, "edit" \notin scenario
      PROVE  Reprocess(r) \/ Delete(r) \/ ReprocessStatus(r) \/ DeleteRow(r) \/ DeleteSweep(r)
  BY SMTT(60), <1>6 DEF Arrive, Serve, Edit, Requested, EditInsert, EditEnqueue, EditRemoveFiles, EditRemoveRow,
     EditStatus, EditRebuild, EditMaster, EditCount, EditFail
<1> QED
  BY <1>1, <1>2, <1>3, <1>4, <1>5, <1>6 DEF Tame, RunInv, Unedited

\* The probe gives each flavor one transcode, or there is none and the playlist is right.
LEMMA ProbeOneRun ==
    ASSUME Typed, Tame, Alone, Sourced, FilesInv, RunInv, OneRun, OneRunInv, UNCHANGED scenario,
           NEW j \in Job, ProbeStep(j)
    PROVE  OneRunInv'
<1> USE PipelineAssumption DEF Typed, PartsTyped, SlotInv, JobsTyped, HandsTyped, RowsTyped,
     StoreTyped, Actor, RowExists, At, Goto, Swept, Tame, Abandoned, Dead, Early, NoMore,
     LastAlive, AllDead, Finishing, Starter, Undecided, OneRun, OneRunInv, CancelsOnly,
     OneTranscodeEach, ProbeHands, LastFinishes, ListsRight, ReadyEnds, Fresh, Right, Skipped,
     Leaving, Done, Remaining, Unsettled, FilesInv, GoneUnflavored, AtWorkUndone, RunInv,
     FlavorsInv, RowsSorted, TargetsSorted, ProbesSorted, RunsInv, FirstRun, NothingToTranscode
<1>1. CASE ProbeSource(j)
  <2>1. /\ kind[j] = "probe" /\ phase[j] = "probe"
        /\ \E p \in {"check", "err"} : phase' = [phase EXCEPT ![j] = p]
        /\ status' = status \/ (status' = "failed" /\ status # "gone")
        /\ UNCHANGED <<flavors, store, jobs, local>>
    BY <1>1 DEF ProbeSource, SetStatus, FailEntry, Writes, rows
  <2>a. CancelsOnly'
    BY <2>1 DEF store, output, jobs, local
  <2>b. ASSUME ~Leaving' PROVE ~Leaving
    BY <2>1, <2>b DEF store, output, jobs, local
  <2>c. ASSUME ~Leaving' PROVE OneTranscodeEach'
    BY <2>1, <2>b, <2>c DEF store, output, jobs, local
  <2>d. ASSUME ~Leaving' PROVE ProbeHands'
    BY <2>1, <2>b, <2>d DEF store, output, jobs, local
  <2>e. ASSUME ~Leaving' PROVE LastFinishes'
    BY <2>1, <2>b, <2>e DEF store, output, jobs, local
  <2>f. ASSUME ~Leaving' PROVE ListsRight'
    BY <2>1, <2>b, <2>f DEF store, output, jobs, local
  <2>g. ASSUME ~Leaving' PROVE ReadyEnds'
    BY <2>1, <2>b, <2>g DEF store, output, jobs, local
  <2> QED
    BY <2>a, <2>c, <2>d, <2>e, <2>f, <2>g
<1>2. CASE ProbePoster(j)
  BY <1>2 DEF ProbePoster, rows, output, jobs, local
<1>3. CASE ProbeRead(j)
  <2>1. /\ kind[j] = "probe" /\ phase[j] = "read" /\ UNCHANGED <<rows, store, jobs, ctx, grew>>
        /\ \/ /\ ctx[j] /\ phase' = [phase EXCEPT ![j] = "reset"]
              /\ todo' = [todo EXCEPT ![j] = Ticked] /\ seen' = [seen EXCEPT ![j] = Ticked \ Skipped]
           \/ ~ctx[j] /\ phase' = [phase EXCEPT ![j] = "err"] /\ UNCHANGED <<todo, seen>>
    BY <1>3 DEF ProbeRead, Pending
  <2>a. CancelsOnly'
    BY <2>1 DEF rows, store, output, jobs
  <2>b. ASSUME ~Leaving' PROVE ~Leaving
    BY <2>1, <2>b DEF rows, store, output, jobs
  <2>c. ASSUME ~Leaving' PROVE OneTranscodeEach'
    BY <2>1, <2>b, <2>c DEF rows, store, output, jobs
  <2>d. ASSUME ~Leaving' PROVE ProbeHands'
    BY <2>1, <2>b, <2>d DEF rows, store, output, jobs
  <2>e. ASSUME ~Leaving' PROVE LastFinishes'
    BY <2>1, <2>b, <2>e DEF rows, store, output, jobs
  <2>f. ASSUME ~Leaving' PROVE ListsRight'
    BY <2>1, <2>b, <2>f DEF rows, store, output, jobs
  <2>g. ASSUME ~Leaving' PROVE ReadyEnds'
    BY <2>1, <2>b, <2>g DEF rows, store, output, jobs
  <2> QED
    BY <2>a, <2>c, <2>d, <2>e, <2>f, <2>g
<1>4. CASE ProbeReset(j)
  <2>a. CancelsOnly'
    BY <1>4, FirstIn DEF ProbeReset, Writes, entryRow, output, store, jobs
  <2>b. ASSUME ~Leaving' PROVE ~Leaving
    BY <1>4, FirstIn, <2>b DEF ProbeReset, Writes, entryRow, output, store, jobs
  <2>c. ASSUME ~Leaving' PROVE OneTranscodeEach'
    BY <1>4, FirstIn, <2>b, <2>c DEF ProbeReset, Writes, entryRow, output, store, jobs
  <2>d. ASSUME ~Leaving' PROVE ProbeHands'
    BY <1>4, FirstIn, <2>b, <2>d DEF ProbeReset, Writes, entryRow, output, store, jobs
  <2>e. ASSUME ~Leaving' PROVE LastFinishes'
    BY <1>4, FirstIn, <2>b, <2>e DEF ProbeReset, Writes, entryRow, output, store, jobs
  <2>f. ASSUME ~Leaving' PROVE ListsRight'
    BY <1>4, FirstIn, <2>b, <2>f DEF ProbeReset, Writes, entryRow, output, store, jobs
  <2>g. ASSUME ~Leaving' PROVE ReadyEnds'
    BY <1>4, FirstIn, <2>b, <2>g DEF ProbeReset, Writes, entryRow, output, store, jobs
  <2> QED
    BY <2>a, <2>c, <2>d, <2>e, <2>f, <2>g
<1>5. CASE ProbePublish(j)
  <2>1. /\ kind[j] = "probe" /\ phase[j] = "reset" /\ seen[j] = {} /\ phase' = [phase EXCEPT ![j] = "publish"]
        /\ listed' \in {listed, {SourceItself}} /\ UNCHANGED <<rows, output, jobs, local>>
    BY <1>5 DEF ProbePublish
  <2>2. ~Leaving => Done = {} /\ status # "ready" /\ \A k \in Job : kind[k] # "transcode"
    <3>1. ~Leaving => \A f \in Flavor : flavors[f] # "done"
      <4>1. ~Leaving => \A f \in Flavor \ Skipped : flavors[f] = "none"
        BY <2>1
      <4> HIDE DEF Skipped
      <4> QED
        BY <4>1
    <3>2. Early(j) /\ ~Dead(j)
      BY <2>1
    <3>3. ~Leaving => status # "ready"
      BY <3>2
    <3>4. ~Leaving => \A k \in Job : kind[k] # "transcode"
      BY <3>2
    <3>5. ~Leaving => Done = {}
      <4> HIDE DEF Leaving
      <4>1. ~Leaving => \A f : f \notin Done
        BY <3>1 DEF Done
      <4> HIDE DEF Done
      <4> QED
        BY <4>1
    <3> HIDE DEF Leaving, Done
    <3> QED
      BY <3>3, <3>4, <3>5
  <2>3. ~Leaving => Fresh'
    <3>1. flavors' = flavors /\ (~Leaving => RowExists)
      BY <2>1 DEF rows
    <3>2. ~Leaving => Done' = {}
      BY <2>2, <3>1
    <3>3. ~Leaving => \A f \in Flavor \ Skipped : flavors[f] = "none"
      BY <2>1
    <3>4. ~Leaving => listed \subseteq {SourceItself}
      <4> HIDE DEF Done, Leaving, Skipped, Typed, OneRunInv, FilesInv, RunInv, OneRun, Tame, RowExists
      <4> SUFFICES ASSUME ~Leaving, NEW f \in listed, f # SourceItself PROVE FALSE
        OBVIOUS
      <4>1. f \in Flavor \ Skipped /\ Rowed(f)
        BY DEF RunInv, PlaylistInv, Listable
      <4> QED
        BY <3>1, <3>3, <4>1 DEF Rowed
    <3> HIDE DEF Done, Leaving, Typed, OneRunInv, FilesInv, RunInv, OneRun, Tame
    <3> QED
      BY <2>1, <3>2, <3>4
  <2>a. CancelsOnly'
    BY <2>1, <2>2 DEF rows, output, jobs, local
  <2>b. ASSUME ~Leaving' PROVE ~Leaving
    BY <2>1, <2>2, <2>b DEF rows, output, jobs, local
  <2>c. ASSUME ~Leaving' PROVE OneTranscodeEach'
    BY <2>1, <2>2, <2>b, <2>c DEF rows, output, jobs, local
  <2>d. ASSUME ~Leaving' PROVE ProbeHands'
    BY <2>1, <2>2, <2>b, <2>d DEF rows, output, jobs, local
  <2>e. ASSUME ~Leaving' PROVE LastFinishes'
    BY <2>1, <2>2, <2>b, <2>e DEF rows, output, jobs, local
  <2>f. ASSUME ~Leaving' PROVE ListsRight'
    <3>1. \A k \in Job : kind[k] # "transcode" /\ (kind[k] = "probe" => k = j)
      BY <2>1, <2>2, <2>b, <2>f
    <3> QED
      BY <2>1, <2>2, <2>3, <2>b, <2>f, <3>1 DEF Early, jobs, local
  <2>g. ASSUME ~Leaving' PROVE ReadyEnds'
    BY <2>1, <2>2, <2>b, <2>g DEF rows, output, jobs, local
  <2> QED
    BY <2>a, <2>c, <2>d, <2>e, <2>f, <2>g
<1>6. CASE ProbeReady(j)
  <2>1. /\ kind[j] = "probe" /\ phase[j] = "publish" /\ phase' = [phase EXCEPT ![j] = "ok"]
        /\ status' = IF ctx[j] /\ RowExists THEN "ready" ELSE status
        /\ UNCHANGED <<flavors, store, jobs, local>>
    BY <1>6 DEF ProbeReady, SetStatus, Writes
  <2>2. ~Leaving => \A k \in Job : kind[k] # "transcode" /\ (Starter(k) => k = j)
    BY <2>1
  <2>a. CancelsOnly'
    BY <2>1, <2>2 DEF store, output, jobs, local
  <2>b. ASSUME ~Leaving' PROVE ~Leaving
    BY <2>1, <2>2, <2>b DEF store, output, jobs, local
  <2>c. ASSUME ~Leaving' PROVE OneTranscodeEach'
    BY <2>1, <2>2, <2>b, <2>c DEF store, output, jobs, local
  <2>d. ASSUME ~Leaving' PROVE ProbeHands'
    BY <2>1, <2>2, <2>b, <2>d DEF store, output, jobs, local
  <2>e. ASSUME ~Leaving' PROVE LastFinishes'
    BY <2>1, <2>2, <2>b, <2>e DEF store, output, jobs, local
  <2>f. ASSUME ~Leaving' PROVE ListsRight'
    BY <2>1, <2>2, <2>b, <2>f DEF store, output, jobs, local
  <2>g. ASSUME ~Leaving' PROVE ReadyEnds'
    BY <2>1, <2>2, <2>b, <2>g DEF store, output, jobs, local
  <2> QED
    BY <2>a, <2>c, <2>d, <2>e, <2>f, <2>g
<1>7. CASE ProbeTranscoding(j)
  <2>a. CancelsOnly'
    BY <1>7 DEF ProbeTranscoding, SetStatus, Writes, output, store, jobs, local
  <2>b. ASSUME ~Leaving' PROVE ~Leaving
    BY <1>7, <2>b DEF ProbeTranscoding, SetStatus, Writes, output, store, jobs, local
  <2>c. ASSUME ~Leaving' PROVE OneTranscodeEach'
    BY <1>7, <2>b, <2>c DEF ProbeTranscoding, SetStatus, Writes, output, store, jobs, local
  <2>d. ASSUME ~Leaving' PROVE ProbeHands'
    BY <1>7, <2>b, <2>d DEF ProbeTranscoding, SetStatus, Writes, output, store, jobs, local
  <2>e. ASSUME ~Leaving' PROVE LastFinishes'
    BY <1>7, <2>b, <2>e DEF ProbeTranscoding, SetStatus, Writes, output, store, jobs, local
  <2>f. ASSUME ~Leaving' PROVE ListsRight'
    BY <1>7, <2>b, <2>f DEF ProbeTranscoding, SetStatus, Writes, output, store, jobs, local
  <2>g. ASSUME ~Leaving' PROVE ReadyEnds'
    BY <1>7, <2>b, <2>g DEF ProbeTranscoding, SetStatus, Writes, output, store, jobs, local
  <2> QED
    BY <2>a, <2>c, <2>d, <2>e, <2>f, <2>g
<1>8. CASE ProbeEnqueue(j)
  <2>1. CASE UNCHANGED jobs
    <3>1. /\ phase[j] = "enqueue" /\ kind[j] = "probe" /\ (\E p \in {"ok", "err"} : phase' = [phase EXCEPT ![j] = p])
          /\ UNCHANGED <<rows, store, jobs, ctx, todo, seen, grew>>
          /\ phase'[j] = "ok" => seen[j] = {}
          /\ phase'[j] = "err" => ~ctx[j] \/ ~RowExists
      BY <1>8, <2>1 DEF ProbeEnqueue, Enqueue, FreeJobs, Writes, jobs
    <3>a. CancelsOnly'
      BY <3>1 DEF rows, store, output, jobs
    <3>b. ASSUME ~Leaving' PROVE ~Leaving
      BY <3>1, <3>b DEF rows, store, output, jobs
    <3>c. ASSUME ~Leaving' PROVE OneTranscodeEach'
      BY <3>1, <3>b, <3>c DEF rows, store, output, jobs
    <3>d. ASSUME ~Leaving' PROVE ProbeHands'
      BY <3>1, <3>b, <3>d DEF rows, store, output, jobs
    <3>e. ASSUME ~Leaving' PROVE LastFinishes'
      BY <3>1, <3>b, <3>e DEF rows, store, output, jobs
    <3>f. ASSUME ~Leaving' PROVE ListsRight'
      BY <3>1, <3>b, <3>f DEF rows, store, output, jobs
    <3>g. ASSUME ~Leaving' PROVE ReadyEnds'
      BY <3>1, <3>b, <3>g DEF rows, store, output, jobs
    <3> QED
      BY <3>a, <3>c, <3>d, <3>e, <3>f, <3>g
  <2>2. CASE ~UNCHANGED jobs
    <3>1. PICK f \in seen[j] : f = First(seen[j])
      BY ZenonT(60), <1>8, <2>2, FirstIn DEF ProbeEnqueue
    <3>2. PICK k \in FreeJobs :
             /\ kind' = [kind EXCEPT ![k] = "transcode"] /\ target' = [target EXCEPT ![k] = f]
             /\ state' = [state EXCEPT ![k] = "queued"] /\ UNCHANGED <<attempts, flagged>>
      BY <1>8, <2>2, <3>1 DEF ProbeEnqueue, Enqueue
    <3>3. /\ kind[j] = "probe" /\ phase[j] = "enqueue" /\ ctx[j] /\ RowExists
          /\ seen' = [seen EXCEPT ![j] = @ \ {f}]
          /\ UNCHANGED <<rows, store, phase, ctx, todo>>
      BY <1>8, <2>2, <3>1 DEF ProbeEnqueue, Writes
    <3>4. kind[k] = "none" /\ phase[k] = "idle" /\ k # j
      BY <3>2, <3>3 DEF FreeJobs
    <3>5. /\ \A i \in Job : Starter(i) => i = j
          /\ ~NoMore
      BY <3>1, <3>3
    <3>6. ~Leaving => flavors[f] \in Unsettled /\ \A i \in Job : kind[i] = "transcode" => target[i] # f
      BY <3>1, <3>3
    <3>a. CancelsOnly'
      BY <3>2, <3>3, <3>4, <3>5, <3>6 DEF rows, store, output
    <3>b. ASSUME ~Leaving' PROVE ~Leaving
      BY <3>2, <3>3, <3>4, <3>5, <3>6, <3>b DEF rows, store, output
    <3>c. ASSUME ~Leaving' PROVE OneTranscodeEach'
      BY <3>2, <3>3, <3>4, <3>5, <3>6, <3>b, <3>c DEF rows, store, output
    <3>d. ASSUME ~Leaving' PROVE ProbeHands'
      BY <3>2, <3>3, <3>4, <3>5, <3>6, <3>b, <3>d DEF rows, store, output
    <3>e. ASSUME ~Leaving' PROVE LastFinishes'
      BY <3>2, <3>3, <3>4, <3>5, <3>6, <3>b, <3>e DEF rows, store, output
    <3>f. ASSUME ~Leaving' PROVE ListsRight'
      BY <3>2, <3>3, <3>4, <3>5, <3>6, <3>b, <3>f DEF rows, store, output
    <3>g. ASSUME ~Leaving' PROVE ReadyEnds'
      BY <3>2, <3>3, <3>4, <3>5, <3>6, <3>b, <3>g DEF rows, store, output
    <3> QED
      BY <3>a, <3>c, <3>d, <3>e, <3>f, <3>g
  <2> QED
    BY <2>1, <2>2
<1>9. CASE CheckEntry(j, "probe", "start", "probe")
  BY <1>9 DEF CheckEntry, Writes, rows, output, store, jobs, local
<1>10. CASE CheckEntry(j, "probe", "check", "poster")
  BY SMTT(60), <1>10 DEF CheckEntry, Writes, rows, output, store, jobs, local
<1> QED
  BY <1>1, <1>2, <1>3, <1>4, <1>5, <1>6, <1>7, <1>8, <1>9, <1>10 DEF ProbeStep

\* The transcode that finds nothing left is the last one, and lists what is done.
LEMMA TranscodeOneRun ==
    ASSUME Typed, Tame, Alone, Sourced, FilesInv, RunInv, OneRun, OneRunInv, UNCHANGED scenario,
           NEW j \in Job, TranscodeStep(j)
    PROVE  OneRunInv'
<1>0. ~Leaving => Done \subseteq files
  BY DEF FilesInv, DoneThere, RunInv, Unedited, Removing, Leaving
<1> USE PipelineAssumption DEF Typed, PartsTyped, SlotInv, JobsTyped, HandsTyped, RowsTyped,
     StoreTyped, Actor, RowExists, At, Goto, Swept, Tame, Abandoned, Dead, Early, NoMore,
     LastAlive, AllDead, Finishing, Starter, Undecided, OneRun, OneRunInv, CancelsOnly,
     OneTranscodeEach, ProbeHands, LastFinishes, ListsRight, ReadyEnds, Fresh, Right, Skipped,
     Leaving, Done, Remaining, Unsettled, FilesInv, GoneUnflavored, AtWorkUndone, RunInv,
     FlavorsInv, RowsSorted, TargetsSorted, ProbesSorted, RunsInv, FirstRun, NothingToTranscode
<1>1. CASE TranscodeSpool(j)
  <2>1. /\ kind[j] = "transcode" /\ phase[j] = "spool"
        /\ \/ phase' = [phase EXCEPT ![j] = "mark"] /\ UNCHANGED status
           \/ phase' = [phase EXCEPT ![j] = "err"] /\ (status' = status \/ (status' = "failed" /\ status # "gone"))
        /\ UNCHANGED <<flavors, store, jobs, local>>
    BY <1>1 DEF TranscodeSpool, SetStatus, FailEntry, Writes, rows
  <2>a. CancelsOnly'
    BY <2>1 DEF store, output, jobs, local
  <2>b. ASSUME ~Leaving' PROVE ~Leaving
    BY <2>1, <2>b DEF store, output, jobs, local
  <2>c. ASSUME ~Leaving' PROVE OneTranscodeEach'
    BY <2>1, <2>b, <2>c DEF store, output, jobs, local
  <2>d. ASSUME ~Leaving' PROVE ProbeHands'
    BY <2>1, <2>b, <2>d DEF store, output, jobs, local
  <2>e. ASSUME ~Leaving' PROVE LastFinishes'
    BY SMTT(60), <2>1, <2>b, <2>e DEF store, output, jobs, local
  <2>f. ASSUME ~Leaving' PROVE ListsRight'
    BY <2>1, <2>b, <2>f DEF store, output, jobs, local
  <2>g. ASSUME ~Leaving' PROVE ReadyEnds'
    BY <2>1, <2>b, <2>g DEF store, output, jobs, local
  <2> QED
    BY <2>a, <2>c, <2>d, <2>e, <2>f, <2>g
<1>2. CASE TranscodeMark(j)
  <2>1. /\ kind[j] = "transcode" /\ phase[j] = "mark" /\ target[j] \in Flavor
        /\ \E p \in {"check", "finalize"} : phase' = [phase EXCEPT ![j] = p]
        /\ \A f \in Flavor : flavors'[f] = flavors[f] \/ (f = target[j] /\ flavors'[f] = "transcoding")
        /\ UNCHANGED <<entryRow, store, jobs, local>>
    BY <1>2 DEF TranscodeMark, SetFlavor
  <2>a. CancelsOnly'
    BY <2>1 DEF entryRow, store, output, jobs, local
  <2>b. ASSUME ~Leaving' PROVE ~Leaving
    BY <2>1, <2>b DEF entryRow, store, output, jobs, local
  <2>c. ASSUME ~Leaving' PROVE OneTranscodeEach'
    BY <2>1, <2>b, <2>c DEF entryRow, store, output, jobs, local
  <2>d. ASSUME ~Leaving' PROVE ProbeHands'
    BY <2>1, <2>b, <2>d DEF entryRow, store, output, jobs, local
  <2>e. ASSUME ~Leaving' PROVE LastFinishes'
    <3>1. \A k \in Job \ {j} : Dead(k)' = Dead(k)
      BY <2>1 DEF entryRow, store, output, jobs, local
    <3>2. ~Dead(j) /\ \A k \in Job \ {j} : kind[k] = "transcode" => ~LastAlive(k)
      BY <2>1
    <3>3. LastAlive(j) => LastAlive(j)'
      BY <2>1, <3>1 DEF entryRow, store, output, jobs, local
    <3>4. ASSUME NEW k \in Job, kind[k] = "transcode", ~Dead(k)', k # j
          PROVE  /\ phase'[k] \in Undecided => flavors'[target[k]] \in Unsettled
                 /\ phase'[k] \notin Finishing
      <4>1. /\ ~Dead(k) /\ phase'[k] = phase[k] /\ phase[k] \notin Finishing
            /\ phase[k] \in Undecided => flavors[target[k]] \in Unsettled
        BY <2>1, <2>b, <2>e, <3>1, <3>2, <3>4
      <4>2. target[k] \in Flavor /\ target[k] # target[j]
        BY <2>1, <2>b, <2>e, <3>4
      <4> QED
        BY ZenonT(60), <2>1, <4>1, <4>2
    <3>5. ASSUME phase'[j] \in Undecided, flavors'[target[j]] \notin Unsettled
          PROVE  LastAlive(j)
      <4>1. flavors[target[j]] \notin Unsettled /\ phase[j] \in Undecided
        BY ZenonT(60), <2>1, <3>5
      <4>2. ~Dead(j) /\ kind[j] = "transcode" /\ LastFinishes
        BY <2>1, <2>b, <2>e, <3>2
      <4> QED
        BY <4>1, <4>2
    <3>6. phase'[j] \notin Finishing /\ UNCHANGED <<kind, target>>
      BY <2>1 DEF entryRow, store, output, jobs, local
    <3> QED
      BY <3>3, <3>4, <3>5, <3>6
  <2>f. ASSUME ~Leaving' PROVE ListsRight'
    BY SMTT(60), <2>1, <2>b, <2>f DEF entryRow, store, output, jobs, local
  <2>g. ASSUME ~Leaving' PROVE ReadyEnds'
    BY <2>1, <2>b, <2>g DEF entryRow, store, output, jobs, local
  <2> QED
    BY <2>a, <2>c, <2>d, <2>e, <2>f, <2>g
<1>3. CASE TranscodeEncode(j)
  BY <1>3 DEF TranscodeEncode, rows, jobs, local
<1>4. CASE EncodeEnds(j)
  <2>1. /\ kind[j] = "transcode" /\ phase[j] = "encoding"
        /\ \/ phase' = [phase EXCEPT ![j] = "encoded"] /\ UNCHANGED <<flavors, files>>
           \/ phase' = [phase EXCEPT ![j] = "finalize"] /\ files' = files \ {target[j]}
              /\ flavors'[target[j]] # "done"
              /\ \A f \in Flavor : flavors'[f] = flavors[f] \/ (f = target[j] /\ flavors'[f] = "failed")
        /\ UNCHANGED <<entryRow, media, torn, listed, jobs, local>>
    BY <1>4 DEF EncodeEnds, SetFlavor, DropPartial
  <2>a. CancelsOnly'
    BY <2>1 DEF entryRow, jobs, local
  <2>b. ASSUME ~Leaving' PROVE ~Leaving
    BY <2>1, <2>b DEF entryRow, jobs, local
  <2>c. ASSUME ~Leaving' PROVE OneTranscodeEach'
    BY <2>1, <2>b, <2>c DEF entryRow, jobs, local
  <2>d. ASSUME ~Leaving' PROVE ProbeHands'
    BY <2>1, <2>b, <2>d DEF entryRow, jobs, local
  <2>e. ASSUME ~Leaving' PROVE LastFinishes'
    <3>1. \A k \in Job \ {j} : Dead(k)' = Dead(k)
      BY <2>1 DEF entryRow, jobs, local
    <3>2. ~Dead(j) /\ \A k \in Job \ {j} : kind[k] = "transcode" => ~LastAlive(k)
      BY <2>1
    <3>3. LastAlive(j) => LastAlive(j)'
      BY SMTT(60), <2>1, <3>1 DEF entryRow, jobs, local
    <3>4. ASSUME NEW k \in Job, kind[k] = "transcode", ~Dead(k)', k # j
          PROVE  /\ phase'[k] \in Undecided => flavors'[target[k]] \in Unsettled
                 /\ phase'[k] \notin Finishing
      <4>1. /\ ~Dead(k) /\ phase'[k] = phase[k] /\ phase[k] \notin Finishing
            /\ phase[k] \in Undecided => flavors[target[k]] \in Unsettled
        BY SMTT(60), <2>1, <2>b, <2>e, <3>1, <3>2, <3>4
      <4>2. target[k] \in Flavor /\ target[k] # target[j]
        BY <2>1, <2>b, <2>e, <3>4
      <4> QED
        BY ZenonT(60), <2>1, <4>1, <4>2
    <3>5. ASSUME phase'[j] \in Undecided, flavors'[target[j]] \notin Unsettled
          PROVE  LastAlive(j)
      <4>1. flavors[target[j]] \notin Unsettled /\ phase[j] \in Undecided
        BY <2>1, <3>5
      <4>2. ~Dead(j) /\ kind[j] = "transcode" /\ LastFinishes
        BY <2>1, <2>b, <2>e, <3>2
      <4> QED
        BY <4>1, <4>2
    <3>6. phase'[j] \notin Finishing /\ UNCHANGED <<kind, target>>
      BY <2>1 DEF entryRow, jobs, local
    <3> QED
      BY <3>3, <3>4, <3>5, <3>6
  <2>f. ASSUME ~Leaving' PROVE ListsRight'
    BY SMTT(60), <2>1, <2>b, <2>f DEF entryRow, jobs, local
  <2>g. ASSUME ~Leaving' PROVE ReadyEnds'
    BY <2>1, <2>b, <2>g DEF entryRow, jobs, local
  <2> QED
    BY <2>a, <2>c, <2>d, <2>e, <2>f, <2>g
<1>5. CASE EncodeCheck(j)
  BY SMTT(60), <1>5 DEF EncodeCheck, Writes, DropPartial, rows, jobs, local
<1>6. CASE TranscodeDone(j)
  BY SMTT(60), <1>6 DEF TranscodeDone, SetFlavor, entryRow, output, store, jobs, local
<1>7. CASE FinalizeCheck(j)
  BY <1>7 DEF FinalizeCheck, Writes, rows, output, store, jobs, local
<1>8. CASE FinalizeRemaining(j)
  <2>1. /\ kind[j] = "transcode" /\ phase[j] = "remaining" /\ UNCHANGED <<rows, store, jobs, local>>
        /\ \/ ~ctx[j] /\ phase' = [phase EXCEPT ![j] = "err"]
           \/ ctx[j] /\ Remaining = {} /\ phase' = [phase EXCEPT ![j] = "count"]
           \/ ctx[j] /\ phase' = [phase EXCEPT ![j] = "ok"]
    BY <1>8 DEF FinalizeRemaining, LastFlavor
  <2>2. ~Leaving /\ Remaining = {} => LastAlive(j)
    <3>1. ASSUME NEW k \in Job \ {j}, kind[k] = "transcode", ~Dead(k), ~Leaving, Remaining = {}
          PROVE  FALSE
      <4>1. state[j] \in {"running", "deleted"} /\ ~Dead(j)
        BY <2>1
      <4>2. ~LastAlive(k)
        BY <2>1, <4>1
      <4>3. phase[k] = "idle"
        BY <2>1, <3>1, <4>1 DEF Alone, Transcoding
      <4>4. target[k] \in Flavor /\ flavors[target[k]] \notin Unsettled
        BY <3>1
      <4> QED
        BY <3>1, <4>2, <4>3, <4>4
    <3>2. ASSUME NEW k \in Job, At(k, "probe", "enqueue"), ctx[k], NEW f \in seen[k], ~Leaving
          PROVE  Remaining # {}
      <4>1. f \in Flavor /\ flavors[f] \in Unsettled
        BY <3>2
      <4> QED
        BY <4>1
    <3>3. ~Leaving /\ Remaining = {} => NoMore
      <4> HIDE DEF Leaving, Remaining, At, Typed, OneRunInv, FilesInv, RunInv, OneRun, Tame
      <4> SUFFICES ASSUME ~Leaving, Remaining = {},
                          NEW k \in Job, At(k, "probe", "enqueue"), seen[k] # {}, ctx[k]
                   PROVE  FALSE
        OBVIOUS
      <4>1. PICK f \in seen[k] : TRUE
        OBVIOUS
      <4> QED
        BY <3>2, <4>1
    <3> HIDE DEF Leaving, Remaining, Dead, NoMore
    <3> QED
      BY <3>1, <3>3
  <2>a. CancelsOnly'
    BY <2>1, <2>2 DEF rows, store, output, jobs, local
  <2>b. ASSUME ~Leaving' PROVE ~Leaving
    BY <2>1, <2>2, <2>b DEF rows, store, output, jobs, local
  <2>c. ASSUME ~Leaving' PROVE OneTranscodeEach'
    BY <2>1, <2>2, <2>b, <2>c DEF rows, store, output, jobs, local
  <2>d. ASSUME ~Leaving' PROVE ProbeHands'
    BY <2>1, <2>2, <2>b, <2>d DEF rows, store, output, jobs, local
  <2>e. ASSUME ~Leaving' PROVE LastFinishes'
    BY SMTT(60), <2>1, <2>2, <2>b, <2>e DEF rows, store, output, jobs, local
  <2>f. ASSUME ~Leaving' PROVE ListsRight'
    BY <2>1, <2>2, <2>b, <2>f DEF rows, store, output, jobs, local
  <2>g. ASSUME ~Leaving' PROVE ReadyEnds'
    BY <2>1, <2>2, <2>b, <2>g DEF rows, store, output, jobs, local
  <2> QED
    BY <2>a, <2>c, <2>d, <2>e, <2>f, <2>g
<1>9. CASE FinalizeDone(j)
  BY <1>9 DEF FinalizeDone, rows, output, store, jobs, local
<1>10. CASE FinalizeFail(j)
  BY <1>10 DEF FinalizeFail, SetStatus, FailEntry, Writes, output, store, jobs, local
<1>11. CASE FinalizeBuild(j)
  <2>1. /\ kind[j] = "transcode" /\ phase[j] = "build" /\ UNCHANGED <<rows, store, jobs, ctx, todo, grew>>
        /\ \/ ctx[j] /\ phase' = [phase EXCEPT ![j] = "master"] /\ seen' = [seen EXCEPT ![j] = Done]
           \/ ~ctx[j] /\ phase' = [phase EXCEPT ![j] = "err"] /\ seen' = [seen EXCEPT ![j] = {}]
    BY <1>11 DEF FinalizeBuild, Renditions
  <2>a. CancelsOnly'
    BY <1>0, <2>1 DEF rows, store, output, jobs
  <2>b. ASSUME ~Leaving' PROVE ~Leaving
    BY <1>0, <2>1, <2>b DEF rows, store, output, jobs
  <2>c. ASSUME ~Leaving' PROVE OneTranscodeEach'
    BY <1>0, <2>1, <2>b, <2>c DEF rows, store, output, jobs
  <2>d. ASSUME ~Leaving' PROVE ProbeHands'
    BY <1>0, <2>1, <2>b, <2>d DEF rows, store, output, jobs
  <2>e. ASSUME ~Leaving' PROVE LastFinishes'
    BY <1>0, <2>1, <2>b, <2>e DEF rows, store, output, jobs
  <2>f. ASSUME ~Leaving' PROVE ListsRight'
    BY <1>0, <2>1, <2>b, <2>f DEF rows, store, output, jobs
  <2>g. ASSUME ~Leaving' PROVE ReadyEnds'
    BY <1>0, <2>1, <2>b, <2>g DEF rows, store, output, jobs
  <2> QED
    BY <2>a, <2>c, <2>d, <2>e, <2>f, <2>g
<1>12. CASE FinalizeMaster(j)
  BY <1>12 DEF FinalizeMaster, rows, output, jobs, local
<1>13. CASE FinalizeReady(j)
  <2>a. CancelsOnly'
    BY <1>13 DEF FinalizeReady, SetStatus, Writes, output, store, jobs, local
  <2>b. ASSUME ~Leaving' PROVE ~Leaving
    BY <1>13, <2>b DEF FinalizeReady, SetStatus, Writes, output, store, jobs, local
  <2>c. ASSUME ~Leaving' PROVE OneTranscodeEach'
    BY <1>13, <2>b, <2>c DEF FinalizeReady, SetStatus, Writes, output, store, jobs, local
  <2>d. ASSUME ~Leaving' PROVE ProbeHands'
    BY <1>13, <2>b, <2>d DEF FinalizeReady, SetStatus, Writes, output, store, jobs, local
  <2>e. ASSUME ~Leaving' PROVE LastFinishes'
    BY <1>13, <2>b, <2>e DEF FinalizeReady, SetStatus, Writes, output, store, jobs, local
  <2>f. ASSUME ~Leaving' PROVE ListsRight'
    BY <1>13, <2>b, <2>f DEF FinalizeReady, SetStatus, Writes, output, store, jobs, local
  <2>g. ASSUME ~Leaving' PROVE ReadyEnds'
    BY <1>13, <2>b, <2>g DEF FinalizeReady, SetStatus, Writes, output, store, jobs, local
  <2> QED
    BY <2>a, <2>c, <2>d, <2>e, <2>f, <2>g
<1>14. CASE CheckEntry(j, "transcode", "start", "spool")
  BY <1>14 DEF CheckEntry, Writes, rows, output, store, jobs, local
<1>15. CASE CheckEntry(j, "transcode", "check", "encode")
  BY <1>15 DEF CheckEntry, Writes, rows, output, store, jobs, local
<1> QED
  BY ZenonT(60), <1>1, <1>2, <1>3, <1>4, <1>5, <1>6, <1>7, <1>8, <1>9, <1>10, <1>11, <1>12, <1>13, <1>14,
     <1>15 DEF TranscodeStep

\* Every step keeps the invariants of the runs, and the two of the playlist.
LEMMA StepRuns ==
    ASSUME PipelineInv, Tame, RunInv, [Next]_vars
    PROVE  RunInv'
<1>0. UNCHANGED scenario /\ Typed /\ GoneUnflavored
  BY DEF Next, vars, PipelineInv, FilesInv
<1>1. CASE UNCHANGED vars
  BY <1>1 DEF vars, rows, entryRow, store, output, jobs, local, RunInv, Unedited, FlavorsInv, RowsSorted,
     TargetsSorted, ProbesSorted, Rowed, RunsInv, FirstRun, Starter, Abandoned, Rooted,
     NothingToTranscode, PlaylistInv, Listable, Skipped, At, RowExists
<1> QED
  BY <1>0, <1>1, DownloadRuns, ProbeRuns, TranscodeRuns, QueueRuns, RequestRuns, RequeueRuns
  DEF Next, Step, Handle

\* Without cancels, playlists that are not right are still written again.
LEMMA StepMends ==
    ASSUME PipelineInv, Tame, RunInv, Uncut, UncutInv, [Next]_vars
    PROVE  UncutInv'
<1>0. UNCHANGED scenario /\ Typed /\ Alone /\ FilesInv
  BY DEF Next, vars, PipelineInv
<1>1. CASE UNCHANGED vars
  <2>1. AllAlive' /\ Bland
    BY <1>1 DEF vars, rows, entryRow, store, output, jobs, local, UncutInv, AllAlive, Bland, Leaving,
       Swept, RowExists, Toils, GivenUp, At, Unsettled
  <2> QED
    BY <2>1, BlandMends
<1>2. ASSUME NEW j \in Job, Claim(j) \/ Handle(j) \/ RequestCancel(j) \/ WatcherFires(j) \/ Crash(j)
      PROVE  UncutInv'
  BY <1>0, <1>2, QueueMends, DownloadMends, ProbeMends, TranscodeMends, BlandMends DEF Handle
<1>3. CASE RequeueStale
  BY <1>0, <1>3, RequeueMends, BlandMends
<1>4. ASSUME NEW r \in Request, Arrive(r) \/ Serve(r) PROVE UncutInv'
  BY <1>0, <1>4, RequestMends
<1> QED
  BY <1>1, <1>2, <1>3, <1>4 DEF Next, Step

\* In one run they are right.
LEMMA StepOneRun ==
    ASSUME PipelineInv, Sourced, Tame, RunInv, OneRun, OneRunInv, [Next]_vars
    PROVE  OneRunInv'
<1>0. UNCHANGED scenario /\ Typed /\ Alone /\ FilesInv
  BY DEF Next, vars, PipelineInv
<1>1. CASE UNCHANGED vars
  BY <1>1 DEF vars, rows, entryRow, store, output, jobs, local, OneRunInv, CancelsOnly, OneTranscodeEach,
     ProbeHands, LastFinishes, ListsRight, ReadyEnds, Fresh, Right, AllDead, NoMore, LastAlive, Dead,
     Early, Starter, Abandoned, Leaving, Swept, RowExists, At, Done, Remaining
<1> QED
  BY <1>0, <1>1, DownloadOneRun, ProbeOneRun, TranscodeOneRun, QueueOneRun, RequestOneRun, RequeueOneRun
  DEF Next, Step, Handle

\* At the beginning there is no playlist to be right, or one that lists what is ticked.
LEMMA InitPlays == Init => RunInv /\ UncutInv /\ OneRunInv
<1> SUFFICES ASSUME Init PROVE RunInv /\ UncutInv /\ OneRunInv
  OBVIOUS
<1>1. /\ \A a \in Actor : phase[a] = "idle" /\ ctx[a]
      /\ \A j \in Job : kind[j] # "transcode" /\ ~flagged[j] /\ state[j] # "running"
      /\ RowExists /\ ~Swept /\ torn = {}
      /\ \A j \in Job : kind[j] = "download" => "submitted" \in scenario
      /\ \A j, k \in Job : kind[j] # "none" /\ kind[k] # "none" => j = k
  BY DEF Init, Uploaded, Submitted, Published, RowExists, Swept, Actor
<1>2. \/ status # "ready" /\ FirstRun /\ \A f \in Flavor : flavors[f] = "none"
      \/ \E ticked \in (SUBSET (Flavor \ Skipped)) \ {{}} : Published(ticked)
  BY DEF Init, Uploaded, Submitted, FirstRun
<1>3. CASE status # "ready" /\ FirstRun /\ \A f \in Flavor : flavors[f] = "none"
  <2>0. listed = {}
    BY <1>3 DEF Init, Uploaded, Submitted, Published
  <2>1. RunInv
    BY <1>1, <1>3, <2>0 DEF RunInv, Unedited, FlavorsInv, RowsSorted, TargetsSorted, ProbesSorted, RunsInv,
       Starter, NothingToTranscode, PlaylistInv, Listable, At, Actor
  <2>2. UncutInv
    BY <1>1, <1>3 DEF UncutInv, AllAlive, ReadyMends, MasterMends, Publishing, At, Actor
  <2>3. OneRunInv
    BY <1>1, <1>3 DEF OneRunInv, CancelsOnly, OneTranscodeEach, ProbeHands, LastFinishes, ListsRight,
       ReadyEnds, At, Actor
  <2> QED
    BY <2>1, <2>2, <2>3
<1>4. ASSUME NEW ticked \in (SUBSET (Flavor \ Skipped)) \ {{}}, Published(ticked)
      PROVE  RunInv /\ UncutInv /\ OneRunInv
  <2>0. ticked # {} /\ ticked \subseteq Flavor \ Skipped
    BY <1>4
  <2>a. listed = ticked /\ files = ticked /\ "master" \in media
    BY <1>4 DEF Published
  <2>b. flavors = [f \in Flavor |-> IF f \in ticked THEN "done" ELSE "none"] /\ kind = [j \in Job |-> "none"]
    BY <1>4 DEF Published
  <2>1. /\ \A f \in Flavor : flavors[f] = IF f \in ticked THEN "done" ELSE "none"
        /\ \A j \in Job : kind[j] = "none"
        /\ ticked # {} /\ ticked \subseteq Flavor \ Skipped
        /\ listed = ticked /\ files = ticked /\ "master" \in media
    BY <2>0, <2>a, <2>b
  <2> HIDE DEF Skipped
  <2>2. Rooted /\ RowsSorted
    BY <2>1 DEF Rooted, RowsSorted
  <2>3. RunInv
    BY <1>1, <2>1, <2>2 DEF RunInv, Unedited, FlavorsInv, TargetsSorted, ProbesSorted, RunsInv, Starter,
       NothingToTranscode, PlaylistInv, Listable, Rowed, At, Actor
  <2>4. Fresh
    BY <2>1 DEF Fresh, Right, Done
  <2>5. UncutInv
    BY <1>1, <2>1, <2>4 DEF UncutInv, AllAlive, ReadyMends, MasterMends, At, Actor
  <2>6. OneRunInv
    BY <1>1, <2>1, <2>4 DEF OneRunInv, CancelsOnly, OneTranscodeEach, ProbeHands, LastFinishes, ListsRight,
       ReadyEnds, AllDead, NoMore, Early, Starter, At, Actor
  <2> QED
    BY <2>3, <2>5, <2>6
<1> QED
  BY <1>2, <1>3, <1>4

PlayInv == Tame => RunInv /\ (Uncut => UncutInv) /\ (OneRun => OneRunInv)

\* For all runs that do not disturb each other.
LEMMA SpecPlays == Spec => []PlayInv
<1> DEFINE I == PipelineInv /\ Sourced /\ PlayInv
<1>1. Init => I
  BY InitInv, InitSettled, InitPlays DEF PlayInv
<1>2. I /\ [Next]_vars => I'
  <2> SUFFICES ASSUME PipelineInv, Sourced, PlayInv, [Next]_vars
               PROVE  PipelineInv' /\ Sourced' /\ PlayInv'
    OBVIOUS
  <2>1. PipelineInv'
    BY StepTyped, StepAlone, StepFiles DEF PipelineInv
  <2>2. Sourced'
    BY StepSourced DEF PipelineInv, FilesInv
  <2>3. Tame' = Tame /\ Uncut' = Uncut /\ OneRun' = OneRun
    BY DEF Tame, Uncut, OneRun, Next, vars
  <2>4. PlayInv'
    BY <2>3, StepRuns, StepMends, StepOneRun DEF PlayInv
  <2> QED
    BY <2>1, <2>2, <2>4
<1> QED
  BY <1>1, <1>2, PTL DEF Spec

\* Whatever dies, is cancelled, retried or deleted in an entry whose runs do not
\* disturb each other and whose flavors are not changed: when all is over, a ready
\* entry that has settled its flavors plays them, all of those that are done and
\* none without its files (jobs.go:436-480, 615-640, 695-729).
THEOREM SpecReadyPlayable == Spec => []ReadyPlayable
<1>1. PlayInv => ReadyPlayable
  <2> SUFFICES ASSUME PlayInv, "edit" \notin scenario, Undisturbed, Quiet, status = "ready", Remaining = {}
               PROVE  Fresh /\ PlaylistInv
    BY DEF ReadyPlayable, Fresh, Right, PlaylistInv
  <2>1. ~Leaving
    BY DEF Quiet, Serving, Leaving, Swept, RowExists
  <2>a. PlaylistInv
    BY UndisturbedRuns DEF PlayInv, RunInv
  <2>2. ASSUME UncutInv /\ dropped \subseteq {SourceItself}
        PROVE  Fresh
    <3>1. \A j \in Job : ~Fixes(j)
      BY <2>2 DEF Quiet, Abandoned, UncutInv, AllAlive, Fixes, Toils
    <3>2. ~GivenUp
      BY <2>2, PipelineAssumption DEF GivenUp, SourceItself
    <3> QED
      BY <2>1, <2>2, <3>1, <3>2 DEF UncutInv, ReadyMends, Mending
  <2>3. ASSUME OneRunInv
        PROVE  Fresh
    BY <2>1, <2>3 DEF OneRunInv, ReadyEnds
  <2> QED
    BY <2>2, <2>3, <2>a, UndisturbedRuns DEF PlayInv
<1> QED
  BY <1>1, SpecPlays, PTL
=============================================================================
