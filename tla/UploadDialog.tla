---------------------------- MODULE UploadDialog ---------------------------
(***************************************************************************)
(* The upload dialog (web/components/upload-dialog.tsx) over the two       *)
(* stores, which live on while it is closed. A handler of the dialog acts  *)
(* on the lists of the moment; the handler of a confirmation acts on those *)
(* that were shown when the question was asked.                            *)
(*                                                                         *)
(* Left out: editing titles and categories, drag and drop, messages.       *)
(***************************************************************************)
EXTENDS UploadStore, UrlStore

CONSTANTS
    Selection,  \* the sequences of files a user picks at once
    Accepted,   \* the sequences of URLs a check may find good
    MaxChecks,  \* bound: the check calls in flight
    Scenario    \* what the user works with, whether calls of the API fail, and
                \* bounds: the ids of the jobs at one time, the reloads of the page

ASSUME DialogAssumption ==
    /\ Selection \subseteq Seq(File) /\ Accepted \subseteq Seq(Url)
    /\ MaxChecks \in Nat
    /\ \A s \in Scenario : s.reloads \in Nat

VARIABLES
    dialog,     \* the mounted dialog
    question,   \* the confirmation on top of it, with the lists it was asked for
    strays,     \* check calls in flight whose dialog was closed
    reloads,
    scenario,
    news        \* history: jobs that ended well while the dialog was closed

dialogVars == <<dialog, question, strays, reloads, scenario>>
vars == <<uploadVars, urlVars, dialogVars, news>>

Closed   == [open |-> FALSE, tab |-> "computer", text |-> FALSE, checking |-> FALSE,
             starting |-> FALSE]
NoQuestion == [kind |-> "none", jobs |-> {}, urls |-> {}]
Question == [kind : {"none", "cancelAll", "discard"}, jobs : SUBSET Id, urls : SUBSET UrlId]

Init ==
    /\ UploadInit /\ UrlInit
    /\ dialog = Closed /\ question = NoQuestion
    /\ strays = 0 /\ reloads = 0 /\ news = {}
    /\ scenario \in Scenario

-----------------------------------------------------------------------------
(* What the dialog shows.                                                   *)

urlBusy == WithStatus(urlJobs, {"downloading", "checking"}) # {}
anyActive == WithStatus(jobs, {"uploading"}) # {} \/ urlBusy
allDone == jobs # <<>> /\ Range(jobs) = WithStatus(jobs, {"done"})
allUrlDone == urlJobs # <<>> /\ UrlActive = {}
showTabs == ~anyActive /\ ~allDone /\ ~allUrlDone

\* The dialog is in front: mounted, and no question on top of it.
Front == dialog.open /\ question.kind = "none"
OnTab(tab) == Front /\ dialog.tab = tab

\* The two tabs, and what the footer offers.
ComputerTab == OnTab("computer") /\ showTabs
UrlTab == OnTab("url") /\ showTabs
CancelAllOffered == Front /\ anyActive
StartFilesOffered == OnTab("computer") /\ ~anyActive /\ jobs # <<>> /\ ~allDone /\ Live # {}
CheckOffered == OnTab("url") /\ ~anyActive /\ urlJobs = <<>> /\ ~dialog.checking /\ dialog.text
StartUrlsOffered ==
    /\ OnTab("url") /\ ~anyActive /\ urlJobs # <<>> /\ ~allUrlDone
    /\ ~(dialog.starting /\ runner.phase # "off")

\* The trash button of a card.
JobCard(j) == Front /\ (showTabs => dialog.tab = "computer") /\ j.status \notin {"done", "uploading"}
UrlCard(j) == Front /\ (showTabs => dialog.tab = "url") /\ j.status \in {"queued", "failed"}

StoresUnchanged == UNCHANGED <<uploadVars, urlVars>>

-----------------------------------------------------------------------------
(* Opening and closing.                                                     *)

\* useUploadDialog: the list of a batch that has just been completed is kept.
FilesCompleted == completed
JustCompleted == completed \/ urlCompleted
OpenDialog ==
    /\ ~dialog.open
    /\ IF JustCompleted
       THEN StoresUnchanged
       ELSE /\ ResetIdle /\ ResetIdleDownloads
            /\ UNCHANGED <<completed, runner, timer, polls, entry, urlCompleted>>
    /\ dialog' = [Closed EXCEPT !.open = TRUE]
    /\ UNCHANGED <<question, strays, reloads, scenario>>

\* onClose, which unmounts the dialog: its calls in flight go on without it.
CloseDialog ==
    /\ ClearUploadsCompleted /\ ClearUrlDownloadsCompleted
    /\ dialog' = Closed /\ question' = NoQuestion
    /\ strays' = strays + (IF dialog.checking THEN 1 ELSE 0)
    /\ UNCHANGED <<reloads, scenario>>

Unstarted ==
    [kind |-> "discard",
     jobs |-> {j.id : j \in WithStatus(jobs, Pending)},
     urls |-> {j.id : j \in WithStatus(urlJobs, {"queued"})}]

HandleCloseAttempt ==
    /\ Front
    /\ IF anyActive \/ (Unstarted.jobs = {} /\ Unstarted.urls = {} /\ ~dialog.text)
       THEN /\ CloseDialog
            /\ UNCHANGED <<jobs, files, blob, active, batch, urlJobs, runner, timer, polls, entry>>
       ELSE /\ question' = Unstarted
            /\ StoresUnchanged /\ UNCHANGED <<dialog, strays, reloads, scenario>>

\* discardPending, for the jobs that were pending when the question was asked.
ConfirmDiscard ==
    /\ question.kind = "discard"
    /\ RemoveJobs(question.jobs) /\ RemoveUrls(question.urls)
    /\ CloseDialog
    /\ UNCHANGED <<runner, timer, polls, entry>>

AskCancelAll ==
    /\ CancelAllOffered
    /\ question' = [kind |-> "cancelAll", jobs |-> {},
                    urls |-> {j.id : j \in {u \in Range(urlJobs) : u.entry}}]
    /\ StoresUnchanged /\ UNCHANGED <<dialog, strays, reloads, scenario>>

\* Both queues are dropped; the entries known when the question was asked are
\* deleted on the server, unless a call fails, which is ignored.
ConfirmCancelAll ==
    /\ question.kind = "cancelAll"
    /\ ClearAllUploads /\ ClearAllUrlDownloads
    /\ \E deleted \in SUBSET question.urls :
          /\ scenario.net = "good" => deleted = question.urls
          /\ entry' = [id \in UrlId |-> IF id \in deleted THEN "deleted" ELSE entry[id]]
    /\ question' = NoQuestion
    /\ UNCHANGED <<completed, runner, timer, polls, urlCompleted>>
    /\ UNCHANGED <<dialog, strays, reloads, scenario>>

DismissQuestion ==
    /\ question.kind # "none"
    /\ question' = NoQuestion
    /\ StoresUnchanged /\ UNCHANGED <<dialog, strays, reloads, scenario>>

-----------------------------------------------------------------------------
(* The two tabs and their footers.                                          *)

SwitchTab ==
    /\ Front /\ showTabs /\ scenario.urls # {}
    /\ dialog' = [dialog EXCEPT !.tab = IF @ = "url" THEN "computer" ELSE "url"]
    /\ StoresUnchanged /\ UNCHANGED <<question, strays, reloads, scenario>>

AddSelected(selection) ==
    /\ ComputerTab /\ (jobs = <<>> \/ ~allDone)
    /\ Range(selection) \subseteq scenario.files
    /\ AddFiles(selection) /\ Ids(jobs') \subseteq scenario.ids
    /\ UNCHANGED urlVars /\ UNCHANGED dialogVars

\* askRemove; its question is for a job that is uploading, whose card has no
\* trash button.
RemoveCard(id) ==
    /\ \E j \in Range(jobs) : j.id = id /\ JobCard(j)
    /\ RemoveJobs({id})
    /\ UNCHANGED completed /\ UNCHANGED urlVars /\ UNCHANGED dialogVars

RemoveUrlCard(id) ==
    /\ \E j \in Range(urlJobs) : j.id = id /\ UrlCard(j)
    /\ RemoveUrls({id})
    /\ UNCHANGED <<runner, timer, polls, entry, urlCompleted>>
    /\ UNCHANGED uploadVars /\ UNCHANGED dialogVars

\* Starting uploads abandons the list of URLs.
HandleStartFiles ==
    /\ StartFilesOffered
    /\ StartAll /\ ClearAllUrlDownloads
    /\ UNCHANGED <<runner, timer, polls, entry, urlCompleted>> /\ UNCHANGED dialogVars

TypeUrls ==
    /\ UrlTab /\ scenario.urls # {}
    /\ dialog' = [dialog EXCEPT !.text = TRUE]
    /\ StoresUnchanged /\ UNCHANGED <<question, strays, reloads, scenario>>

HandleCheckUrls ==
    /\ CheckOffered /\ strays < MaxChecks
    /\ dialog' = [dialog EXCEPT !.checking = TRUE]
    /\ StoresUnchanged /\ UNCHANGED <<question, strays, reloads, scenario>>

\* The answer to a check of this dialog, or of one that was closed since.
CheckAnswered(accepted) ==
    /\ Range(accepted) \subseteq scenario.urls
    /\ AddUrls(accepted) /\ Ids(urlJobs') \subseteq scenario.ids
    /\ \/ /\ dialog.checking
          /\ dialog' = [dialog EXCEPT !.checking = FALSE,
                                      !.text = @ /\ Len(urlJobs') = Len(urlJobs)]
          /\ UNCHANGED strays
       \/ strays > 0 /\ strays' = strays - 1 /\ UNCHANGED dialog
    /\ UNCHANGED uploadVars /\ UNCHANGED <<question, reloads, scenario>>

\* Starting downloads abandons the queue of files.
HandleStartUrls ==
    /\ StartUrlsOffered
    /\ ClearAllUploads /\ StartDownloads
    /\ dialog' = [dialog EXCEPT !.starting = (runner.phase = "off")]
    /\ UNCHANGED completed /\ UNCHANGED <<question, strays, reloads, scenario>>

-----------------------------------------------------------------------------

\* A hard refresh of the page, or a visit later.
Reload ==
    /\ reloads < scenario.reloads /\ reloads' = reloads + 1
    /\ LoadUploads /\ LoadUrlDownloads
    /\ dialog' = Closed /\ question' = NoQuestion /\ strays' = 0
    /\ UNCHANGED scenario

UserStep ==
    \/ OpenDialog \/ HandleCloseAttempt \/ ConfirmDiscard
    \/ AskCancelAll \/ ConfirmCancelAll \/ DismissQuestion
    \/ SwitchTab \/ TypeUrls \/ HandleCheckUrls
    \/ HandleStartFiles \/ HandleStartUrls
    \/ \E selection \in Selection : AddSelected(selection)
    \/ \E id \in Id : RemoveCard(id)
    \/ \E id \in UrlId : RemoveUrlCard(id)
    \/ Reload

UploadStep(A) == A /\ UNCHANGED urlVars /\ UNCHANGED dialogVars
UrlStep(A)    == A /\ UNCHANGED uploadVars /\ UNCHANGED dialogVars

TransferEnds(id) == TransferDone(id) \/ TransferFailed(id)
SubmitAnswered == ServerAccepts \/ SubmitAccepted \/ SubmitRefused
PollAnswered(s) == ListArrives(s) \/ EntryArrives(s)

\* In a good network only the entry that was deleted is not found.
CallFails ==
    \/ scenario.net = "bad" /\ SubmitThrows
    \/ \E s \in Slot : /\ PollThrows(s)
                       /\ scenario.net = "bad" \/ entry[polls[s].id] = "deleted"

Ended == {<<"file", j.id>> : j \in WithStatus(jobs, {"done"})}
            \cup {<<"url", j.id>> : j \in WithStatus(urlJobs, {"done"})}
Remember == news' = IF dialog'.open THEN {} ELSE news \cup (Ended' \ Ended)

Next ==
    /\ \/ UserStep
       \/ \E accepted \in Accepted : CheckAnswered(accepted)
       \/ UploadStep(RestoreEnds)
       \/ \E id \in Id : UploadStep(UploadUrlAvailable(id)) \/ UploadStep(TransferEnds(id))
       \/ UrlStep(SubmitAnswered) \/ UrlStep(CallFails)
       \/ \E s \in Slot : UrlStep(Tick(s)) \/ UrlStep(PollAnswered(s))
       \/ \E id \in UrlId : UrlStep(DownloadEnds(id))
    /\ Remember

\* Transfers, database requests, timers, calls and the server's downloads end;
\* nothing makes the user act.
Fairness ==
    /\ WF_vars(UploadStep(RestoreEnds) /\ Remember)
    /\ \A id \in Id : WF_vars(UploadStep(TransferEnds(id)) /\ Remember)
    /\ WF_vars(UrlStep(SubmitAnswered) /\ Remember)
    /\ \A s \in Slot : /\ WF_vars(UrlStep(Tick(s)) /\ Remember)
                       /\ WF_vars(UrlStep(PollAnswered(s)) /\ Remember)
    /\ \A id \in UrlId : WF_vars(UrlStep(DownloadEnds(id)) /\ Remember)

Spec == Init /\ [][Next]_vars /\ Fairness

-----------------------------------------------------------------------------
(* Properties.                                                              *)

\* The shape of the state: ids are unique in a list, and a loop that is off
\* waits for nothing.
TransfersTypeOK ==
    /\ Cardinality(Ids(jobs)) = Len(jobs) /\ Cardinality(Ids(urlJobs)) = Len(urlJobs)
    /\ batch.phase = "off" <=> batch.id = NoId
    /\ runner.phase = "off" <=> runner.id = NoId
    /\ jobs \in Seq(UploadJob) /\ files \subseteq Id /\ active \subseteq Id
    /\ blob \in [Id -> BOOLEAN] /\ batch \in Batch /\ completed \in BOOLEAN
    /\ urlJobs \in Seq(UrlJob) /\ runner \in Runner /\ timer \in UrlId \cup {NoId}
    /\ polls \in [Slot -> Poll] /\ entry \in [UrlId -> EntryStatus] /\ urlCompleted \in BOOLEAN
    /\ dialog \in [open : BOOLEAN, tab : {"computer", "url"}, text : BOOLEAN,
                   checking : BOOLEAN, starting : BOOLEAN]
    /\ question \in Question /\ strays \in 0..MaxChecks /\ reloads \in 0..scenario.reloads
    /\ scenario \in Scenario

\* Each loop waits for the one transfer under way, whatever is removed, cleared or
\* started again around it (upload-store.ts:279, url-download-store.ts:225): no
\* file goes up unattended, no card says that it is uploading with nothing behind
\* it, and no poll that ends late lets the loop pass, so that pollUntilIdle
\* (262-269) finds nothing left to poll.
LoopsWait ==
    /\ active # {} => batch.phase = "wait" /\ active = {batch.id}
    /\ \A j \in WithStatus(jobs, {"uploading"}) : j.id \in active
    /\ \A j \in WithStatus(urlJobs, {"downloading"}) :
          j.entry => runner = [phase |-> "wait", id |-> j.id]

\* No file has two live jobs and no URL two cards, whatever checks were in
\* flight when the list changed.
NothingListedTwice ==
    /\ \A j, k \in Live : j.file = k.file => j = k
    /\ \A j, k \in Range(urlJobs) : j.url = k.url => j = k

\* What ended well while the dialog was closed is there when it is opened
\* (upload-dialog.tsx:65).
NewsKept == [][dialog'.open => news \subseteq Ended' \/ reloads # 0]_vars

\* Every job that is pending or uploading while the batch runs ends, unless
\* the transfer that the batch waits for was taken away, the file of its next
\* job is nowhere, or the page is reloaded.
Unfinished(id) == batch.phase # "off" /\ \E j \in Live : j.id = id
TakenAway == batch.phase = "wait" /\ batch.id \notin active \cup Ids(jobs)
FileMissing == batch.phase = "restore" /\ ~blob[batch.id] /\ batch.id \notin files
BatchFinishesJob == \A id \in Id : Unfinished(id) ~> (~Unfinished(id) \/ TakenAway \/ FileMissing)

\* In a good network every URL that is queued or downloading while the loop
\* runs ends, unless the download that the loop waits for was cancelled.
UrlUnfinished(id) ==
    /\ runner.phase # "off" /\ scenario.net = "good"
    /\ \E j \in UrlActive : j.id = id
DownloadFinishes ==
    \A id \in UrlId : UrlUnfinished(id) ~> (~UrlUnfinished(id) \/ runner.id \notin Ids(urlJobs))
=============================================================================
