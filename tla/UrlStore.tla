----------------------------- MODULE UrlStore ------------------------------
(***************************************************************************)
(* The URL download store of the web console                               *)
(* (web/lib/url-download-store.ts): the list of URL jobs, the loop of      *)
(* startDownloads that submits one URL at a time, and the interval timer   *)
(* with which waitForEntry polls the server. The server (external) holds   *)
(* one entry per submitted job.                                            *)
(*                                                                         *)
(* An interval fires whether or not the poll before it has ended: Slot     *)
(* bounds the polls in flight. Left out: progress, titles and the PATCH    *)
(* that sends them, and pollUntilIdle's own polling: LoopsWait says why it *)
(* never has a job to poll.                                                *)
(***************************************************************************)
EXTENDS JobList

CONSTANTS
    Url,        \* the URLs the user may enter
    UrlId,      \* bound: the ids in use at one time
    Slot        \* bound: the polls in flight at one time

ASSUME UrlAssumption == UrlId \subseteq Nat \ {0} /\ IsFiniteSet(UrlId)

VARIABLES
    urlJobs,    \* the list: records of id, url, status and entry (entryId is set)
    runner,     \* the loop of startDownloads: where it is, and with which job
    timer,      \* the job whose interval timer is set
    polls,      \* the polls in flight
    entry,      \* the server's entry of a job
    urlCompleted \* lastCompletedAt is set

urlVars == <<urlJobs, runner, timer, polls, entry, urlCompleted>>

UrlStatus == {"checking", "queued", "downloading", "done", "failed"}
UrlJob    == [id : UrlId, url : Url, status : UrlStatus, entry : BOOLEAN]
Runner    == [phase : {"off", "submit", "wait"}, id : UrlId \cup {NoId}]
Stopped   == [phase |-> "off", id |-> NoId]
\* A poll reads the list of active downloads, then, when its job is gone from
\* there, the entry.
Poll      == [phase : {"none", "list", "entry"}, id : UrlId \cup {NoId}]
NoPoll    == [phase |-> "none", id |-> NoId]
EntryStatus == {"none", "downloading", "ready", "failed", "deleted"}

UrlActive == WithStatus(urlJobs, {"queued", "downloading", "checking"})

UrlInit ==
    /\ urlJobs = <<>> /\ runner = Stopped /\ timer = NoId
    /\ polls = [s \in Slot |-> NoPoll]
    /\ entry = [id \in UrlId |-> "none"]
    /\ urlCompleted = FALSE

-----------------------------------------------------------------------------
(* checkUrls, from the answer of the server on: accepted is the sequence of *)
(* the URLs it found good. The list is read now, not when the call began.   *)

FreeUrlIds == UrlId \ (Ids(urlJobs) \cup {runner.id, timer} \cup {polls[s].id : s \in Slot}
                       \cup {id \in UrlId : entry[id] = "downloading"})

Existing == {j.url : j \in Range(urlJobs)}

AddUrls(accepted) ==
    LET new == Kept(accepted, {i \in DOMAIN accepted :
                  /\ accepted[i] \notin Existing
                  /\ \A k \in 1..i-1 : accepted[k] # accepted[i]})
    IN
    /\ Cardinality(FreeUrlIds) >= Len(new)
    /\ urlJobs' = urlJobs \o [k \in 1..Len(new) |->
                     [id |-> Nth(FreeUrlIds, k), url |-> new[k],
                      status |-> "queued", entry |-> FALSE]]
    /\ entry' = [id \in UrlId |-> IF id \in Ids(urlJobs') \ Ids(urlJobs) THEN "none" ELSE entry[id]]
    /\ UNCHANGED <<runner, timer, polls, urlCompleted>>

-----------------------------------------------------------------------------
(* startDownloads and submitOne.                                            *)

MarkUrlDownloadsCompleted(list) ==
    urlCompleted' = (urlCompleted \/ WithStatus(list, {"done"}) # {})

\* One round of the loop over the list as it has become.
NextUrl(list) ==
    IF WithStatus(list, {"queued"}) = {}
    THEN /\ urlJobs' = list /\ runner' = Stopped
         /\ MarkUrlDownloadsCompleted(list)
    ELSE LET id == FirstWith(list, {"queued"}) IN
         /\ urlJobs' = SetStatus(list, id, "downloading")
         /\ runner' = [phase |-> "submit", id |-> id]
         /\ UNCHANGED urlCompleted

\* startDownloads is a no-op while it runs.
StartDownloads ==
    IF runner.phase = "off"
    THEN NextUrl(urlJobs) /\ UNCHANGED <<timer, polls, entry>>
    ELSE UNCHANGED urlVars

\* The POST reaches the server, which queues a download (external).
ServerAccepts ==
    /\ runner.phase = "submit" /\ entry[runner.id] = "none"
    /\ entry' = [entry EXCEPT ![runner.id] = "downloading"]
    /\ UNCHANGED <<urlJobs, runner, timer, polls, urlCompleted>>

\* Its answer reaches the tab: waitForEntry sets the interval.
SubmitAccepted ==
    /\ runner.phase = "submit" /\ entry[runner.id] # "none"
    /\ urlJobs' = Patched(urlJobs, {runner.id}, "entry", TRUE)
    /\ runner' = [runner EXCEPT !.phase = "wait"]
    /\ timer' = runner.id
    /\ UNCHANGED <<polls, entry, urlCompleted>>

\* The server refuses the URL.
SubmitRefused ==
    /\ runner.phase = "submit" /\ entry[runner.id] = "none"
    /\ NextUrl(SetStatus(urlJobs, runner.id, "failed"))
    /\ UNCHANGED <<timer, polls, entry>>

\* The call fails: the exception ends the loop, the job stays "downloading".
SubmitThrows ==
    /\ runner.phase = "submit"
    /\ runner' = Stopped
    /\ UNCHANGED <<urlJobs, timer, polls, entry, urlCompleted>>

-----------------------------------------------------------------------------
(* waitForEntry.                                                            *)

\* The interval fires.
Tick(s) ==
    /\ timer # NoId /\ polls[s].phase = "none"
    /\ polls' = [polls EXCEPT ![s] = [phase |-> "list", id |-> timer]]
    /\ UNCHANGED <<urlJobs, runner, timer, entry, urlCompleted>>

\* The list of active downloads arrives. A poll whose row is gone clears its
\* own timer, which a poll before it may have cleared already.
ClearAnyTimer(id) == NoId
ClearTimer(id) == IF timer = id THEN NoId ELSE timer
ListArrives(s) ==
    /\ polls[s].phase = "list"
    /\ IF entry[polls[s].id] = "downloading"
       THEN polls' = [polls EXCEPT ![s] = NoPoll] /\ UNCHANGED timer
       ELSE polls' = [polls EXCEPT ![s].phase = "entry"] /\ timer' = ClearTimer(polls[s].id)
    /\ UNCHANGED <<urlJobs, runner, entry, urlCompleted>>

\* The entry arrives: the job ends and the promise resolves, once.
Resolves(id) == runner = [phase |-> "wait", id |-> id]
EntryArrives(s) ==
    LET id == polls[s].id
        list == SetStatus(urlJobs, id, IF entry[id] = "failed" THEN "failed" ELSE "done")
    IN  /\ polls[s].phase = "entry" /\ entry[id] # "deleted"
        /\ polls' = [polls EXCEPT ![s] = NoPoll]
        /\ IF Resolves(id) THEN NextUrl(list)
                           ELSE urlJobs' = list /\ UNCHANGED <<runner, urlCompleted>>
        /\ UNCHANGED <<timer, entry>>

\* Either call fails (an entry that was deleted always does): the catch
\* ignores it. The timer is not set again.
PollThrows(s) ==
    /\ polls[s].phase # "none"
    /\ polls' = [polls EXCEPT ![s] = NoPoll]
    /\ UNCHANGED <<urlJobs, runner, timer, entry, urlCompleted>>

\* The worker ends the download (external).
DownloadEnds(id) ==
    /\ entry[id] = "downloading"
    /\ \E status \in {"ready", "failed"} : entry' = [entry EXCEPT ![id] = status]
    /\ UNCHANGED <<urlJobs, runner, timer, polls, urlCompleted>>

-----------------------------------------------------------------------------
(* The rest of the store: what the handlers of the dialog put in the place  *)
(* of the list. None of it stops the loop, the timer or a poll.             *)

RemoveUrls(S) == urlJobs' = Without(urlJobs, S)

ResetIdleDownloads == urlJobs' = IF UrlActive = {} THEN <<>> ELSE urlJobs

ClearUrlDownloadsCompleted == urlCompleted' = FALSE

ClearAllUrlDownloads == urlJobs' = <<>>

\* load after a reload of the page: nothing runs, and what was queued or
\* downloading is marked as being checked.
LoadUrlDownloads ==
    /\ \E old \in SUBSET {j.id : j \in WithStatus(urlJobs, {"done", "failed"})} :
          urlJobs' = Without(Patched(urlJobs, {j.id : j \in UrlActive}, "status", "checking"), old)
    /\ runner' = Stopped /\ timer' = NoId
    /\ polls' = [s \in Slot |-> NoPoll]
    /\ UNCHANGED <<entry, urlCompleted>>
=============================================================================
