---------------------------- MODULE EntryDialog ----------------------------
(***************************************************************************)
(* The dialog of one entry (web/components/entry-detail-dialog.tsx). Its   *)
(* query is polled while the entry is processed, and the draft follows     *)
(* every answer that differs from the one before it.                       *)
(*                                                                         *)
(* meta stands for the fields that a save always sends (title,             *)
(* description, category, visibility, access, policy, player). The frame   *)
(* of the poster is left out, but for having been picked.                  *)
(***************************************************************************)
EXTENDS Naturals, FiniteSets

CONSTANTS
    Meta,       \* values of the metadata
    Flavor,     \* flavors of the installation
    Visit       \* whether calls may fail, and bounds for one visit: of its
                \* calls and of the changes by other users
ASSUME MetaAssumption == Meta # {}

VARIABLES
    limit,
    truth,      \* the server's entry
    entry, loaded, \* the cached answer, once there is one
    reply,      \* the query: its phase and the answer on its way
    draft,      \* what the fields hold; touched: the poster was picked
    prompt,     \* the confirmation on top: kind and pending
    posts,      \* calls in flight
    saves, work,
    edited      \* history: the user changed a field since the last answer
entryVars == <<limit, truth, entry, loaded, reply, draft, prompt, posts, saves, work, edited>>

\* rev stands for updatedAt; flavors are those not skipped.
Detail == [meta : Meta, flavors : SUBSET Flavor, subs : 0..1,
           status : {"ready", "failed", "transcoding"}, rev : Nat]
DraftOf(e) == [meta |-> e.meta, ticked |-> e.flavors, touched |-> FALSE]
FirstEntry(s) ==
    [meta |-> CHOOSE m \in Meta : TRUE, flavors |-> Flavor, subs |-> 0, status |-> s, rev |-> 0]
NoReply == [phase |-> "idle", entry |-> FirstEntry("ready")]
Asked == [NoReply EXCEPT !.phase = "sent"]
NoPrompt == [kind |-> "none", pending |-> FALSE]

Busy(e) == e.status \notin {"ready", "failed"}

-----------------------------------------------------------------------------
(* The query and the draft.                                                 *)

InvalidateEntry == reply' = Asked

\* Polled while the entry is uploaded, probed or transcoded.
PollNever(e) == FALSE
PollWhile(e) == e.status \in {"transcoding"}
PollEntry ==
    /\ loaded /\ reply.phase = "idle" /\ PollWhile(entry)
    /\ InvalidateEntry
    /\ UNCHANGED <<limit, truth, entry, loaded, draft, prompt, posts, saves, work, edited>>
AnswerEntry ==
    /\ reply.phase = "sent"
    /\ reply' = [phase |-> "answered", entry |-> truth]
    /\ UNCHANGED <<limit, truth, entry, loaded, draft, prompt, posts, saves, work, edited>>
LoseEntry ==
    /\ limit.fails /\ reply.phase # "idle"
    /\ reply' = NoReply
    /\ UNCHANGED <<limit, truth, entry, loaded, draft, prompt, posts, saves, work, edited>>

\* The effect on [entry] copies the answer into the draft; an answer equal to
\* the cached one is the same object and runs no effect.
SyncFields(e) == [DraftOf(e) EXCEPT !.ticked = IF loaded THEN draft.ticked ELSE @]
Sync(e) == DraftOf(e)
LandEntry ==
    /\ reply.phase = "answered"
    /\ IF loaded /\ reply.entry = entry
       THEN UNCHANGED <<entry, loaded, draft, edited>>
       ELSE /\ entry' = reply.entry /\ draft' = Sync(reply.entry)
            /\ loaded' = TRUE /\ edited' = FALSE
    /\ reply' = NoReply
    /\ UNCHANGED <<limit, truth, prompt, posts, saves, work>>

Dirty ==
    /\ loaded
    /\ draft.meta # entry.meta \/ draft.touched \/ draft.ticked # entry.flavors

-----------------------------------------------------------------------------
(* Editing. A confirmation on top is modal.                                 *)

Editing == loaded /\ prompt.kind = "none"
Edit(d) ==
    /\ Editing /\ draft' = d /\ edited' = TRUE
    /\ UNCHANGED <<limit, truth, entry, loaded, reply, prompt, posts, saves, work>>
EditMeta(m) == Edit([draft EXCEPT !.meta = m])
Tick(f) ==
    /\ loaded /\ ~Busy(entry)
    /\ Edit([draft EXCEPT !.ticked = (@ \ {f}) \cup ({f} \ @)])
PickPoster == Edit([draft EXCEPT !.touched = TRUE])
Reset ==
    /\ Editing /\ Dirty
    /\ draft' = DraftOf(entry) /\ edited' = FALSE
    /\ UNCHANGED <<limit, truth, entry, loaded, reply, prompt, posts, saves, work>>

-----------------------------------------------------------------------------
(* Saving, reprocessing and subtitles.                                      *)

Prompt(kind) ==
    /\ Editing /\ prompt' = [kind |-> kind, pending |-> FALSE]
    /\ UNCHANGED <<limit, truth, entry, loaded, reply, draft, posts, saves, work, edited>>
\* save lists the changes of the moment in its question.
AskSave == Dirty /\ Prompt("save")
AskReprocessEntry ==
    /\ loaded /\ ~Busy(entry) /\ ~(\E p \in posts : p.kind = "reprocess")
    /\ Prompt("reprocess")
AskDeleteSubtitle == loaded /\ entry.subs > 0 /\ Prompt("dropSubtitle")
OpenSubtitleDialog == Prompt("addSubtitle")
DismissPrompt ==
    /\ prompt.kind # "none"
    /\ prompt' = NoPrompt
    /\ posts' = {[p EXCEPT !.own = FALSE] : p \in posts}
    /\ UNCHANGED <<limit, truth, entry, loaded, reply, draft, saves, work, edited>>

\* saveEntry sends the draft of the moment it runs; the flavors only if they
\* differ from those of the entry.
Body ==
    [meta |-> draft.meta,
     flavors |-> IF draft.ticked # entry.flavors THEN {draft.ticked} ELSE {}]
ConfirmPrompt ==
    /\ prompt.kind # "none" /\ ~prompt.pending
    /\ saves < limit.calls /\ saves' = saves + 1
    /\ posts' = posts \cup {[kind |-> prompt.kind, body |-> Body, own |-> TRUE,
                             phase |-> "sent", nr |-> saves]}
    /\ prompt' = [prompt EXCEPT !.pending = TRUE]
    /\ UNCHANGED <<limit, truth, entry, loaded, reply, draft, work, edited>>

\* The server: a new set of flavors, and reprocessing, queue the entry again.
Some(S, default) == IF S = {} THEN default ELSE CHOOSE x \in S : TRUE
Effect(p) ==
    CASE p.kind = "save" ->
           [truth EXCEPT !.meta = p.body.meta,
                         !.flavors = Some(p.body.flavors, @),
                         !.status = IF p.body.flavors # {} THEN "transcoding" ELSE @,
                         !.rev = @ + 1]
      [] p.kind = "reprocess" -> [truth EXCEPT !.status = "transcoding", !.rev = @ + 1]
      [] p.kind = "addSubtitle" -> [truth EXCEPT !.subs = 1]
      [] p.kind = "dropSubtitle" -> [truth EXCEPT !.subs = 0]
Serve(p) ==
    /\ p.phase = "sent"
    /\ truth' = Effect(p)
    /\ posts' = (posts \ {p}) \cup {[p EXCEPT !.phase = "applied"]}
    /\ UNCHANGED <<limit, entry, loaded, reply, draft, prompt, saves, work, edited>>

Served(p) ==
    /\ p.phase = "applied"
    /\ InvalidateEntry
    /\ prompt' = IF p.own THEN NoPrompt ELSE prompt
    /\ posts' = posts \ {p}
    /\ UNCHANGED <<limit, truth, entry, loaded, draft, saves, work, edited>>
PostFails(p) ==
    /\ limit.fails
    /\ prompt' = IF p.own THEN [prompt EXCEPT !.pending = FALSE] ELSE prompt
    /\ posts' = posts \ {p}
    /\ UNCHANGED <<limit, truth, entry, loaded, reply, draft, saves, work, edited>>

\* Workers finish a run, and may skip a flavor; another user edits the entry
\* or starts a run.
WorkerEnds ==
    /\ Busy(truth)
    /\ \E s \in {"ready", "failed"}, fs \in SUBSET truth.flavors :
          truth' = [truth EXCEPT !.status = s, !.flavors = fs, !.rev = @ + 1]
    /\ UNCHANGED <<limit, entry, loaded, reply, draft, prompt, posts, saves, work, edited>>
OtherEdits ==
    /\ work < limit.others /\ work' = work + 1
    /\ \/ \E m \in Meta : truth' = [truth EXCEPT !.meta = m, !.rev = @ + 1]
       \/ truth' = [truth EXCEPT !.status = "transcoding", !.rev = @ + 1]
    /\ UNCHANGED <<limit, entry, loaded, reply, draft, prompt, posts, saves, edited>>

-----------------------------------------------------------------------------

EntryInit ==
    /\ limit \in Visit
    /\ truth \in {FirstEntry("ready"), FirstEntry("transcoding")}
    /\ entry = truth /\ draft = DraftOf(truth) /\ loaded = FALSE /\ reply = Asked
    /\ prompt = NoPrompt /\ posts = {} /\ saves = 0 /\ work = 0 /\ edited = FALSE

EntryUser ==
    \/ \E m \in Meta : EditMeta(m)
    \/ \E f \in Flavor : Tick(f)
    \/ PickPoster \/ Reset \/ AskSave \/ AskReprocessEntry \/ AskDeleteSubtitle \/ OpenSubtitleDialog
    \/ DismissPrompt \/ ConfirmPrompt
Posting == \E p \in posts : Serve(p) \/ Served(p) \/ PostFails(p)
FetchingEntry == PollEntry \/ AnswerEntry \/ LandEntry
EntryNext ==
    \/ EntryUser \/ Posting \/ FetchingEntry \/ LoseEntry
    \/ WorkerEnds \/ OtherEdits
EntrySpec == EntryInit /\ [][EntryNext]_entryVars

-----------------------------------------------------------------------------

\* The dialog calls an entry unsaved only if its user changed a field since the
\* last answer, whatever workers, other users and its own saves changed
\* meanwhile (entry-detail-dialog.tsx, the effect on entry and isDirty). It is
\* what lets a save leave out the flavors, whose change runs the encoders.
UnsavedIsEdited == Dirty => edited

\* While the dialog shows an entry in processing, a save cannot name flavors
\* (entry-detail-dialog.tsx, entryEditable).
LockedFlavors == loaded /\ Busy(entry) => draft.ticked = entry.flavors
=============================================================================
