----------------------------- MODULE AdminPages ----------------------------
(***************************************************************************)
(* The pages of the admin console that show one table of the server        *)
(* (web/app/admin/flavors, categories, players, users, domain-acls,        *)
(* viewers and jobs). Each keeps a cached list (TanStack Query), opens     *)
(* forms and confirmations over it (web/hooks/use-dialog.tsx) and sends    *)
(* calls, whose success invalidates the list.                              *)
(*                                                                         *)
(* A row is [text, flag, up]: text is the name, title or address of the    *)
(* row (of a job its status), "" the empty input; flag is enabled of a     *)
(* flavor, disabled of a user or viewer, isDefault of a player, paused of  *)
(* a job; up is the parent of a category. A link of the menu loads the     *)
(* page afresh, so a behaviour stays on one page. The server is external,  *)
(* as the pages and its answers show it.                                   *)
(***************************************************************************)
EXTENDS Naturals, FiniteSets, Functions

CONSTANTS
    Row,        \* bound: ids of rows, in the order the server gives them
    Text,       \* what a user may type into the text of a row, "" too
    Limits      \* per page: whether calls may fail, and bounds for one visit,
                \* of its changing calls and of the changes by other users and
                \* workers meanwhile

ASSUME RowAssumption == Row \subseteq Nat \ {0}
ASSUME TextAssumption == {"", "a"} \subseteq Text     \* "a" is in the first rows
ASSUME LimitsAssumption ==
    DOMAIN Limits \subseteq {"flavors", "categories", "players", "users", "acls", "viewers", "jobs"}

VARIABLES
    page,       \* the page that is open
    limits,
    table, used, \* the server's rows, by id, and the ids given so far
    list,       \* the cached answer the page shows
    fetch,      \* the query of the list: its phase and the answer on its way
    calls,      \* changing calls in flight
    form,       \* the form in front, if any
    question,   \* the confirmation in front, if any
    sent, others, \* calls sent and changes made by others so far
    astray,     \* history: the list may be behind, and no refetch has begun since
    made,       \* history: rows made, and answers that failed, through this form
    hurried     \* history: a parent was chosen or sent before all was quiet

tableVars == <<page, limits, table, used, others>>
listVars == <<list, fetch, astray>>
frontVars == <<form, question>>
historyVars == <<made, hurried>>
pageVars == <<tableVars, listVars, frontVars, historyVars, calls, sent>>

Blank == [text |-> "", flag |-> FALSE, up |-> 0]
Contents == [text : Text, flag : BOOLEAN, up : Row \cup {0}]
JobState == {"queued", "running", "failed", "cancelled", "done"}
NoForm == [open |-> FALSE, row |-> 0, draft |-> Blank, pending |-> FALSE]
NoAsk == [row |-> 0, pending |-> FALSE]
NothingMade == [rows |-> 0, failed |-> 0]

-----------------------------------------------------------------------------
(* The cached list.                                                         *)

Empty == [r \in {} |-> Blank]
Loading == [phase |-> "sent", rows |-> Empty]
NotLoading == [phase |-> "idle", rows |-> Empty]

\* The rows that a walk down from the roots meets: those in every set that has
\* the roots and the children of its own.
Closed(t, S) == \A r \in DOMAIN t : t[r].up \in S \cup {0} => r \in S
Rooted(t) == {r \in DOMAIN t : \A S \in SUBSET DOMAIN t : Closed(t, S) => r \in S}

\* The tree of the server. It copies each child into its parent, in the order of
\* the ids, and at last the roots: a child whose parent is no root, and has been
\* copied already, is in no copy.
Copied(t) == {r \in DOMAIN t : t[r].up = 0 \/ t[t[r].up].up = 0 \/ r < t[r].up}
CategoryTree == LET kept == Restrict(table, Copied(table)) IN Restrict(kept, Rooted(kept))

\* What the server answers.
Answer == IF page = "categories" THEN CategoryTree ELSE table

\* invalidateQueries: a new request, and the answer to an older one is ignored.
Invalidate == fetch' = Loading /\ astray' = FALSE
\* As onSuccess does it; a request on its way is not good enough.
RenewIfIdle ==
    /\ fetch' = IF fetch.phase = "idle" THEN Loading ELSE fetch
    /\ astray' = FALSE
Renew == Invalidate

FetchAnswered ==
    /\ fetch.phase = "sent"
    /\ fetch' = [phase |-> "answered", rows |-> Answer]
    /\ UNCHANGED <<tableVars, list, astray, frontVars, historyVars, calls, sent>>
FetchLands ==
    /\ fetch.phase = "answered"
    /\ list' = fetch.rows /\ fetch' = NotLoading
    /\ UNCHANGED <<tableVars, astray, frontVars, historyVars, calls, sent>>
\* The query gives up after its retries and keeps what it had.
FetchFails ==
    /\ limits.fails /\ fetch.phase # "idle"
    /\ fetch' = NotLoading /\ astray' = TRUE
    /\ UNCHANGED <<tableVars, list, frontVars, historyVars, calls, sent>>

\* Only the page of the jobs polls.
Poll ==
    /\ page = "jobs" /\ fetch.phase = "idle"
    /\ Invalidate
    /\ UNCHANGED <<tableVars, list, frontVars, historyVars, calls, sent>>

-----------------------------------------------------------------------------
(* What the pages offer for the rows shown.                                 *)

RowOf(edit, remove, toggle) == [edit |-> edit, remove |-> remove, toggle |-> toggle]
FlavorsPage    == RowOf(DOMAIN list, DOMAIN list, DOMAIN list)
CategoriesPage == RowOf(Rooted(list), Rooted(list), {})
PlayersPage    == RowOf(DOMAIN list, {r \in DOMAIN list : ~list[r].flag}, {})
UsersPage      == RowOf(DOMAIN list, DOMAIN list, {})
DomainAclsPage == RowOf(DOMAIN list, DOMAIN list, {})
ViewersPage    == RowOf(DOMAIN list, DOMAIN list, {})
JobsPage       == RowOf({}, {r \in DOMAIN list : list[r].text \in {"queued", "running"}}, {})
JobActions(r) ==
    CASE list[r].text = "queued" -> {IF list[r].flag THEN "resume" ELSE "pause"}
      [] list[r].text \in {"failed", "cancelled"} -> {"retry"}
      [] OTHER -> {}

Rows ==
    CASE page = "flavors" -> FlavorsPage
      [] page = "categories" -> CategoriesPage
      [] page = "players" -> PlayersPage
      [] page = "users" -> UsersPage
      [] page = "acls" -> DomainAclsPage
      [] page = "viewers" -> ViewersPage
      [] page = "jobs" -> JobsPage

-----------------------------------------------------------------------------
(* The forms: the drafts one edit leads to, whether a save is let through,  *)
(* and the row that the body of the save leaves on the server (of old, the  *)
(* row before it; Blank for a new row).                                     *)

Form(drafts, ready, row) == [drafts |-> drafts, ready |-> ready, row |-> row]
Typed(d) == {[d EXCEPT !.text = t] : t \in Text}
Flagged(d) == {[d EXCEPT !.flag = ~@]}

AnyParents == DOMAIN list
Parents == {r \in DOMAIN list : list[r].up = 0}
FlavorForm(f, old) == Form(Typed(f.draft), f.draft.text # "", f.draft)
CategoryForm(f, old) ==
    Form(Typed(f.draft) \cup {[f.draft EXCEPT !.up = p] : p \in (Parents \ {f.row}) \cup {0}},
         f.draft.text # "", [old EXCEPT !.text = f.draft.text, !.up = f.draft.up])
PlayerForm(f, old) ==
    Form(Typed(f.draft), f.draft.text # "", [old EXCEPT !.text = f.draft.text])
UserForm(f, old) ==
    Form(Typed(f.draft) \cup (IF f.row # 0 THEN Flagged(f.draft) ELSE {}),
         f.draft.text # "", f.draft)
AclForm(f, old) == Form(Typed(f.draft), f.draft.text # "", f.draft)
ViewerForm(f, old) == Form(Typed(f.draft) \cup Flagged(f.draft), f.draft.text # "", f.draft)

FormOf(f, old) ==
    CASE page = "flavors" -> FlavorForm(f, old)
      [] page = "categories" -> CategoryForm(f, old)
      [] page = "players" -> PlayerForm(f, old)
      [] page = "users" -> UserForm(f, old)
      [] page = "acls" -> AclForm(f, old)
      [] page = "viewers" -> ViewerForm(f, old)

-----------------------------------------------------------------------------
(* Calls.                                                                   *)

NewCall(kind, row, body) ==
    [kind |-> kind, row |-> row, body |-> body, own |-> TRUE, phase |-> "sent"]
FormCalls == {"create", "update"}

\* Two equal calls in flight at once count as one.
Send(c) ==
    /\ sent < limits.calls /\ sent' = sent + 1
    /\ calls' = calls \cup {c}

\* The call of a dialog that is closed goes on without it.
Disown(kinds) ==
    calls' = {IF c.kind \in kinds THEN [c EXCEPT !.own = FALSE] ELSE c : c \in calls}

Quiet == fetch.phase = "idle" /\ calls = {} /\ ~astray
\* A dialog in front is modal.
FormClosed == ~form.open
Front == ~form.open /\ question.row = 0

-----------------------------------------------------------------------------
(* Operations of the user.                                                  *)

OpenForm(row, initial) ==
    /\ Front /\ page # "jobs"
    /\ form' = [NoForm EXCEPT !.open = TRUE, !.row = row, !.draft = initial]
    /\ made' = NothingMade
    /\ UNCHANGED <<tableVars, listVars, question, hurried, calls, sent>>
OpenCreate == OpenForm(0, Blank)
OpenEdit(r) == r \in Rows.edit /\ OpenForm(r, list[r])

EditDraft ==
    /\ form.open
    /\ \E d \in FormOf(form, Blank).drafts :
          /\ form' = [form EXCEPT !.draft = d]
          /\ hurried' = (hurried \/ (d.up # form.draft.up /\ ~Quiet))
    /\ UNCHANGED <<tableVars, listVars, question, made, calls, sent>>

\* The button of the form is disabled while a save is pending.
SubmitAgain ==
    /\ form.open /\ FormOf(form, Blank).ready
    /\ Send(NewCall(IF form.row = 0 THEN "create" ELSE "update", form.row, form))
    /\ form' = [form EXCEPT !.pending = TRUE]
    /\ hurried' = (hurried \/ ~Quiet)
    /\ UNCHANGED <<tableVars, listVars, question, made>>
Submit ==
    /\ form.open /\ FormOf(form, Blank).ready /\ ~form.pending
    /\ Send(NewCall(IF form.row = 0 THEN "create" ELSE "update", form.row, form))
    /\ form' = [form EXCEPT !.pending = TRUE]
    /\ hurried' = (hurried \/ ~Quiet)
    /\ UNCHANGED <<tableVars, listVars, question, made>>

\* Cancel, or the escape key, which no pending save disables.
CloseForm ==
    /\ form.open
    /\ form' = NoForm /\ Disown(FormCalls)
    /\ UNCHANGED <<tableVars, listVars, question, historyVars, sent>>

\* The switch of a flavor sends the whole cached row.
Toggle(r) ==
    /\ Front /\ r \in Rows.toggle
    /\ Send(NewCall("toggle", r, [NoForm EXCEPT !.draft = [list[r] EXCEPT !.flag = ~@]]))
    /\ UNCHANGED <<tableVars, listVars, frontVars, historyVars>>

\* The buttons of a job.
Act(r, kind) ==
    /\ Front /\ page = "jobs" /\ r \in DOMAIN list /\ kind \in JobActions(r)
    /\ Send(NewCall(kind, r, NoForm))
    /\ UNCHANGED <<tableVars, listVars, frontVars, historyVars>>

\* askRemove, and askCancel of a job.
AskRemove(r) ==
    /\ Front /\ r \in Rows.remove
    /\ question' = [row |-> r, pending |-> FALSE]
    /\ UNCHANGED <<tableVars, listVars, form, historyVars, calls, sent>>
ConfirmRemove ==
    /\ question.row # 0 /\ ~question.pending
    /\ Send(NewCall(IF page = "jobs" THEN "cancel" ELSE "delete", question.row, NoForm))
    /\ question' = [question EXCEPT !.pending = TRUE]
    /\ UNCHANGED <<tableVars, listVars, form, historyVars>>
DismissRemove ==
    /\ question.row # 0
    /\ question' = NoAsk /\ Disown({"delete", "cancel"})
    /\ UNCHANGED <<tableVars, listVars, form, historyVars, sent>>

-----------------------------------------------------------------------------
(* The server.                                                              *)

Store(r, row) == table' = [x \in DOMAIN table \cup {r} |-> IF x = r THEN row ELSE table[x]]
Drop(r) ==
    table' = [x \in DOMAIN table \ {r} |-> [table[x] EXCEPT !.up = IF @ = r THEN 0 ELSE @]]
\* Ids are not given twice: a sequence of the database.
NextRow == CHOOSE r \in Row \ used : \A x \in Row \ used : r <= x
\* A parent must be there, and another row.
ParentOK(c) == c.body.draft.up \in ({0} \cup DOMAIN table) \ {c.row}

Accepts(c) ==
    CASE c.kind = "create" -> ParentOK(c)
      [] c.kind = "update" -> c.row \in DOMAIN table /\ ParentOK(c)
      [] c.kind = "toggle" -> c.row \in DOMAIN table
      [] c.kind = "delete" -> \/ page = "users"
                              \/ c.row \in DOMAIN table /\ (page = "players" => ~table[c.row].flag)
      [] c.kind = "retry" -> table[c.row].text \in {"failed", "cancelled"}
      [] c.kind \in {"pause", "resume", "cancel"} -> TRUE

\* What it does then; the actions on a job are those of JobQueue as the page
\* sees them.
Perform(c) ==
    CASE c.kind = "create" -> Store(NextRow, FormOf(c.body, Blank).row)
      [] c.kind = "update" -> Store(c.row, FormOf(c.body, table[c.row]).row)
      [] c.kind = "toggle" -> Store(c.row, c.body.draft)
      [] c.kind = "delete" -> Drop(c.row)
      [] c.kind = "retry" -> Store(c.row, [table[c.row] EXCEPT !.text = "queued"])
      [] OTHER ->
            IF table[c.row].text # "queued" THEN UNCHANGED table
            ELSE Store(c.row, IF c.kind = "cancel" THEN [table[c.row] EXCEPT !.text = "cancelled"]
                              ELSE [table[c.row] EXCEPT !.flag = (c.kind = "pause")])

ToPhase(c, phase) == calls' = (calls \ {c}) \cup {[c EXCEPT !.phase = phase]}

Performed(c) ==
    /\ c.phase = "sent" /\ Accepts(c) /\ (c.kind = "create" => ~(Row \subseteq used))
    /\ Perform(c) /\ ToPhase(c, "applied")
    /\ used' = used \cup (IF c.kind = "create" THEN {NextRow} ELSE {})
    /\ made' = IF c.kind = "create" /\ c.own THEN [made EXCEPT !.rows = @ + 1] ELSE made
    /\ UNCHANGED <<page, limits, others, listVars, frontVars, hurried, sent>>
Refused(c) ==
    /\ c.phase = "sent" /\ (limits.fails \/ ~Accepts(c))
    /\ ToPhase(c, "refused")
    /\ UNCHANGED <<tableVars, listVars, frontVars, historyVars, sent>>

\* Another user or a worker changes or removes a row.
OtherChange(r) ==
    /\ others < limits.others /\ others' = others + 1
    /\ r \in DOMAIN table
    /\ \/ /\ page = "jobs"
          /\ \E s \in JobState : Store(r, [table[r] EXCEPT !.text = s])
       \/ /\ page # "jobs"
          /\ \E t \in Text \ {""} : Store(r, [table[r] EXCEPT !.text = t])
       \/ /\ page # "jobs" /\ ~(page = "players" /\ table[r].flag)
          /\ Drop(r)
    /\ astray' = TRUE
    /\ UNCHANGED <<page, limits, used, list, fetch, frontVars, historyVars, calls, sent>>

-----------------------------------------------------------------------------
(* Answers. Every one comes to the page, also when its dialog is closed.    *)

Succeeded(c) ==
    /\ c.phase = "applied"
    /\ calls' = calls \ {c}
    /\ Renew
    /\ form' = IF c.own /\ c.kind \in FormCalls THEN NoForm ELSE form
    /\ question' = IF c.own /\ c.kind \in {"delete", "cancel"} THEN NoAsk ELSE question
    /\ UNCHANGED <<tableVars, list, historyVars, sent>>

\* An error, or no answer at all: the form and the question stay, and can be
\* sent again; act swallows it, which closes the question of a job. The
\* switch of a flavor has the list fetched all the same.
Failed(c) ==
    /\ c.phase = "refused" \/ (limits.fails /\ c.phase = "applied")
    /\ calls' = calls \ {c}
    /\ form' = IF c.own /\ c.kind \in FormCalls THEN [form EXCEPT !.pending = FALSE] ELSE form
    /\ question' = IF c.own /\ c.kind = "delete" THEN [question EXCEPT !.pending = FALSE]
                   ELSE IF c.own /\ c.kind = "cancel" THEN NoAsk ELSE question
    /\ IF c.kind = "toggle" THEN Invalidate
       ELSE astray' = (astray \/ c.phase = "applied") /\ fetch' = fetch
    /\ made' = IF c.own /\ c.kind = "create" THEN [made EXCEPT !.failed = @ + 1] ELSE made
    /\ UNCHANGED <<tableVars, list, hurried, sent>>

-----------------------------------------------------------------------------

Row0(page_, r) ==
    CASE page_ = "jobs" -> [Blank EXCEPT !.text = IF r = 1 THEN "queued" ELSE "failed"]
      [] page_ = "players" -> [Blank EXCEPT !.text = "a", !.flag = (r = 1)]
      [] OTHER -> [Blank EXCEPT !.text = "a"]

\* A page that has just been opened over two rows.
PageInit(pages) ==
    /\ page \in pages /\ limits \in Limits[page]
    /\ table = [r \in {x \in Row : x <= 2} |-> Row0(page, r)]
    /\ list = Empty /\ fetch = Loading /\ astray = FALSE
    /\ calls = {} /\ form = NoForm /\ question = NoAsk
    /\ sent = 0 /\ others = 0 /\ used = DOMAIN table
    /\ made = NothingMade /\ hurried = FALSE

PageUser ==
    \/ OpenCreate \/ EditDraft \/ Submit \/ CloseForm
    \/ ConfirmRemove \/ DismissRemove
    \/ \E r \in DOMAIN list : OpenEdit(r) \/ Toggle(r) \/ AskRemove(r)
    \/ \E r \in DOMAIN list, kind \in {"pause", "resume", "retry"} : Act(r, kind)
PageSystem ==
    \/ FetchAnswered \/ FetchLands
    \/ \E c \in calls : Performed(c) \/ Refused(c) \/ Succeeded(c) \/ Failed(c)
PageNext == PageUser \/ PageSystem \/ FetchFails \/ Poll \/ \E r \in Row : OtherChange(r)
PageSpec == PageInit(DOMAIN Limits) /\ [][PageNext]_pageVars

-----------------------------------------------------------------------------
(* Properties.                                                              *)

\* Once its fetches and calls have been answered, a page shows what the server
\* answers now, whatever the order of the answers, unless a call that took effect
\* was answered by an error, a fetch failed, or somebody else changed a row
\* (flavors, categories, players, users, domain-acls, viewers: onSuccess). Of the
\* categories that is the tree, without those that it has lost (categories.go:47).
QuietListIsServer == Quiet => list = Answer

\* A form makes one row, and one more for each save that it saw fail, however
\* often its button and the enter key are pressed (the disabled submit button).
OneRowPerSave == form.open => made.rows <= made.failed + 1

\* As long as parents are chosen and saved over a list that is up to date, the
\* parents of every category in the table lead to a root: no two are below each
\* other, because only roots are offered as parents, and no category to itself
\* (categories/page.tsx, the options of the parent). The tree that the server
\* answers may lack some of them all the same.
FreshParentsKeepTree ==
    page = "categories" /\ ~hurried /\ others = 0 => Rooted(table) = DOMAIN table
=============================================================================
