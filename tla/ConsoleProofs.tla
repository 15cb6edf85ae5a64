---------------------------- MODULE ConsoleProofs ---------------------------
(***************************************************************************)
(* Pages of the console. A table page at rest shows what the server has    *)
(* and its forms make no row twice, for any rows and any number of calls   *)
(* (PageInv); the categories stay a tree while parents are chosen over an  *)
(* up-to-date list (TreeInv). No save of a group of settings undoes a      *)
(* switch, for any values of the fields and any number of saves: only the  *)
(* flow of a switch names its key (SwitchKeys). And the draft of the entry *)
(* dialog, for any metadata, any flavors and any number of calls and       *)
(* changes: one that was not edited since the last answer is a copy of the *)
(* entry (CopyUnlessEdited).                                               *)
(***************************************************************************)
EXTENDS AdminPages, SettingsPage, EntryDialog, WellFoundedInduction, TLAPS

-----------------------------------------------------------------------------
(* The table pages.                                                        *)

\* What is known of a call: the forms have one of their own under way at most,
\* while they wait for it.
ACall(c) ==
    c = [kind |-> c.kind, row |-> c.row, body |-> c.body, own |-> c.own, phase |-> c.phase]
OfForm(c) == c.own /\ c.kind \in FormCalls
Making(c) == c.own /\ c.kind = "create" /\ c.phase = "applied"

CallsInv ==
    /\ \A c \in calls : ACall(c)
    /\ \A c \in calls : OfForm(c) => form.open /\ form.pending
    /\ \A c, d \in calls : OfForm(c) /\ OfForm(d) => c = d
    /\ form = [open |-> form.open, row |-> form.row, draft |-> form.draft, pending |-> form.pending]

\* A form has made no more rows than it saw saves fail, but for the one whose
\* answer is on its way.
MadeInv ==
    /\ made \in [rows : Nat, failed : Nat]
    /\ form.open => \/ made.rows <= made.failed
                    \/ made.rows <= made.failed + 1 /\ \E c \in calls : Making(c)

\* Without a call that took effect and has not been answered, what was answered
\* last is what the server has.
ListInv ==
    ~astray /\ (\A c \in calls : c.phase # "applied") =>
        /\ fetch.phase = "idle" => list = Answer
        /\ fetch.phase = "answered" => fetch.rows = Answer
FetchInv == fetch = [phase |-> fetch.phase, rows |-> fetch.rows]
            /\ fetch.phase \in {"idle", "sent", "answered"}

PageInv == CallsInv /\ MadeInv /\ ListInv /\ FetchInv

\* A page that has just been opened has sent only its query.
LEMMA PageInitInv == PageInit(DOMAIN Limits) => PageInv
  BY DEF PageInit, PageInv, CallsInv, MadeInv, ListInv, FetchInv, NoForm, NothingMade, Loading

\* The same table is answered the same.
LEMMA SameAnswer == UNCHANGED <<page, table>> => UNCHANGED Answer
<1> SUFFICES ASSUME UNCHANGED <<page, table>> PROVE UNCHANGED Answer
  OBVIOUS
<1>1. UNCHANGED CategoryTree
  BY DEF CategoryTree, Copied, Rooted, Closed, Restrict
<1> QED
  BY <1>1 DEF Answer

\* A step that leaves the server, the list and the calls alone, or loses sight of
\* what the list should be.
LEMMA ListKept ==
    ASSUME PageInv,
           \/ astray'
           \/ fetch' = Loading
           \/ /\ UNCHANGED <<page, table, list, fetch>> /\ (astray => astray')
              /\ (\A c \in calls' : c.phase # "applied") => \A c \in calls : c.phase # "applied"
    PROVE  ListInv'
  BY SameAnswer DEF PageInv, ListInv, Loading

\* A call of a switch, of a job or of a confirmation is none of a form's.
LEMMA SentInv ==
    ASSUME PageInv, NEW kind, kind \notin FormCalls, NEW row, NEW body,
           Send(NewCall(kind, row, body)),
           UNCHANGED <<page, table, list, fetch, astray, form, made>>
    PROVE  PageInv'
<1> DEFINE new == NewCall(kind, row, body)
<1>1. ACall(new) /\ new.kind = kind /\ new.phase = "sent"
  BY DEF ACall, NewCall
<1>2. calls' = calls \cup {new}
  BY DEF Send
<1> HIDE DEF new
<1>3. ~OfForm(new) /\ ~Making(new)
  BY <1>1 DEF OfForm, Making
<1>4. CallsInv'
  BY <1>1, <1>2, <1>3 DEF PageInv, CallsInv, ACall, OfForm
<1>5. MadeInv'
  BY <1>2, <1>3 DEF PageInv, MadeInv, Making
<1>6. ListInv'
  BY <1>1, <1>2, ListKept
<1> QED
  BY <1>4, <1>5, <1>6 DEF PageInv, FetchInv

\* A form sends one call and waits for it.
LEMMA SubmitInv == PageInv /\ Submit => PageInv'
<1> SUFFICES ASSUME PageInv, Submit PROVE PageInv'
  OBVIOUS
<1> DEFINE new == NewCall(IF form.row = 0 THEN "create" ELSE "update", form.row, form)
<1>1. ACall(new) /\ new.phase = "sent"
  BY DEF ACall, NewCall
<1>2. calls' = calls \cup {new} /\ UNCHANGED <<page, table, list, fetch, astray, made>>
  BY DEF Send, Submit, tableVars, listVars
<1> HIDE DEF new
<1>3. /\ form' = [form EXCEPT !.pending = TRUE] /\ form.open /\ ~form.pending
      /\ form' = [open |-> TRUE, row |-> form.row, draft |-> form.draft, pending |-> TRUE]
  BY DEF Submit, PageInv, CallsInv
<1>4. \A c \in calls : ~OfForm(c)
  BY <1>3 DEF PageInv, CallsInv
<1>5. CallsInv'
  BY <1>1, <1>2, <1>3, <1>4 DEF PageInv, CallsInv, ACall, OfForm
<1>6. MadeInv'
  BY <1>2, <1>3 DEF PageInv, MadeInv, Making
<1>7. ListInv'
  BY <1>1, <1>2, ListKept
<1> QED
  BY <1>2, <1>5, <1>6, <1>7 DEF PageInv, FetchInv

\* The calls that a dialog leaves behind are what they were, but for the dialog.
LEMMA Disowned ==
    ASSUME PageInv, NEW kinds, Disown(kinds)
    PROVE  /\ \A d \in calls' : \E c \in calls :
                 /\ ACall(d) /\ d.phase = c.phase /\ d.kind = c.kind
                 /\ d.row = c.row /\ d.body = c.body
                 /\ d.own => c.kind \notin kinds
                 /\ d = c \/ c.kind \in kinds
           /\ \A c \in calls : \E d \in calls' : d.phase = c.phase
           /\ \A c \in calls : c.kind \notin kinds => c \in calls'
<1> DEFINE after(c) == IF c.kind \in kinds THEN [c EXCEPT !.own = FALSE] ELSE c
<1>1. calls' = {after(c) : c \in calls}
  BY DEF Disown
<1>2. ASSUME NEW c \in calls
      PROVE  /\ ACall(after(c)) /\ after(c).phase = c.phase /\ after(c).kind = c.kind
             /\ after(c).row = c.row /\ after(c).body = c.body
             /\ after(c).own => c.kind \notin kinds
             /\ after(c) = c \/ c.kind \in kinds
  <2>1. c = [kind |-> c.kind, row |-> c.row, body |-> c.body, own |-> c.own, phase |-> c.phase]
    BY DEF PageInv, CallsInv, ACall
  <2>2. CASE c.kind \in kinds
    <3> DEFINE left == [kind |-> c.kind, row |-> c.row, body |-> c.body, own |-> FALSE,
                        phase |-> c.phase]
    <3>1. after(c) = left
      BY <2>1, <2>2
    <3>2. /\ ACall(left) /\ left.phase = c.phase /\ left.kind = c.kind /\ ~left.own
          /\ left.row = c.row /\ left.body = c.body
      BY DEF ACall
    <3> HIDE DEF left, after
    <3> QED
      BY <2>2, <3>1, <3>2
  <2>3. CASE c.kind \notin kinds
    BY <2>1, <2>3 DEF ACall
  <2> QED
    BY <2>2, <2>3
<1> HIDE DEF after
<1>3. \A c \in calls : c.kind \notin kinds => after(c) = c
  BY DEF after
<1> QED
  BY <1>1, <1>2, <1>3

\* A dialog that is closed leaves its calls behind.
LEMMA CloseInv == PageInv /\ (CloseForm \/ DismissRemove) => PageInv'
<1> SUFFICES ASSUME PageInv, CloseForm \/ DismissRemove PROVE PageInv'
  OBVIOUS
<1>1. UNCHANGED <<page, table, list, fetch, astray, made>>
  BY DEF CloseForm, DismissRemove, tableVars, listVars, historyVars
<1>2. ASSUME NEW kinds, Disown(kinds) PROVE ListInv'
  BY <1>1, <1>2, Disowned, ListKept
<1>3. CASE CloseForm
  <2>1. Disown(FormCalls) /\ form' = NoForm
    BY <1>3 DEF CloseForm
  <2>2. \A d \in calls' : ACall(d) /\ ~OfForm(d)
    BY <2>1, Disowned DEF OfForm
  <2> QED
    BY <1>1, <1>2, <2>1, <2>2 DEF PageInv, CallsInv, MadeInv, FetchInv, NoForm, OfForm, ACall
<1>4. CASE DismissRemove
  <2>1. Disown({"delete", "cancel"}) /\ UNCHANGED form
    BY <1>4 DEF DismissRemove
  <2>2. \A d \in calls' : ACall(d) /\ (OfForm(d) => d \in calls)
    BY <2>1, Disowned DEF OfForm, FormCalls
  <2>3. \A c \in calls : Making(c) => c \in calls'
    BY <2>1, Disowned DEF Making
  <2>4. CallsInv'
    BY <2>1, <2>2 DEF PageInv, CallsInv, ACall, OfForm
  <2>5. MadeInv'
    BY <1>1, <2>1, <2>3 DEF PageInv, MadeInv, Making
  <2> QED
    BY <1>1, <1>2, <2>1, <2>4, <2>5 DEF PageInv, FetchInv
<1> QED
  BY <1>3, <1>4

\* The server has performed or refused a call.
LEMMA AnsweredInv ==
    ASSUME PageInv, NEW c \in calls, NEW phase, ToPhase(c, phase), c.phase = "sent",
           UNCHANGED <<list, fetch, astray, form>>,
           \/ phase = "refused" /\ UNCHANGED <<page, table, made>>
           \/ /\ phase = "applied"
              /\ made' = IF c.kind = "create" /\ c.own THEN [made EXCEPT !.rows = @ + 1] ELSE made
    PROVE  PageInv'
<1> DEFINE new == [c EXCEPT !.phase = phase]
<1>1. ACall(new) /\ new.phase = phase /\ new.own = c.own /\ new.kind = c.kind
  BY DEF ACall, PageInv, CallsInv
<1>2. calls' = (calls \ {c}) \cup {new}
  BY DEF ToPhase
<1> HIDE DEF new
<1>3. OfForm(new) <=> OfForm(c)
  BY <1>1 DEF OfForm
<1>4. CallsInv'
  BY <1>1, <1>2, <1>3 DEF PageInv, CallsInv, ACall, OfForm
<1>5. ListInv'
  BY <1>1, <1>2, ListKept DEF PageInv, ListInv
<1>6. MadeInv'
  <2>1. \A d \in calls : Making(d) => d \in calls'
    BY <1>2 DEF Making
  <2>2. CASE UNCHANGED made
    BY <2>1, <2>2 DEF PageInv, MadeInv, Making
  <2>3. CASE c.kind = "create" /\ c.own /\ phase = "applied" /\ made' = [made EXCEPT !.rows = @ + 1]
    <3>1. \A d \in calls : ~Making(d)
      BY <2>3 DEF PageInv, CallsInv, OfForm, Making, FormCalls
    <3>2. Making(new) /\ new \in calls'
      BY <1>1, <1>2, <2>3 DEF Making
    <3>3. made' \in [rows : Nat, failed : Nat] /\ made'.rows = made.rows + 1 /\ made'.failed = made.failed
      BY <2>3 DEF PageInv, MadeInv
    <3>4. form.open => made.rows <= made.failed /\ made.rows \in Nat /\ made.failed \in Nat
      BY <3>1 DEF PageInv, MadeInv
    <3> QED
      BY <3>2, <3>3, <3>4 DEF MadeInv, Making
  <2> QED
    BY <2>2, <2>3
<1> QED
  BY <1>4, <1>5, <1>6 DEF PageInv, FetchInv

\* A success closes the form that waited for it, and has the list fetched again.
LEMMA SucceededInv == ASSUME PageInv, NEW c \in calls, Succeeded(c) PROVE PageInv'
<1>1. calls' = calls \ {c} /\ fetch' = Loading /\ ~astray' /\ UNCHANGED made
  BY DEF Succeeded, Renew, Invalidate, historyVars
<1>2. CASE OfForm(c)
  <2>1. form' = NoForm /\ \A d \in calls' : ~OfForm(d)
    BY <1>1, <1>2 DEF Succeeded, PageInv, CallsInv, OfForm
  <2> QED
    BY <1>1, <2>1, ListKept DEF PageInv, CallsInv, MadeInv, FetchInv, Loading, NoForm, OfForm, ACall
<1>3. CASE ~OfForm(c)
  <2>1. UNCHANGED form
    BY <1>3 DEF Succeeded, OfForm
  <2>2. ~Making(c)
    BY <1>3 DEF OfForm, Making, FormCalls
  <2>3. MadeInv'
    BY <1>1, <2>1, <2>2 DEF PageInv, MadeInv, Making
  <2>4. CallsInv'
    BY <1>1, <2>1 DEF PageInv, CallsInv, ACall, OfForm
  <2> QED
    BY <1>1, <2>3, <2>4, ListKept DEF PageInv, FetchInv, Loading
<1> QED
  BY <1>2, <1>3

\* A form that learns of an error has seen one more save fail, whatever the server did.
LEMMA FailedInv == ASSUME PageInv, NEW c \in calls, Failed(c) PROVE PageInv'
<1>1. /\ calls' = calls \ {c} /\ UNCHANGED <<page, table, list>>
      /\ \/ fetch' = Loading
         \/ fetch' = fetch /\ astray'
         \/ fetch' = fetch /\ (astray => astray') /\ c.phase # "applied"
  <2>1. CASE c.kind = "toggle"
    BY <2>1 DEF Failed, Invalidate, tableVars
  <2>2. CASE c.kind # "toggle"
    <3>1. astray' = (astray \/ c.phase = "applied") /\ fetch' = fetch
      BY <2>2 DEF Failed
    <3> QED
      BY <3>1, Zenon DEF Failed, tableVars
  <2> QED
    BY <2>1, <2>2
<1>2. ListInv' /\ FetchInv'
  <2>1. ListInv'
    BY <1>1, ListKept
  <2> QED
    BY <1>1, <2>1 DEF PageInv, FetchInv, Loading
<1>3. form' = IF OfForm(c) THEN [form EXCEPT !.pending = FALSE] ELSE form
  BY DEF Failed, OfForm
<1>4. form'.open = form.open
  BY <1>3 DEF PageInv, CallsInv
<1>5. CallsInv'
  BY <1>1, <1>3 DEF PageInv, CallsInv, ACall, OfForm
<1>6. /\ made' \in [rows : Nat, failed : Nat] /\ made.rows \in Nat /\ made.failed \in Nat
      /\ made'.rows = made.rows
      /\ made'.failed = made.failed + (IF c.own /\ c.kind = "create" THEN 1 ELSE 0)
  BY DEF Failed, PageInv, MadeInv
<1>7. MadeInv'
  <2>1. CASE c.own /\ c.kind = "create"
    BY <1>4, <1>6, <2>1 DEF PageInv, MadeInv
  <2>2. CASE ~(c.own /\ c.kind = "create")
    <3>1. \A d \in calls : Making(d) => d \in calls'
      BY <1>1, <2>2 DEF Making
    <3> QED
      BY <1>4, <1>6, <2>2, <3>1 DEF PageInv, MadeInv, Making
  <2> QED
    BY <2>1, <2>2
<1> QED
  BY <1>2, <1>5, <1>7 DEF PageInv

\* The steps of the list and of others.
LEMMA ListSteps ==
    ASSUME PageInv,
           \/ FetchAnswered \/ FetchLands \/ FetchFails \/ Poll
           \/ \E r \in Row : OtherChange(r)
    PROVE  PageInv'
<1>1. UNCHANGED <<calls, form, made>>
  BY DEF FetchAnswered, FetchLands, FetchFails, Poll, OtherChange, frontVars, historyVars
<1>2. CallsInv' /\ MadeInv'
  BY <1>1 DEF PageInv, CallsInv, MadeInv, ACall, OfForm, Making
<1>3. CASE FetchAnswered
  BY <1>1, <1>2, <1>3, SameAnswer DEF FetchAnswered, tableVars, PageInv, ListInv, FetchInv
<1>4. CASE FetchLands
  BY <1>1, <1>2, <1>4, SameAnswer DEF FetchLands, tableVars, PageInv, ListInv, FetchInv, NotLoading
<1>5. CASE FetchFails
  BY <1>2, <1>5, ListKept DEF FetchFails, PageInv, FetchInv, NotLoading
<1>6. CASE Poll
  BY <1>2, <1>6, ListKept DEF Poll, Invalidate, PageInv, FetchInv, Loading
<1>7. CASE \E r \in Row : OtherChange(r)
  BY <1>2, <1>7, ListKept DEF OtherChange, PageInv, FetchInv
<1> QED
  BY <1>3, <1>4, <1>5, <1>6, <1>7

\* Opening a form or a confirmation, and editing.
LEMMA DialogSteps ==
    ASSUME PageInv,
           \/ OpenCreate \/ EditDraft
           \/ \E r \in DOMAIN list : OpenEdit(r) \/ AskRemove(r)
    PROVE  PageInv'
<1>1. UNCHANGED <<page, table, list, fetch, astray, calls>>
  BY DEF OpenCreate, OpenEdit, OpenForm, EditDraft, AskRemove, tableVars, listVars
<1>2. ListInv' /\ FetchInv'
  BY <1>1, ListKept DEF PageInv, FetchInv
<1>3. ASSUME NEW row, NEW initial, OpenForm(row, initial) PROVE PageInv'
  <2>1. /\ form' = [open |-> TRUE, row |-> row, draft |-> initial, pending |-> FALSE]
        /\ ~form.open /\ made' = NothingMade
    BY <1>3 DEF OpenForm, NoForm, Front
  <2> QED
    BY <1>1, <1>2, <2>1 DEF PageInv, CallsInv, MadeInv, NothingMade, OfForm, ACall
<1>4. CASE EditDraft
  <2>1. PICK d \in FormOf(form, Blank).drafts : form' = [form EXCEPT !.draft = d]
    BY <1>4 DEF EditDraft
  <2>2. form' = [open |-> form.open, row |-> form.row, draft |-> d, pending |-> form.pending]
    BY <2>1 DEF PageInv, CallsInv
  <2>3. UNCHANGED made
    BY <1>4 DEF EditDraft
  <2> QED
    BY <1>1, <1>2, <2>2, <2>3 DEF PageInv, CallsInv, MadeInv, OfForm, ACall, Making
<1>5. CASE \E r \in DOMAIN list : AskRemove(r)
  BY <1>1, <1>2, <1>5 DEF AskRemove, historyVars, PageInv, CallsInv, MadeInv, OfForm, ACall, Making
<1> QED
  BY <1>3, <1>4, <1>5 DEF OpenCreate, OpenEdit

\* Every step keeps what is known of a page.
LEMMA PageNextInv == PageInv /\ [PageNext]_pageVars => PageInv'
<1> SUFFICES ASSUME PageInv, [PageNext]_pageVars PROVE PageInv'
  OBVIOUS
<1>1. CASE UNCHANGED pageVars
  BY <1>1, SameAnswer DEF pageVars, tableVars, listVars, frontVars, historyVars,
              PageInv, CallsInv, MadeInv, ListInv, FetchInv, OfForm, ACall, Making
<1>2. CASE ConfirmRemove
  BY <1>2, SentInv DEF ConfirmRemove, FormCalls, tableVars, listVars, historyVars
<1>3. ASSUME NEW r, Toggle(r) PROVE PageInv'
  BY <1>3, SentInv DEF Toggle, FormCalls, tableVars, listVars, frontVars, historyVars
<1>4. ASSUME NEW r, NEW kind \in {"pause", "resume", "retry"}, Act(r, kind) PROVE PageInv'
  BY <1>4, SentInv DEF Act, FormCalls, tableVars, listVars, frontVars, historyVars
<1>5. ASSUME NEW c \in calls, Performed(c) PROVE PageInv'
  BY <1>5, AnsweredInv DEF Performed, listVars, frontVars
<1>6. ASSUME NEW c \in calls, Refused(c) PROVE PageInv'
  BY <1>6, AnsweredInv DEF Refused, tableVars, listVars, frontVars, historyVars
<1> QED
  BY <1>1, <1>2, <1>3, <1>4, <1>5, <1>6, SubmitInv, CloseInv, SucceededInv, FailedInv,
     ListSteps, DialogSteps DEF PageNext, PageUser, PageSystem

\* Once all is quiet a page shows what the server answers, for any rows, texts and
\* limits (QuietListIsServer).
THEOREM SpecQuietListIsServer == PageSpec => []QuietListIsServer
<1>1. PageInv => QuietListIsServer
  BY DEF PageInv, ListInv, QuietListIsServer, Quiet
<1> QED
  BY <1>1, PageInitInv, PageNextInv, PTL DEF PageSpec

\* A form makes one row and one more for each save that it saw fail, for any rows,
\* texts and limits (OneRowPerSave).
THEOREM SpecOneRowPerSave == PageSpec => []OneRowPerSave
<1>1. PageInv => OneRowPerSave
  BY DEF PageInv, MadeInv, OneRowPerSave
<1> QED
  BY <1>1, PageInitInv, PageNextInv, PTL DEF PageSpec

-----------------------------------------------------------------------------
(* The categories as a tree.                                               *)

Tree(t) == Rooted(t) = DOMAIN t
IsRow(x) == x = [text |-> x.text, flag |-> x.flag, up |-> x.up]

\* The parent that an answer, a form or a call names for a row: the one that the row
\* has, or one that leaves a tree, while no other row is being saved; or the row
\* or that parent has been deleted.
Alone(r) == \A c \in calls : c.kind \in FormCalls /\ c.phase = "sent" => c.row = r
Fits(r, p) ==
    /\ r \in used /\ p \in used \cup {0}
    /\ r \in DOMAIN table /\ p \in (DOMAIN table \cup {0}) \ {r} =>
          p = table[r].up \/ (Tree([table EXCEPT ![r].up = p]) /\ Alone(r))

\* What is there on the page of the categories, whatever others do.
CategoriesOK ==
    /\ DOMAIN table \subseteq used /\ used \subseteq Row /\ others \in Nat
    /\ \A r \in DOMAIN table : IsRow(table[r]) /\ table[r].up \in used \cup {0}
    /\ \A r \in DOMAIN list : IsRow(list[r])
    /\ \A r \in DOMAIN fetch.rows : IsRow(fetch.rows[r])
    /\ form.open => IsRow(form.draft)
    /\ \A c \in calls :
          /\ c.kind \in {"create", "update", "delete"}
          /\ c.kind # "delete" => IsRow(c.body.draft)
          /\ c.kind = "create" => c.row = 0

\* What is known while parents are chosen over an up-to-date list.
ParentsFit ==
    /\ Tree(table)
    /\ \A r \in DOMAIN list : Fits(r, list[r].up)
    /\ fetch.phase = "answered" => \A r \in DOMAIN fetch.rows : Fits(r, fetch.rows[r].up)
    /\ form.open /\ form.row # 0 => Fits(form.row, form.draft.up)
    /\ \A c \in calls : c.kind = "update" => Fits(c.row, c.body.draft.up)

TreeInv ==
    page = "categories" => CategoriesOK /\ (~hurried /\ others = 0 => ParentsFit)

\* A tree has no part but the whole that has the roots and the children of its own.
LEMMA TreeIs ==
    ASSUME NEW t
    PROVE  Tree(t) <=> \A S \in SUBSET DOMAIN t : Closed(t, S) => S = DOMAIN t
<1>1. ASSUME Tree(t), NEW S \in SUBSET DOMAIN t, Closed(t, S) PROVE S = DOMAIN t
  BY <1>1 DEF Tree, Rooted
<1>2. ASSUME \A S \in SUBSET DOMAIN t : Closed(t, S) => S = DOMAIN t PROVE Tree(t)
  BY <1>2 DEF Tree, Rooted
<1> QED
  BY <1>1, <1>2

\* Only the parents matter.
LEMMA SameParents ==
    ASSUME NEW t, Tree(t), NEW u, DOMAIN u = DOMAIN t, \A y \in DOMAIN t : u[y].up = t[y].up
    PROVE  Tree(u)
<1>1. \A S \in SUBSET DOMAIN t : Closed(u, S) <=> Closed(t, S)
  BY DEF Closed
<1> QED
  BY <1>1, TreeIs

\* A row that is deleted leaves its children as roots.
LEMMA DropKeepsTree ==
    ASSUME NEW t, Tree(t), NEW x \in DOMAIN t, NEW u, DOMAIN u = DOMAIN t \ {x},
           \A y \in DOMAIN u : u[y].up = IF t[y].up = x THEN 0 ELSE t[y].up
    PROVE  Tree(u)
<1> SUFFICES ASSUME NEW S \in SUBSET DOMAIN u, Closed(u, S) PROVE S = DOMAIN u
  BY TreeIs
<1>1. Closed(t, S \cup {x})
  BY DEF Closed
<1>2. S \cup {x} = DOMAIN t
  BY <1>1, TreeIs
<1> QED
  BY <1>2

\* A new row is a leaf.
LEMMA AddKeepsTree ==
    ASSUME NEW t, Tree(t), NEW x, x \notin DOMAIN t, NEW u, DOMAIN u = DOMAIN t \cup {x},
           u[x].up \in DOMAIN t \cup {0}, \A y \in DOMAIN t : u[y].up = t[y].up
    PROVE  Tree(u)
<1> SUFFICES ASSUME NEW S \in SUBSET DOMAIN u, Closed(u, S) PROVE S = DOMAIN u
  BY TreeIs
<1>1. Closed(t, S \ {x}) \/ x = 0
  BY DEF Closed
<1>2. Closed(t, S \ {x})
  BY DEF Closed
<1>3. S \ {x} = DOMAIN t
  BY <1>2, TreeIs
<1>4. x \in S
  BY <1>3 DEF Closed
<1> QED
  BY <1>3, <1>4

\* A row may be put below a root other than itself, or become one.
LEMMA RootKeepsTree ==
    ASSUME NEW t, Tree(t), NEW r \in DOMAIN t, NEW u, DOMAIN u = DOMAIN t,
           \A y \in DOMAIN t : y # r => u[y].up = t[y].up,
           u[r].up = 0 \/ (u[r].up \in DOMAIN t \ {r} /\ t[u[r].up].up = 0)
    PROVE  Tree(u)
<1> SUFFICES ASSUME NEW S \in SUBSET DOMAIN u, Closed(u, S) PROVE S = DOMAIN u
  BY TreeIs
<1>1. r \in S
  BY DEF Closed
<1>2. Closed(t, S)
  BY <1>1 DEF Closed
<1> QED
  BY <1>2, TreeIs

\* A row with another parent: nothing else changes.
LEMMA MovedIs ==
    ASSUME NEW t, NEW r \in DOMAIN t, IsRow(t[r]), NEW p
    PROVE  LET u == [t EXCEPT ![r].up = p] IN
           /\ DOMAIN u = DOMAIN t /\ u[r].up = p
           /\ \A y \in DOMAIN t : y # r => u[y] = t[y]
<1>1. [t[r] EXCEPT !.up = p] = [text |-> t[r].text, flag |-> t[r].flag, up |-> p]
  BY DEF IsRow
<1> QED
  BY <1>1

\* Some numbers have a smallest one.
LEMMA Smallest ==
    ASSUME NEW S \in SUBSET Nat, S # {}
    PROVE  \E n \in S : \A m \in S : n <= m
<1> DEFINE R == {ss \in Nat \X Nat : ss[1] < ss[2]}
<1>0. IsWellFoundedOn(R, Nat)
  BY NatLessThanWellFounded DEF OpToRel
<1> HIDE DEF R
<1>1. PICK n \in S : \A m \in S : ~(<<m, n>> \in R)
  BY <1>0, WFMin
<1>2. \A m, n1 \in Nat : <<m, n1>> \in R <=> m < n1
  BY DEF R
<1>3. \A m \in S : m \in Nat /\ n \in Nat /\ ~(m < n)
  BY <1>1, <1>2
<1> QED
  BY <1>3

\* The server gives a new row an id of its own.
LEMMA NextRowIs ==
    ASSUME ~(Row \subseteq used)
    PROVE  NextRow \in Row \ used
<1>1. Row \ used \in SUBSET Nat /\ Row \ used # {}
  BY RowAssumption
<1>2. \E r \in Row \ used : \A x \in Row \ used : r <= x
  BY <1>1, Smallest
<1> QED
  BY <1>2 DEF NextRow

\* While the server's rows stay and no save is sent, what fits fits.
LEMMA FitsStays ==
    ASSUME NEW r, NEW p, Fits(r, p), UNCHANGED table, used \subseteq used',
           \A d \in calls' : d.kind \in FormCalls /\ d.phase = "sent" =>
              \E c \in calls : c.kind \in FormCalls /\ c.phase = "sent" /\ c.row = d.row
    PROVE  Fits(r, p)'
BY DEF Fits, Alone

\* The tree of the server leaves rows out, and changes none.
LEMMA CategoryTreeIs ==
    /\ DOMAIN CategoryTree \subseteq DOMAIN table
    /\ \A r \in DOMAIN CategoryTree : CategoryTree[r] = table[r]
<1> DEFINE kept == Restrict(table, Copied(table))
<1>1. DOMAIN kept \subseteq DOMAIN table /\ \A r \in DOMAIN kept : kept[r] = table[r]
  BY DEF Restrict, Copied
<1>2. Rooted(kept) \subseteq DOMAIN kept
  BY DEF Rooted
<1>3. CategoryTree = Restrict(kept, Rooted(kept))
  BY DEF CategoryTree
<1> HIDE DEF kept
<1> QED
  BY <1>1, <1>2, <1>3 DEF Restrict

\* The query of the list.
LEMMA FetchTree ==
    ASSUME TreeInv, FetchAnswered \/ FetchLands \/ FetchFails \/ Poll
    PROVE  TreeInv'
<1> SUFFICES ASSUME page = "categories" PROVE TreeInv'
  BY DEF TreeInv, FetchAnswered, FetchLands, FetchFails, Poll, tableVars
<1>1. /\ UNCHANGED <<page, table, used, others, hurried, form, calls>>
      /\ CategoriesOK /\ (~hurried /\ others = 0 => ParentsFit)
  BY DEF TreeInv, FetchAnswered, FetchLands, FetchFails, Poll, tableVars, frontVars, historyVars
<1>2. \A r, p : Fits(r, p) => Fits(r, p)'
  BY <1>1, FitsStays
<1>3. ASSUME \A r \in DOMAIN list' : IsRow(list'[r]),
             \A r \in DOMAIN fetch'.rows : IsRow(fetch'.rows[r]),
             ParentsFit => \A r \in DOMAIN list' : Fits(r, list[r].up)',
             ParentsFit => \A r \in DOMAIN fetch'.rows : Fits(r, fetch.rows[r].up)'
      PROVE  TreeInv'
  BY <1>1, <1>2, <1>3 DEF TreeInv, CategoriesOK, ParentsFit
<1>4. Empty = NotLoading.rows /\ DOMAIN Empty = {}
  BY DEF Empty, NotLoading
<1>5. CASE FetchAnswered
  <2>1. list' = list /\ fetch'.rows = CategoryTree
    BY <1>1, <1>5 DEF FetchAnswered, Answer, listVars, TreeInv
  <2>2. \A r \in DOMAIN fetch'.rows : r \in DOMAIN table /\ fetch'.rows[r] = table[r]
    BY <2>1, CategoryTreeIs
  <2>3. \A r \in DOMAIN table : Fits(r, table[r].up)
    BY <1>1 DEF Fits, CategoriesOK
  <2> QED
    BY <1>1, <1>2, <1>3, <2>1, <2>2, <2>3 DEF CategoriesOK, ParentsFit
<1>6. CASE FetchLands
  <2>1. fetch.phase = "answered" /\ list' = fetch.rows /\ fetch' = NotLoading
    BY <1>6 DEF FetchLands
  <2> QED
    BY <1>1, <1>2, <1>3, <1>4, <2>1 DEF CategoriesOK, ParentsFit
<1>7. CASE FetchFails
  <2>1. list' = list /\ fetch' = NotLoading
    BY <1>7 DEF FetchFails
  <2> QED
    BY <1>1, <1>2, <1>3, <1>4, <2>1 DEF CategoriesOK, ParentsFit
<1>8. CASE Poll
  BY <1>8 DEF Poll
<1> QED
  BY <1>5, <1>6, <1>7, <1>8

\* When all is quiet, the list shows nothing but rows that the server has.
LEMMA QuietTree ==
    ASSUME PageInv, TreeInv, page = "categories", Quiet, ~hurried, others = 0
    PROVE  /\ calls = {} /\ fetch.phase = "idle"
           /\ DOMAIN list \subseteq DOMAIN table /\ \A r \in DOMAIN list : list[r] = table[r]
           /\ \A r \in DOMAIN list : Fits(r, list[r].up)
<1>1. list = CategoryTree
  BY DEF PageInv, ListInv, Quiet, Answer
<1> QED
  BY <1>1, CategoryTreeIs DEF Quiet, TreeInv, ParentsFit

\* What the user does before a call is sent, and what goes on without a dialog.
LEMMA FormTree ==
    ASSUME PageInv, TreeInv, page = "categories",
           UNCHANGED <<page, table, used, others, list, fetch>>,
           (~hurried' => ~hurried),
           \A d \in calls' : \E c \in calls : /\ d.kind = c.kind /\ d.row = c.row
                                              /\ d.body = c.body /\ d.phase = c.phase,
           form'.open => IsRow(form'.draft),
           ~hurried' /\ others = 0 /\ form'.open /\ form'.row # 0 => Fits(form'.row, form'.draft.up)
    PROVE  TreeInv'
<1>1. \A r, p : Fits(r, p) => Fits(r, p)'
  BY FitsStays
<1>2. CategoriesOK'
  BY DEF TreeInv, CategoriesOK
<1>3. ~hurried' /\ others' = 0 => ParentsFit'
  BY <1>1 DEF TreeInv, ParentsFit
<1> QED
  BY <1>2, <1>3 DEF TreeInv

\* Opening a form or a confirmation, and leaving it.
LEMMA OpenTree ==
    ASSUME PageInv, TreeInv, page = "categories",
           \/ OpenCreate \/ CloseForm \/ DismissRemove
           \/ \E r \in DOMAIN list : OpenEdit(r) \/ AskRemove(r)
    PROVE  TreeInv'
<1>1. UNCHANGED <<page, table, used, others, list, fetch, hurried>>
  BY DEF OpenCreate, CloseForm, DismissRemove, OpenEdit, OpenForm, AskRemove, tableVars, listVars,
         historyVars
<1>2. CASE OpenCreate
  <2>1. form' = [open |-> TRUE, row |-> 0, draft |-> Blank, pending |-> FALSE] /\ calls' = calls
    BY <1>2 DEF OpenCreate, OpenForm, NoForm
  <2>2. IsRow(Blank)
    BY DEF IsRow, Blank
  <2> QED
    BY <1>1, <2>1, <2>2, FormTree
<1>3. ASSUME NEW r \in DOMAIN list, OpenEdit(r) PROVE TreeInv'
  <2>1. form' = [open |-> TRUE, row |-> r, draft |-> list[r], pending |-> FALSE] /\ calls' = calls
    BY <1>3 DEF OpenEdit, OpenForm, NoForm
  <2>2. IsRow(list[r]) /\ (~hurried /\ others = 0 => Fits(r, list[r].up))
    BY DEF TreeInv, CategoriesOK, ParentsFit
  <2> QED
    BY <1>1, <2>1, <2>2, FormTree
<1>4. ASSUME NEW kinds, Disown(kinds)
      PROVE  \A d \in calls' : \E c \in calls : /\ d.kind = c.kind /\ d.row = c.row
                                                /\ d.body = c.body /\ d.phase = c.phase
  BY <1>4, Disowned
<1>5. CASE CloseForm
  <2>1. Disown(FormCalls) /\ form' = NoForm /\ ~NoForm.open
    BY <1>5 DEF CloseForm, NoForm
  <2> QED
    BY <1>1, <1>4, <2>1, FormTree
<1>6. (form.open => IsRow(form.draft))
      /\ (~hurried /\ others = 0 /\ form.open /\ form.row # 0 => Fits(form.row, form.draft.up))
  BY DEF TreeInv, CategoriesOK, ParentsFit
<1>7. CASE DismissRemove
  <2>1. Disown({"delete", "cancel"}) /\ form' = form
    BY <1>7 DEF DismissRemove
  <2> QED
    BY <1>1, <1>4, <1>6, <2>1, FormTree
<1>8. CASE \E r \in DOMAIN list : AskRemove(r)
  <2>1. UNCHANGED <<form, calls>>
    BY <1>8 DEF AskRemove
  <2> QED
    BY <1>1, <1>6, <2>1, FormTree
<1> QED
  BY <1>2, <1>3, <1>5, <1>7, <1>8

\* A parent that is chosen over an up-to-date list is a root.
LEMMA EditTree ==
    ASSUME PageInv, TreeInv, page = "categories", EditDraft
    PROVE  TreeInv'
<1>1. UNCHANGED <<page, table, used, others, list, fetch, calls>> /\ form.open
  BY DEF EditDraft, tableVars, listVars
<1>2. PICK d \in FormOf(form, Blank).drafts :
        form' = [form EXCEPT !.draft = d] /\ hurried' = (hurried \/ (d.up # form.draft.up /\ ~Quiet))
  BY DEF EditDraft
<1>3. form' = [open |-> form.open, row |-> form.row, draft |-> d, pending |-> form.pending]
  BY <1>2 DEF PageInv, CallsInv
<1>4. form.draft = [text |-> form.draft.text, flag |-> form.draft.flag, up |-> form.draft.up]
  BY <1>1 DEF TreeInv, CategoriesOK, IsRow
<1>5. \/ \E x \in Text : d = [form.draft EXCEPT !.text = x]
      \/ \E p \in (Parents \ {form.row}) \cup {0} : d = [form.draft EXCEPT !.up = p]
  BY <1>2 DEF FormOf, CategoryForm, Form, Typed
<1>6. /\ IsRow(d)
      /\ d.up = form.draft.up \/ d.up \in (Parents \ {form.row}) \cup {0}
  <2>1. ASSUME NEW x, d = [form.draft EXCEPT !.text = x] PROVE IsRow(d) /\ d.up = form.draft.up
    <3>1. d = [text |-> x, flag |-> form.draft.flag, up |-> form.draft.up]
      BY <1>4, <2>1
    <3> QED
      BY <3>1 DEF IsRow
  <2>2. ASSUME NEW p, d = [form.draft EXCEPT !.up = p] PROVE IsRow(d) /\ d.up = p
    <3>1. d = [text |-> form.draft.text, flag |-> form.draft.flag, up |-> p]
      BY <1>4, <2>2
    <3> QED
      BY <3>1 DEF IsRow
  <2> QED
    BY <1>5, <2>1, <2>2
<1>7. ASSUME ~hurried', others = 0, form.row # 0 PROVE Fits(form.row, d.up)
  <2>1. ~hurried /\ Fits(form.row, form.draft.up)
    BY <1>1, <1>2, <1>7 DEF TreeInv, ParentsFit
  <2>2. CASE d.up # form.draft.up
    <3>1. Quiet
      BY <1>2, <1>7, <2>2
    <3>2. DOMAIN list \subseteq DOMAIN table /\ (\A r \in DOMAIN list : list[r] = table[r]) /\ calls = {}
      BY <1>7, <2>1, <3>1, QuietTree
    <3>3. d.up = 0 \/ (d.up \in DOMAIN table \ {form.row} /\ table[d.up].up = 0)
      BY <1>6, <2>2, <3>2 DEF Parents
    <3>4. form.row \in used /\ d.up \in used \cup {0}
      BY <2>1, <3>3 DEF Fits, TreeInv, CategoriesOK
    <3>5. ASSUME form.row \in DOMAIN table PROVE Tree([table EXCEPT ![form.row].up = d.up])
      <4> DEFINE u == [table EXCEPT ![form.row].up = d.up]
      <4>1. /\ DOMAIN u = DOMAIN table /\ u[form.row].up = d.up
            /\ \A y \in DOMAIN table : y # form.row => u[y] = table[y]
        BY <3>5, MovedIs DEF TreeInv, CategoriesOK
      <4>2. Tree(table)
        BY <1>7, <2>1 DEF TreeInv, ParentsFit
      <4> HIDE DEF u
      <4>3. Tree(u)
        BY <3>3, <3>5, <4>1, <4>2, RootKeepsTree
      <4> QED
        BY <4>3 DEF u
    <3> QED
      BY <3>2, <3>4, <3>5 DEF Fits, Alone
  <2> QED
    BY <2>1, <2>2
<1>8. ~hurried' => ~hurried
  BY <1>2
<1> QED
  BY <1>1, <1>3, <1>6, <1>7, <1>8, FormTree

\* A save that is sent over an up-to-date list is the only one under way.
LEMMA SubmitTree ==
    ASSUME PageInv, TreeInv, page = "categories", Submit
    PROVE  TreeInv'
<1> DEFINE new == NewCall(IF form.row = 0 THEN "create" ELSE "update", form.row, form)
<1>1. /\ new.kind = (IF form.row = 0 THEN "create" ELSE "update") /\ new.row = form.row
      /\ new.body = form
  BY DEF NewCall
<1>2. /\ UNCHANGED <<page, table, used, others, list, fetch>> /\ form.open
      /\ calls' = calls \cup {new} /\ hurried' = (hurried \/ ~Quiet)
      /\ form' = [form EXCEPT !.pending = TRUE]
  BY DEF Submit, Send, tableVars, listVars
<1>3. form' = [open |-> form.open, row |-> form.row, draft |-> form.draft, pending |-> TRUE]
  BY <1>2 DEF PageInv, CallsInv
<1> HIDE DEF new
<1>4. CategoriesOK'
  BY <1>1, <1>2, <1>3 DEF TreeInv, CategoriesOK
<1>5. ASSUME ~hurried', others' = 0 PROVE ParentsFit'
  <2>1. ~hurried /\ others = 0 /\ Quiet /\ ParentsFit
    BY <1>2, <1>5 DEF TreeInv
  <2>2. /\ calls = {} /\ fetch.phase = "idle"
        /\ DOMAIN list \subseteq DOMAIN table /\ \A r \in DOMAIN list : list[r] = table[r]
    BY <2>1, QuietTree
  <2>3. \A r \in DOMAIN list' : Fits(r, list[r].up)'
    BY <1>2, <2>1, <2>2 DEF ParentsFit, Fits
  <2>4. form.row # 0 => Fits(form.row, form.draft.up)'
    BY <1>1, <1>2, <2>1, <2>2 DEF ParentsFit, Fits, Alone
  <2> QED
    BY ZenonT(60), <1>1, <1>2, <1>3, <2>1, <2>2, <2>3, <2>4 DEF ParentsFit
<1> QED
  BY <1>2, <1>4, <1>5 DEF TreeInv

\* A deletion may be sent at any time.
LEMMA RemoveTree ==
    ASSUME PageInv, TreeInv, page = "categories", ConfirmRemove
    PROVE  TreeInv'
<1> DEFINE new == NewCall("delete", question.row, NoForm)
<1>1. new.kind = "delete"
  BY DEF NewCall
<1>2. UNCHANGED <<page, table, used, others, hurried, list, fetch, form>> /\ calls' = calls \cup {new}
  BY DEF ConfirmRemove, Send, tableVars, listVars, historyVars
<1> HIDE DEF new
<1>3. \A r, p : Fits(r, p) => Fits(r, p)'
  BY <1>1, <1>2 DEF Fits, Alone, FormCalls
<1>4. CategoriesOK'
  BY <1>1, <1>2 DEF TreeInv, CategoriesOK
<1>5. ~hurried' /\ others' = 0 => ParentsFit'
  BY <1>1, <1>2, <1>3 DEF TreeInv, ParentsFit
<1> QED
  BY <1>2, <1>4, <1>5 DEF TreeInv

\* A call that the server has answered is the same call.
LEMMA CallAnswered ==
    ASSUME PageInv, NEW c \in calls, NEW phase, ToPhase(c, phase), phase # "sent"
    PROVE  /\ \A d \in calls' : \E e \in calls : /\ d.kind = e.kind /\ d.row = e.row
                                                 /\ d.body = e.body
                                                 /\ d.phase = "sent" => d = e /\ e # c
<1> DEFINE new == [c EXCEPT !.phase = phase]
<1>1. new = [kind |-> c.kind, row |-> c.row, body |-> c.body, own |-> c.own, phase |-> phase]
  BY DEF PageInv, CallsInv, ACall
<1>2. /\ new.kind = c.kind /\ new.row = c.row /\ new.body = c.body /\ new.phase = phase
      /\ calls' = (calls \ {c}) \cup {new}
  BY <1>1 DEF ToPhase
<1> HIDE DEF new
<1> QED
  BY <1>2

\* The end of a call leaves the server alone.
LEMMA EndTree ==
    ASSUME PageInv, TreeInv, page = "categories", NEW c \in calls,
           Refused(c) \/ Succeeded(c) \/ Failed(c)
    PROVE  TreeInv'
<1>1. /\ UNCHANGED <<page, table, used, others, list, hurried>>
      /\ fetch' = fetch \/ fetch' = Loading
      /\ \/ form' = NoForm
         \/ form' = [form EXCEPT !.pending = FALSE]
         \/ form' = form
      /\ ToPhase(c, "refused") \/ calls' = calls \ {c}
  <2>1. CASE Refused(c)
    BY <2>1 DEF Refused, tableVars, listVars, frontVars, historyVars
  <2>2. CASE Succeeded(c)
    BY <2>2 DEF Succeeded, Renew, Invalidate, tableVars, historyVars
  <2>3. CASE Failed(c)
    <3>1. /\ UNCHANGED <<page, table, used, others, list, hurried>> /\ calls' = calls \ {c}
          /\ form' = IF c.own /\ c.kind \in FormCalls THEN [form EXCEPT !.pending = FALSE] ELSE form
          /\ IF c.kind = "toggle" THEN fetch' = Loading ELSE fetch' = fetch
      BY <2>3 DEF Failed, Invalidate, tableVars
    <3> QED
      BY <3>1
  <2> QED
    BY <2>1, <2>2, <2>3
<1>2. \A d \in calls' : \E e \in calls : /\ d.kind = e.kind /\ d.row = e.row /\ d.body = e.body
                                         /\ d.phase = "sent" => d = e
  BY <1>1, CallAnswered
<1>3. \A r, p : Fits(r, p) => Fits(r, p)'
  BY <1>1, <1>2 DEF Fits, Alone
<1>4. /\ form'.open => form.open /\ form'.row = form.row /\ form'.draft = form.draft
      /\ fetch'.phase = "answered" => fetch' = fetch
      /\ \A r \in DOMAIN fetch'.rows : r \in DOMAIN fetch.rows /\ fetch'.rows[r] = fetch.rows[r]
  <2>1. form = [open |-> form.open, row |-> form.row, draft |-> form.draft, pending |-> form.pending]
    BY DEF PageInv, CallsInv
  <2>2. form'.open => form.open /\ form'.row = form.row /\ form'.draft = form.draft
    BY <1>1, <2>1 DEF NoForm
  <2>3. Loading.phase = "sent" /\ DOMAIN Loading.rows = {}
    BY DEF Loading, Empty
  <2> QED
    BY <1>1, <2>2, <2>3
<1>5. CategoriesOK'
  <2>1. \A d \in calls' : /\ d.kind \in {"create", "update", "delete"}
                          /\ d.kind # "delete" => IsRow(d.body.draft)
                          /\ d.kind = "create" => d.row = 0
    BY <1>2 DEF TreeInv, CategoriesOK
  <2> QED
    BY <1>1, <1>4, <2>1 DEF TreeInv, CategoriesOK
<1>6. ~hurried' /\ others' = 0 => ParentsFit'
  BY <1>1, <1>2, <1>3, <1>4 DEF TreeInv, ParentsFit
<1> QED
  BY <1>1, <1>5, <1>6 DEF TreeInv

\* What a save, or a deletion, makes of the server's rows.
RowSaved(r, old, new) ==
    table' = [x \in DOMAIN table \cup {r} |->
                IF x = r THEN [old EXCEPT !.text = new.text, !.up = new.up] ELSE table[x]]
LEMMA PerformedIs ==
    ASSUME TreeInv, page = "categories", NEW c \in calls, Performed(c)
    PROVE  \/ /\ c.kind = "create" /\ c.row = 0
              /\ NextRow \in Row \ used /\ used' = used \cup {NextRow}
              /\ c.body.draft.up \in DOMAIN table \cup {0}
              /\ RowSaved(NextRow, Blank, c.body.draft)
           \/ /\ c.kind = "update" /\ c.row \in DOMAIN table /\ used' = used
              /\ c.body.draft.up \in (DOMAIN table \cup {0}) \ {c.row}
              /\ RowSaved(c.row, table[c.row], c.body.draft)
           \/ /\ c.kind = "delete" /\ c.row \in DOMAIN table /\ used' = used
              /\ Drop(c.row)
<1>0. c.kind \in {"create", "update", "delete"} /\ (c.kind = "create" => c.row = 0)
  BY DEF TreeInv, CategoriesOK
<1>1. \A f, old : FormOf(f, old).row = [old EXCEPT !.text = f.draft.text, !.up = f.draft.up]
  BY DEF FormOf, CategoryForm, Form
<1>2. Accepts(c) /\ Perform(c) /\ (c.kind = "create" => ~(Row \subseteq used))
      /\ used' = used \cup (IF c.kind = "create" THEN {NextRow} ELSE {})
  BY DEF Performed
<1>3. CASE c.kind = "create"
  BY <1>0, <1>1, <1>2, <1>3, NextRowIs DEF Accepts, Perform, ParentOK, Store, RowSaved
<1>4. CASE c.kind = "update"
  BY <1>1, <1>2, <1>4 DEF Accepts, Perform, ParentOK, Store, RowSaved
<1>5. CASE c.kind = "delete"
  BY <1>2, <1>5 DEF Accepts, Perform
<1> QED
  BY <1>0, <1>3, <1>4, <1>5

\* The rows after a save.
LEMMA SavedIs ==
    ASSUME NEW r, NEW old, IsRow(old), NEW new, RowSaved(r, old, new)
    PROVE  /\ DOMAIN table' = DOMAIN table \cup {r}
           /\ IsRow(table'[r]) /\ table'[r].up = new.up
           /\ \A x \in DOMAIN table : x # r => table'[x] = table[x]
<1>1. [old EXCEPT !.text = new.text, !.up = new.up]
        = [text |-> new.text, flag |-> old.flag, up |-> new.up]
  <2> DEFINE n == [old EXCEPT !.text = new.text, !.up = new.up]
  <2>1. DOMAIN old = {"text", "flag", "up"}
    BY DEF IsRow
  <2>2. DOMAIN n = DOMAIN old /\ n = [x \in DOMAIN n |-> n[x]]
    OBVIOUS
  <2>3. n["text"] = new.text /\ n["up"] = new.up /\ n["flag"] = old["flag"]
    BY <2>1
  <2> HIDE DEF n
  <2>4. n = [text |-> new.text, flag |-> old.flag, up |-> new.up]
    BY <2>1, <2>2, <2>3
  <2> QED
    BY <2>4 DEF n
<1> QED
  BY <1>1 DEF RowSaved, IsRow

\* The rows after a deletion.
LEMMA DropIs ==
    ASSUME NEW r, Drop(r), \A x \in DOMAIN table : IsRow(table[x])
    PROVE  /\ DOMAIN table' = DOMAIN table \ {r}
           /\ \A x \in DOMAIN table' :
                /\ IsRow(table'[x])
                /\ table'[x].up = IF table[x].up = r THEN 0 ELSE table[x].up
<1>1. DOMAIN table' = DOMAIN table \ {r}
  BY DEF Drop
<1>2. ASSUME NEW x \in DOMAIN table'
      PROVE  /\ IsRow(table'[x])
             /\ table'[x].up = IF table[x].up = r THEN 0 ELSE table[x].up
  <2>1. table'[x] = [table[x] EXCEPT !.up = IF @ = r THEN 0 ELSE @] /\ x \in DOMAIN table
    BY <1>1, <1>2 DEF Drop
  <2>2. IsRow(table[x])
    BY <2>1
  <2>3. table'[x] = [text |-> table[x].text, flag |-> table[x].flag,
                     up |-> IF table[x].up = r THEN 0 ELSE table[x].up]
    BY <2>1, <2>2 DEF IsRow
  <2> QED
    BY <2>3 DEF IsRow
<1> QED
  BY <1>1, <1>2

\* The server performs a save or a deletion.
LEMMA PerformedTree ==
    ASSUME PageInv, TreeInv, page = "categories", NEW c \in calls, Performed(c)
    PROVE  TreeInv'
<1>1. /\ UNCHANGED <<page, others, list, fetch, form, hurried>>
      /\ c.phase = "sent" /\ ToPhase(c, "applied")
  BY DEF Performed, listVars, frontVars
<1>2. CategoriesOK /\ (~hurried /\ others = 0 => ParentsFit)
  BY DEF TreeInv
<1>3. \A d \in calls' : \E e \in calls : /\ d.kind = e.kind /\ d.row = e.row /\ d.body = e.body
                                         /\ d.phase = "sent" => d = e /\ e # c
  BY <1>1, CallAnswered
<1>4. \A d \in calls' : /\ d.kind \in {"create", "update", "delete"}
                        /\ d.kind # "delete" => IsRow(d.body.draft)
                        /\ d.kind = "create" => d.row = 0
  BY <1>2, <1>3 DEF CategoriesOK
<1>5. ASSUME DOMAIN table' \subseteq used', used \subseteq used', used' \subseteq Row,
             \A r \in DOMAIN table' : IsRow(table'[r]) /\ table'[r].up \in used' \cup {0},
             ~hurried /\ others = 0 =>
                Tree(table') /\ \A r, p : Fits(r, p) => Fits(r, p)'
      PROVE  TreeInv'
  <2>1. CategoriesOK'
    BY <1>1, <1>2, <1>4, <1>5 DEF CategoriesOK
  <2>2. ~hurried' /\ others' = 0 => ParentsFit'
    BY <1>1, <1>2, <1>3, <1>5 DEF ParentsFit
  <2> QED
    BY <1>1, <2>1, <2>2 DEF TreeInv
<1>6. 0 \notin used /\ IsRow(Blank)
  BY <1>2, RowAssumption DEF CategoriesOK, IsRow, Blank
<1>7. \A r : Alone(r) => Alone(r)'
  BY <1>3 DEF Alone
<1>8. CASE /\ c.kind = "create" /\ c.row = 0
           /\ NextRow \in Row \ used /\ used' = used \cup {NextRow}
           /\ c.body.draft.up \in DOMAIN table \cup {0}
           /\ RowSaved(NextRow, Blank, c.body.draft)
  <2> DEFINE new == NextRow
  <2>1. /\ new \in Row \ used /\ used' = used \cup {new}
        /\ RowSaved(new, Blank, c.body.draft) /\ new \notin DOMAIN table
    BY <1>2, <1>8 DEF CategoriesOK
  <2> HIDE DEF new
  <2>2. /\ DOMAIN table' = DOMAIN table \cup {new}
        /\ IsRow(table'[new]) /\ table'[new].up = c.body.draft.up
        /\ \A x \in DOMAIN table : x # new => table'[x] = table[x]
    BY <1>6, <2>1, SavedIs
  <2>3. ASSUME ~hurried, others = 0 PROVE Tree(table')
    BY <1>2, <1>8, <2>1, <2>2, <2>3, AddKeepsTree DEF ParentsFit
  <2>4. \A r, p : Fits(r, p) => Fits(r, p)'
    <3> SUFFICES ASSUME NEW r, NEW p, Fits(r, p) PROVE Fits(r, p)'
      OBVIOUS
    <3>1. r # new /\ p # new /\ r \in used' /\ p \in used' \cup {0}
      BY <1>6, <2>1, RowAssumption DEF Fits
    <3>2. ~Alone(r)
      BY <1>1, <1>6, <1>8 DEF Alone, FormCalls, Fits
    <3> QED
      BY <2>1, <2>2, <3>1, <3>2 DEF Fits
  <2>5. /\ DOMAIN table' \subseteq used' /\ used \subseteq used' /\ used' \subseteq Row
        /\ \A r \in DOMAIN table' : IsRow(table'[r]) /\ table'[r].up \in used' \cup {0}
    BY <1>2, <1>8, <2>1, <2>2 DEF CategoriesOK
  <2> QED
    BY <1>5, <2>3, <2>4, <2>5
<1>9. CASE /\ c.kind = "update" /\ c.row \in DOMAIN table /\ used' = used
           /\ c.body.draft.up \in (DOMAIN table \cup {0}) \ {c.row}
           /\ RowSaved(c.row, table[c.row], c.body.draft)
  <2>0. /\ DOMAIN table' = DOMAIN table
        /\ IsRow(table'[c.row]) /\ table'[c.row].up = c.body.draft.up
        /\ \A x \in DOMAIN table : x # c.row => table'[x] = table[x]
    <3>1. IsRow(table[c.row])
      BY <1>2, <1>9 DEF CategoriesOK
    <3>2. /\ DOMAIN table' = DOMAIN table \cup {c.row}
          /\ IsRow(table'[c.row]) /\ table'[c.row].up = c.body.draft.up
          /\ \A x \in DOMAIN table : x # c.row => table'[x] = table[x]
      BY <1>9, <3>1, SavedIs
    <3> QED
      BY <1>9, <3>2
  <2> DEFINE q == c.body.draft.up
  <2>1. /\ DOMAIN table' = DOMAIN table
        /\ IsRow(table'[c.row]) /\ table'[c.row].up = q
        /\ \A x \in DOMAIN table : x # c.row => table'[x] = table[x]
    BY <2>0
  <2>2. q \in (DOMAIN table \cup {0}) \ {c.row}
    BY <1>9
  <2> HIDE DEF q
  <2>3. ASSUME NEW p
        PROVE  LET u == [table EXCEPT ![c.row].up = p] IN
               /\ DOMAIN u = DOMAIN table /\ u[c.row].up = p
               /\ \A y \in DOMAIN table : y # c.row => u[y] = table[y]
    BY ZenonT(60), <1>2, <1>9, MovedIs DEF CategoriesOK
  <2>4. ASSUME NEW p
        PROVE  LET u == [table' EXCEPT ![c.row].up = p] IN
               /\ DOMAIN u = DOMAIN table /\ u[c.row].up = p
               /\ \A y \in DOMAIN table : y # c.row => u[y] = table[y]
    BY <1>9, <2>1, MovedIs
  <2>5. ASSUME ~hurried, others = 0 PROVE Tree(table')
    <3>1. Tree(table) /\ Fits(c.row, q)
      BY <1>2, <1>9, <2>5 DEF ParentsFit, q
    <3>2. CASE q = table[c.row].up
      BY <2>1, <3>1, <3>2, SameParents
    <3>3. CASE Tree([table EXCEPT ![c.row].up = q])
      <4> DEFINE u == [table EXCEPT ![c.row].up = q]
      <4>1. DOMAIN u = DOMAIN table' /\ \A y \in DOMAIN u : table'[y].up = u[y].up
        BY <2>1, <2>3
      <4>2. Tree(u)
        BY <3>3
      <4> HIDE DEF u
      <4> QED
        BY <4>1, <4>2, SameParents
    <3> QED
      BY <1>9, <2>2, <3>1, <3>2, <3>3 DEF Fits
  <2>6. ASSUME ~hurried, others = 0, NEW r, NEW p, Fits(r, p) PROVE Fits(r, p)'
    <3>1. r \in used' /\ p \in used' \cup {0}
      BY <1>9, <2>6 DEF Fits
    <3>2. CASE r # c.row
      <4>1. ~Alone(r)
        BY <1>1, <1>9, <3>2 DEF Alone, FormCalls
      <4> QED
        BY <2>1, <2>6, <3>1, <3>2, <4>1 DEF Fits
    <3>3. CASE r = c.row
      <4> SUFFICES ASSUME p \in (DOMAIN table \cup {0}) \ {c.row}, p # q
                   PROVE  Tree([table' EXCEPT ![c.row].up = p]) /\ Alone(c.row)'
        BY <2>1, <3>1, <3>3 DEF Fits
      <4>1. Tree([table EXCEPT ![c.row].up = p]) /\ (p # table[c.row].up => Alone(c.row))
        <5>1. CASE p = table[c.row].up
          <6> DEFINE u == [table EXCEPT ![c.row].up = p]
          <6>1. DOMAIN u = DOMAIN table /\ \A y \in DOMAIN table : u[y].up = table[y].up
            BY <2>3, <5>1
          <6>2. Tree(table)
            BY <1>2, <2>6 DEF ParentsFit
          <6> HIDE DEF u
          <6>3. Tree(u)
            BY <6>1, <6>2, SameParents
          <6> QED
            BY <5>1, <6>3 DEF u
        <5>2. CASE p # table[c.row].up
          BY <1>9, <2>6, <3>3, <5>2 DEF Fits
        <5> QED
          BY <5>1, <5>2
      <4>2. Alone(c.row)
        <5>1. CASE p = table[c.row].up
          <6>1. Fits(c.row, q) /\ q # table[c.row].up
            BY <1>2, <1>9, <2>6, <5>1 DEF ParentsFit, q
          <6> QED
            BY <1>9, <2>2, <6>1 DEF Fits
        <5> QED
          BY <4>1, <5>1
      <4>3. Tree([table' EXCEPT ![c.row].up = p])
        <5> DEFINE u == [table EXCEPT ![c.row].up = p]
                   w == [table' EXCEPT ![c.row].up = p]
        <5>1. DOMAIN w = DOMAIN u /\ \A y \in DOMAIN u : w[y].up = u[y].up
          BY <2>3, <2>4
        <5>2. Tree(u)
          BY <4>1
        <5> HIDE DEF u, w
        <5>3. Tree(w)
          BY <5>1, <5>2, SameParents
        <5> QED
          BY <5>3 DEF w
      <4> QED
        BY <1>7, <4>2, <4>3
    <3> QED
      BY <3>2, <3>3
  <2>7. /\ DOMAIN table' \subseteq used' /\ used \subseteq used' /\ used' \subseteq Row
        /\ \A r \in DOMAIN table' : IsRow(table'[r]) /\ table'[r].up \in used' \cup {0}
    BY <1>2, <1>9, <2>1, <2>2 DEF CategoriesOK
  <2> QED
    BY <1>5, <2>5, <2>6, <2>7
<1>10. CASE c.kind = "delete" /\ c.row \in DOMAIN table /\ used' = used /\ Drop(c.row)
  <2> DEFINE x == c.row
  <2>1. /\ DOMAIN table' = DOMAIN table \ {x} /\ x \in DOMAIN table
        /\ \A y \in DOMAIN table' :
             /\ IsRow(table'[y])
             /\ table'[y].up = IF table[y].up = x THEN 0 ELSE table[y].up
    BY <1>2, <1>10, DropIs DEF CategoriesOK
  <2> HIDE DEF x
  <2>2. ASSUME ~hurried, others = 0 PROVE Tree(table')
    BY <1>2, <2>1, <2>2, DropKeepsTree DEF ParentsFit
  <2>3. \A r, p : Fits(r, p) => Fits(r, p)'
    <3> SUFFICES ASSUME NEW r, NEW p, Fits(r, p),
                        r \in DOMAIN table', p \in (DOMAIN table' \cup {0}) \ {r},
                        p # table'[r].up
                 PROVE  Tree([table' EXCEPT ![r].up = p]) /\ Alone(r)'
      BY <1>10 DEF Fits
    <3>1. x # 0 /\ p # x
      BY <1>2, <1>6, <2>1 DEF CategoriesOK
    <3>2. p # table[r].up
      BY <2>1, <3>1
    <3>3. Tree([table EXCEPT ![r].up = p]) /\ Alone(r)
      BY <2>1, <3>2 DEF Fits
    <3> DEFINE u == [table EXCEPT ![r].up = p]
               w == [table' EXCEPT ![r].up = p]
    <3>4. /\ DOMAIN u = DOMAIN table /\ u[r].up = p
          /\ \A y \in DOMAIN table : y # r => u[y] = table[y]
      BY ZenonT(60), <1>2, <2>1, MovedIs DEF CategoriesOK
    <3>5. /\ DOMAIN w = DOMAIN table' /\ w[r].up = p
          /\ \A y \in DOMAIN table' : y # r => w[y] = table'[y]
      BY <2>1, MovedIs
    <3>6. Tree(u)
      BY <3>3
    <3> HIDE DEF u, w
    <3>7. Tree(w)
      <4>1. \A y \in DOMAIN w : w[y].up = IF u[y].up = x THEN 0 ELSE u[y].up
        BY <2>1, <3>1, <3>4, <3>5
      <4>2. x \in DOMAIN u /\ DOMAIN w = DOMAIN u \ {x}
        BY <2>1, <3>4, <3>5
      <4> QED
        BY <3>6, <4>1, <4>2, DropKeepsTree
    <3> QED
      BY <1>7, <3>3, <3>7 DEF w
  <2>4. /\ DOMAIN table' \subseteq used' /\ used \subseteq used' /\ used' \subseteq Row
        /\ \A r \in DOMAIN table' : IsRow(table'[r]) /\ table'[r].up \in used' \cup {0}
    BY <1>2, <1>10, <2>1 DEF CategoriesOK
  <2> QED
    BY <1>5, <2>2, <2>3, <2>4
<1> QED
  BY <1>8, <1>9, <1>10, PerformedIs

\* Somebody else changes or deletes a category; nothing is said of parents then.
LEMMA OtherTree ==
    ASSUME TreeInv, page = "categories", NEW r \in Row, OtherChange(r)
    PROVE  TreeInv'
<1>1. /\ UNCHANGED <<page, used, list, fetch, form, calls>> /\ others' = others + 1
      /\ r \in DOMAIN table
      /\ \/ \E t \in Text : Store(r, [table[r] EXCEPT !.text = t])
         \/ Drop(r)
  BY DEF OtherChange, frontVars
<1>2. CategoriesOK
  BY DEF TreeInv
<1>3. /\ DOMAIN table' \subseteq used
      /\ \A x \in DOMAIN table' : IsRow(table'[x]) /\ table'[x].up \in used \cup {0}
  <2>1. ASSUME NEW t, Store(r, [table[r] EXCEPT !.text = t])
        PROVE  /\ DOMAIN table' \subseteq used
               /\ \A x \in DOMAIN table' : IsRow(table'[x]) /\ table'[x].up \in used \cup {0}
    <3>1. IsRow(table[r])
      BY <1>1, <1>2 DEF CategoriesOK
    <3>2. [table[r] EXCEPT !.text = t] = [text |-> t, flag |-> table[r].flag, up |-> table[r].up]
      BY <3>1 DEF IsRow
    <3> QED
      BY <1>1, <1>2, <2>1, <3>2 DEF Store, CategoriesOK, IsRow
  <2>2. CASE Drop(r)
    BY <1>2, <2>2, DropIs DEF CategoriesOK
  <2> QED
    BY <1>1, <2>1, <2>2
<1>4. CategoriesOK' /\ others' # 0
  BY <1>1, <1>2, <1>3 DEF CategoriesOK
<1> QED
  BY <1>4 DEF TreeInv

\* A page that has just been opened has roots only.
LEMMA TreeInit == PageInit(DOMAIN Limits) => TreeInv
<1> SUFFICES ASSUME PageInit(DOMAIN Limits), page = "categories" PROVE CategoriesOK /\ ParentsFit
  BY DEF TreeInv
<1>1. /\ table = [r \in {x \in Row : x <= 2} |-> Row0(page, r)]
      /\ list = Empty /\ fetch = Loading /\ calls = {} /\ form = NoForm
      /\ others = 0 /\ used = DOMAIN table
  BY DEF PageInit
<1>2. \A r \in DOMAIN table : table[r] = [text |-> "a", flag |-> FALSE, up |-> 0]
  BY <1>1 DEF Row0, Blank
<1>3. DOMAIN Empty = {} /\ Loading.rows = Empty /\ ~NoForm.open /\ DOMAIN table \subseteq Row
  BY <1>1 DEF Empty, Loading, NoForm
<1>4. \A r \in DOMAIN table : IsRow(table[r]) /\ table[r].up = 0
  BY <1>2 DEF IsRow
<1>5. Tree(table)
  BY <1>4, TreeIs DEF Closed
<1> QED
  BY <1>1, <1>3, <1>4, <1>5 DEF CategoriesOK, ParentsFit

\* Every step keeps the categories a tree.
LEMMA TreeNext == PageInv /\ TreeInv /\ [PageNext]_pageVars => TreeInv'
<1> SUFFICES ASSUME PageInv, TreeInv, [PageNext]_pageVars PROVE TreeInv'
  OBVIOUS
<1>1. page' = page
  BY DEF PageNext, PageUser, PageSystem, OpenCreate, OpenEdit, OpenForm, EditDraft, Submit, CloseForm,
         ConfirmRemove, DismissRemove, Toggle, AskRemove, Act, FetchAnswered, FetchLands, FetchFails,
         Performed, Refused, Succeeded, Failed, Poll, OtherChange, pageVars, tableVars
<1>2. CASE page # "categories"
  BY <1>1, <1>2 DEF TreeInv
<1>3. CASE page = "categories"
  <2>1. CASE UNCHANGED pageVars
    <3>1. UNCHANGED <<page, table, used, others, list, fetch, form, calls, hurried>>
      BY <2>1 DEF pageVars, tableVars, listVars, frontVars, historyVars
    <3> QED
      BY <3>1 DEF TreeInv, CategoriesOK, ParentsFit, Fits, Alone
  <2>2. ASSUME NEW r, Toggle(r) PROVE FALSE
    BY <1>3, <2>2 DEF Toggle, Rows, CategoriesPage, RowOf
  <2>3. ASSUME NEW r, NEW kind, Act(r, kind) PROVE FALSE
    BY <1>3, <2>3 DEF Act
  <2> QED
    BY <1>3, <2>1, <2>2, <2>3, OpenTree, EditTree, SubmitTree, RemoveTree, FetchTree, PerformedTree,
       EndTree, OtherTree DEF PageNext, PageUser, PageSystem
<1> QED
  BY <1>2, <1>3

\* The parents of every category lead to a root, as long as parents are chosen and
\* saved over a list that is up to date and nobody else changes the categories, for
\* any number of them and of calls that fail or are answered late, and though the
\* list lacks the categories that the server's tree has lost (FreshParentsKeepTree).
THEOREM SpecFreshParentsKeepTree == PageSpec => []FreshParentsKeepTree
<1>1. TreeInv => FreshParentsKeepTree
  BY DEF TreeInv, ParentsFit, Tree, FreshParentsKeepTree
<1> QED
  BY <1>1, TreeInit, TreeNext, PageInitInv, PageNextInv, PTL DEF PageSpec

-----------------------------------------------------------------------------
(* The settings page.                                                      *)

Shape(f) ==
    f = [kind |-> f.kind, keys |-> f.keys, body |-> f.body, phase |-> f.phase,
         fresh |-> f.fresh, nr |-> f.nr]
SwitchKeys(f) == (f.kind = "switch" /\ "on" \in f.keys) \/ (f.kind # "switch" /\ "on" \notin f.keys)
GoodFlow(f) == Shape(f) /\ SwitchKeys(f)

SettingsInv ==
    /\ \A f \in flows : GoodFlow(f)
    /\ "on" \in DOMAIN stored
    /\ SwitchNotUndone

\* A page that loads its settings has sent nothing.
LEMMA SettingsInitInv == SettingsInit => SettingsInv
  BY DEF SettingsInit, SettingsInv, GoodFlow, Shape, SwitchKeys, SwitchNotUndone

\* What a page sends names the key of a switch only to switch it.
LEMMA FlowStartInv == SettingsInv /\ (SaveGroup \/ SetBool) => SettingsInv'
<1> SUFFICES ASSUME SettingsInv, SaveGroup \/ SetBool PROVE SettingsInv'
  OBVIOUS
<1>1. \A keys, body : /\ "on" \notin keys => GoodFlow(Flow("group", keys, body))
                      /\ "on" \in keys => GoodFlow(Flow("switch", keys, body))
  BY DEF GoodFlow, Shape, SwitchKeys, Flow
<1>2. \A f \in flows' : GoodFlow(f)
  BY <1>1 DEF SettingsInv, SaveGroup, SetBool, Start, SentKeys
<1> QED
  BY <1>2 DEF SettingsInv, SaveGroup, SetBool, SwitchNotUndone

\* The server changes the switch only for the flow of a switch, and that is the
\* last one to have taken effect then.
LEMMA PatchInv == ASSUME SettingsInv, NEW f \in flows, Patch(f) PROVE SettingsInv'
<1>1. GoodFlow(f)
  BY DEF SettingsInv
<1>2. GoodFlow([f EXCEPT !.phase = "get"])
  BY <1>1 DEF GoodFlow, Shape, SwitchKeys
<1>3. \A g \in flows' : GoodFlow(g)
  BY <1>2 DEF SettingsInv, Patch, Step
<1>4. /\ "on" \in DOMAIN stored'
      /\ stored'.on = IF "on" \in f.keys THEN f.body.on ELSE stored.on
  BY DEF SettingsInv, Patch
<1>5. switched' = IF f.kind = "switch" THEN f.body.on ELSE switched
  BY DEF Patch
<1>6. SwitchNotUndone'
  <2>1. f.kind = "switch" <=> "on" \in f.keys
    BY <1>1 DEF GoodFlow, SwitchKeys
  <2>2. stored.on = switched
    BY DEF SettingsInv, SwitchNotUndone
  <2>3. CASE f.kind = "switch"
    BY <1>4, <1>5, <2>1, <2>3 DEF SwitchNotUndone
  <2>4. CASE f.kind # "switch"
    BY <1>4, <1>5, <2>1, <2>2, <2>4 DEF SwitchNotUndone
  <2> QED
    BY <2>3, <2>4
<1> QED
  BY <1>3, <1>4, <1>6 DEF SettingsInv

\* What comes back changes nothing on the server.
LEMMA AnswerInv ==
    ASSUME SettingsInv, NEW f \in flows, Get(f) \/ SetData(f) \/ FlowFails(f)
    PROVE  SettingsInv'
<1>1. UNCHANGED <<stored, switched>>
  BY DEF Get, SetData, FlowFails
<1>2. GoodFlow([f EXCEPT !.fresh = stored])
  BY DEF SettingsInv, GoodFlow, Shape, SwitchKeys
<1>3. flows' \subseteq flows \cup {[f EXCEPT !.fresh = stored]}
  BY DEF Get, SetData, FlowFails, Step
<1>4. \A g \in flows' : GoodFlow(g)
  BY <1>2, <1>3, Zenon DEF SettingsInv
<1> QED
  BY <1>1, <1>4 DEF SettingsInv, SwitchNotUndone

\* Every step keeps the inductive invariant.
LEMMA SettingsStepInv == SettingsInv /\ [SettingsNext]_settingsVars => SettingsInv'
<1> SUFFICES ASSUME SettingsInv, [SettingsNext]_settingsVars PROVE SettingsInv'
  OBVIOUS
<1>1. ASSUME UNCHANGED <<stored, flows, switched>> PROVE SettingsInv'
  BY <1>1 DEF SettingsInv, SwitchNotUndone
<1>2. CASE (\E v \in Value : EditField(v)) \/ OpenGroup \/ UNCHANGED settingsVars
  BY <1>1, <1>2 DEF EditField, OpenGroup, settingsVars
<1> QED
  BY <1>2, FlowStartInv, PatchInv, AnswerInv DEF SettingsNext

\* The switch of a group stands as it was last switched, whatever older copies
\* of it the saves of its group were made from (settings/page.tsx, saveGroup).
THEOREM SwitchStands == SettingsSpec => []SwitchNotUndone
<1>1. SettingsInv => SwitchNotUndone
  BY DEF SettingsInv
<1> QED
  BY SettingsInitInv, SettingsStepInv, <1>1, PTL DEF SettingsSpec

-----------------------------------------------------------------------------
(* The entry dialog.                                                       *)

IsDraft(d) == d = [meta |-> d.meta, ticked |-> d.ticked, touched |-> d.touched]
CopyUnlessEdited == loaded /\ ~edited => draft = DraftOf(entry)
DialogInv == IsDraft(draft) /\ CopyUnlessEdited /\ LockedFlavors

\* A dialog that has just been opened shows nothing.
LEMMA DialogInitInv == EntryInit => DialogInv
  BY DEF EntryInit, DialogInv, IsDraft, DraftOf, CopyUnlessEdited, LockedFlavors

\* A new answer is copied.
LEMMA LandInv == DialogInv /\ LandEntry => DialogInv'
  BY DEF LandEntry, Sync, DraftOf, DialogInv, IsDraft, CopyUnlessEdited, LockedFlavors

\* An edit is noted; the flavors are edited only while they are not locked.
LEMMA EditInv ==
    DialogInv /\ ((\E m \in Meta : EditMeta(m)) \/ (\E f \in Flavor : Tick(f)) \/ PickPoster \/ Reset)
        => DialogInv'
<1> SUFFICES ASSUME DialogInv,
        (\E m \in Meta : EditMeta(m)) \/ (\E f \in Flavor : Tick(f)) \/ PickPoster \/ Reset
    PROVE DialogInv'
  OBVIOUS
<1>0. UNCHANGED <<entry, loaded>>
  BY DEF EditMeta, Tick, PickPoster, Edit, Reset
<1>1. ASSUME NEW m \in Meta, EditMeta(m) PROVE DialogInv'
  <2>1. draft' = [meta |-> m, ticked |-> draft.ticked, touched |-> draft.touched]
    BY <1>1 DEF EditMeta, Edit, DialogInv, IsDraft
  <2>2. IsDraft(draft')
    BY <2>1 DEF IsDraft
  <2>3. CopyUnlessEdited'
    BY <1>1 DEF EditMeta, Edit, CopyUnlessEdited
  <2>4. LockedFlavors'
    BY <1>0, <2>1 DEF DialogInv, LockedFlavors, Busy
  <2> QED
    BY <2>2, <2>3, <2>4 DEF DialogInv, IsDraft
<1>2. ASSUME NEW f \in Flavor, Tick(f) PROVE DialogInv'
  <2>1. IsDraft(draft') /\ edited' /\ ~Busy(entry)
    BY <1>2 DEF Tick, Edit, DialogInv, IsDraft
  <2> QED
    BY <1>0, <2>1 DEF DialogInv, CopyUnlessEdited, LockedFlavors, Busy
<1>3. CASE PickPoster
  <2>1. draft' = [meta |-> draft.meta, ticked |-> draft.ticked, touched |-> TRUE]
    BY <1>3 DEF PickPoster, Edit, DialogInv, IsDraft
  <2>2. IsDraft(draft')
    BY <2>1 DEF IsDraft
  <2>3. CopyUnlessEdited'
    BY <1>3 DEF PickPoster, Edit, CopyUnlessEdited
  <2>4. LockedFlavors'
    BY <1>0, <2>1 DEF DialogInv, LockedFlavors, Busy
  <2> QED
    BY <2>2, <2>3, <2>4 DEF DialogInv, IsDraft
<1>4. CASE Reset
  BY <1>0, <1>4 DEF Reset, DraftOf, DialogInv, IsDraft, CopyUnlessEdited, LockedFlavors
<1> QED
  BY <1>1, <1>2, <1>3, <1>4

\* Every other step leaves the fields and the entry they show alone.
LEMMA OtherInv ==
    ASSUME DialogInv, UNCHANGED <<entry, loaded, draft, edited>>
    PROVE  DialogInv'
  BY DEF DialogInv, IsDraft, CopyUnlessEdited, LockedFlavors, DraftOf, Busy

\* Every step keeps the inductive invariant.
LEMMA DialogStepInv == DialogInv /\ [EntryNext]_entryVars => DialogInv'
<1> SUFFICES ASSUME DialogInv, [EntryNext]_entryVars PROVE DialogInv'
  OBVIOUS
<1>1. CASE AskSave \/ AskReprocessEntry \/ AskDeleteSubtitle \/ OpenSubtitleDialog
  BY <1>1, OtherInv DEF AskSave, AskReprocessEntry, AskDeleteSubtitle, OpenSubtitleDialog, Prompt
<1>2. CASE DismissPrompt \/ ConfirmPrompt
  BY <1>2, OtherInv DEF DismissPrompt, ConfirmPrompt
<1>3. CASE Posting
  BY <1>3, OtherInv DEF Posting, Serve, Served, PostFails
<1>4. CASE PollEntry \/ AnswerEntry \/ LoseEntry \/ WorkerEnds \/ OtherEdits
  BY <1>4, OtherInv DEF PollEntry, AnswerEntry, LoseEntry, WorkerEnds, OtherEdits
<1>5. CASE UNCHANGED entryVars
  BY <1>5, OtherInv DEF entryVars
<1> QED
  BY <1>1, <1>2, <1>3, <1>4, <1>5, LandInv, EditInv DEF EntryNext, EntryUser, FetchingEntry

\* The inductive invariant holds in every state of every behaviour.
THEOREM EntryInvariant == EntrySpec => []DialogInv
  BY DialogInitInv, DialogStepInv, PTL DEF EntrySpec

\* What the dialog calls unsaved is an edit of its user, for any workers and
\* other users (entry-detail-dialog.tsx, the effect on entry).
THEOREM UnsavedWasEdited == EntrySpec => []UnsavedIsEdited
<1>1. DialogInv => UnsavedIsEdited
  BY DEF DialogInv, CopyUnlessEdited, UnsavedIsEdited, Dirty, DraftOf
<1> QED
  BY EntryInvariant, <1>1, PTL

\* The flavors of an entry that is shown in processing are not the draft's to
\* change (entry-detail-dialog.tsx, entryEditable).
THEOREM FlavorsAreLocked == EntrySpec => []LockedFlavors
<1>1. DialogInv => LockedFlavors
  BY DEF DialogInv
<1> QED
  BY EntryInvariant, <1>1, PTL
=============================================================================
