---------------------------- MODULE EntriesPage ----------------------------
(***************************************************************************)
(* The page of the entries (web/app/admin/entries/page.tsx): a filtered,   *)
(* paged and polled list with a selection that outlives both, single and   *)
(* bulk deletion and bulk reprocessing.                                    *)
(*                                                                         *)
(* A view is what the key of the query holds: the filter (the search, the  *)
(* status and the category together) and the page. The cache keeps the     *)
(* answers of all views, and fetches the one in sight.                     *)
(***************************************************************************)
EXTENDS Naturals, FiniteSets, Functions

CONSTANTS
    Entry,      \* ids of entries, newer ones greater; the newest is still being uploaded
    Matching,   \* the entries that the filter "some" keeps
    PageSize,
    Stay        \* whether calls may fail, and bounds for one visit: the changes
                \* of the view, the confirmed questions, the entries that somebody
                \* else deletes, the uploads of this browser that end
ASSUME EntriesAssumption ==
    IsFiniteSet(Entry) /\ Entry \subseteq Nat /\ Matching \subseteq Entry /\ PageSize \in Nat \ {0}

VARIABLES
    stay,       \* what is left of the bounds
    catalog,    \* the server's entries
    view,       \* the view in sight
    cache,      \* answers by view
    requests,   \* requests on their way, by view
    selected,
    asked,      \* the confirmation in front
    tasks,      \* confirmed questions whose calls are not all answered
    confirmed   \* history: the entries of confirmed bulk deletions

catalogVars == <<stay, catalog>>
sightVars == <<view, cache, requests>>
askVars == <<asked, tasks, confirmed>>
entriesVars == <<catalogVars, sightVars, selected, askVars>>

Newest == CHOOSE e \in Entry : \A x \in Entry : x <= e
View == [filter : {"all", "some"}, page : 1..(Cardinality(Entry) + 1)]
NoAnswer == [phase |-> "sent", rows |-> {}, total |-> 0]
NotAsked == [kind |-> "none", ids |-> {}, pending |-> FALSE]

\* GET /api/entries: the newest first.
Kept(filter) == catalog \cap (IF filter = "some" THEN Matching ELSE Entry)
Answered(v) ==
    LET newer(e) == Cardinality({x \in Kept(v.filter) : x > e})
    IN  [phase |-> "answered", total |-> Cardinality(Kept(v.filter)),
         rows |-> {e \in Kept(v.filter) : newer(e) \div PageSize = v.page - 1}]

Spend(k) == stay[k] > 0 /\ stay' = [stay EXCEPT ![k] = @ - 1]
Put(f, v, x) == [u \in DOMAIN f \cup {v} |-> IF u = v THEN x ELSE f[u]]
Known == view \in DOMAIN cache
Listing == IF Known THEN cache[view] ELSE NoAnswer
Listed == Listing.rows

-----------------------------------------------------------------------------
(* The list.                                                                *)

\* A request of the view in sight takes the place of an older one.
Refetch == requests' = Put(requests, view, NoAnswer)

PollEntries ==
    /\ view \notin DOMAIN requests
    /\ Refetch
    /\ UNCHANGED <<catalogVars, view, cache, selected, askVars>>
AnswerEntries(v) ==
    /\ requests[v].phase = "sent"
    /\ requests' = [requests EXCEPT ![v] = Answered(v)]
    /\ UNCHANGED <<catalogVars, view, cache, selected, askVars>>
LandEntries(v) ==
    /\ requests[v].phase = "answered"
    /\ cache' = Put(cache, v, requests[v])
    /\ requests' = Restrict(requests, DOMAIN requests \ {v})
    /\ UNCHANGED <<catalogVars, view, selected, askVars>>
LoseEntries(v) ==
    /\ stay.fails
    /\ requests' = Restrict(requests, DOMAIN requests \ {v})
    /\ UNCHANGED <<catalogVars, view, cache, selected, askVars>>

\* A view that is not cached, or whose answer is older than the stale time, is
\* fetched as it comes into sight.
Look(v) ==
    /\ Spend("looks")
    /\ view' = v
    /\ \/ requests' = Put(requests, v, NoAnswer)
       \/ v \in DOMAIN cache \cup DOMAIN requests /\ UNCHANGED requests
    /\ UNCHANGED <<catalog, cache, selected, askVars>>
InFront == asked.kind = "none"
SetFilter ==
    /\ InFront
    /\ \E f \in {"all", "some"} \ {view.filter} : Look([filter |-> f, page |-> 1])
TurnPage ==
    /\ InFront /\ Known
    /\ \/ view.page > 1 /\ Look([view EXCEPT !.page = @ - 1])
       \/ view.page * PageSize < Listing.total /\ Look([view EXCEPT !.page = @ + 1])

\* An upload of this browser is done: the list is fetched at once.
OwnUploadDone ==
    /\ Spend("uploads")
    /\ catalog' = catalog \cup {Newest} /\ Refetch
    /\ UNCHANGED <<view, cache, selected, askVars>>

-----------------------------------------------------------------------------
(* Selecting and asking.                                                    *)

ToggleSelect(e) ==
    /\ InFront /\ e \in Listed
    /\ selected' = (selected \ {e}) \cup ({e} \ selected)
    /\ UNCHANGED <<catalogVars, sightVars, askVars>>
SelectAll ==
    /\ InFront /\ Listed # {}
    /\ selected' = IF Listed \subseteq selected THEN {} ELSE Listed
    /\ UNCHANGED <<catalogVars, sightVars, askVars>>

Ask(kind, ids) ==
    /\ InFront /\ ids # {}
    /\ asked' = [kind |-> kind, ids |-> ids, pending |-> FALSE]
    /\ UNCHANGED <<catalogVars, sightVars, selected, tasks, confirmed>>
AskBulkDelete == Ask("bulk", selected)
AskReprocess == Ask("reprocess", selected)
AskDelete(e) == e \in Listed /\ Ask("delete", {e})

\* The calls of a bulk deletion go out together.
ConfirmAsked ==
    /\ ~InFront /\ ~asked.pending
    /\ Spend("tasks")
    /\ tasks' = tasks \cup {[kind |-> asked.kind, ids |-> asked.ids, left |-> asked.ids,
                             ok |-> TRUE, own |-> TRUE, nr |-> stay.tasks]}
    /\ confirmed' = IF asked.kind = "bulk" THEN confirmed \cup asked.ids ELSE confirmed
    /\ asked' = [asked EXCEPT !.pending = TRUE]
    /\ UNCHANGED <<catalog, sightVars, selected>>
\* Cancel, or the escape key, which a pending confirmation does not disable.
DismissAsked ==
    /\ ~InFront
    /\ asked' = NotAsked
    /\ tasks' = {[t EXCEPT !.own = FALSE] : t \in tasks}
    /\ UNCHANGED <<catalogVars, sightVars, selected, confirmed>>

-----------------------------------------------------------------------------
(* The calls and their ends.                                                *)

\* The calls not yet answered, once one of them has failed.
LeftAlone(t, e) == {}
StillLeft(t, e) == t.left \ {e}

\* The deletion of e: an entry that is gone already is an error.
DeleteEntry(t, e) ==
    /\ t.kind \in {"bulk", "delete"} /\ e \in t.left
    /\ \/ /\ e \in catalog
          /\ catalog' = catalog \ {e}
          /\ tasks' = (tasks \ {t}) \cup {[t EXCEPT !.left = @ \ {e}]}
       \/ /\ e \notin catalog \/ stay.fails
          /\ tasks' = (tasks \ {t}) \cup {[t EXCEPT !.left = StillLeft(t, e), !.ok = FALSE]}
          /\ UNCHANGED catalog
    /\ UNCHANGED <<stay, sightVars, selected, asked, confirmed>>

\* bulkDelete and bulkReprocess take no notice of errors; both empty the
\* selection, of whatever it is by then.
EndBulk(t) ==
    /\ \/ t.kind = "bulk" /\ t.left = {}
       \/ t.kind = "reprocess"
    /\ selected' = {} /\ Refetch
    /\ asked' = IF t.own THEN NotAsked ELSE asked
    /\ tasks' = tasks \ {t}
    /\ UNCHANGED <<catalogVars, view, cache, confirmed>>

\* onConfirm of askDelete; the error it throws again keeps the question open.
EndDelete(t) ==
    /\ t.kind = "delete" /\ t.left = {}
    /\ IF t.ok THEN Refetch ELSE UNCHANGED requests
    /\ asked' = IF ~t.own THEN asked
                ELSE IF t.ok THEN NotAsked ELSE [asked EXCEPT !.pending = FALSE]
    /\ tasks' = tasks \ {t}
    /\ UNCHANGED <<catalogVars, view, cache, selected, confirmed>>

OtherDeletes(e) ==
    /\ Spend("losses")
    /\ e \in catalog /\ catalog' = catalog \ {e}
    /\ UNCHANGED <<sightVars, selected, askVars>>

-----------------------------------------------------------------------------

EntriesInit ==
    /\ stay \in Stay
    /\ catalog = IF stay.uploads > 0 THEN Entry \ {Newest} ELSE Entry
    /\ view = [filter |-> "all", page |-> 1]
    /\ cache = [v \in {} |-> NoAnswer] /\ requests = [v \in {view} |-> NoAnswer]
    /\ selected = {} /\ asked = NotAsked /\ tasks = {} /\ confirmed = {}

EntriesUser ==
    \/ SetFilter \/ TurnPage \/ SelectAll
    \/ AskBulkDelete \/ AskReprocess \/ ConfirmAsked \/ DismissAsked
    \/ \E e \in Listed : ToggleSelect(e) \/ AskDelete(e)
Calling ==
    \E t \in tasks : (\E e \in t.left : DeleteEntry(t, e)) \/ EndBulk(t) \/ EndDelete(t)
Fetching == PollEntries \/ \E v \in DOMAIN requests : AnswerEntries(v) \/ LandEntries(v)
EntriesNext ==
    \/ EntriesUser \/ Calling \/ Fetching \/ OwnUploadDone
    \/ \E v \in DOMAIN requests : LoseEntries(v)
    \/ \E e \in Entry : OtherDeletes(e)
=============================================================================
