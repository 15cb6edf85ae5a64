------------------------------- MODULE Site --------------------------------
(***************************************************************************)
(* The web application: the table pages of the console, its page of the    *)
(* entries, the dialog of an entry, the settings, signing in to all this,  *)
(* the api client that they call through, the public library and the       *)
(* player. A behaviour is one visit of one of them: the links of the       *)
(* console's menu (web/components/app-sidebar.tsx) load a page afresh, so  *)
(* that nothing of one visit but the server's state is there in the next.  *)
(***************************************************************************)
EXTENDS AdminPages, EntriesPage, SettingsPage, EntryDialog, SignIn, ApiSession, Library, Player

CONSTANTS
    Visits,     \* what is visited
    Pages       \* the table pages among that
ASSUME SiteAssumption == Pages \subseteq DOMAIN Limits

VARIABLE visit
consoleVars == <<pageVars, entriesVars, settingsVars, entryVars, signInVars>>
publicVars == <<libraryVars, playerVars>>
vars == <<visit, consoleVars, sessionVars, publicVars>>

\* What is not visited keeps one initial state.
Init ==
    /\ visit \in Visits
    /\ PageInit(Pages) /\ (visit # "table" => page = "flavors" /\ ~limits.fails)
    /\ EntriesInit /\ (visit # "entries" => stay.fails)
    /\ SettingsInit /\ (visit # "settings" => ~saveFails /\ \A v \in Value : stored.field <= v)
    /\ EntryInit /\ (visit # "entry" => limit.fails /\ truth.status = "ready")
    /\ SessionInit
    /\ SignInInit /\ (visit # "signin" => cookies = 0 /\ dead = 0 /\ path = "login")
    /\ LibraryInit /\ (visit # "library" => filters = CHOOSE f \in Filters : f.q = "")
    /\ PlayerInit /\ (visit # "player" => options.autoplay /\ options.offset)

OnTable ==
    visit = "table" /\ UNCHANGED <<visit, entriesVars, settingsVars, entryVars, signInVars, sessionVars, publicVars>>
OnEntries ==
    visit = "entries" /\ UNCHANGED <<visit, pageVars, settingsVars, entryVars, signInVars, sessionVars, publicVars>>
OnSettings ==
    visit = "settings" /\ UNCHANGED <<visit, pageVars, entriesVars, entryVars, signInVars, sessionVars, publicVars>>
OnEntry ==
    visit = "entry" /\ UNCHANGED <<visit, pageVars, entriesVars, settingsVars, signInVars, sessionVars, publicVars>>
OnSignIn ==
    visit = "signin" /\ UNCHANGED <<visit, pageVars, entriesVars, settingsVars, entryVars, sessionVars, publicVars>>
OnSession == visit = "session" /\ UNCHANGED <<visit, consoleVars, publicVars>>
OnLibrary == visit = "library" /\ UNCHANGED <<visit, consoleVars, sessionVars, playerVars>>
OnPlayer == visit = "player" /\ UNCHANGED <<visit, consoleVars, sessionVars, libraryVars>>

Next ==
    \/ OnTable /\ PageNext
    \/ OnEntries /\ EntriesNext
    \/ OnSettings /\ SettingsNext
    \/ OnEntry /\ EntryNext
    \/ OnSignIn /\ SignInNext
    \/ OnSession /\ SessionNext
    \/ OnLibrary /\ LibraryNext
    \/ OnPlayer /\ PlayerNext

\* Requests are answered, workers end their runs, and the pages poll while
\* they are visible. Nothing is assumed of the users.
Fairness ==
    /\ WF_vars(OnEntries /\ Fetching) /\ WF_vars(OnEntries /\ Calling)
    /\ WF_vars(OnEntry /\ FetchingEntry) /\ WF_vars(OnEntry /\ WorkerEnds)
    /\ WF_vars(OnEntry /\ Posting)

Spec == Init /\ [][Next]_vars /\ Fairness

-----------------------------------------------------------------------------
(* Properties.                                                              *)

\* The variables keep their types, and a form and a confirmation are never in
\* front together.
SiteTypeOK ==
    /\ DOMAIN table \subseteq Row /\ DOMAIN list \subseteq Row
    /\ page # "jobs" => \A r \in DOMAIN table : table[r] \in Contents
    /\ \A r \in DOMAIN table : table[r].up \in DOMAIN table \cup {0}
    /\ ~(form.open /\ question.row # 0)
    /\ view \in View /\ selected \subseteq Entry /\ asked.ids \subseteq Entry
    /\ data = NotLoaded \/ data \in Settings
    /\ entry \in Detail /\ truth \in Detail /\ draft.ticked \subseteq Flavor
    /\ SessionTypeOK
    /\ cookies <= newest /\ refreshRows \subseteq 1..newest
    /\ \A a \in DOMAIN asks : asks[a].step = "waiting" => renewal # NoRenewal
    /\ filters \in Filters /\ \A i \in DOMAIN items : items[i] \in [filters : Filters, nr : Nat]
    /\ options \in Options /\ plays <= 1 /\ Len(events) <= MaxEvents

\* A bulk deletion that is confirmed gets all its entries deleted and off the
\* list, also when somebody else deletes some of them first, and whatever the
\* user does meanwhile (entries/page.tsx, bulkDelete).
BulkDeleteFinishes ==
    ~stay.fails /\ confirmed # {} ~> confirmed \cap (catalog \cup Listed) = {}

\* A dialog that shows an entry in processing shows its end by itself
\* (entry-detail-dialog.tsx, refetchInterval).
ProcessingShown == ~limit.fails /\ loaded /\ Busy(entry) ~> loaded /\ ~Busy(entry)
=============================================================================
