----------------------------- MODULE SiteProofs -----------------------------
(***************************************************************************)
(* The public site, and a whole visit. The list of the library is in       *)
(* order: its pages are those of one choice of filters, 1, 2, 3 and so on. *)
(* Why: a page more is asked for only with a list of the filters of the    *)
(* moment in sight (InSight), and until it comes that list stands, or the  *)
(* filters have changed and the page is dropped (Awaited). The beacons of  *)
(* the player account for every second, whatever the number of seconds     *)
(* between two reports: what is not yet reported was watched since the     *)
(* timer reported last (Recent), and that is not long ago.                 *)
(*                                                                         *)
(* A visit does to each part what the part does by itself, so that it      *)
(* keeps the invariants of all; and every part keeps its types.            *)
(***************************************************************************)
EXTENDS Site, ConsoleProofs, ApiSessionProofs, SignInProofs, FiniteSetTheorems, TLAPS

-----------------------------------------------------------------------------
(* The public library.                                                     *)

LibraryTyped ==
    /\ filters \in Filters
    /\ firsts \subseteq [filters : Filters, live : BOOLEAN]
    /\ more \in [busy : BOOLEAN, filters : Filters, next : Nat]
    /\ items \in Seq([filters : Filters, nr : Nat])
    /\ page_ \in Nat /\ broken \in BOOLEAN /\ met \in BOOLEAN
    /\ typed \in Word

\* The requests that count are those of the filters of the moment.
LiveIsOfTheMoment == \A r \in firsts : r.live => r.filters = filters
\* The list in sight is of these filters too, or it is about to be replaced,
\* or an error is shown.
InSight ==
    \/ \E r \in firsts : r.live
    \/ broken
    \/ items # <<>> /\ items[1].filters = filters
\* A page more that will be taken up fits the list.
Awaited ==
    more.busy /\ more.filters = filters =>
        /\ items # <<>> /\ items[1].filters = filters
        /\ more.next = Len(items) + 1 /\ more.next <= Length[filters]
Counted == items # <<>> => total = Length[items[1].filters]
Ordered ==
    items # <<>> =>
        /\ \A i \in DOMAIN items : items[i] = [filters |-> items[1].filters, nr |-> i]
        /\ page_ = Len(items)

LibraryOrder ==
    /\ LiveIsOfTheMoment /\ InSight /\ Awaited /\ Counted /\ Ordered
    /\ ~Meets(firsts, more)
LibraryInv == LibraryTyped /\ (~met => LibraryOrder)

LEMMA InitOrder == LibraryInit => LibraryInv
<1> SUFFICES ASSUME LibraryInit PROVE LibraryInv
  OBVIOUS
<1>1. filters \in Filters /\ typed \in Word
  BY DEF LibraryInit, Filters
<1>2. /\ firsts = {[filters |-> filters, live |-> TRUE]}
      /\ more = [busy |-> FALSE, filters |-> filters, next |-> 0]
      /\ items = <<>> /\ page_ = 1 /\ broken = FALSE /\ met = FALSE
  BY DEF LibraryInit, Idle
<1>3. LibraryTyped
  <2>1. firsts \subseteq [filters : Filters, live : BOOLEAN]
    BY <1>1, <1>2
  <2>2. more \in [busy : BOOLEAN, filters : Filters, next : Nat]
    BY <1>1, <1>2
  <2>3. items \in Seq([filters : Filters, nr : Nat])
    BY <1>2
  <2> QED
    BY <1>1, <1>2, <2>1, <2>2, <2>3 DEF LibraryTyped
<1>4. LibraryOrder
  BY <1>2 DEF LibraryOrder, LiveIsOfTheMoment, InSight, Awaited, Counted, Ordered, Meets
<1> QED
  BY <1>3, <1>4 DEF LibraryInv

\* A choice of filters: its request is the only one that counts, and a page
\* more that is awaited is dropped, unless it meets this request.
LEMMA ChooseOrder ==
    ASSUME LibraryInv, NEW f \in Filters, Choose(f), typed' \in Word
    PROVE  LibraryInv'
<1> DEFINE mine == [filters |-> f, live |-> TRUE]
<1> USE DEF Choose, dataVars
<1>1. /\ filters' = f /\ firsts' = Cancelled(firsts) \cup {mine}
      /\ UNCHANGED <<items, total, page_, broken, more>>
  OBVIOUS
<1>2. \A r \in Cancelled(firsts) : r \in [filters : Filters, live : BOOLEAN] /\ ~r.live
  BY DEF LibraryInv, LibraryTyped, Cancelled
<1>3. mine \in [filters : Filters, live : BOOLEAN] /\ mine.live /\ mine.filters = f
  OBVIOUS
<1>4. firsts' \subseteq [filters : Filters, live : BOOLEAN]
  BY <1>1, <1>2, <1>3
<1>5. met' = (met \/ Meets(firsts', more))
  OBVIOUS
<1>6. LibraryTyped'
  BY <1>1, <1>4, <1>5 DEF LibraryInv, LibraryTyped, Meets
<1>7. ASSUME ~met' PROVE LibraryOrder'
  <2>1. ~met /\ ~Meets(firsts', more)
    BY <1>5, <1>7 DEF LibraryInv, LibraryTyped
  <2>2. LiveIsOfTheMoment' /\ InSight'
    BY <1>1, <1>2, <1>3 DEF LiveIsOfTheMoment, InSight
  <2>3. ~(more.busy /\ more.filters = f)
    BY <2>1, <1>1, <1>3 DEF Meets
  <2>4. Awaited' /\ ~Meets(firsts, more)'
    BY <2>1, <2>3, <1>1 DEF Awaited, Meets
  <2>5. Counted' /\ Ordered'
    BY <2>1, <1>1 DEF LibraryInv, LibraryOrder, Counted, Ordered
  <2> QED
    BY <2>2, <2>4, <2>5 DEF LibraryOrder
<1> QED
  BY <1>6, <1>7 DEF LibraryInv

LEMMA FiltersOrder ==
    LibraryInv /\ (Debounce \/ (\E w \in Word : Type(w)) \/ (\E s \in Shelf : PickShelf(s)))
        => LibraryInv'
<1> SUFFICES ASSUME LibraryInv PROVE
        /\ Debounce => LibraryInv'
        /\ \A w \in Word : Type(w) => LibraryInv'
        /\ \A s \in Shelf : PickShelf(s) => LibraryInv'
  OBVIOUS
<1>1. typed \in Word /\ filters \in Filters
  BY DEF LibraryInv, LibraryTyped
<1>2. ASSUME Debounce PROVE LibraryInv'
  BY <1>1, <1>2, ChooseOrder DEF Debounce, Filters
<1>3. ASSUME NEW w \in Word, Type(w) PROVE LibraryInv'
  BY <1>3 DEF Type, dataVars, requestVars, LibraryInv, LibraryTyped, LibraryOrder, LiveIsOfTheMoment,
     InSight, Awaited, Counted, Ordered, Meets
<1>4. ASSUME NEW s \in Shelf, PickShelf(s) PROVE LibraryInv'
  BY <1>1, <1>4, ChooseOrder DEF PickShelf, Filters
<1> QED
  BY <1>2, <1>3, <1>4

\* A first page that counts becomes the list. It is not awaited together with
\* one page more of its filters.
LEMMA FirstOrder ==
    ASSUME LibraryInv, NEW r \in firsts, FirstArrives(r) \/ FirstFails(r)
    PROVE  LibraryInv'
<1>1. /\ firsts' = firsts \ {r} /\ UNCHANGED <<filters, typed, more, met>>
  BY DEF FirstArrives, FirstFails, filterVars
<1>2. /\ r \in [filters : Filters, live : BOOLEAN] /\ r.filters \in Filters
      /\ Length[r.filters] \in Nat
  BY LibraryAssumption DEF LibraryInv, LibraryTyped
<1>3. ASSUME ~met' PROVE LibraryOrder /\ LiveIsOfTheMoment' /\ ~Meets(firsts, more)'
  BY <1>1, <1>3 DEF LibraryInv, LibraryOrder, LiveIsOfTheMoment, Meets
<1>4. CASE FirstArrives(r) /\ r.live
  <2> DEFINE piece == [filters |-> r.filters, nr |-> 1]
  <2>1. /\ items' = <<piece>> /\ total' = Length[r.filters] /\ page_' = 1 /\ ~broken'
        /\ broken' \in BOOLEAN
    BY <1>4 DEF FirstArrives
  <2>2. piece \in [filters : Filters, nr : Nat] /\ piece.filters = r.filters
    BY <1>2
  <2>3. /\ items' \in Seq([filters : Filters, nr : Nat]) /\ Len(items') = 1
        /\ items'[1] = piece /\ items' # <<>> /\ DOMAIN items' = {1}
    BY <2>1, <2>2
  <2>4. LibraryTyped'
    BY <1>1, <2>1, <2>3 DEF LibraryInv, LibraryTyped
  <2>5. ASSUME ~met' PROVE LibraryOrder'
    <3>1. r.filters = filters /\ ~(more.busy /\ more.filters = filters)
      BY <1>3, <1>4, <2>5 DEF LibraryOrder, LiveIsOfTheMoment, Meets
    <3>2. InSight' /\ Awaited'
      BY <3>1, <1>1, <2>2, <2>3 DEF InSight, Awaited
    <3>3. Counted' /\ Ordered'
      BY <2>1, <2>2, <2>3 DEF Counted, Ordered
    <3> QED
      BY <1>3, <2>5, <3>2, <3>3 DEF LibraryOrder
  <2> QED
    BY <2>4, <2>5 DEF LibraryInv
<1>5. CASE FirstFails(r) \/ ~r.live
  <2>1. UNCHANGED <<items, total, page_>> /\ broken' = (broken \/ (r.live /\ FirstFails(r)))
    BY <1>5, <1>2 DEF FirstArrives, FirstFails, dataVars, LibraryInv, LibraryTyped
  <2>2. broken' \in BOOLEAN
    BY <2>1
  <2>3. LibraryTyped'
    BY <1>1, <2>1, <2>2 DEF LibraryInv, LibraryTyped
  <2>4. ASSUME ~met' PROVE LibraryOrder'
    <3>1. InSight'
      <4>1. CASE r.live
        BY <4>1, <1>5, <2>1 DEF InSight
      <4>2. CASE ~r.live
        BY <4>2, <1>1, <1>3, <2>1, <2>4 DEF InSight, LibraryOrder
      <4> QED
        BY <4>1, <4>2
    <3>2. Awaited' /\ Counted' /\ Ordered'
      BY <1>1, <1>3, <2>1, <2>4 DEF LibraryOrder, Awaited, Counted, Ordered
    <3> QED
      BY <1>3, <2>4, <3>1, <3>2 DEF LibraryOrder
  <2> QED
    BY <2>3, <2>4 DEF LibraryInv
<1> QED
  BY <1>4, <1>5

\* The button is there for a list without an error: either the first page is
\* under way, which is the case left out, or the list is of the moment.
LEMMA LoadMoreOrder == LibraryInv /\ LoadMore => LibraryInv'
<1> SUFFICES ASSUME LibraryInv, LoadMore PROVE LibraryInv'
  OBVIOUS
<1>1. /\ more' = [busy |-> TRUE, filters |-> filters, next |-> page_ + 1]
      /\ met' = (met \/ Meets(firsts, more'))
      /\ UNCHANGED <<filters, typed, firsts, items, total, page_, broken>>
      /\ ~broken /\ Len(items) < total
  BY DEF LoadMore, filterVars, dataVars, HasMore
<1>2. /\ more'.busy /\ more'.filters = filters /\ more'.next = page_ + 1
      /\ more' \in [busy : BOOLEAN, filters : Filters, next : Nat]
  BY <1>1 DEF LibraryInv, LibraryTyped
<1>3. LibraryTyped'
  BY <1>1, <1>2 DEF LibraryInv, LibraryTyped, Meets
<1>4. ASSUME ~met' PROVE LibraryOrder'
  <2>1. LibraryOrder /\ ~Meets(firsts, more')
    BY <1>1, <1>4 DEF LibraryInv, LibraryTyped
  <2>2. \A r \in firsts : ~r.live
    BY <2>1, <1>2 DEF LibraryOrder, LiveIsOfTheMoment, Meets
  <2>3. items # <<>> /\ items[1].filters = filters
    BY <2>1, <2>2, <1>1 DEF LibraryOrder, InSight
  <2>4. page_ = Len(items) /\ total = Length[filters]
    BY <2>1, <2>3 DEF LibraryOrder, Counted, Ordered
  <2>5. Len(items) \in Nat /\ Length[filters] \in Nat
    BY LibraryAssumption DEF LibraryInv, LibraryTyped
  <2>6. Awaited'
    BY <1>1, <1>2, <2>3, <2>4, <2>5 DEF Awaited
  <2>7. LiveIsOfTheMoment' /\ InSight' /\ Counted' /\ Ordered' /\ ~Meets(firsts, more)'
    BY <1>1, <2>1 DEF LibraryOrder, LiveIsOfTheMoment, InSight, Counted, Ordered, Meets
  <2> QED
    BY <2>6, <2>7 DEF LibraryOrder
<1> QED
  BY <1>3, <1>4 DEF LibraryInv

\* A page more that is taken up is the one after the last.
LEMMA MoreOrder == LibraryInv /\ (MoreArrives \/ MoreFails) => LibraryInv'
<1> SUFFICES ASSUME LibraryInv, MoreArrives \/ MoreFails PROVE LibraryInv'
  OBVIOUS
<1>1. /\ more' = Idle(filters) /\ more.busy
      /\ UNCHANGED <<filters, typed, firsts, broken, met>>
  BY DEF MoreArrives, MoreFails, filterVars, dataVars
<1>2. ~more'.busy /\ more' \in [busy : BOOLEAN, filters : Filters, next : Nat]
  BY <1>1 DEF Idle, LibraryInv, LibraryTyped
<1>3. ASSUME ~met' PROVE
        /\ LibraryOrder /\ LiveIsOfTheMoment' /\ Awaited' /\ ~Meets(firsts, more)'
  BY <1>1, <1>2, <1>3 DEF LibraryInv, LibraryOrder, LiveIsOfTheMoment, Awaited, Meets
<1>4. CASE UNCHANGED <<items, total, page_>>
  <2>1. LibraryTyped'
    BY <1>1, <1>2, <1>4 DEF LibraryInv, LibraryTyped
  <2>2. ASSUME ~met' PROVE LibraryOrder'
    BY <1>1, <1>3, <1>4, <2>2 DEF LibraryOrder, InSight, Counted, Ordered
  <2> QED
    BY <2>1, <2>2 DEF LibraryInv
<1>5. CASE MoreArrives /\ Current(more.filters)
  <2>1. /\ items' = items \o Piece(more.filters, more.next)
        /\ total' = Length[more.filters] /\ page_' = more.next /\ more.filters = filters
    BY <1>5 DEF MoreArrives, Current
  <2>2. /\ items \in Seq([filters : Filters, nr : Nat])
        /\ more.next \in Nat /\ filters \in Filters /\ Length[filters] \in Nat
    BY LibraryAssumption DEF LibraryInv, LibraryTyped
  <2> DEFINE new == [filters |-> filters, nr |-> more.next]
  <2>3. new \in [filters : Filters, nr : Nat]
    BY <2>2
  <2>4. Piece(more.filters, more.next) \in Seq([filters : Filters, nr : Nat])
    <3>1. Piece(more.filters, more.next) = <<new>> \/ Piece(more.filters, more.next) = <<>>
      BY <2>1 DEF Piece
    <3>2. <<new>> \in Seq([filters : Filters, nr : Nat])
      BY <2>3
    <3>3. <<>> \in Seq([filters : Filters, nr : Nat])
      OBVIOUS
    <3> QED
      BY <3>1, <3>2, <3>3
  <2>5. LibraryTyped'
    BY <1>1, <1>2, <2>1, <2>2, <2>4 DEF LibraryInv, LibraryTyped
  <2>6. ASSUME ~met' PROVE LibraryOrder'
    <3>1. /\ items # <<>> /\ items[1].filters = filters
          /\ more.next = Len(items) + 1 /\ more.next <= Length[filters]
      BY <1>1, <1>3, <2>1, <2>6 DEF LibraryOrder, Awaited
    <3>2. items' = Append(items, new)
      BY <2>1, <2>2, <2>3, <3>1 DEF Piece
    <3>3. /\ Len(items') = Len(items) + 1 /\ items' # <<>> /\ items'[1] = items[1]
          /\ DOMAIN items' = 1..Len(items) + 1 /\ DOMAIN items = 1..Len(items)
          /\ \A i \in 1..Len(items) : items'[i] = items[i]
          /\ items'[Len(items) + 1] = new /\ Len(items) \in Nat
      BY <2>2, <2>3, <3>1, <3>2
    <3>4. \A i \in DOMAIN items : items[i] = [filters |-> filters, nr |-> i]
      BY <1>3, <2>6, <3>1 DEF LibraryOrder, Ordered
    <3>5. \A i \in DOMAIN items' : items'[i] = [filters |-> items'[1].filters, nr |-> i]
      BY <3>1, <3>3, <3>4
    <3>6. Ordered' /\ Counted' /\ InSight'
      BY <1>1, <2>1, <3>1, <3>3, <3>5 DEF Ordered, Counted, InSight
    <3> QED
      BY <1>3, <2>6, <3>6 DEF LibraryOrder
  <2> QED
    BY <2>5, <2>6 DEF LibraryInv
<1> QED
  BY <1>4, <1>5 DEF MoreArrives, MoreFails, dataVars

\* Every step keeps the inductive invariant.
LEMMA NextOrder == LibraryInv /\ [LibraryNext]_libraryVars => LibraryInv'
<1> SUFFICES ASSUME LibraryInv, [LibraryNext]_libraryVars PROVE LibraryInv'
  OBVIOUS
<1>1. CASE Debounce \/ (\E w \in Word : Type(w)) \/ (\E s \in Shelf : PickShelf(s))
  BY <1>1, FiltersOrder
<1>2. CASE \E r \in firsts : FirstArrives(r) \/ FirstFails(r)
  BY <1>2, FirstOrder
<1>3. CASE LoadMore \/ MoreArrives \/ MoreFails
  BY <1>3, LoadMoreOrder, MoreOrder
<1>4. CASE UNCHANGED libraryVars
  BY <1>4 DEF libraryVars, filterVars, dataVars, requestVars, LibraryInv, LibraryTyped, LibraryOrder,
     LiveIsOfTheMoment, InSight, Awaited, Counted, Ordered, Meets
<1> QED
  BY <1>1, <1>2, <1>3, <1>4 DEF LibraryNext

\* However the answers overtake each other, for any answers and any number of
\* changes of the filters: the pages of the list are those of one choice of
\* filters, from the first on and without a gap, unless more was loaded while
\* the first page of the same filters was under way (page.tsx).
THEOREM SpecLibraryInOrder == LibrarySpec => []LibraryInOrder
<1>1. LibraryInv => LibraryInOrder
  BY DEF LibraryInv, LibraryOrder, Ordered, LibraryInOrder
<1> QED
  BY <1>1, InitOrder, NextOrder, PTL DEF LibrarySpec

-----------------------------------------------------------------------------
(* The player.                                                             *)

Counters ==
    /\ watched \in Nat /\ since \in Nat /\ reported \in Nat
    /\ ticked \in Nat /\ missed \in Nat
Recent == watched <= since /\ (there => missed = 0)
PlayerInv == Counters /\ Recent /\ WatchAccounted

\* A player that has just been mounted has nothing to report.
LEMMA PlayerInitInv == PlayerInit => PlayerInv
  BY PlayerAssumption DEF PlayerInit, PlayerInv, Counters, Recent, WatchAccounted

\* A second adds to what is watched, and to the time since the last report.
LEMMA TickerInv == PlayerInv /\ Ticker => PlayerInv'
<1> SUFFICES ASSUME PlayerInv, Ticker PROVE PlayerInv'
  OBVIOUS
<1> USE PlayerAssumption DEF PlayerInv, Counters, Recent, WatchAccounted
<1>0. UNCHANGED <<there, missed>>
  BY DEF Ticker, startVars
<1>1. CASE video.paused
  BY <1>0, <1>1 DEF Ticker, Cap
<1>2. CASE ~video.paused /\ Due
  BY <1>0, <1>2 DEF Ticker
<1>3. CASE ~video.paused /\ ~Due
  BY <1>0, <1>3 DEF Ticker, Due
<1> QED
  BY <1>1, <1>2, <1>3

\* A pause and the end of the page report everything; taking the player off
\* the page misses what is left, and happens once.
LEMMA EndInv == PlayerInv /\ (OnPause \/ BeforeUnload \/ Unmount) => PlayerInv'
  BY PlayerAssumption DEF OnPause, BeforeUnload, Unmount, FlushWatch, startVars, PlayerInv, Counters,
     Recent, WatchAccounted

\* Every other step leaves the counters alone.
LEMMA PlayerOtherInv ==
    ASSUME PlayerInv, UNCHANGED <<there, watchVars>>
    PROVE  PlayerInv'
  BY DEF PlayerInv, Counters, Recent, WatchAccounted, watchVars

\* Every step keeps the inductive invariant.
LEMMA PlayerStepInv == PlayerInv /\ [PlayerNext]_playerVars => PlayerInv'
<1> SUFFICES ASSUME PlayerInv, [PlayerNext]_playerVars PROVE PlayerInv'
  OBVIOUS
<1>1. CASE ManifestParsed \/ TogglePlay \/ Ended \/ SeekTo
  BY <1>1, PlayerOtherInv DEF ManifestParsed, TogglePlay, Ended, SeekTo, startVars
<1>2. CASE OnMeta \/ OnPlay
  BY <1>2, PlayerOtherInv DEF OnMeta, OnPlay, startVars
<1>3. CASE Tap \/ PointerMove \/ HideControls
  BY <1>3, PlayerOtherInv DEF Tap, PointerMove, HideControls, startVars
<1>4. CASE UNCHANGED playerVars
  BY <1>4, PlayerOtherInv DEF playerVars, startVars
<1> QED
  BY <1>1, <1>2, <1>3, <1>4, TickerInv, EndInv DEF PlayerNext

\* Every second watched is reported once, or was still unreported when the
\* player was taken off the page, and of those there are at most FlushEvery,
\* for every value of FlushEvery (vidsilo-player.tsx, flushWatch).
THEOREM WatchIsAccounted == PlayerSpec => []WatchAccounted
<1>1. PlayerInv => WatchAccounted
  BY DEF PlayerInv
<1> QED
  BY PlayerInitInv, PlayerStepInv, <1>1, PTL DEF PlayerSpec
-----------------------------------------------------------------------------
(* A visit is one of its parts.                                            *)

\* A step of a visit is one of every part, or leaves that part alone.
LEMMA VisitStep ==
    [Next]_vars => /\ [PageNext]_pageVars /\ [EntriesNext]_entriesVars
                   /\ [SettingsNext]_settingsVars /\ [EntryNext]_entryVars
                   /\ [SignInNext]_signInVars /\ [SessionNext]_sessionVars
                   /\ [LibraryNext]_libraryVars /\ [PlayerNext]_playerVars
<1> SUFFICES ASSUME [Next]_vars
             PROVE  /\ [PageNext]_pageVars /\ [EntriesNext]_entriesVars
                    /\ [SettingsNext]_settingsVars /\ [EntryNext]_entryVars
                    /\ [SignInNext]_signInVars /\ [SessionNext]_sessionVars
                    /\ [LibraryNext]_libraryVars /\ [PlayerNext]_playerVars
  OBVIOUS
<1> QED
  BY DEF Next, vars, consoleVars, publicVars, OnTable, OnEntries, OnSettings, OnEntry, OnSignIn,
         OnSession, OnLibrary, OnPlayer

\* Every part starts as it would without the others.
LEMMA VisitInit ==
    Init => /\ PageInit(DOMAIN Limits) /\ EntriesInit /\ SettingsInit /\ EntryInit
            /\ SignInInit /\ SessionInit /\ LibraryInit /\ PlayerInit
<1>1. PageInit(Pages) => PageInit(DOMAIN Limits)
  BY SiteAssumption DEF PageInit
<1> QED
  BY <1>1 DEF Init

\* What visits do to a part is what the part does by itself, so that what is proved of
\* the parts holds of every visit.
THEOREM VisitIsOfItsPart ==
    Spec => /\ PageSpec /\ SettingsSpec /\ EntrySpec /\ SignInSpec
            /\ SessionSpec /\ LibrarySpec /\ PlayerSpec
BY VisitInit, VisitStep, PTL DEF Spec, PageSpec, SettingsSpec, EntrySpec, SignInSpec, SessionSpec,
   LibrarySpec, PlayerSpec

\* The invariants of the parts, and the gate of the api client, of every visit.
THEOREM VisitKeepsItsPart ==
    Spec => /\ [](QuietListIsServer /\ OneRowPerSave /\ FreshParentsKeepTree)
            /\ [](SwitchNotUndone /\ UnsavedIsEdited /\ LockedFlavors)
            /\ [](SignInShown /\ LibraryInOrder /\ WatchAccounted)
            /\ GateHolds
BY VisitIsOfItsPart, SpecQuietListIsServer, SpecOneRowPerSave, SpecFreshParentsKeepTree, SwitchStands,
   UnsavedWasEdited, FlavorsAreLocked, SpecSignInShown, SpecLibraryInOrder, WatchIsAccounted,
   SessionRefines, PTL

-----------------------------------------------------------------------------
(* The types of signing in, of the player and of the settings.             *)

\* A call awaits a refresh that is under way.
RefreshAwaited == \A a \in DOMAIN asks : asks[a].step = "waiting" => renewal # NoRenewal

\* Every step of signing in leaves what awaits a refresh with one.
LEMMA WaitStep ==
    ASSUME SignInTyped, RefreshAwaited, [SignInNext]_signInVars
    PROVE  RefreshAwaited'
<1>0. /\ DOMAIN asks = Who /\ "none" # "sent" /\ NoRenewal.step = "none"
      /\ renewal = [step |-> renewal.step, pair |-> renewal.pair]
      /\ \A a \in Who : asks[a] = [op |-> asks[a].op, step |-> asks[a].step, pair |-> asks[a].pair]
  BY DEF SignInTyped, NoRenewal, AskUpTo
<1>1. ASSUME UNCHANGED renewal \/ renewal'.step # "none", DOMAIN asks' = Who,
             \A a \in Who : asks'[a].step = "waiting" =>
                asks[a].step = "waiting" \/ renewal'.step # "none"
      PROVE  RefreshAwaited'
  BY <1>0, <1>1 DEF RefreshAwaited
<1>2. ASSUME NEW a \in Who, NEW step, StepTo(a, step)
      PROVE  /\ DOMAIN asks' = Who
             /\ \A b \in Who : asks'[b].step = "waiting" => asks[b].step = "waiting" \/ (b = a /\ step = "waiting")
  BY <1>0, <1>2 DEF StepTo
<1>3. ASSUME NEW a \in Who, NEW k, k.step # "waiting", asks' = [asks EXCEPT ![a] = k]
      PROVE  /\ DOMAIN asks' = Who
             /\ \A b \in Who : asks'[b].step = "waiting" => asks[b].step = "waiting"
  BY <1>0, <1>3
<1>4. Unasked.step = "none" /\ \A op : Sent(op).step = "sent"
  BY DEF Unasked, Sent
<1>5. "me" \in Who /\ "poll" \in Who /\ "act" \in Who
  BY DEF Who
<1>6. CASE SubmitLogin \/ SignOut \/ ChangePassword \/ PagePolls \/ Reopen
  <2>1. UNCHANGED renewal
    BY <1>6 DEF SubmitLogin, SignOut, ChangePassword, PagePolls, Reopen, AskServer
  <2>2. \/ \E op : asks' = [asks EXCEPT !["act"] = Sent(op)]
        \/ asks' = [asks EXCEPT !["poll"] = Sent("poll")]
        \/ asks' = [asks EXCEPT !["me"] = Sent("me")]
    BY <1>6 DEF SubmitLogin, SignOut, ChangePassword, PagePolls, Reopen, AskServer
  <2> QED
    BY <1>1, <1>3, <1>4, <1>5, <2>1, <2>2
<1>7. ASSUME NEW a \in Who,
             \/ HandlePassword \/ HandleLogout
             \/ HandleMe(a) \/ HandleUnauthorized(a) \/ AnswerLost(a)
      PROVE  RefreshAwaited'
  <2>1. UNCHANGED renewal
    BY <1>7 DEF HandlePassword, HandleLogout, HandleMe, HandleUnauthorized, AnswerLost, ServerOnly
  <2>2. CASE HandlePassword \/ HandleLogout
    BY <1>1, <1>2, <1>5, <2>1, <2>2 DEF HandlePassword, HandleLogout
  <2>3. CASE HandleMe(a) \/ AnswerLost(a)
    BY <1>1, <1>2, <2>1, <2>3 DEF HandleMe, AnswerLost
  <2>4. CASE HandleUnauthorized(a)
    <3>1. StepTo(a, "refused") \/ StepTo(a, "failed")
      BY <2>4 DEF HandleUnauthorized
    <3> QED
      BY <1>1, <1>2, <2>1, <3>1
  <2> QED
    BY <1>7, <2>2, <2>3, <2>4
<1>8. CASE HandleLogin
  <2>1. UNCHANGED renewal
    BY <1>8 DEF HandleLogin, ServerOnly
  <2>2. CASE asks' = [asks EXCEPT !.act.step = "served", !.act.pair = newest + 1]
    <3>1. /\ DOMAIN asks' = Who /\ asks'["act"].step = "served"
          /\ \A b \in Who \ {"act"} : asks'[b] = asks[b]
      BY <2>2, ServedAs DEF AskUpTo
    <3> QED
      BY <1>1, <2>1, <3>1
  <2>3. CASE StepTo("act", "failed")
    BY <1>1, <1>2, <1>5, <2>1, <2>3
  <2> QED
    BY <1>8, <2>2, <2>3 DEF HandleLogin
<1>9. CASE RefreshLookup \/ RefreshRotate \/ RefreshAnswerLost
  <2>1. UNCHANGED asks
    BY <1>9 DEF RefreshLookup, RefreshRotate, RefreshAnswerLost
  <2>2. renewal'.step # "none"
    BY <1>0, <1>9 DEF RefreshLookup, RefreshRotate, RefreshAnswerLost
  <2> QED
    BY <1>0, <1>1, <2>1, <2>2
<1>10. CASE AccessExpires \/ UNCHANGED signInVars
  BY <1>0, <1>1, <1>10 DEF AccessExpires, signInVars
<1>11. CASE MeLands \/ PollLands \/ LoginLands \/ LogoutLands \/ PasswordLands
  <2>1. UNCHANGED renewal
    BY <1>11 DEF MeLands, PollLands, LoginLands, LogoutLands, PasswordLands
  <2>2. \E a \in Who : asks' = [asks EXCEPT ![a] = Unasked]
    BY <1>5, <1>11 DEF MeLands, PollLands, LoginLands, LogoutLands, PasswordLands
  <2> QED
    BY <1>1, <1>3, <1>4, <2>1, <2>2
<1>12. ASSUME NEW a \in Who, AwaitRefresh(a) PROVE RefreshAwaited'
  <2>1. StepTo(a, "waiting")
    BY <1>12 DEF AwaitRefresh
  <2>2. IF renewal = NoRenewal THEN renewal' = [step |-> "sent", pair |-> cookies]
        ELSE renewal' = renewal
    BY <1>12 DEF AwaitRefresh
  <2>3. renewal' # NoRenewal
    BY <1>0, <2>2
  <2> QED
    BY <2>3 DEF RefreshAwaited
<1>13. CASE RefreshLands
  <2>1. /\ DOMAIN asks' = Who
        /\ \A a \in Who : \/ asks'[a] = asks[a] /\ asks[a].step # "waiting"
                          \/ asks'[a] = [asks[a] EXCEPT !.step = "again", !.pair = renewal.pair]
                          \/ asks'[a] = Unasked
    BY <1>0, <1>13 DEF RefreshLands
  <2>2. \A a \in Who : asks'[a].step # "waiting"
    BY <1>0, <1>4, <2>1
  <2> QED
    BY <2>1, <2>2 DEF RefreshAwaited
<1> QED
  BY <1>0, <1>5, <1>6, <1>7, <1>8, <1>9, <1>10, <1>11, <1>12, <1>13 DEF SignInNext

\* The numbers of the pairs, and what awaits a refresh, in every visit.
LEMMA SignInVisit == SignInSpec => [](SignInTyped /\ RefreshAwaited)
<1>1. SignInInit => RefreshAwaited
  BY DEF SignInInit, RefreshAwaited, Sent, Unasked
<1> QED
  BY <1>1, InitTyped, StepTyped, WaitStep, PTL DEF SignInSpec

\* A play is reported once, and the events wait in a queue of a few places.
PlaysOnce ==
    /\ options \in Options
    /\ events \in Seq({"metadata", "play", "pause"}) /\ Len(events) <= MaxEvents
    /\ played \in BOOLEAN /\ plays = IF played THEN 1 ELSE 0

LEMMA TellTyped ==
    ASSUME PlaysOnce, NEW e \in {"metadata", "play", "pause"}, Tell(e)
    PROVE  events' \in Seq({"metadata", "play", "pause"}) /\ Len(events') <= MaxEvents
BY DEF PlaysOnce, Tell, MaxEvents

LEMMA HandleTyped ==
    ASSUME PlaysOnce, NEW e, Handle(e)
    PROVE  events' \in Seq({"metadata", "play", "pause"}) /\ Len(events') <= MaxEvents
BY DEF PlaysOnce, Handle, MaxEvents

\* Every step of the player keeps them.
LEMMA PlaysStep == PlaysOnce /\ [PlayerNext]_playerVars => PlaysOnce'
<1> SUFFICES ASSUME PlaysOnce, [PlayerNext]_playerVars PROVE PlaysOnce'
  OBVIOUS
<1>1. ASSUME UNCHANGED <<options, played, plays>>,
             UNCHANGED events \/ \E e \in {"metadata", "play", "pause"} : Tell(e) \/ Handle(e)
      PROVE  PlaysOnce'
  BY <1>1, TellTyped, HandleTyped DEF PlaysOnce
<1>2. CASE ManifestParsed
  <2>1. UNCHANGED <<options, played, plays>>
    BY <1>2 DEF ManifestParsed, startVars, playVars
  <2>2. CASE Tell("metadata")
    BY <1>1, <2>1, <2>2
  <2>3. CASE events' = <<"metadata", "play">>
    BY <2>1, <2>3 DEF PlaysOnce, MaxEvents
  <2> QED
    BY <1>2, <2>2, <2>3 DEF ManifestParsed
<1>3. CASE TogglePlay \/ Ended \/ Tap
  BY <1>1, <1>3 DEF TogglePlay, Ended, Tap, Play, Pause, startVars, playVars, videoVars
<1>4. CASE SeekTo \/ PointerMove \/ HideControls
  BY <1>1, <1>4 DEF SeekTo, PointerMove, HideControls, startVars, playVars, videoVars
<1>5. CASE OnMeta \/ OnPause
  BY <1>1, <1>5 DEF OnMeta, OnPause, startVars, playVars
<1>6. CASE OnPlay
  BY <1>6, HandleTyped DEF OnPlay, startVars, PlaysOnce
<1>7. CASE Ticker \/ BeforeUnload \/ Unmount
  BY <1>1, <1>7 DEF Ticker, BeforeUnload, Unmount, startVars, videoVars, playVars
<1>8. CASE UNCHANGED playerVars
  BY <1>1, <1>8 DEF playerVars, startVars, videoVars, playVars
<1> QED
  BY <1>2, <1>3, <1>4, <1>5, <1>6, <1>7, <1>8 DEF PlayerNext

LEMMA PlaysVisit == PlayerSpec => []PlaysOnce
<1>1. PlayerInit => PlaysOnce
  <2> SUFFICES ASSUME PlayerInit PROVE PlaysOnce
    OBVIOUS
  <2>1. options \in Options /\ events = <<>> /\ played = FALSE /\ plays = 0
    BY DEF PlayerInit
  <2>2. events \in Seq({"metadata", "play", "pause"}) /\ Len(events) = 0
    BY <2>1
  <2>3. Len(events) <= MaxEvents
    BY <2>2 DEF MaxEvents
  <2>4. played \in BOOLEAN /\ plays = IF played THEN 1 ELSE 0
    BY <2>1
  <2> QED
    BY <2>1, <2>2, <2>3, <2>4, Zenon DEF PlaysOnce
<1> QED
  BY <1>1, PlaysStep, PTL DEF PlayerSpec

\* What the page of the settings loads, edits and sends is a whole set of settings.
MaybeLoaded(d) == d = NotLoaded \/ d \in Settings
FlowTyped(f) ==
    /\ Shape(f) /\ MaybeLoaded(f.fresh)
    /\ f.phase = "patch" => f.body \in Settings
SettingsTyped ==
    /\ stored \in Settings /\ MaybeLoaded(data)
    /\ \A f \in flows : FlowTyped(f)

LEMMA NewFlowTyped ==
    ASSUME NEW kind, NEW keys, NEW body \in Settings
    PROVE  FlowTyped(Flow(kind, keys, body))
BY DEF FlowTyped, Shape, Flow, MaybeLoaded

\* Every step of the page keeps them.
LEMMA SettingsTypedStep == SettingsTyped /\ [SettingsNext]_settingsVars => SettingsTyped'
<1> SUFFICES ASSUME SettingsTyped, [SettingsNext]_settingsVars PROVE SettingsTyped'
  OBVIOUS
<1>1. ASSUME NEW v \in Value, EditField(v) PROVE SettingsTyped'
  <2>1. data \in Settings /\ UNCHANGED <<stored, flows>>
    BY <1>1 DEF EditField, SettingsTyped, MaybeLoaded
  <2>2. [data EXCEPT !.field = v] \in Settings /\ [data EXCEPT !.other = v] \in Settings
    BY <2>1 DEF Settings
  <2> QED
    BY <1>1, <2>1, <2>2 DEF EditField, SettingsTyped, MaybeLoaded
<1>2. CASE OpenGroup \/ UNCHANGED settingsVars
  BY <1>2 DEF OpenGroup, settingsVars, SettingsTyped
<1>3. CASE SaveGroup
  <2>1. data \in Settings /\ UNCHANGED <<stored, data>>
        /\ flows' = flows \cup {Flow("group", SentKeys, data)}
    BY <1>3 DEF SaveGroup, Start, SettingsTyped, MaybeLoaded
  <2> QED
    BY <2>1, NewFlowTyped DEF SettingsTyped
<1>4. CASE SetBool
  <2>1. data \in Settings /\ UNCHANGED <<stored, data>>
        /\ flows' = flows \cup {Flow("switch", {"on"}, [data EXCEPT !.on = ~@])}
    BY <1>4 DEF SetBool, Start, SettingsTyped, MaybeLoaded
  <2>2. [data EXCEPT !.on = ~@] \in Settings
    BY <2>1 DEF Settings
  <2> QED
    BY <2>1, <2>2, NewFlowTyped DEF SettingsTyped
<1>5. ASSUME NEW f \in flows, Patch(f) PROVE SettingsTyped'
  <2>1. f.body \in Settings /\ stored \in Settings /\ Shape(f) /\ MaybeLoaded(f.fresh)
    BY <1>5 DEF Patch, SettingsTyped, FlowTyped
  <2>2. stored' \in Settings
    BY <1>5, <2>1 DEF Patch, Settings
  <2>3. [f EXCEPT !.phase = "get"]
           = [kind |-> f.kind, keys |-> f.keys, body |-> f.body, phase |-> "get",
              fresh |-> f.fresh, nr |-> f.nr]
    BY <2>1 DEF Shape
  <2>4. FlowTyped([f EXCEPT !.phase = "get"])
    BY <2>1, <2>3 DEF FlowTyped, Shape
  <2> QED
    BY <1>5, <2>2, <2>4 DEF Patch, Step, SettingsTyped
<1>6. ASSUME NEW f \in flows, Get(f) PROVE SettingsTyped'
  <2>1. stored \in Settings /\ FlowTyped(f) /\ f.phase = "get"
    BY <1>6 DEF Get, SettingsTyped
  <2>2. [f EXCEPT !.fresh = stored]
           = [kind |-> f.kind, keys |-> f.keys, body |-> f.body, phase |-> "get",
              fresh |-> stored, nr |-> f.nr]
    BY <2>1 DEF FlowTyped, Shape
  <2>3. FlowTyped([f EXCEPT !.fresh = stored])
    BY <2>1, <2>2 DEF FlowTyped, Shape, MaybeLoaded
  <2> QED
    BY <1>6, <2>3 DEF Get, Step, SettingsTyped
<1>7. ASSUME NEW f \in flows, SetData(f) \/ FlowFails(f) PROVE SettingsTyped'
  BY <1>7 DEF SetData, FlowFails, SettingsTyped, FlowTyped
<1> QED
  BY <1>1, <1>2, <1>3, <1>4, <1>5, <1>6, <1>7 DEF SettingsNext

LEMMA SettingsVisit == SettingsSpec => []SettingsTyped
<1>1. SettingsInit => SettingsTyped
  <2> SUFFICES ASSUME SettingsInit PROVE SettingsTyped
    OBVIOUS
  <2>1. data = NotLoaded /\ \E v \in Value : stored = [field |-> v, on |-> TRUE, other |-> v]
    BY DEF SettingsInit
  <2>2. stored \in Settings
    BY <2>1 DEF Settings
  <2> DEFINE load == [kind |-> "load", keys |-> {}, body |-> NotLoaded, phase |-> "get",
                      fresh |-> NotLoaded, nr |-> 0]
  <2>3. flows = {load}
    BY DEF SettingsInit
  <2>4. FlowTyped(load)
    BY DEF FlowTyped, Shape, MaybeLoaded
  <2> HIDE DEF load
  <2> QED
    BY <2>1, <2>2, <2>3, <2>4 DEF SettingsTyped, MaybeLoaded
<1> QED
  BY <1>1, SettingsTypedStep, PTL DEF SettingsSpec

-----------------------------------------------------------------------------
(* The types of the entry dialog.                                          *)

Prompts == {"save", "reprocess", "addSubtitle", "dropSubtitle"}
IsBody(b) == b.meta \in Meta /\ b.flavors \subseteq SUBSET Flavor
PostTyped(p) ==
    /\ p = [kind |-> p.kind, body |-> p.body, own |-> p.own, phase |-> p.phase, nr |-> p.nr]
    /\ p.kind \in Prompts /\ IsBody(p.body)
DialogTyped ==
    /\ truth \in Detail /\ entry \in Detail /\ reply.entry \in Detail
    /\ draft \in [meta : Meta, ticked : SUBSET Flavor, touched : BOOLEAN]
    /\ prompt \in [kind : Prompts \cup {"none"}, pending : BOOLEAN]
    /\ \A p \in posts : PostTyped(p)

LEMMA FirstEntryTyped ==
    ASSUME NEW s \in {"ready", "failed", "transcoding"} PROVE FirstEntry(s) \in Detail
<1>1. (CHOOSE m \in Meta : TRUE) \in Meta
  BY MetaAssumption
<1> QED
  BY <1>1 DEF FirstEntry, Detail

LEMMA NoReplyTyped == NoReply.entry \in Detail /\ Asked.entry \in Detail
  BY FirstEntryTyped DEF NoReply, Asked

LEMMA DraftOfTyped ==
    ASSUME NEW e \in Detail
    PROVE  DraftOf(e) \in [meta : Meta, ticked : SUBSET Flavor, touched : BOOLEAN]
  BY DEF DraftOf, Detail

\* An entry with new metadata, or another status.
LEMMA EntryChanged ==
    ASSUME NEW e \in Detail, NEW m \in Meta, NEW fs \in SUBSET Flavor,
           NEW s \in {"ready", "failed", "transcoding"}
    PROVE  /\ [e EXCEPT !.meta = m, !.rev = @ + 1] \in Detail
           /\ [e EXCEPT !.status = s, !.rev = @ + 1] \in Detail
           /\ [e EXCEPT !.status = s, !.flavors = fs, !.rev = @ + 1] \in Detail
<1>0. /\ e.meta \in Meta /\ e.flavors \in SUBSET Flavor /\ e.subs \in 0..1
      /\ e.status \in {"ready", "failed", "transcoding"} /\ e.rev + 1 \in Nat
      /\ e = [meta |-> e.meta, flavors |-> e.flavors, subs |-> e.subs, status |-> e.status,
              rev |-> e.rev]
  BY DEF Detail
<1>1. [e EXCEPT !.meta = m, !.rev = @ + 1] \in Detail
  <2> DEFINE n == [e EXCEPT !.meta = m, !.rev = @ + 1]
  <2>1. n = [x \in {"meta", "flavors", "subs", "status", "rev"} |-> n[x]]
    BY <1>0
  <2>2. /\ n["meta"] = m /\ n["flavors"] = e.flavors /\ n["subs"] = e.subs
        /\ n["status"] = e.status /\ n["rev"] = e.rev + 1
    BY <1>0
  <2> HIDE DEF n
  <2>3. n \in Detail
    BY <1>0, <2>1, <2>2 DEF Detail
  <2> QED
    BY <2>3 DEF n
<1>2. [e EXCEPT !.status = s, !.rev = @ + 1] \in Detail
  <2> DEFINE n == [e EXCEPT !.status = s, !.rev = @ + 1]
  <2>1. n = [x \in {"meta", "flavors", "subs", "status", "rev"} |-> n[x]]
    BY <1>0
  <2>2. /\ n["meta"] = e.meta /\ n["flavors"] = e.flavors /\ n["subs"] = e.subs
        /\ n["status"] = s /\ n["rev"] = e.rev + 1
    BY <1>0
  <2> HIDE DEF n
  <2>3. n \in Detail
    BY <1>0, <2>1, <2>2 DEF Detail
  <2> QED
    BY <2>3 DEF n
<1>3. [e EXCEPT !.status = s, !.flavors = fs, !.rev = @ + 1] \in Detail
  <2> DEFINE n == [e EXCEPT !.status = s, !.flavors = fs, !.rev = @ + 1]
  <2>1. n = [x \in {"meta", "flavors", "subs", "status", "rev"} |-> n[x]]
    BY <1>0
  <2>2. /\ n["meta"] = e.meta /\ n["flavors"] = fs /\ n["subs"] = e.subs
        /\ n["status"] = s /\ n["rev"] = e.rev + 1
    BY <1>0
  <2> HIDE DEF n
  <2>3. n \in Detail
    BY <1>0, <2>1, <2>2 DEF Detail
  <2> QED
    BY <2>3 DEF n
<1> QED
  BY <1>1, <1>2, <1>3

\* What a call does on the server leaves an entry.
LEMMA EffectTyped ==
    ASSUME truth \in Detail, NEW p, PostTyped(p)
    PROVE  Effect(p) \in Detail
<1>1. CASE p.kind = "save"
  <2> DEFINE fs == Some(p.body.flavors, truth.flavors)
             st == IF p.body.flavors # {} THEN "transcoding" ELSE truth.status
  <2>1. p.body.meta \in Meta
    BY DEF PostTyped, IsBody
  <2>2. fs \in SUBSET Flavor
    <3>1. CASE p.body.flavors = {}
      BY <3>1 DEF Some, Detail
    <3>2. CASE p.body.flavors # {}
      <4>1. (CHOOSE x \in p.body.flavors : TRUE) \in p.body.flavors
        BY <3>2
      <4> QED
        BY <3>2, <4>1 DEF Some, PostTyped, IsBody
    <3> QED
      BY <3>1, <3>2
  <2>3. st \in {"ready", "failed", "transcoding"} /\ truth.subs \in 0..1 /\ truth.rev + 1 \in Nat
    BY DEF Detail
  <2>4. Effect(p) = [meta |-> p.body.meta, flavors |-> fs, subs |-> truth.subs, status |-> st,
                     rev |-> truth.rev + 1]
    BY <1>1 DEF Effect, Detail
  <2> HIDE DEF fs, st
  <2> QED
    BY <2>1, <2>2, <2>3, <2>4 DEF Detail
<1>2. CASE p.kind = "reprocess"
  <2>1. Effect(p) = [truth EXCEPT !.status = "transcoding", !.rev = @ + 1]
    BY <1>2 DEF Effect
  <2> QED
    BY <2>1, EntryChanged, MetaAssumption
<1>3. CASE p.kind = "addSubtitle"
  BY <1>3 DEF Effect, Detail
<1>4. CASE p.kind = "dropSubtitle"
  BY <1>4 DEF Effect, Detail
<1> QED
  BY <1>1, <1>2, <1>3, <1>4 DEF PostTyped, Prompts

\* What changes nothing but the draft, or the confirmation on top.
LEMMA DraftTyped ==
    ASSUME DialogTyped, UNCHANGED <<truth, entry, reply, prompt, posts>>,
           draft' \in [meta : Meta, ticked : SUBSET Flavor, touched : BOOLEAN]
    PROVE  DialogTyped'
  BY DEF DialogTyped, PostTyped
LEMMA PromptTyped ==
    ASSUME DialogTyped, UNCHANGED <<truth, entry, draft>>, reply'.entry \in Detail,
           prompt' \in [kind : Prompts \cup {"none"}, pending : BOOLEAN],
           \A p \in posts' : PostTyped(p)
    PROVE  DialogTyped'
  BY DEF DialogTyped, PostTyped

LEMMA EditTyped ==
    ASSUME DialogTyped,
           (\E m \in Meta : EditMeta(m)) \/ (\E f \in Flavor : Tick(f)) \/ PickPoster \/ Reset
    PROVE  DialogTyped'
<1> USE DEF DialogTyped
<1>0. UNCHANGED <<truth, entry, reply, prompt, posts>>
  BY DEF EditMeta, Tick, PickPoster, Edit, Reset
<1>1. ASSUME NEW m \in Meta, EditMeta(m) PROVE DialogTyped'
  BY <1>0, <1>1, DraftTyped DEF EditMeta, Edit
<1>2. ASSUME NEW f \in Flavor, Tick(f) PROVE DialogTyped'
  BY <1>0, <1>2, DraftTyped DEF Tick, Edit
<1>3. CASE PickPoster
  BY <1>0, <1>3, DraftTyped DEF PickPoster, Edit
<1>4. CASE Reset
  BY <1>0, <1>4, DraftTyped, DraftOfTyped DEF Reset
<1> QED
  BY <1>1, <1>2, <1>3, <1>4

LEMMA PromptSteps ==
    ASSUME DialogTyped,
           \/ AskSave \/ AskReprocessEntry \/ AskDeleteSubtitle \/ OpenSubtitleDialog
           \/ DismissPrompt \/ ConfirmPrompt
    PROVE  DialogTyped'
<1>0. UNCHANGED <<truth, entry, reply, draft>> /\ reply.entry \in Detail
  BY DEF AskSave, AskReprocessEntry, AskDeleteSubtitle, OpenSubtitleDialog, Prompt, DismissPrompt,
         ConfirmPrompt, DialogTyped
<1>1. CASE AskSave \/ AskReprocessEntry \/ AskDeleteSubtitle \/ OpenSubtitleDialog
  <2>1. posts' = posts /\ \E k \in Prompts : prompt' = [kind |-> k, pending |-> FALSE]
    BY <1>1 DEF AskSave, AskReprocessEntry, AskDeleteSubtitle, OpenSubtitleDialog, Prompt, Prompts
  <2> QED
    BY <1>0, <2>1, PromptTyped DEF DialogTyped
<1>2. CASE DismissPrompt
  <2>2. ASSUME NEW p \in posts PROVE PostTyped([p EXCEPT !.own = FALSE])
    <3>1. PostTyped(p)
      BY DEF DialogTyped
    <3> DEFINE n == [p EXCEPT !.own = FALSE]
    <3>2. n = [x \in {"kind", "body", "own", "phase", "nr"} |-> n[x]]
      BY <3>1 DEF PostTyped
    <3>3. n["kind"] = p.kind /\ n["body"] = p.body
      BY <3>1 DEF PostTyped
    <3> HIDE DEF n
    <3>4. PostTyped(n)
      BY <3>1, <3>2, <3>3 DEF PostTyped
    <3> QED
      BY <3>4 DEF n
  <2>3. prompt' = NoPrompt /\ posts' = {[p EXCEPT !.own = FALSE] : p \in posts}
    BY <1>2 DEF DismissPrompt
  <2> QED
    BY <1>0, <2>2, <2>3, PromptTyped DEF NoPrompt
<1>3. CASE ConfirmPrompt
  <2> DEFINE new == [kind |-> prompt.kind, body |-> Body, own |-> TRUE, phase |-> "sent", nr |-> saves]
  <2>1. Body.meta \in Meta /\ Body.flavors \subseteq SUBSET Flavor
    BY DEF Body, DialogTyped
  <2>2. prompt.kind \in Prompts
    BY <1>3 DEF ConfirmPrompt, DialogTyped
  <2>3. PostTyped(new)
    BY <2>1, <2>2 DEF PostTyped, IsBody
  <2>4. posts' = posts \cup {new} /\ prompt' = [prompt EXCEPT !.pending = TRUE]
    BY <1>3 DEF ConfirmPrompt
  <2> HIDE DEF new
  <2>5. prompt' \in [kind : Prompts \cup {"none"}, pending : BOOLEAN]
    BY <2>4 DEF DialogTyped
  <2>6. \A p \in posts' : PostTyped(p)
    BY <2>3, <2>4 DEF DialogTyped
  <2> QED
    BY <1>0, <2>5, <2>6, PromptTyped
<1> QED
  BY <1>1, <1>2, <1>3

LEMMA PostSteps ==
    ASSUME DialogTyped, NEW p \in posts, Serve(p) \/ Served(p) \/ PostFails(p)
    PROVE  DialogTyped'
<1>0. PostTyped(p)
  BY DEF DialogTyped
<1>1. CASE Serve(p)
  <2>1. truth' \in Detail
    BY <1>0, <1>1, EffectTyped DEF Serve, DialogTyped
  <2>2. [p EXCEPT !.phase = "applied"]
           = [kind |-> p.kind, body |-> p.body, own |-> p.own, phase |-> "applied", nr |-> p.nr]
    BY <1>0 DEF PostTyped
  <2>3. PostTyped([p EXCEPT !.phase = "applied"])
    BY <1>0, <2>2 DEF PostTyped
  <2>4. /\ posts' = (posts \ {p}) \cup {[p EXCEPT !.phase = "applied"]}
        /\ UNCHANGED <<entry, reply, draft, prompt>>
    BY <1>1 DEF Serve
  <2>5. \A q \in posts' : PostTyped(q)
    BY <2>3, <2>4 DEF DialogTyped
  <2> QED
    BY <2>1, <2>4, <2>5 DEF DialogTyped, PostTyped
<1>2. CASE Served(p) \/ PostFails(p)
  <2>1. /\ UNCHANGED <<truth, entry, draft>> /\ posts' = posts \ {p}
        /\ reply' = reply \/ reply' = Asked
        /\ prompt' \in {NoPrompt, prompt, [prompt EXCEPT !.pending = FALSE]}
    BY <1>2 DEF Served, PostFails, InvalidateEntry
  <2>2. prompt' \in [kind : Prompts \cup {"none"}, pending : BOOLEAN]
    <3>1. prompt \in [kind : Prompts \cup {"none"}, pending : BOOLEAN]
      BY DEF DialogTyped
    <3>2. [prompt EXCEPT !.pending = FALSE] \in [kind : Prompts \cup {"none"}, pending : BOOLEAN]
      BY <3>1
    <3>3. NoPrompt \in [kind : Prompts \cup {"none"}, pending : BOOLEAN]
      BY DEF NoPrompt
    <3> QED
      BY <2>1, <3>1, <3>2, <3>3, Zenon
  <2>3. reply'.entry \in Detail
    BY <2>1, NoReplyTyped DEF DialogTyped
  <2> QED
    BY <2>1, <2>2, <2>3, PromptTyped DEF DialogTyped
<1> QED
  BY <1>1, <1>2

\* Every step of the dialog keeps the types.
LEMMA DialogTypedStep == DialogTyped /\ [EntryNext]_entryVars => DialogTyped'
<1> SUFFICES ASSUME DialogTyped, [EntryNext]_entryVars PROVE DialogTyped'
  OBVIOUS
<1>1. CASE PollEntry \/ LoseEntry
  <2>1. UNCHANGED <<truth, entry, draft, prompt, posts>> /\ reply' \in {Asked, NoReply}
    BY <1>1 DEF PollEntry, LoseEntry, InvalidateEntry
  <2> QED
    BY <2>1, NoReplyTyped, PromptTyped DEF DialogTyped
<1>2. CASE AnswerEntry
  <2>1. UNCHANGED <<truth, entry, draft, prompt, posts>> /\ reply'.entry = truth
    BY <1>2 DEF AnswerEntry
  <2> QED
    BY <2>1, PromptTyped DEF DialogTyped
<1>3. CASE LandEntry
  <2>1. /\ UNCHANGED <<truth, prompt, posts>> /\ reply' = NoReply
        /\ \/ UNCHANGED <<entry, draft>>
           \/ entry' = reply.entry /\ draft' = DraftOf(reply.entry)
    BY <1>3 DEF LandEntry, Sync
  <2>2. entry' \in Detail /\ draft' \in [meta : Meta, ticked : SUBSET Flavor, touched : BOOLEAN]
    BY <2>1, DraftOfTyped DEF DialogTyped
  <2> QED
    BY <2>1, <2>2, NoReplyTyped DEF DialogTyped, PostTyped
<1>4. CASE WorkerEnds \/ OtherEdits
  <2>1. UNCHANGED <<entry, reply, draft, prompt, posts>>
    BY <1>4 DEF WorkerEnds, OtherEdits
  <2>2. truth' \in Detail
    <3>0. truth \in Detail /\ truth.flavors \in SUBSET Flavor
      BY DEF DialogTyped, Detail
    <3>1. ASSUME NEW s \in {"ready", "failed"}, NEW fs \in SUBSET truth.flavors,
                 truth' = [truth EXCEPT !.status = s, !.flavors = fs, !.rev = @ + 1]
          PROVE  truth' \in Detail
      <4>1. fs \in SUBSET Flavor /\ s \in {"ready", "failed", "transcoding"} /\ \E m \in Meta : TRUE
        BY <3>0, MetaAssumption
      <4> QED
        BY <3>0, <3>1, <4>1, EntryChanged, Zenon
    <3>2. ASSUME NEW m \in Meta, truth' = [truth EXCEPT !.meta = m, !.rev = @ + 1]
          PROVE  truth' \in Detail
      BY <3>0, <3>2, EntryChanged, Zenon
    <3>3. ASSUME truth' = [truth EXCEPT !.status = "transcoding", !.rev = @ + 1]
          PROVE  truth' \in Detail
      <4>1. "transcoding" \in {"ready", "failed", "transcoding"} /\ \E m \in Meta : TRUE
        BY MetaAssumption
      <4> QED
        BY <3>0, <3>3, <4>1, EntryChanged, Zenon
    <3> QED
      BY <1>4, <3>1, <3>2, <3>3 DEF WorkerEnds, OtherEdits
  <2> QED
    BY <2>1, <2>2 DEF DialogTyped, PostTyped
<1>5. CASE UNCHANGED entryVars
  BY <1>5 DEF entryVars, DialogTyped, PostTyped
<1> QED
  BY <1>1, <1>2, <1>3, <1>4, <1>5, EditTyped, PromptSteps, PostSteps
     DEF EntryNext, EntryUser, Posting, FetchingEntry

LEMMA DialogVisit == EntrySpec => []DialogTyped
<1>1. EntryInit => DialogTyped
  <2> SUFFICES ASSUME EntryInit PROVE DialogTyped
    OBVIOUS
  <2>1. truth \in Detail /\ entry = truth
    BY FirstEntryTyped DEF EntryInit
  <2> QED
    BY <2>1, NoReplyTyped, DraftOfTyped DEF EntryInit, DialogTyped, NoPrompt
<1> QED
  BY <1>1, DialogTypedStep, PTL DEF EntrySpec

-----------------------------------------------------------------------------
(* The types of the page of the entries.                                   *)

IsListing(a) ==
    /\ a = [phase |-> a.phase, rows |-> a.rows, total |-> a.total]
    /\ a.rows \subseteq Entry /\ a.total \in 0..Cardinality(Entry)
Listings(f) == f = [v \in DOMAIN f |-> f[v]] /\ \A v \in DOMAIN f : IsListing(f[v])
IsQuestion(a) == a \in [kind : {"none", "bulk", "reprocess", "delete"}, ids : SUBSET Entry, pending : BOOLEAN]
ViewsTyped ==
    /\ view \in View
    /\ Listings(cache) /\ Listings(requests)
    /\ selected \subseteq Entry /\ IsQuestion(asked)

LEMMA EntriesCount ==
    /\ Cardinality(Entry) \in Nat /\ Cardinality({}) = 0
    /\ \A S \in SUBSET Entry : Cardinality(S) \in 0..Cardinality(Entry)
<1>1. Cardinality(Entry) \in Nat
  BY EntriesAssumption, FS_CardinalityType
<1>2. Cardinality({}) = 0
  BY FS_EmptySet
<1>3. ASSUME NEW S \in SUBSET Entry PROVE Cardinality(S) \in 0..Cardinality(Entry)
  <2>1. IsFiniteSet(S) /\ Cardinality(S) <= Cardinality(Entry)
    BY EntriesAssumption, FS_Subset
  <2>2. Cardinality(S) \in Nat
    BY <2>1, FS_CardinalityType
  <2> QED
    BY <1>1, <2>1, <2>2
<1> QED
  BY <1>1, <1>2, <1>3

\* The answer to a view counts entries, and so does a request that has not been answered.
LEMMA AnsweredIs == ASSUME NEW v PROVE IsListing(Answered(v)) /\ IsListing(NoAnswer)
<1> DEFINE rs == {e \in Kept(v.filter) :
                    Cardinality({x \in Kept(v.filter) : x > e}) \div PageSize = v.page - 1}
<1>1. Kept(v.filter) \subseteq Entry /\ rs \subseteq Entry
  BY EntriesAssumption DEF Kept
<1>2. Answered(v) = [phase |-> "answered", total |-> Cardinality(Kept(v.filter)), rows |-> rs]
  BY DEF Answered
<1> HIDE DEF rs
<1>3. IsListing(Answered(v))
  BY <1>1, <1>2, EntriesCount DEF IsListing
<1>4. IsListing(NoAnswer)
  BY EntriesCount DEF IsListing, NoAnswer
<1> QED
  BY <1>3, <1>4

LEMMA PutListing ==
    ASSUME NEW f, Listings(f), NEW v, NEW a, IsListing(a)
    PROVE  Listings(Put(f, v, a))
BY DEF Listings, Put
LEMMA ExceptListing ==
    ASSUME NEW f, Listings(f), NEW v, NEW a, IsListing(a)
    PROVE  Listings([f EXCEPT ![v] = a])
BY DEF Listings
LEMMA RestrictListing ==
    ASSUME NEW f, Listings(f), NEW S
    PROVE  Listings(Restrict(f, DOMAIN f \ S))
BY DEF Listings, Restrict

\* A page that is not the last is followed by one that there may be.
LEMMA NextPage ==
    ASSUME ViewsTyped, view.page * PageSize < Listing.total
    PROVE  [view EXCEPT !.page = @ + 1] \in View
<1>1. view.page \in Nat \ {0} /\ PageSize \in Nat \ {0} /\ Cardinality(Entry) \in Nat
  BY EntriesAssumption, EntriesCount DEF ViewsTyped, View
<1>2. Listing.total \in 0..Cardinality(Entry)
  BY AnsweredIs DEF Listing, Known, ViewsTyped, Listings, IsListing
<1>3. view.page <= view.page * PageSize
  BY <1>1
<1>4. view.page * PageSize \in Nat
  BY <1>1
<1>5. view.page + 1 \in 1..(Cardinality(Entry) + 1)
  BY <1>1, <1>2, <1>3, <1>4
<1> QED
  BY <1>5 DEF ViewsTyped, View

LEMMA LookTyped ==
    ASSUME ViewsTyped, NEW v \in View, Look(v)
    PROVE  ViewsTyped'
BY PutListing, AnsweredIs DEF ViewsTyped, Look, askVars

LEMMA ListedTyped == ViewsTyped => Listed \subseteq Entry
BY AnsweredIs DEF ViewsTyped, Listed, Listing, Known, Listings, IsListing

\* Changes of the view.
LEMMA SightSteps == ViewsTyped /\ (SetFilter \/ TurnPage) => ViewsTyped'
<1> SUFFICES ASSUME ViewsTyped, SetFilter \/ TurnPage PROVE ViewsTyped'
  OBVIOUS
<1>1. CASE SetFilter
  <2>1. PICK f \in {"all", "some"} : Look([filter |-> f, page |-> 1])
    BY <1>1 DEF SetFilter
  <2>2. [filter |-> f, page |-> 1] \in View
    BY EntriesCount DEF View
  <2> QED
    BY <2>1, <2>2, LookTyped
<1>2. CASE TurnPage
  <2>1. CASE view.page > 1 /\ Look([view EXCEPT !.page = @ - 1])
    <3>1. view.page - 1 \in 1..(Cardinality(Entry) + 1)
      BY <2>1, EntriesCount DEF ViewsTyped, View
    <3>2. [view EXCEPT !.page = @ - 1] \in View
      BY <3>1 DEF ViewsTyped, View
    <3> QED
      BY <2>1, <3>2, LookTyped
  <2>2. CASE view.page * PageSize < Listing.total /\ Look([view EXCEPT !.page = @ + 1])
    BY <2>2, NextPage, LookTyped
  <2> QED
    BY <1>2, <2>1, <2>2 DEF TurnPage
<1> QED
  BY <1>1, <1>2

\* What fetches, and what is fetched.
LEMMA FetchSteps ==
    ASSUME ViewsTyped,
           \/ Fetching \/ OwnUploadDone
           \/ \E v \in DOMAIN requests : LoseEntries(v)
           \/ \E e \in Entry : OtherDeletes(e)
    PROVE  ViewsTyped'
<1> USE DEF ViewsTyped
<1>1. CASE PollEntries \/ OwnUploadDone
  BY <1>1, PutListing, AnsweredIs DEF PollEntries, OwnUploadDone, Refetch, askVars
<1>2. ASSUME NEW v \in DOMAIN requests, AnswerEntries(v) PROVE ViewsTyped'
  BY <1>2, ExceptListing, AnsweredIs DEF AnswerEntries, askVars
<1>3. ASSUME NEW v \in DOMAIN requests, LandEntries(v) PROVE ViewsTyped'
  <2>1. IsListing(requests[v])
    BY DEF Listings
  <2> QED
    BY <1>3, <2>1, PutListing, RestrictListing DEF LandEntries, askVars
<1>4. ASSUME NEW v \in DOMAIN requests, LoseEntries(v) PROVE ViewsTyped'
  BY <1>4, RestrictListing DEF LoseEntries, askVars
<1>5. ASSUME NEW e \in Entry, OtherDeletes(e) PROVE ViewsTyped'
  BY <1>5 DEF OtherDeletes, sightVars, askVars
<1> QED
  BY <1>1, <1>2, <1>3, <1>4, <1>5 DEF Fetching

\* The selection and the questions.
LEMMA AskSteps ==
    ASSUME ViewsTyped,
           \/ SelectAll \/ AskBulkDelete \/ AskReprocess \/ ConfirmAsked \/ DismissAsked
           \/ \E e \in Listed : ToggleSelect(e) \/ AskDelete(e)
    PROVE  ViewsTyped'
<1>0. Listed \subseteq Entry /\ selected \subseteq Entry /\ IsQuestion(asked)
  BY ListedTyped DEF ViewsTyped
<1>1. UNCHANGED <<view, cache, requests>>
  BY DEF SelectAll, AskBulkDelete, AskReprocess, Ask, ConfirmAsked, DismissAsked, ToggleSelect, AskDelete,
         sightVars
<1>2. ASSUME selected' \subseteq Entry, IsQuestion(asked') PROVE ViewsTyped'
  BY <1>1, <1>2 DEF ViewsTyped
<1>3. CASE SelectAll \/ \E e \in Listed : ToggleSelect(e)
  BY <1>0, <1>2, <1>3 DEF SelectAll, ToggleSelect, askVars
<1>4. ASSUME NEW kind \in {"bulk", "reprocess", "delete"}, NEW ids \in SUBSET Entry, Ask(kind, ids)
      PROVE  ViewsTyped'
  BY <1>0, <1>2, <1>4 DEF Ask, IsQuestion
<1>5. CASE AskBulkDelete \/ AskReprocess \/ \E e \in Listed : AskDelete(e)
  BY <1>0, <1>4, <1>5 DEF AskBulkDelete, AskReprocess, AskDelete
<1>6. CASE ConfirmAsked
  BY <1>0, <1>2, <1>6 DEF ConfirmAsked, IsQuestion
<1>7. CASE DismissAsked
  BY <1>0, <1>2, <1>7 DEF DismissAsked, IsQuestion, NotAsked
<1> QED
  BY <1>3, <1>5, <1>6, <1>7

\* The calls of a question and their end.
LEMMA CallSteps == ViewsTyped /\ Calling => ViewsTyped'
<1> SUFFICES ASSUME ViewsTyped, NEW t \in tasks,
                    (\E e \in t.left : DeleteEntry(t, e)) \/ EndBulk(t) \/ EndDelete(t)
             PROVE  ViewsTyped'
  BY DEF Calling
<1>0. /\ IsQuestion(asked) /\ IsQuestion(NotAsked) /\ IsQuestion([asked EXCEPT !.pending = FALSE])
      /\ Listings(requests) /\ Listings(Put(requests, view, NoAnswer))
  BY PutListing, AnsweredIs DEF ViewsTyped, IsQuestion, NotAsked
<1>1. CASE \E e \in t.left : DeleteEntry(t, e)
  BY <1>1 DEF DeleteEntry, sightVars, ViewsTyped
<1>2. CASE EndBulk(t)
  <2>1. /\ UNCHANGED <<view, cache>> /\ selected' = {} /\ requests' = Put(requests, view, NoAnswer)
        /\ asked' \in {NotAsked, asked}
    BY <1>2 DEF EndBulk, Refetch
  <2> QED
    BY <1>0, <2>1 DEF ViewsTyped
<1>3. CASE EndDelete(t)
  <2>1. /\ UNCHANGED <<view, cache, selected>>
        /\ requests' \in {requests, Put(requests, view, NoAnswer)}
        /\ asked' \in {asked, NotAsked, [asked EXCEPT !.pending = FALSE]}
    BY <1>3 DEF EndDelete, Refetch
  <2> QED
    BY <1>0, <2>1 DEF ViewsTyped
<1> QED
  BY <1>1, <1>2, <1>3

\* Every step of the page keeps the types.
LEMMA ViewsStep == ViewsTyped /\ [EntriesNext]_entriesVars => ViewsTyped'
<1> SUFFICES ASSUME ViewsTyped, [EntriesNext]_entriesVars PROVE ViewsTyped'
  OBVIOUS
<1>1. CASE UNCHANGED entriesVars
  BY <1>1 DEF entriesVars, sightVars, askVars, ViewsTyped
<1> QED
  BY <1>1, SightSteps, FetchSteps, AskSteps, CallSteps DEF EntriesNext, EntriesUser

LEMMA ViewsInit == EntriesInit => ViewsTyped
<1> SUFFICES ASSUME EntriesInit PROVE ViewsTyped
  OBVIOUS
<1>1. [filter |-> "all", page |-> 1] \in View
  BY EntriesCount DEF View
<1>2. Listings([v \in {} |-> NoAnswer]) /\ Listings([v \in {view} |-> NoAnswer])
  BY AnsweredIs DEF Listings
<1>3. IsQuestion(NotAsked)
  BY DEF IsQuestion, NotAsked
<1> QED
  BY <1>1, <1>2, <1>3 DEF EntriesInit, ViewsTyped

-----------------------------------------------------------------------------
(* The types of the table pages. On each page the rows have what their     *)
(* table has: only categories have parents, and the text of a job is its   *)
(* status. No job is deleted, so that the page of the jobs names only      *)
(* those that there are.                                                   *)

Jobs == page = "jobs"
PageText == IF Jobs THEN JobState ELSE Text
PageUp == IF page = "categories" THEN Row \cup {0} ELSE {0}
PageRow == [text : PageText, flag : BOOLEAN, up : PageUp]
PageKinds ==
    IF Jobs THEN {"cancel", "pause", "resume", "retry"}
    ELSE {"create", "update", "delete"} \cup (IF page = "flavors" THEN {"toggle"} ELSE {})
Shows(t) == DOMAIN t \subseteq (IF Jobs THEN DOMAIN table ELSE Row) /\ \A r \in DOMAIN t : t[r] \in PageRow
CallTyped(c) ==
    /\ c.kind \in PageKinds
    /\ c.kind \in {"create", "update", "toggle"} => c.body.draft \in PageRow
    /\ Jobs => c.row \in DOMAIN table

RowsTyped ==
    /\ page \in DOMAIN Limits
    /\ DOMAIN table \subseteq used /\ used \subseteq Row
    /\ \A r \in DOMAIN table : table[r] \in PageRow /\ table[r].up \in DOMAIN table \cup {0}
ShownTyped == Shows(list) /\ Shows(fetch.rows)
FrontTyped ==
    /\ form.open => ~Jobs /\ form.draft \in PageRow /\ question.row = 0
    /\ question = [row |-> question.row, pending |-> question.pending]
    /\ Jobs => question.row \in DOMAIN table \cup {0}
CallsTyped == \A c \in calls : CallTyped(c)
TableTyped == RowsTyped /\ ShownTyped /\ FrontTyped /\ CallsTyped

LEMMA BlankIs ==
    /\ Blank = [text |-> Blank.text, flag |-> FALSE, up |-> 0] /\ Blank.text \in Text
    /\ Blank.flag = FALSE /\ Blank.up = 0
BY TextAssumption, Zenon DEF Blank

\* A row with another text, flag or parent.
LEMMA RowChanged ==
    ASSUME NEW d \in PageRow
    PROVE  /\ \A x \in PageText : [d EXCEPT !.text = x] \in PageRow /\ [d EXCEPT !.text = x].up = d.up
           /\ \A b \in BOOLEAN : [d EXCEPT !.flag = b] \in PageRow /\ [d EXCEPT !.flag = b].up = d.up
           /\ \A p \in PageUp : [d EXCEPT !.up = p] \in PageRow /\ [d EXCEPT !.up = p].up = p
           /\ \A x \in PageText, p \in PageUp :
                 LET n == [d EXCEPT !.text = x, !.up = p] IN n \in PageRow /\ n.up = p
BY DEF PageRow

LEMMA BlankTyped == ~Jobs => Blank \in PageRow
BY BlankIs DEF PageRow, PageText, PageUp

\* What stays when the table and the page do.
LEMMA TableKept ==
    ASSUME TableTyped, UNCHANGED <<page, table, used>>, ShownTyped', FrontTyped', CallsTyped'
    PROVE  TableTyped'
BY DEF TableTyped, RowsTyped, PageRow, PageText, PageUp, Jobs

LEMMA ShownKept ==
    ASSUME ShownTyped, UNCHANGED <<page, table, list, fetch>>
    PROVE  ShownTyped'
BY DEF ShownTyped, Shows, PageRow, PageText, PageUp, Jobs
LEMMA FrontKept ==
    ASSUME FrontTyped, UNCHANGED <<page, table, form, question>>
    PROVE  FrontTyped'
BY DEF FrontTyped, PageRow, PageText, PageUp, Jobs
LEMMA CallsKept ==
    ASSUME CallsTyped, UNCHANGED <<page, table>>, NEW S, S \subseteq calls, calls' = S
    PROVE  CallsTyped'
BY DEF CallsTyped, CallTyped, PageKinds, PageRow, PageText, PageUp, Jobs
LEMMA CallAdded ==
    ASSUME CallsTyped, UNCHANGED <<page, table>>, NEW c, CallTyped(c), calls' = calls \cup {c}
    PROVE  CallsTyped'
BY DEF CallsTyped, CallTyped, PageKinds, PageRow, PageText, PageUp, Jobs
\* The calls are those there were, but for what they have come to.
LEMMA CallsAlike ==
    ASSUME CallsTyped, UNCHANGED <<page, table>>,
           \A d \in calls' : \E c \in calls : d.kind = c.kind /\ d.row = c.row /\ d.body = c.body
    PROVE  CallsTyped'
BY DEF CallsTyped, CallTyped, PageKinds, PageRow, PageText, PageUp, Jobs

\* The list.
LEMMA FetchTyped ==
    ASSUME TableTyped, FetchAnswered \/ FetchLands \/ FetchFails \/ Poll
    PROVE  TableTyped'
<1>1. UNCHANGED <<page, table, used, form, question, calls>>
  BY DEF FetchAnswered, FetchLands, FetchFails, Poll, tableVars, frontVars
<1>2. FrontTyped' /\ CallsTyped'
  BY <1>1, FrontKept, CallsKept DEF TableTyped
<1>3. Shows(Empty) /\ Shows(Answer) /\ Shows(list) /\ Shows(fetch.rows)
  <2>1. DOMAIN Empty = {}
    BY DEF Empty
  <2>2. /\ DOMAIN Answer \subseteq DOMAIN table
        /\ \A r \in DOMAIN Answer : Answer[r] = table[r]
    BY CategoryTreeIs DEF Answer
  <2> QED
    BY <2>1, <2>2 DEF TableTyped, RowsTyped, ShownTyped, Shows
<1>4. list' \in {list, fetch.rows} /\ fetch'.rows \in {Answer, Empty}
  BY DEF FetchAnswered, FetchLands, FetchFails, Poll, Invalidate, NotLoading, Loading
<1>5. Shows(list') /\ Shows(fetch'.rows)
  BY <1>3, <1>4
<1>6. ShownTyped'
  BY <1>1, <1>5 DEF ShownTyped, Shows, PageRow, PageText, PageUp, Jobs
<1> QED
  BY <1>1, <1>2, <1>6, TableKept

\* The forms and the confirmations.
LEMMA OpenTyped ==
    ASSUME PageInv, TableTyped,
           \/ OpenCreate \/ CloseForm \/ DismissRemove
           \/ \E r \in DOMAIN list : OpenEdit(r) \/ AskRemove(r)
    PROVE  TableTyped'
<1>1. UNCHANGED <<page, table, used, list, fetch>>
  BY DEF OpenCreate, CloseForm, DismissRemove, OpenEdit, OpenForm, AskRemove, tableVars, listVars
<1>2. ShownTyped'
  BY <1>1, ShownKept DEF TableTyped
<1>3. CallsTyped'
  <2>1. CASE CloseForm \/ DismissRemove
    <3>1. \E kinds : Disown(kinds)
      BY <2>1 DEF CloseForm, DismissRemove
    <3>2. \A d \in calls' : \E c \in calls : d.kind = c.kind /\ d.row = c.row /\ d.body = c.body
      BY <3>1, Disowned
    <3> QED
      BY <1>1, <3>2, CallsAlike DEF TableTyped
  <2>2. CASE OpenCreate \/ \E r \in DOMAIN list : OpenEdit(r) \/ AskRemove(r)
    <3>1. calls' = calls
      BY <2>2 DEF OpenCreate, OpenEdit, OpenForm, AskRemove
    <3> QED
      BY <1>1, <3>1, CallsKept DEF TableTyped
  <2> QED
    BY <2>1, <2>2
<1>4. ASSUME NEW r, NEW d \in PageRow, OpenForm(r, d) PROVE FrontTyped'
  <2>1. /\ form'.draft = d /\ ~Jobs /\ question.row = 0 /\ question' = question
    BY <1>4 DEF OpenForm, NoForm, Front, Jobs
  <2> QED
    BY <1>1, <1>4, <2>1 DEF TableTyped, FrontTyped, PageRow, PageText, PageUp, Jobs
<1>5. ASSUME OpenCreate PROVE FrontTyped'
  <2>1. ~Jobs /\ OpenForm(0, Blank)
    BY <1>5 DEF OpenCreate, OpenForm, Jobs
  <2> QED
    BY <1>4, <2>1, BlankTyped
<1>6. ASSUME NEW r \in DOMAIN list, OpenEdit(r) PROVE FrontTyped'
  <2>1. list[r] \in PageRow
    BY DEF TableTyped, ShownTyped, Shows
  <2> QED
    BY <1>4, <1>6, <2>1 DEF OpenEdit
<1>7. ASSUME CloseForm PROVE FrontTyped'
  <2>1. ~form'.open /\ question' = question
    BY <1>7 DEF CloseForm, NoForm
  <2> QED
    BY <1>1, <2>1 DEF TableTyped, FrontTyped, Jobs
<1>8. ASSUME DismissRemove PROVE FrontTyped'
  <2>1. form' = form /\ question' = [row |-> 0, pending |-> FALSE]
    BY <1>8 DEF DismissRemove, NoAsk
  <2> QED
    BY <1>1, <2>1 DEF TableTyped, FrontTyped, PageRow, PageText, PageUp, Jobs
<1>9. ASSUME NEW r \in DOMAIN list, AskRemove(r) PROVE FrontTyped'
  <2>1. form' = form /\ ~form.open /\ question' = [row |-> r, pending |-> FALSE]
    BY <1>9 DEF AskRemove, Front
  <2>2. Jobs => r \in DOMAIN table
    BY DEF TableTyped, ShownTyped, Shows
  <2> QED
    BY <1>1, <2>1, <2>2 DEF FrontTyped, Jobs
<1>10. FrontTyped'
  BY <1>5, <1>6, <1>7, <1>8, <1>9
<1> QED
  BY <1>1, <1>2, <1>3, <1>10, TableKept

LEMMA FormIs ==
    ASSUME NEW ds, NEW ready, NEW row
    PROVE  Form(ds, ready, row).drafts = ds /\ Form(ds, ready, row).row = row
BY DEF Form

\* A form of a page other than that of the jobs: what one edit leads to and what a
\* save leaves on the server are rows of the page.
LEMMA FormRows ==
    ASSUME RowsTyped, ShownTyped, ~Jobs, NEW f, f.draft \in PageRow, NEW old \in PageRow
    PROVE  /\ \A d \in FormOf(f, old).drafts : d \in PageRow
           /\ FormOf(f, old).row \in PageRow
           /\ FormOf(f, old).row.up = 0 \/ FormOf(f, old).row.up = f.draft.up
<1>1. page \in {"flavors", "categories", "players", "users", "acls", "viewers"}
  BY LimitsAssumption DEF RowsTyped, Jobs
<1>2. /\ Typed(f.draft) \subseteq PageRow /\ Flagged(f.draft) \subseteq PageRow
  <2>1. PageText = Text /\ f.draft.flag \in BOOLEAN
    BY DEF PageText, PageRow
  <2>2. \A x \in Text : [f.draft EXCEPT !.text = x] \in PageRow
    BY <2>1, RowChanged
  <2>3. [f.draft EXCEPT !.flag = ~@] \in PageRow
    BY <2>1, RowChanged
  <2> QED
    BY <2>2, <2>3 DEF Typed, Flagged
<1>3. CASE page = "categories"
  <2>1. Parents \subseteq Row /\ PageUp = Row \cup {0} /\ PageText = Text
    BY <1>3 DEF Parents, ShownTyped, Shows, PageUp, PageText, Jobs
  <2>2. \A p \in (Parents \ {f.row}) \cup {0} : [f.draft EXCEPT !.up = p] \in PageRow
    BY <2>1, RowChanged
  <2>3. f.draft.text \in PageText /\ f.draft.up \in PageUp
    BY DEF PageRow
  <2>4. [old EXCEPT !.text = f.draft.text, !.up = f.draft.up] \in PageRow
        /\ [old EXCEPT !.text = f.draft.text, !.up = f.draft.up].up = f.draft.up
    BY <2>3 DEF PageRow
  <2>5. FormOf(f, old) = CategoryForm(f, old)
    BY <1>3 DEF FormOf
  <2> DEFINE D == Typed(f.draft) \cup {[f.draft EXCEPT !.up = p] : p \in (Parents \ {f.row}) \cup {0}}
             ready == f.draft.text # ""
             R == [old EXCEPT !.text = f.draft.text, !.up = f.draft.up]
  <2>6. FormOf(f, old) = Form(D, ready, R)
    BY <2>5, Zenon DEF CategoryForm
  <2> HIDE DEF D, ready, R
  <2>7. FormOf(f, old).drafts = D /\ FormOf(f, old).row = R
    BY <2>6, FormIs
  <2> QED
    BY <1>2, <2>2, <2>4, <2>7 DEF D, R
<1>4. CASE page = "players"
  <2>1. FormOf(f, old) = PlayerForm(f, old) /\ PageUp = {0} /\ f.draft.text \in PageText /\ old.up = 0
    BY <1>4 DEF FormOf, PageUp, PageRow
  <2>2. [old EXCEPT !.text = f.draft.text] \in PageRow /\ [old EXCEPT !.text = f.draft.text].up = 0
    BY <2>1, RowChanged
  <2> DEFINE ready == f.draft.text # ""
             R == [old EXCEPT !.text = f.draft.text]
  <2>3. FormOf(f, old) = Form(Typed(f.draft), ready, R)
    BY <2>1, Zenon DEF PlayerForm
  <2> HIDE DEF ready, R
  <2>4. FormOf(f, old).drafts = Typed(f.draft) /\ FormOf(f, old).row = R
    BY <2>3, FormIs
  <2> QED
    BY <1>2, <2>2, <2>4 DEF R
<1>5. CASE page \in {"flavors", "users", "acls", "viewers"}
  <2>1. /\ FormOf(f, old).row = f.draft
        /\ FormOf(f, old).drafts \subseteq Typed(f.draft) \cup Flagged(f.draft)
    BY <1>5 DEF FormOf, FlavorForm, UserForm, AclForm, ViewerForm, Form
  <2> QED
    BY <1>2, <2>1
<1> QED
  BY <1>1, <1>3, <1>4, <1>5


\* One edit of the form.
LEMMA FormEdited == PageInv /\ TableTyped /\ EditDraft => TableTyped'
<1> SUFFICES ASSUME PageInv, TableTyped, EditDraft PROVE TableTyped'
  OBVIOUS
<1>1. /\ UNCHANGED <<page, table, used, list, fetch, question, calls>> /\ form.open
      /\ \E d \in FormOf(form, Blank).drafts : form' = [form EXCEPT !.draft = d]
  BY DEF EditDraft, tableVars, listVars
<1>2. PICK d \in FormOf(form, Blank).drafts : form' = [form EXCEPT !.draft = d]
  BY <1>1
<1>3. ~Jobs /\ form.draft \in PageRow /\ question.row = 0
  BY <1>1 DEF TableTyped, FrontTyped
<1>4. d \in PageRow
  BY <1>2, <1>3, BlankTyped, FormRows DEF TableTyped
<1>5. form'.draft = d
  BY <1>2 DEF PageInv, CallsInv
<1>6. FrontTyped'
  BY <1>1, <1>3, <1>4, <1>5 DEF TableTyped, FrontTyped, PageRow, PageText, PageUp, Jobs
<1>7. ShownTyped' /\ CallsTyped'
  BY <1>1, ShownKept, CallsKept DEF TableTyped
<1> QED
  BY <1>1, <1>6, <1>7, TableKept

\* The calls that are sent.
LEMMA SendTyped ==
    ASSUME TableTyped, UNCHANGED <<page, table, used, list, fetch>>, FrontTyped',
           NEW kind, NEW row, NEW body, Send(NewCall(kind, row, body)),
           kind \in PageKinds, kind \in {"create", "update", "toggle"} => body.draft \in PageRow,
           Jobs => row \in DOMAIN table
    PROVE  TableTyped'
<1> DEFINE new == NewCall(kind, row, body)
<1>1. new.kind = kind /\ new.row = row /\ new.body = body
  BY DEF NewCall
<1>2. calls' = calls \cup {new}
  BY DEF Send
<1> HIDE DEF new
<1>3. CallTyped(new)
  BY <1>1 DEF CallTyped
<1>4. ShownTyped' /\ CallsTyped'
  BY <1>2, <1>3, ShownKept, CallAdded DEF TableTyped
<1> QED
  BY <1>4, TableKept

LEMMA SubmitTyped == PageInv /\ TableTyped /\ Submit => TableTyped'
<1> SUFFICES ASSUME PageInv, TableTyped, Submit PROVE TableTyped'
  OBVIOUS
<1> DEFINE kind == IF form.row = 0 THEN "create" ELSE "update"
<1>1. /\ UNCHANGED <<page, table, used, list, fetch, question>> /\ form.open
      /\ form' = [form EXCEPT !.pending = TRUE] /\ Send(NewCall(kind, form.row, form))
  BY DEF Submit, tableVars, listVars
<1>2. ~Jobs /\ form.draft \in PageRow /\ question.row = 0
  BY <1>1 DEF TableTyped, FrontTyped
<1>3. form'.draft = form.draft
  BY <1>1 DEF PageInv, CallsInv
<1>4. FrontTyped'
  BY <1>1, <1>2, <1>3 DEF TableTyped, FrontTyped, PageRow, PageText, PageUp, Jobs
<1>5. kind \in PageKinds
  BY <1>2 DEF PageKinds
<1> HIDE DEF kind
<1> QED
  BY <1>1, <1>2, <1>4, <1>5, SendTyped

LEMMA ClickTyped ==
    ASSUME TableTyped, NEW r \in DOMAIN list,
           Toggle(r) \/ \E kind \in {"pause", "resume", "retry"} : Act(r, kind)
    PROVE  TableTyped'
<1>1. UNCHANGED <<page, table, used, list, fetch, form, question>>
  BY DEF Toggle, Act, tableVars, listVars, frontVars
<1>2. FrontTyped'
  BY <1>1, FrontKept DEF TableTyped
<1>3. ASSUME Toggle(r) PROVE TableTyped'
  <2> DEFINE d == [list[r] EXCEPT !.flag = ~@]
             body == [NoForm EXCEPT !.draft = d]
  <2>1. r \in Rows.toggle /\ Send(NewCall("toggle", r, body))
    BY <1>3 DEF Toggle
  <2>2. page = "flavors"
    <3>1. page \in {"flavors", "categories", "players", "users", "acls", "viewers", "jobs"}
      BY LimitsAssumption DEF TableTyped, RowsTyped
    <3> QED
      BY <2>1, <3>1 DEF Rows, RowOf, CategoriesPage, PlayersPage, UsersPage, DomainAclsPage,
                        ViewersPage, JobsPage
  <2>3. list[r] \in PageRow
    BY DEF TableTyped, ShownTyped, Shows
  <2>4. d \in PageRow
    BY <2>3 DEF PageRow
  <2>5. body.draft = d
    BY DEF NoForm
  <2>6. "toggle" \in PageKinds /\ ~Jobs
    BY <2>2 DEF PageKinds, Jobs
  <2> HIDE DEF body, d
  <2> QED
    BY <1>1, <1>2, <2>1, <2>4, <2>5, <2>6, SendTyped
<1>4. ASSUME NEW kind \in {"pause", "resume", "retry"}, Act(r, kind) PROVE TableTyped'
  <2>1. Jobs /\ Send(NewCall(kind, r, NoForm))
    BY <1>4 DEF Act, Jobs
  <2>2. r \in DOMAIN table /\ kind \in PageKinds /\ kind \notin {"create", "update", "toggle"}
    BY <2>1 DEF TableTyped, ShownTyped, Shows, PageKinds
  <2> QED
    BY <1>1, <1>2, <2>1, <2>2, SendTyped
<1> QED
  BY <1>3, <1>4

LEMMA ConfirmTyped == TableTyped /\ ConfirmRemove => TableTyped'
<1> SUFFICES ASSUME TableTyped, ConfirmRemove PROVE TableTyped'
  OBVIOUS
<1> DEFINE kind == IF Jobs THEN "cancel" ELSE "delete"
<1>1. /\ UNCHANGED <<page, table, used, list, fetch, form>> /\ question.row # 0
      /\ question' = [question EXCEPT !.pending = TRUE]
      /\ Send(NewCall(kind, question.row, NoForm))
  BY DEF ConfirmRemove, tableVars, listVars, Jobs
<1>2. question' = [row |-> question.row, pending |-> TRUE]
  BY <1>1 DEF TableTyped, FrontTyped
<1>3. FrontTyped'
  BY <1>1, <1>2 DEF TableTyped, FrontTyped, PageRow, PageText, PageUp, Jobs
<1>4. /\ kind \in PageKinds /\ kind \notin {"create", "update", "toggle"}
      /\ Jobs => question.row \in DOMAIN table
  BY <1>1 DEF PageKinds, TableTyped, FrontTyped
<1> HIDE DEF kind
<1> QED
  BY <1>1, <1>3, <1>4, SendTyped

\* The server's rows after a row is stored, and after one is deleted.
LEMMA StoredTyped ==
    ASSUME RowsTyped, UNCHANGED page, NEW r, NEW row \in PageRow, row.up \in DOMAIN table \cup {0},
           Store(r, row), r \in used', used \subseteq used', used' \subseteq Row
    PROVE  RowsTyped' /\ DOMAIN table \subseteq DOMAIN table'
<1>1. DOMAIN table' = DOMAIN table \cup {r}
  BY DEF Store
<1>2. \A x \in DOMAIN table' : table'[x] = row \/ (x \in DOMAIN table /\ table'[x] = table[x])
  BY <1>1 DEF Store
<1>3. \A x \in DOMAIN table' : table'[x] \in PageRow /\ table'[x].up \in DOMAIN table' \cup {0}
  BY <1>1, <1>2 DEF RowsTyped
<1>4. PageRow' = PageRow
  BY DEF PageRow, PageText, PageUp, Jobs
<1> QED
  BY <1>1, <1>3, <1>4 DEF RowsTyped

LEMMA DroppedTyped ==
    ASSUME RowsTyped, UNCHANGED <<page, used>>, NEW r, Drop(r)
    PROVE  RowsTyped'
<1>1. DOMAIN table' = DOMAIN table \ {r}
  BY DEF Drop
<1>2. ASSUME NEW x \in DOMAIN table'
      PROVE  table'[x] \in PageRow /\ table'[x].up \in DOMAIN table' \cup {0}
  <2> DEFINE p == IF table[x].up = r THEN 0 ELSE table[x].up
  <2>1. table[x] \in PageRow /\ p \in DOMAIN table' \cup {0}
    BY <1>1 DEF RowsTyped
  <2>2. table'[x] = [table[x] EXCEPT !.up = p]
    BY <1>1 DEF Drop
  <2>3. p \in PageUp
    BY <2>1 DEF PageRow, PageUp
  <2> HIDE DEF p
  <2>4. [table[x] EXCEPT !.up = p] \in PageRow /\ [table[x] EXCEPT !.up = p].up = p
    BY <2>1, <2>3 DEF PageRow
  <2> QED
    BY <2>1, <2>2, <2>4
<1>3. PageRow' = PageRow
  BY DEF PageRow, PageText, PageUp, Jobs
<1> QED
  BY <1>1, <1>2, <1>3 DEF RowsTyped

\* The page while the server's rows change.
LEMMA RowsMove ==
    ASSUME TableTyped, UNCHANGED <<page, list, fetch, form, question>>, RowsTyped',
           Jobs => DOMAIN table \subseteq DOMAIN table',
           \A d \in calls' : \E c \in calls : d.kind = c.kind /\ d.row = c.row /\ d.body = c.body
    PROVE  TableTyped'
<1>1. Jobs' = Jobs /\ PageRow' = PageRow /\ PageKinds' = PageKinds
  BY DEF PageRow, PageText, PageUp, Jobs, PageKinds
<1>2. ShownTyped'
  BY <1>1 DEF TableTyped, ShownTyped, Shows
<1>3. FrontTyped'
  BY <1>1 DEF TableTyped, FrontTyped
<1>4. CallsTyped'
  BY <1>1 DEF TableTyped, CallsTyped, CallTyped
<1> QED
  BY <1>2, <1>3, <1>4 DEF TableTyped

\* What the server makes of a call.
LEMMA PerformedTyped ==
    ASSUME PageInv, TableTyped, NEW c \in calls, Performed(c)
    PROVE  TableTyped'
<1>1. /\ UNCHANGED <<page, list, fetch, form, question>> /\ ToPhase(c, "applied")
      /\ Accepts(c) /\ Perform(c) /\ (c.kind = "create" => ~(Row \subseteq used))
      /\ used' = used \cup (IF c.kind = "create" THEN {NextRow} ELSE {})
  BY DEF Performed, listVars, frontVars
<1>2. \A d \in calls' : \E e \in calls : d.kind = e.kind /\ d.row = e.row /\ d.body = e.body
  BY <1>1, CallAnswered
<1>3. RowsTyped /\ ShownTyped /\ CallTyped(c)
  BY DEF TableTyped, CallsTyped
<1>4. used \subseteq used' /\ used' \subseteq Row
  BY <1>1, <1>3, NextRowIs DEF RowsTyped
<1>5. SUFFICES RowsTyped' /\ (Jobs => DOMAIN table \subseteq DOMAIN table')
  BY <1>1, <1>2, RowsMove
<1>6. ASSUME NEW r, NEW row \in PageRow, row.up \in DOMAIN table \cup {0}, Store(r, row), r \in used'
      PROVE  RowsTyped' /\ DOMAIN table \subseteq DOMAIN table'
  BY <1>1, <1>3, <1>4, <1>6, StoredTyped
<1>7. CASE c.kind \in {"create", "update"}
  <2>1. ~Jobs /\ c.body.draft \in PageRow /\ ParentOK(c)
    BY <1>1, <1>3, <1>7 DEF CallTyped, PageKinds, Accepts
  <2>2. PICK r \in used', old \in PageRow : Store(r, FormOf(c.body, old).row)
    <3>1. CASE c.kind = "create"
      <4>1. Store(NextRow, FormOf(c.body, Blank).row) /\ NextRow \in used'
        BY <1>1, <3>1 DEF Perform
      <4> QED
        BY <2>1, <4>1, BlankTyped
    <3>2. CASE c.kind = "update"
      <4>1. c.row \in DOMAIN table /\ Store(c.row, FormOf(c.body, table[c.row]).row)
        BY <1>1, <3>2 DEF Accepts, Perform
      <4> QED
        BY <1>3, <1>4, <4>1 DEF RowsTyped
    <3> QED
      BY <1>7, <3>1, <3>2
  <2> DEFINE row == FormOf(c.body, old).row
  <2>3. row \in PageRow /\ (row.up = 0 \/ row.up = c.body.draft.up)
    BY <1>3, <2>1, FormRows
  <2>4. row.up \in DOMAIN table \cup {0}
    BY <2>1, <2>3 DEF ParentOK
  <2>5. Store(r, row)
    BY <2>2
  <2> HIDE DEF row
  <2> QED
    BY <1>6, <2>2, <2>3, <2>4, <2>5
<1>8. CASE c.kind = "toggle"
  <2>1. c.body.draft \in PageRow /\ PageUp = {0} /\ c.row \in DOMAIN table /\ Store(c.row, c.body.draft)
    BY <1>1, <1>3, <1>8 DEF CallTyped, PageKinds, PageUp, Accepts, Perform
  <2>2. c.body.draft.up = 0 /\ c.row \in used'
    BY <1>3, <1>4, <2>1 DEF PageRow, RowsTyped
  <2> QED
    BY <1>6, <2>1, <2>2
<1>9. CASE c.kind = "delete"
  <2>1. ~Jobs /\ Drop(c.row) /\ used' = used
    BY <1>1, <1>3, <1>9 DEF CallTyped, PageKinds, Perform
  <2> QED
    BY <1>1, <1>3, <2>1, DroppedTyped
<1>10. CASE c.kind \in {"retry", "cancel", "pause", "resume"}
  <2>1. Jobs /\ c.row \in DOMAIN table
    BY <1>3, <1>10 DEF CallTyped, PageKinds
  <2> DEFINE old == table[c.row]
  <2>2. old \in PageRow /\ old.up \in DOMAIN table \cup {0} /\ c.row \in used'
    BY <1>3, <1>4, <2>1 DEF RowsTyped
  <2>3. "queued" \in PageText /\ "cancelled" \in PageText
    BY <2>1 DEF PageText, JobState
  <2>4. \/ UNCHANGED table
        \/ \E x \in PageText : Store(c.row, [old EXCEPT !.text = x])
        \/ \E b \in BOOLEAN : Store(c.row, [old EXCEPT !.flag = b])
    BY <1>1, <1>10, <2>3 DEF Perform
  <2> HIDE DEF old
  <2>5. CASE UNCHANGED table
    <3>1. PageRow' = PageRow
      BY <1>1 DEF PageRow, PageText, PageUp, Jobs
    <3> QED
      BY <1>1, <1>3, <1>4, <2>5, <3>1 DEF RowsTyped
  <2>6. ASSUME NEW x \in PageText, Store(c.row, [old EXCEPT !.text = x])
        PROVE  RowsTyped' /\ DOMAIN table \subseteq DOMAIN table'
    <3> DEFINE row == [old EXCEPT !.text = x]
    <3>1. row \in PageRow /\ row.up = old.up
      BY <2>2, <2>6, RowChanged
    <3>2. Store(c.row, row)
      BY <2>6
    <3> HIDE DEF row
    <3> QED
      BY <1>6, <2>2, <3>1, <3>2
  <2>7. ASSUME NEW b \in BOOLEAN, Store(c.row, [old EXCEPT !.flag = b])
        PROVE  RowsTyped' /\ DOMAIN table \subseteq DOMAIN table'
    <3> DEFINE row == [old EXCEPT !.flag = b]
    <3>1. row \in PageRow /\ row.up = old.up
      BY <2>2, <2>7, RowChanged
    <3>2. Store(c.row, row)
      BY <2>7
    <3> HIDE DEF row
    <3> QED
      BY <1>6, <2>2, <3>1, <3>2
  <2> QED
    BY <2>4, <2>5, <2>6, <2>7
<1> QED
  BY <1>3, <1>7, <1>8, <1>9, <1>10 DEF CallTyped, PageKinds

\* The end of a call leaves the server's rows alone.
LEMMA EndTyped ==
    ASSUME PageInv, TableTyped, NEW c \in calls, Refused(c) \/ Succeeded(c) \/ Failed(c)
    PROVE  TableTyped'
<1>1. /\ UNCHANGED <<page, table, used, list>>
      /\ fetch' = fetch \/ fetch' = Loading
      /\ form' = NoForm \/ form' = [form EXCEPT !.pending = FALSE] \/ form' = form
      /\ question' = NoAsk \/ question' = [question EXCEPT !.pending = FALSE] \/ question' = question
      /\ ToPhase(c, "refused") \/ calls' = calls \ {c}
  <2>1. CASE Refused(c)
    BY <2>1 DEF Refused, tableVars, listVars, frontVars
  <2>2. CASE Succeeded(c)
    BY <2>2 DEF Succeeded, Renew, Invalidate, tableVars
  <2>3. CASE Failed(c)
    BY <2>3 DEF Failed, Invalidate, tableVars
  <2> QED
    BY <2>1, <2>2, <2>3
<1>2. \A d \in calls' : \E e \in calls : d.kind = e.kind /\ d.row = e.row /\ d.body = e.body
  BY <1>1, CallAnswered
<1>3. CallsTyped'
  BY <1>1, <1>2, CallsAlike DEF TableTyped
<1>4. PageRow' = PageRow /\ Jobs' = Jobs
  BY <1>1 DEF PageRow, PageText, PageUp, Jobs
<1>5. ShownTyped'
  <2>1. Loading.rows = Empty /\ DOMAIN Empty = {}
    BY DEF Loading, Empty
  <2>2. Shows(list) /\ Shows(fetch'.rows)
    BY <1>1, <2>1 DEF TableTyped, ShownTyped, Shows
  <2> QED
    BY <1>1, <1>4, <2>2 DEF ShownTyped, Shows
<1>6. FrontTyped'
  <2>1. form = [open |-> form.open, row |-> form.row, draft |-> form.draft, pending |-> form.pending]
    BY DEF PageInv, CallsInv
  <2>2. form'.open => form.open /\ form'.draft = form.draft
    BY <1>1, <2>1 DEF NoForm
  <2>3. question = [row |-> question.row, pending |-> question.pending]
    BY DEF TableTyped, FrontTyped
  <2>4. /\ question' = [row |-> question'.row, pending |-> question'.pending]
        /\ question'.row = question.row \/ question'.row = 0
    BY <1>1, <2>3 DEF NoAsk
  <2> QED
    BY <1>1, <1>4, <2>2, <2>4 DEF TableTyped, FrontTyped
<1> QED
  BY <1>1, <1>3, <1>5, <1>6, TableKept

\* Somebody else changes or deletes a row, but no job.
LEMMA OtherTyped ==
    ASSUME TableTyped, NEW r, OtherChange(r)
    PROVE  TableTyped'
<1>1. /\ UNCHANGED <<page, used, list, fetch, form, question, calls>> /\ r \in DOMAIN table
      /\ \/ \E x \in PageText : Store(r, [table[r] EXCEPT !.text = x])
         \/ ~Jobs /\ Drop(r)
  BY Zenon DEF OtherChange, frontVars, PageText, Jobs
<1>2. RowsTyped
  BY DEF TableTyped
<1>3. CASE ~Jobs /\ Drop(r)
  <2>1. RowsTyped'
    BY <1>1, <1>2, <1>3, DroppedTyped
  <2> QED
    BY <1>1, <1>3, <2>1, RowsMove
<1>4. ASSUME NEW x \in PageText, Store(r, [table[r] EXCEPT !.text = x]) PROVE TableTyped'
  <2> DEFINE old == table[r]
             row == [old EXCEPT !.text = x]
  <2>1. old \in PageRow /\ old.up \in DOMAIN table \cup {0} /\ r \in used /\ used \subseteq Row
    BY <1>1, <1>2 DEF RowsTyped
  <2> HIDE DEF old
  <2>2. row \in PageRow /\ row.up = old.up
    BY <1>4, <2>1, RowChanged
  <2>3. Store(r, row)
    BY <1>4 DEF old
  <2> HIDE DEF row
  <2>4. RowsTyped' /\ DOMAIN table \subseteq DOMAIN table'
    BY <1>1, <1>2, <2>1, <2>2, <2>3, StoredTyped
  <2> QED
    BY <1>1, <2>4, RowsMove
<1> QED
  BY <1>1, <1>3, <1>4

\* A page that has just been opened.
LEMMA TableInit == PageInit(DOMAIN Limits) => TableTyped
<1> SUFFICES ASSUME PageInit(DOMAIN Limits) PROVE TableTyped
  OBVIOUS
<1>1. /\ page \in DOMAIN Limits
      /\ table = [r \in {x \in Row : x <= 2} |-> Row0(page, r)]
      /\ list = Empty /\ fetch = Loading /\ calls = {} /\ form = NoForm
      /\ question = NoAsk /\ used = DOMAIN table
  BY DEF PageInit
<1>2. DOMAIN Empty = {} /\ Loading.rows = Empty /\ ~NoForm.open /\ NoAsk = [row |-> 0, pending |-> FALSE]
  BY DEF Empty, Loading, NoForm, NoAsk
<1>3. "a" \in Text
  BY TextAssumption, Zenon
<1>4. ASSUME NEW r PROVE Row0(page, r) \in PageRow /\ Row0(page, r).up = 0
  <2> DEFINE b == Blank.text
  <2>1. Blank = [text |-> b, flag |-> FALSE, up |-> 0]
    BY BlankIs
  <2> HIDE DEF b
  <2>2. \E x \in PageText, f \in BOOLEAN : Row0(page, r) = [text |-> x, flag |-> f, up |-> 0]
    <3>1. CASE Jobs
      <4>1. "queued" \in PageText /\ "failed" \in PageText
        BY <3>1 DEF PageText, JobState
      <4>2. \/ Row0(page, r) = [text |-> "queued", flag |-> FALSE, up |-> 0]
            \/ Row0(page, r) = [text |-> "failed", flag |-> FALSE, up |-> 0]
        BY <2>1, <3>1 DEF Row0, Jobs
      <4> QED
        BY <4>1, <4>2
    <3>2. CASE ~Jobs
      <4>1. \E f \in BOOLEAN : Row0(page, r) = [text |-> "a", flag |-> f, up |-> 0]
        BY <2>1, <3>2 DEF Row0, Jobs
      <4>2. "a" \in PageText
        BY <1>3, <3>2 DEF PageText
      <4> QED
        BY <4>1, <4>2
    <3> QED
      BY <3>1, <3>2
  <2>3. 0 \in PageUp
    BY DEF PageUp
  <2> QED
    BY <2>2, <2>3 DEF PageRow
<1>5. RowsTyped
  BY <1>1, <1>4 DEF RowsTyped
<1>6. ShownTyped /\ CallsTyped
  BY <1>1, <1>2 DEF ShownTyped, Shows, CallsTyped
<1>7. FrontTyped
  BY <1>1, <1>2 DEF FrontTyped
<1> QED
  BY <1>5, <1>6, <1>7 DEF TableTyped

\* Every step of a page keeps its types.
LEMMA TableStep == PageInv /\ TableTyped /\ [PageNext]_pageVars => TableTyped'
<1> SUFFICES ASSUME PageInv, TableTyped, [PageNext]_pageVars PROVE TableTyped'
  OBVIOUS
<1>1. CASE UNCHANGED pageVars
  <2>1. UNCHANGED <<page, table, used, list, fetch, form, question, calls>>
    BY <1>1 DEF pageVars, tableVars, listVars, frontVars
  <2>2. RowsTyped'
    BY <2>1 DEF TableTyped, RowsTyped, PageRow, PageText, PageUp, Jobs
  <2> QED
    BY <2>1, <2>2, RowsMove
<1>2. CASE PageUser
  BY <1>2, OpenTyped, FormEdited, SubmitTyped, ConfirmTyped, ClickTyped DEF PageUser
<1>3. CASE PageSystem
  BY <1>3, FetchTyped, PerformedTyped, EndTyped DEF PageSystem
<1> QED
  BY <1>1, <1>2, <1>3, FetchTyped, OtherTyped DEF PageNext

LEMMA TableVisit == PageSpec => []TableTyped
BY TableInit, TableStep, PageInitInv, PageNextInv, PTL DEF PageSpec

-----------------------------------------------------------------------------
(* The types of a visit.                                                    *)

LEMMA SessionVisit == SessionSpec => []SessionTypeOK
BY SessionTyped, PTL

LEMMA LibraryVisit == LibrarySpec => []LibraryInv
BY InitOrder, NextOrder, PTL DEF LibrarySpec

LEMMA ViewsVisit == Spec => []ViewsTyped
<1>1. Init => ViewsTyped
  BY VisitInit, ViewsInit
<1>2. ViewsTyped /\ [Next]_vars => ViewsTyped'
  BY VisitStep, ViewsStep
<1> QED
  BY <1>1, <1>2, PTL DEF Spec

\* What the parts keep are the types of the visit.
LEMMA TypesOfParts ==
    TableTyped /\ ViewsTyped /\ SettingsTyped /\ DialogTyped /\ SessionTypeOK
    /\ SignInTyped /\ RefreshAwaited /\ LibraryInv /\ PlaysOnce
        => SiteTypeOK
<1> SUFFICES ASSUME TableTyped, ViewsTyped, SettingsTyped, DialogTyped, SessionTypeOK,
                    SignInTyped, RefreshAwaited, LibraryInv, PlaysOnce
             PROVE  SiteTypeOK
  OBVIOUS
<1>1. /\ DOMAIN table \subseteq Row /\ DOMAIN list \subseteq Row
      /\ page # "jobs" => \A r \in DOMAIN table : table[r] \in Contents
      /\ \A r \in DOMAIN table : table[r].up \in DOMAIN table \cup {0}
      /\ ~(form.open /\ question.row # 0)
  <2>1. DOMAIN table \subseteq Row /\ \A r \in DOMAIN table : table[r] \in PageRow
    BY DEF TableTyped, RowsTyped
  <2>2. DOMAIN list \subseteq Row
    BY <2>1 DEF TableTyped, ShownTyped, Shows
  <2>3. page # "jobs" => PageRow \subseteq Contents
    BY DEF PageRow, PageText, PageUp, Jobs, Contents
  <2> QED
    BY <2>1, <2>2, <2>3 DEF TableTyped, RowsTyped, FrontTyped
<1>2. view \in View /\ selected \subseteq Entry /\ asked.ids \subseteq Entry
  BY DEF ViewsTyped, IsQuestion
<1>3. data = NotLoaded \/ data \in Settings
  BY DEF SettingsTyped, MaybeLoaded
<1>4. entry \in Detail /\ truth \in Detail /\ draft.ticked \subseteq Flavor
  BY DEF DialogTyped
<1>5. cookies <= newest /\ refreshRows \subseteq 1..newest
  BY DEF SignInTyped
<1>6. \A a \in DOMAIN asks : asks[a].step = "waiting" => renewal # NoRenewal
  BY DEF SignInTyped, RefreshAwaited, NoRenewal
<1>7. filters \in Filters /\ \A i \in DOMAIN items : items[i] \in [filters : Filters, nr : Nat]
  <2> DEFINE Pieces == [filters : Filters, nr : Nat]
  <2>1. filters \in Filters /\ items \in Seq(Pieces)
    BY DEF LibraryInv, LibraryTyped
  <2> HIDE DEF Pieces
  <2>2. \A i \in DOMAIN items : items[i] \in Pieces
    BY <2>1
  <2> QED
    BY <2>1, <2>2 DEF Pieces
<1>8. options \in Options /\ plays <= 1 /\ Len(events) <= MaxEvents
  BY DEF PlaysOnce
<1> QED
  BY <1>1, <1>2, <1>3, <1>4, <1>5, <1>6, <1>7, <1>8 DEF SiteTypeOK

\* The variables of every part keep their types, whatever is visited, and a form and a
\* confirmation are never in front together (SiteTypeOK). On no page does a call or
\* another user leave a row that its table cannot have or a parent that is not
\* there, for any number of rows, calls, entries and settings.
THEOREM SpecSiteTypeOK == Spec => []SiteTypeOK
BY TypesOfParts, VisitIsOfItsPart, TableVisit, ViewsVisit, SettingsVisit, DialogVisit, SessionVisit,
   SignInVisit, LibraryVisit, PlaysVisit, PTL
=============================================================================
