------------------------------ MODULE Library ------------------------------
(***************************************************************************)
(* The public library (web/app/(public)/page.tsx): the first page of the   *)
(* catalog for the filters chosen, and more pages on demand. A piece is    *)
(* one page of the answer to one choice of filters. The text typed becomes *)
(* a filter 300 ms after the last key; the category and the order at once. *)
(***************************************************************************)
EXTENDS Naturals, Sequences

CONSTANTS
    Word,       \* what may be typed into the search
    Shelf,      \* a category and an order
    Length,     \* of the answer to each choice of filters, in pages
    MaxChoices  \* bound: changes of the filters

VARIABLES
    typed,
    filters,
    firsts,     \* requests of first pages
    more,       \* the request of one page more
    items, total, page_,
    broken,     \* the error shown
    choices,
    met         \* history: a first page and one page more were under way at
                \* once for the same filters
filterVars == <<typed, filters, choices>>
dataVars == <<items, total, page_, broken>>
requestVars == <<firsts, more, met>>
libraryVars == <<filterVars, dataVars, requestVars>>

Filters == [q : Word, shelf : Shelf]

ASSUME LibraryAssumption == Length \in [Filters -> Nat]

Idle(f) == [busy |-> FALSE, filters |-> f, next |-> 0]
Meets(fs, m) == m.busy /\ \E r \in fs : r.live /\ r.filters = m.filters

-----------------------------------------------------------------------------
(* Filters and first pages.                                                 *)

\* The clean-up of the effect: answers to earlier choices are ignored.
Cancelled(rs) == {[r EXCEPT !.live = FALSE] : r \in rs}
Choose(f) ==
    /\ f # filters /\ filters' = f
    /\ firsts' = Cancelled(firsts) \cup {[filters |-> f, live |-> TRUE]}
    /\ met' = (met \/ Meets(firsts', more))
    /\ UNCHANGED <<dataVars, more>>
Type(w) ==
    /\ choices < MaxChoices /\ choices' = choices + 1
    /\ typed' = w
    /\ UNCHANGED <<filters, dataVars, requestVars>>
Debounce == Choose([filters EXCEPT !.q = typed]) /\ UNCHANGED <<typed, choices>>
PickShelf(s) ==
    /\ choices < MaxChoices /\ choices' = choices + 1
    /\ Choose([filters EXCEPT !.shelf = s]) /\ UNCHANGED typed

FirstArrives(r) ==
    /\ r \in firsts /\ firsts' = firsts \ {r}
    /\ IF r.live
       THEN /\ items' = <<[filters |-> r.filters, nr |-> 1]>> /\ total' = Length[r.filters]
            /\ page_' = 1 /\ broken' = FALSE
       ELSE UNCHANGED dataVars
    /\ UNCHANGED <<filterVars, more, met>>
FirstFails(r) ==
    /\ r \in firsts /\ firsts' = firsts \ {r}
    /\ broken' = (broken \/ r.live)
    /\ UNCHANGED <<filterVars, items, total, page_, more, met>>

-----------------------------------------------------------------------------
(* One page more.                                                           *)

HasMore == Len(items) < total
MaxPage == 4        \* bound: the last page asked for
\* The button is there when there is no error, and it is disregarded while a
\* page is awaited. It takes the filters of the moment, and the number of the
\* page in sight.
LoadMore ==
    /\ ~broken /\ HasMore /\ ~more.busy /\ page_ < MaxPage
    /\ more' = [busy |-> TRUE, filters |-> filters, next |-> page_ + 1]
    /\ met' = (met \/ Meets(firsts, more'))
    /\ UNCHANGED <<filterVars, dataVars, firsts>>

\* Whether a page that comes is one of the filters of the moment.
AnyPage(f) == TRUE
Current(f) == f = filters
Piece(f, n) == IF n <= Length[f] THEN <<[filters |-> f, nr |-> n]>> ELSE <<>>
MoreArrives ==
    /\ more.busy /\ more' = Idle(filters)
    /\ IF Current(more.filters)
       THEN /\ items' = items \o Piece(more.filters, more.next)
            /\ total' = Length[more.filters] /\ page_' = more.next
       ELSE UNCHANGED <<items, total, page_>>
    /\ UNCHANGED <<filterVars, broken, firsts, met>>
MoreFails ==
    /\ more.busy /\ more' = Idle(filters)
    /\ UNCHANGED <<filterVars, dataVars, firsts, met>>

-----------------------------------------------------------------------------

LibraryInit ==
    /\ filters \in Filters /\ filters.q = "" /\ typed = "" /\ choices = 0
    /\ firsts = {[filters |-> filters, live |-> TRUE]} /\ more = Idle(filters)
    /\ items = <<>> /\ total = 0 /\ page_ = 1 /\ broken = FALSE /\ met = FALSE

LibraryNext ==
    \/ Debounce \/ LoadMore \/ MoreArrives \/ MoreFails
    \/ \E w \in Word : Type(w)
    \/ \E s \in Shelf : PickShelf(s)
    \/ \E r \in firsts : FirstArrives(r) \/ FirstFails(r)

LibrarySpec == LibraryInit /\ [][LibraryNext]_libraryVars

-----------------------------------------------------------------------------
(* Properties.                                                              *)

\* The pages in the list of the library are those of one choice of filters,
\* from the first on and without a gap, however requests overtake each other;
\* unless more was loaded while the first page of the same filters was still
\* under way (page.tsx, the effect on the filters and loadMore).
LibraryInOrder ==
    ~met /\ items # <<>> =>
        /\ \A i \in DOMAIN items : items[i] = [filters |-> items[1].filters, nr |-> i]
        /\ page_ = Len(items)
=============================================================================
