------------------------------ MODULE JobList ------------------------------
(***************************************************************************)
(* The list of jobs that both stores of the upload dialog keep             *)
(* (web/lib/upload-store.ts, web/lib/url-download-store.ts): an array of   *)
(* records that is replaced by a mapped or filtered copy at every change.  *)
(*                                                                         *)
(* Here and in the stores, a definition that nothing uses is the slip that *)
(* the definition after it guards against.                                 *)
(***************************************************************************)
EXTENDS Naturals, Sequences, FiniteSets, Functions

NoId == 0

Ids(list) == {j.id : j \in Range(list)}
WithStatus(list, S) == {j \in Range(list) : j.status \in S}

\* Array.map: a new value of a field for the jobs whose id is in S.
Pushed(list, S, field, value) ==
    LET hit == SelectSeq(list, LAMBDA j : j.id \in S)
    IN  list \o [i \in DOMAIN hit |-> [hit[i] EXCEPT ![field] = value]]
Patched(list, S, field, value) ==
    [i \in DOMAIN list |-> IF list[i].id \in S THEN [list[i] EXCEPT ![field] = value]
                                                ELSE list[i]]

\* updateJob and update with a new status: nothing happens to a job that has
\* left the list.
SetStatus(list, id, status) == Patched(list, {id}, "status", status)

\* The k-th of a set of numbers, and the elements of a list at some positions.
Nth(S, k) == CHOOSE n \in S : Cardinality({i \in S : i < n}) = k - 1
Kept(list, at) == [k \in 1..Cardinality(at) |-> list[Nth(at, k)]]

\* Array.filter
Without(list, S) == Kept(list, {i \in DOMAIN list : list[i].id \notin S})

\* Array.find: the id of the first job in one of the statuses S.
FirstWith(list, S) ==
    list[CHOOSE i \in DOMAIN list :
            /\ list[i].status \in S
            /\ \A k \in DOMAIN list : list[k].status \in S => i <= k].id
=============================================================================
