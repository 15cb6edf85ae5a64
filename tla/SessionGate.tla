----------------------------- MODULE SessionGate ---------------------------
(***************************************************************************)
(* What the api client of the web promises its callers: of a session that  *)
(* is whole they never notice that access tokens expire. A call ends with  *)
(* an answer (or an error of its own), and with "unauthorized" only when   *)
(* the session is broken, or when the call's own handler says so.          *)
(***************************************************************************)
CONSTANTS
    Call,   \* calls of the page
    Picky   \* calls whose handler answers 401 for a reason of its own

VARIABLES
    outcome,    \* of each call
    whole       \* the session

vars == <<outcome, whole>>

Init == outcome = [c \in Call |-> "idle"] /\ whole \in BOOLEAN

End(S, result) ==
    /\ \A c \in S : outcome[c] = "pending"
    /\ outcome' = [c \in Call |-> IF c \in S THEN result ELSE outcome[c]]

Begin(c) ==
    /\ outcome[c] = "idle"
    /\ outcome' = [outcome EXCEPT ![c] = "pending"]
    /\ UNCHANGED whole
Answered(c) == End({c}, "over") /\ UNCHANGED whole
Denied(S) ==
    /\ whole => S \subseteq Picky
    /\ End(S, "denied") /\ UNCHANGED whole
Breaks == whole' = FALSE /\ UNCHANGED outcome

Next ==
    \/ \E c \in Call : Begin(c) \/ Answered(c)
    \/ \E S \in SUBSET Call : Denied(S)
    \/ Breaks

Spec == Init /\ [][Next]_vars
=============================================================================
