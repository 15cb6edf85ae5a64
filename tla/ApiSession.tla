----------------------------- MODULE ApiSession ----------------------------
(***************************************************************************)
(* The api client of the web (web/lib/api.ts) against the session of the   *)
(* server (internal/api/auth.go). Access and refresh tokens are issued in  *)
(* pairs, numbered in the order of issue; a refresh replaces the pair. A   *)
(* call answered by 401 awaits one refresh, which all such calls share,    *)
(* and is then sent once more.                                             *)
(*                                                                         *)
(* Other tabs are left out: each has a `refreshing` of its own.            *)
(***************************************************************************)
EXTENDS Naturals

CONSTANTS
    Call,   \* calls of the page, but for login and refresh
    Picky,  \* calls whose handler may answer 401 of its own (a wrong current
            \* password; the viewer's endpoints, asked by a visitor)
    Nobody

ASSUME CallAssumption == Picky \subseteq Call /\ Nobody \notin Call

VARIABLES
    phase,      \* of each call
    token,      \* the pair whose access token it was sent with last
    awaits,     \* the call whose refresh it awaits
    flight,     \* of each call: the refresh it has started
    carried,    \* the pair whose refresh token that carries
    refreshing, \* the call whose refresh is shared, if any
    jar,        \* the pair in the cookies of the browser
    issued,     \* the newest pair
    lapsed,     \* access tokens up to this pair have expired
    alive,      \* the server still accepts the newest refresh token
    lost        \* history: a refresh got no answer
clientVars == <<phase, token, awaits, refreshing, jar>>
flightVars == <<flight, carried>>
serverVars == <<issued, lapsed, alive>>
sessionVars == <<clientVars, flightVars, serverVars, lost>>

Phases == {"idle", "sent", "refused", "waiting", "again", "over", "denied"}
Flights == {"none", "sent", "issued", "failed", "settled"}

-----------------------------------------------------------------------------
(* The calls.                                                               *)

SendCall(c) ==
    /\ phase[c] = "idle"
    /\ phase' = [phase EXCEPT ![c] = "sent"] /\ token' = [token EXCEPT ![c] = jar]
    /\ UNCHANGED <<awaits, refreshing, jar, flightVars, serverVars, lost>>

\* Whether the request of c may be answered by 401, and may be let through.
MayRefuse(c) == token[c] <= lapsed \/ ~alive \/ c \in Picky
MayServe(c) == token[c] > lapsed
\* Answered, or failed for a reason that is no 401.
ServeCall(c) ==
    /\ phase[c] \in {"sent", "again"} /\ MayServe(c)
    /\ phase' = [phase EXCEPT ![c] = "over"]
    /\ UNCHANGED <<token, awaits, refreshing, jar, flightVars, serverVars, lost>>
\* A call that was retried does not try again.
RefuseCall(c) ==
    /\ phase[c] \in {"sent", "again"} /\ MayRefuse(c)
    /\ phase' = [phase EXCEPT ![c] = IF @ = "sent" THEN "refused" ELSE "denied"]
    /\ UNCHANGED <<token, awaits, refreshing, jar, flightVars, serverVars, lost>>

-----------------------------------------------------------------------------
(* The refresh.                                                             *)

\* Whether c has to start a refresh of its own.
StartsAlways == TRUE
Starts == refreshing = Nobody
TryRefresh(c) ==
    /\ phase[c] = "refused"
    /\ phase' = [phase EXCEPT ![c] = "waiting"]
    /\ IF Starts
       THEN /\ refreshing' = c /\ awaits' = [awaits EXCEPT ![c] = c]
            /\ flight' = [flight EXCEPT ![c] = "sent"]
            /\ carried' = [carried EXCEPT ![c] = jar]
       ELSE /\ awaits' = [awaits EXCEPT ![c] = refreshing]
            /\ UNCHANGED <<refreshing, flightVars>>
    /\ UNCHANGED <<token, jar, serverVars, lost>>

\* handleRefresh: the pair is replaced, or the token is of no use.
Rotate(f) ==
    /\ flight[f] = "sent" /\ alive /\ carried[f] = issued
    /\ issued' = issued + 1
    /\ flight' = [flight EXCEPT ![f] = "issued"]
    /\ carried' = [carried EXCEPT ![f] = issued + 1]
    /\ UNCHANGED <<clientVars, lapsed, alive, lost>>
RefuseRefresh(f) ==
    /\ flight[f] = "sent" /\ ~(alive /\ carried[f] = issued)
    /\ flight' = [flight EXCEPT ![f] = "failed"]
    /\ UNCHANGED <<clientVars, carried, serverVars, lost>>
\* The request or its answer gets lost.
LoseRefresh(f) ==
    /\ flight[f] \in {"sent", "issued"}
    /\ flight' = [flight EXCEPT ![f] = "failed"] /\ lost' = TRUE
    /\ UNCHANGED <<clientVars, carried, serverVars>>

\* The answer sets the cookies, and all that await it go on in one turn of the
\* event loop.
Awaiting(f) == {c \in Call : phase[c] = "waiting" /\ awaits[c] = f}
Settle(f) ==
    /\ flight[f] \in {"issued", "failed"}
    /\ refreshing' = Nobody
    /\ flight' = [flight EXCEPT ![f] = "settled"]
    /\ jar' = IF flight[f] = "issued" THEN carried[f] ELSE jar
    /\ phase' = [c \in Call |->
                    IF c \notin Awaiting(f) THEN phase[c]
                    ELSE IF flight[f] = "issued" THEN "again" ELSE "denied"]
    /\ token' = [c \in Call |-> IF c \in Awaiting(f) THEN jar' ELSE token[c]]
    /\ UNCHANGED <<awaits, carried, serverVars, lost>>

-----------------------------------------------------------------------------
(* The session.                                                             *)

\* The access token expires. It outlives the answer that brought it and the
\* calls that are sent again with it at once.
Expire ==
    /\ lapsed # issued /\ lapsed' = issued
    /\ \A c \in Call : phase[c] # "again" /\ flight[c] # "issued"
    /\ UNCHANGED <<clientVars, flightVars, issued, alive, lost>>
\* Signed out, disabled, or expired in all.
Revoke ==
    /\ alive /\ alive' = FALSE
    /\ UNCHANGED <<clientVars, flightVars, issued, lapsed, lost>>

SessionInit ==
    /\ phase = [c \in Call |-> "idle"] /\ token = [c \in Call |-> 0]
    /\ awaits = [c \in Call |-> Nobody]
    /\ flight = [c \in Call |-> "none"] /\ carried = [c \in Call |-> 0]
    /\ refreshing = Nobody /\ jar = 1 /\ issued = 1 /\ lapsed = 0
    /\ alive = TRUE /\ lost = FALSE

Answering(c) == ServeCall(c) \/ RefuseCall(c) \/ TryRefresh(c)
Refreshing(f) == Rotate(f) \/ RefuseRefresh(f) \/ LoseRefresh(f) \/ Settle(f)
SessionNext ==
    \/ \E c \in Call : SendCall(c) \/ Answering(c) \/ Refreshing(c)
    \/ Expire \/ Revoke
SessionSpec == SessionInit /\ [][SessionNext]_sessionVars

-----------------------------------------------------------------------------
(* What it promises.                                                        *)

Whole == alive /\ ~lost
Outcome ==
    [c \in Call |-> IF phase[c] \in {"idle", "over", "denied"} THEN phase[c] ELSE "pending"]
Gate == INSTANCE SessionGate WITH outcome <- Outcome, whole <- Whole

SessionTypeOK ==
    /\ phase \in [Call -> Phases] /\ token \in [Call -> Nat]
    /\ awaits \in [Call -> Call \cup {Nobody}]
    /\ flight \in [Call -> Flights] /\ carried \in [Call -> Nat]
    /\ refreshing \in Call \cup {Nobody}
    /\ jar \in Nat /\ issued \in Nat /\ lapsed \in Nat
    /\ alive \in BOOLEAN /\ lost \in BOOLEAN

\* Of a session that is whole no call ends unauthorized because a token expired
\* or two refreshes met: the tokens are replaced by each refresh, and a second
\* refresh with the tokens of the first would be refused (api.ts, tryRefresh).
SessionKept == Whole => \A c \in Call : phase[c] = "denied" => c \in Picky

\* The client, the cookies and the server together implement what SessionGate
\* says (api.ts, api and tryRefresh).
GateHolds == Gate!Spec
=============================================================================
