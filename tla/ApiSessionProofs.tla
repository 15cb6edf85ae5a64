-------------------------- MODULE ApiSessionProofs -------------------------
(***************************************************************************)
(* The api client keeps its promise for any set of calls. The argument: at *)
(* most one refresh is under way (OneFlight), so that the tokens it        *)
(* carries are the newest (Latest) unless the session is broken; a refresh *)
(* therefore fails only of a broken session (FailedBroken), and the calls  *)
(* sent again carry a token that has not expired (FreshAgain).             *)
(***************************************************************************)
EXTENDS ApiSession, TLAPS

Active == {"sent", "issued", "failed"}
OneFlight == \A f \in Call : flight[f] \in Active => refreshing = f
Latest ==
    /\ lapsed <= issued
    /\ Whole => jar = issued \/ \E f \in Call : flight[f] = "issued"
    /\ Whole => \A f \in Call : flight[f] = "sent" => carried[f] = issued
    /\ \A f \in Call : flight[f] = "issued" => carried[f] = issued /\ lapsed < issued
FailedBroken == \A f \in Call : flight[f] = "failed" => ~Whole
FreshAgain == \A c \in Call : phase[c] = "again" => lapsed < token[c]

IInv == SessionTypeOK /\ OneFlight /\ Latest /\ FailedBroken /\ FreshAgain /\ SessionKept

-----------------------------------------------------------------------------

\* The initial state satisfies the inductive invariant.
LEMMA InitInv == SessionInit => IInv
<1> SUFFICES ASSUME SessionInit PROVE IInv
  OBVIOUS
<1> USE CallAssumption DEF SessionInit
<1>1. SessionTypeOK
  BY DEF SessionTypeOK, Phases, Flights
<1>2. OneFlight /\ FailedBroken
  BY DEF OneFlight, FailedBroken, Active
<1>3. Latest
  BY DEF Latest
<1>4. FreshAgain /\ SessionKept
  BY DEF FreshAgain, SessionKept
<1> QED
  BY <1>1, <1>2, <1>3, <1>4 DEF IInv

\* With no refresh shared, none is under way.
LEMMA NoneUnderWay ==
    ASSUME IInv, refreshing = Nobody
    PROVE  \A f \in Call : flight[f] \notin Active
  BY CallAssumption DEF IInv, OneFlight

\* Two refreshes under way are one.
LEMMA OnlyFlight ==
    ASSUME IInv, NEW f \in Call, NEW g \in Call, flight[f] \in Active, flight[g] \in Active
    PROVE  f = g
  BY DEF IInv, OneFlight

\* Every step keeps the types.
LEMMA TypeStep == IInv /\ [SessionNext]_sessionVars => SessionTypeOK'
<1> SUFFICES ASSUME IInv, [SessionNext]_sessionVars PROVE SessionTypeOK'
  OBVIOUS
<1> SessionTypeOK BY DEF IInv
<1> USE CallAssumption DEF SessionTypeOK, Phases, Flights
<1>1. ASSUME NEW c \in Call, SendCall(c) PROVE SessionTypeOK'
  BY <1>1 DEF SendCall, flightVars, serverVars
<1>2. ASSUME NEW c \in Call, ServeCall(c) PROVE SessionTypeOK'
  BY <1>2 DEF ServeCall, flightVars, serverVars
<1>3. ASSUME NEW c \in Call, RefuseCall(c) PROVE SessionTypeOK'
  BY <1>3 DEF RefuseCall, flightVars, serverVars
<1>4. ASSUME NEW c \in Call, TryRefresh(c) PROVE SessionTypeOK'
  BY <1>4 DEF TryRefresh, Starts, flightVars, serverVars
<1>5. ASSUME NEW c \in Call, Rotate(c) PROVE SessionTypeOK'
  BY <1>5 DEF Rotate, clientVars
<1>6. ASSUME NEW c \in Call, RefuseRefresh(c) PROVE SessionTypeOK'
  BY <1>6 DEF RefuseRefresh, clientVars, serverVars
<1>7. ASSUME NEW c \in Call, LoseRefresh(c) PROVE SessionTypeOK'
  BY <1>7 DEF LoseRefresh, clientVars, serverVars
<1>8. ASSUME NEW c \in Call, Settle(c) PROVE SessionTypeOK'
  <2>1. jar' \in Nat
    BY <1>8 DEF Settle
  <2>2. phase' \in [Call -> Phases] /\ token' \in [Call -> Nat]
    BY <1>8, <2>1 DEF Settle
  <2> QED
    BY <1>8, <2>1, <2>2 DEF Settle, serverVars
<1>9. CASE Expire
  BY <1>9 DEF Expire, clientVars, flightVars
<1>10. CASE Revoke
  BY <1>10 DEF Revoke, clientVars, flightVars
<1>11. CASE UNCHANGED sessionVars
  BY <1>11 DEF sessionVars, clientVars, flightVars, serverVars
<1> QED
  BY <1>1, <1>2, <1>3, <1>4, <1>5, <1>6, <1>7, <1>8, <1>9, <1>10, <1>11
     DEF SessionNext, Answering, Refreshing

-----------------------------------------------------------------------------
(* The other parts of the inductive invariant, one action at a time.        *)

\* A call that is sent, or that is let through, disturbs only its own phase.
LEMMA CallStep ==
    ASSUME IInv, NEW c \in Call, SendCall(c) \/ ServeCall(c) \/ RefuseCall(c)
    PROVE  OneFlight' /\ Latest' /\ FailedBroken' /\ FreshAgain' /\ SessionKept'
<1> SessionTypeOK BY DEF IInv
<1>0. UNCHANGED <<flightVars, serverVars, refreshing, jar, lost>>
  BY DEF SendCall, ServeCall, RefuseCall
<1>1. OneFlight' /\ FailedBroken'
  BY <1>0 DEF IInv, OneFlight, FailedBroken, Whole, flightVars, serverVars
<1>2. Latest'
  BY <1>0 DEF IInv, Latest, Whole, flightVars, serverVars
<1>3. FreshAgain'
  <2>1. \A d \in Call : phase'[d] = "again" => phase[d] = "again" /\ token'[d] = token[d]
    BY DEF SendCall, ServeCall, RefuseCall, SessionTypeOK
  <2> QED
    BY <1>0, <2>1 DEF IInv, FreshAgain, serverVars
<1>4. SessionKept'
  <2>1. ASSUME Whole, NEW d \in Call, phase'[d] = "denied" PROVE d \in Picky
    <3>1. CASE phase[d] = "denied"
      BY <2>1, <3>1 DEF IInv, SessionKept
    <3>2. CASE phase[d] # "denied"
      <4>1. d = c /\ phase[c] = "again" /\ MayRefuse(c)
        BY <2>1, <3>2 DEF SendCall, ServeCall, RefuseCall, SessionTypeOK
      <4>2. lapsed < token[c] /\ alive
        BY <2>1, <4>1 DEF IInv, FreshAgain, Whole
      <4> QED
        BY <4>1, <4>2 DEF MayRefuse, SessionTypeOK
    <3> QED
      BY <3>1, <3>2
  <2> QED
    BY <1>0, <2>1 DEF SessionKept, Whole, serverVars
<1> QED
  BY <1>1, <1>2, <1>3, <1>4

\* A call that starts a refresh carries the newest tokens: none is under way.
LEMMA TryStep ==
    ASSUME IInv, NEW c \in Call, TryRefresh(c)
    PROVE  OneFlight' /\ Latest' /\ FailedBroken' /\ FreshAgain' /\ SessionKept'
<1> SessionTypeOK BY DEF IInv
<1>0. UNCHANGED <<token, jar, serverVars, lost>>
  BY DEF TryRefresh
<1>1. \A d \in Call : phase'[d] \in {"again", "denied"} => phase'[d] = phase[d]
  BY DEF TryRefresh, SessionTypeOK
<1>2. FreshAgain' /\ SessionKept'
  BY <1>0, <1>1 DEF IInv, FreshAgain, SessionKept, Whole, serverVars
<1>3. CASE refreshing # Nobody
  <2>1. UNCHANGED <<refreshing, flightVars>>
    BY <1>3 DEF TryRefresh, Starts
  <2> QED
    BY <1>0, <1>2, <2>1 DEF IInv, OneFlight, Latest, FailedBroken, Whole, flightVars, serverVars
<1>4. CASE refreshing = Nobody
  <2>1. /\ flight' = [flight EXCEPT ![c] = "sent"] /\ refreshing' = c
        /\ carried' = [carried EXCEPT ![c] = jar]
    BY <1>4 DEF TryRefresh, Starts
  <2>2. \A f \in Call : flight[f] \notin Active
    BY <1>4, NoneUnderWay
  <2>3. \A f \in Call : f # c => flight'[f] \notin Active
    BY <2>1, <2>2 DEF SessionTypeOK
  <2>4. flight'[c] = "sent" /\ carried'[c] = jar
    BY <2>1 DEF SessionTypeOK
  <2>5. Whole => jar = issued
    BY <2>2 DEF IInv, Latest, Active
  <2>6. OneFlight' /\ FailedBroken'
    BY <2>1, <2>3, <2>4 DEF OneFlight, FailedBroken, Active
  <2>7. Latest'
    BY <1>0, <2>3, <2>4, <2>5 DEF IInv, Latest, Active, Whole, serverVars
  <2> QED
    BY <1>2, <2>6, <2>7
<1> QED
  BY <1>3, <1>4

\* The server replaces the tokens for the one refresh under way.
LEMMA RotateStep ==
    ASSUME IInv, NEW f \in Call, Rotate(f)
    PROVE  OneFlight' /\ Latest' /\ FailedBroken' /\ FreshAgain' /\ SessionKept'
<1> SessionTypeOK BY DEF IInv
<1>0. UNCHANGED <<phase, token, refreshing, jar, lapsed, alive, lost>>
  BY DEF Rotate, clientVars
<1>1. \A g \in Call : g # f => flight'[g] \notin Active
  BY OnlyFlight DEF Rotate, SessionTypeOK, Active
<1>2. flight'[f] = "issued" /\ carried'[f] = issued + 1 /\ issued' = issued + 1
  BY DEF Rotate, SessionTypeOK
<1>3. OneFlight' /\ FailedBroken'
  BY <1>0, <1>1, <1>2 DEF IInv, OneFlight, FailedBroken, Rotate, Active
<1>4. Latest'
  BY <1>0, <1>1, <1>2 DEF IInv, Latest, Active, SessionTypeOK
<1>5. FreshAgain' /\ SessionKept'
  BY <1>0 DEF IInv, FreshAgain, SessionKept, Whole
<1> QED
  BY <1>3, <1>4, <1>5

\* A refresh fails only of a session that is broken, or that its loss breaks.
LEMMA FailStep ==
    ASSUME IInv, NEW f \in Call, RefuseRefresh(f) \/ LoseRefresh(f)
    PROVE  OneFlight' /\ Latest' /\ FailedBroken' /\ FreshAgain' /\ SessionKept'
<1> SessionTypeOK BY DEF IInv
<1>0. UNCHANGED <<phase, token, refreshing, jar, carried, serverVars>>
  BY DEF RefuseRefresh, LoseRefresh, clientVars
<1>1. ~Whole'
  <2>1. CASE RefuseRefresh(f)
    BY <2>1 DEF IInv, Latest, RefuseRefresh, Whole, serverVars
  <2>2. CASE LoseRefresh(f)
    BY <2>2 DEF LoseRefresh, Whole
  <2> QED
    BY <2>1, <2>2
<1>2. \A g \in Call : flight'[g] \in Active => flight[g] \in Active
  BY DEF RefuseRefresh, LoseRefresh, SessionTypeOK, Active
<1>3. \A g \in Call : flight'[g] = "issued" => flight[g] = "issued"
  BY DEF RefuseRefresh, LoseRefresh, SessionTypeOK
<1>4. OneFlight'
  BY <1>0, <1>2 DEF IInv, OneFlight
<1>5. Latest'
  BY <1>0, <1>1, <1>3 DEF IInv, Latest, serverVars
<1> QED
  BY <1>0, <1>1, <1>4, <1>5 DEF IInv, FailedBroken, FreshAgain, SessionKept, serverVars

\* The answer of the refresh reaches all that await it.
LEMMA SettleStep ==
    ASSUME IInv, NEW f \in Call, Settle(f)
    PROVE  OneFlight' /\ Latest' /\ FailedBroken' /\ FreshAgain' /\ SessionKept'
<1> SessionTypeOK BY DEF IInv
<1>0. UNCHANGED <<carried, serverVars, lost>>
  BY DEF Settle
<1>1. \A g \in Call : flight'[g] \notin Active
  BY OnlyFlight DEF Settle, SessionTypeOK, Active
<1>2. OneFlight' /\ FailedBroken'
  BY <1>1 DEF OneFlight, FailedBroken, Active
<1>3. CASE flight[f] = "issued"
  <2>1. jar' = issued /\ lapsed < jar'
    BY <1>3 DEF Settle, IInv, Latest
  <2>2. Latest'
    BY <1>0, <1>1, <2>1 DEF IInv, Latest, Active, serverVars
  <2>3. ASSUME NEW c \in Call, phase'[c] = "again" PROVE lapsed < token'[c]
    BY <1>3, <2>1, <2>3 DEF Settle, IInv, FreshAgain
  <2>4. ASSUME NEW c \in Call, phase'[c] = "denied" PROVE phase[c] = "denied"
    BY <1>3, <2>4 DEF Settle
  <2> QED
    BY <1>0, <1>2, <2>2, <2>3, <2>4 DEF IInv, FreshAgain, SessionKept, Whole, serverVars
<1>4. CASE flight[f] = "failed"
  <2>1. ~Whole
    BY <1>4 DEF IInv, FailedBroken
  <2>2. Latest'
    BY <1>0, <1>1, <2>1 DEF IInv, Latest, Active, Whole, serverVars
  <2>3. ASSUME NEW c \in Call, phase'[c] = "again" PROVE lapsed < token'[c]
    BY <1>4, <2>3 DEF Settle, IInv, FreshAgain, Awaiting
  <2> QED
    BY <1>0, <1>2, <2>1, <2>2, <2>3 DEF FreshAgain, SessionKept, Whole, serverVars
<1> QED
  BY <1>3, <1>4 DEF Settle

\* Expiry spares the tokens that are new, and an end of the session breaks it.
LEMMA ServerStep ==
    ASSUME IInv, Expire \/ Revoke
    PROVE  OneFlight' /\ Latest' /\ FailedBroken' /\ FreshAgain' /\ SessionKept'
<1> SessionTypeOK BY DEF IInv
<1>0. UNCHANGED <<clientVars, flightVars, issued, lost>>
  BY DEF Expire, Revoke
<1>1. CASE Expire
  <2>1. UNCHANGED alive /\ lapsed' = issued
    BY <1>1 DEF Expire
  <2>2. \A c \in Call : phase[c] # "again" /\ flight[c] # "issued"
    BY <1>1 DEF Expire
  <2>3. OneFlight' /\ FailedBroken' /\ SessionKept'
    BY <1>0, <2>1 DEF IInv, OneFlight, FailedBroken, SessionKept, Whole, clientVars, flightVars
  <2>4. Latest' /\ FreshAgain'
    BY <1>0, <2>1, <2>2 DEF IInv, Latest, FreshAgain, Whole, SessionTypeOK, clientVars, flightVars
  <2> QED
    BY <2>3, <2>4
<1>2. CASE Revoke
  <2>1. ~Whole' /\ UNCHANGED lapsed
    BY <1>2 DEF Revoke, Whole
  <2> QED
    BY <1>0, <2>1 DEF IInv, OneFlight, FailedBroken, SessionKept, Latest, FreshAgain,
       clientVars, flightVars
<1> QED
  BY <1>1, <1>2

\* Every step keeps the inductive invariant.
LEMMA StepInv == IInv /\ [SessionNext]_sessionVars => IInv'
<1> SUFFICES ASSUME IInv, [SessionNext]_sessionVars PROVE IInv'
  OBVIOUS
<1>1. SessionTypeOK'
  BY TypeStep
<1> DEFINE Rest == OneFlight' /\ Latest' /\ FailedBroken' /\ FreshAgain' /\ SessionKept'
<1>2. ASSUME NEW c \in Call, SendCall(c) \/ Answering(c) PROVE Rest
  BY <1>2, CallStep, TryStep DEF Answering
<1>3. ASSUME NEW c \in Call, Refreshing(c) PROVE Rest
  BY <1>3, RotateStep, FailStep, SettleStep DEF Refreshing
<1>4. ASSUME Expire \/ Revoke PROVE Rest
  BY <1>4, ServerStep
<1>5. ASSUME UNCHANGED sessionVars PROVE Rest
  BY <1>5 DEF IInv, OneFlight, Latest, FailedBroken, FreshAgain, SessionKept, Whole,
     sessionVars, clientVars, flightVars, serverVars
<1>6. Rest
  BY <1>2, <1>3, <1>4, <1>5 DEF SessionNext
<1> QED
  BY <1>1, <1>6 DEF IInv

\* The inductive invariant holds in every state of every behaviour.
THEOREM SessionInvariant == SessionSpec => []IInv
  BY InitInv, StepInv, PTL DEF SessionSpec

\* The variables of the api client and of the session keep their types.
THEOREM SessionTyped == SessionSpec => []SessionTypeOK
<1>1. IInv => SessionTypeOK
  BY DEF IInv
<1> QED
  BY SessionInvariant, <1>1, PTL

\* For any calls, and any number of expiries in any order with them: of a
\* session that is whole no call ends unauthorized unless its own handler says
\* so (api.ts, tryRefresh).
THEOREM SessionIsKept == SessionSpec => []SessionKept
<1>1. IInv => SessionKept
  BY DEF IInv
<1> QED
  BY SessionInvariant, <1>1, PTL

-----------------------------------------------------------------------------
(* The refinement.                                                          *)

\* A fresh page is a fresh gate.
LEMMA InitGate == SessionInit => Gate!Init
  BY DEF SessionInit, Gate!Init, Outcome, Whole

\* Calls whose outcome a step leaves alone, while the session breaks at most,
\* do nothing at the gate.
LEMMA Unseen ==
    ASSUME Outcome' = Outcome, Whole' = Whole \/ ~Whole'
    PROVE  [Gate!Next]_Gate!vars
  BY DEF Gate!Next, Gate!Breaks, Gate!vars

\* What one call does is what the gate lets it do.
LEMMA CallGate ==
    ASSUME IInv, NEW c \in Call, SendCall(c) \/ Answering(c)
    PROVE  [Gate!Next]_Gate!vars
<1> SessionTypeOK BY DEF IInv
<1>0. UNCHANGED Whole
  BY DEF SendCall, Answering, ServeCall, RefuseCall, TryRefresh, Whole, serverVars
<1>1. CASE SendCall(c)
  <2>1. Outcome[c] = "idle" /\ Outcome' = [Outcome EXCEPT ![c] = "pending"]
    BY <1>1 DEF SendCall, Outcome, SessionTypeOK
  <2> QED
    BY <1>0, <2>1 DEF Gate!Next, Gate!Begin
<1>2. CASE ServeCall(c)
  <2>1. Outcome[c] = "pending" /\ Outcome' = [d \in Call |-> IF d \in {c} THEN "over" ELSE Outcome[d]]
    BY <1>2 DEF ServeCall, Outcome, SessionTypeOK
  <2> QED
    BY <1>0, <2>1 DEF Gate!Next, Gate!Answered, Gate!End
<1>3. CASE RefuseCall(c) /\ phase[c] = "again"
  <2>1. /\ Outcome[c] = "pending"
        /\ Outcome' = [d \in Call |-> IF d \in {c} THEN "denied" ELSE Outcome[d]]
    BY <1>3 DEF RefuseCall, Outcome, SessionTypeOK
  <2>2. Whole => {c} \subseteq Picky
    BY <1>3 DEF RefuseCall, MayRefuse, IInv, FreshAgain, Whole, SessionTypeOK
  <2>3. Gate!Denied({c})
    BY <1>0, <2>1, <2>2 DEF Gate!Denied, Gate!End
  <2> QED
    BY <2>3 DEF Gate!Next
<1>4. CASE (RefuseCall(c) /\ phase[c] = "sent") \/ TryRefresh(c)
  <2>1. \A d \in Call : \/ phase'[d] = phase[d]
                        \/ {phase[d], phase'[d]} \subseteq {"sent", "refused", "waiting"}
    BY <1>4 DEF RefuseCall, TryRefresh, SessionTypeOK
  <2>2. Outcome' = Outcome
    BY <2>1 DEF Outcome
  <2> QED
    BY <1>0, <2>2, Unseen
<1> QED
  BY <1>1, <1>2, <1>3, <1>4 DEF Answering, RefuseCall

\* The answer of a refresh denies all that await it, or none.
LEMMA SettleGate ==
    ASSUME IInv, NEW f \in Call, Settle(f)
    PROVE  [Gate!Next]_Gate!vars
<1> SessionTypeOK BY DEF IInv
<1>0. UNCHANGED Whole
  BY DEF Settle, Whole, serverVars
<1>1. CASE flight[f] = "issued"
  <2>1. \A d \in Call : phase'[d] = phase[d] \/ (phase[d] = "waiting" /\ phase'[d] = "again")
    BY <1>1 DEF Settle, Awaiting
  <2>2. Outcome' = Outcome
    BY <2>1 DEF Outcome
  <2> QED
    BY <1>0, <2>2, Unseen
<1>2. CASE flight[f] = "failed"
  <2>1. ~Whole
    BY <1>2 DEF IInv, FailedBroken
  <2>2. \A d \in Awaiting(f) : Outcome[d] = "pending"
    BY DEF Awaiting, Outcome
  <2>3. Outcome' = [d \in Call |-> IF d \in Awaiting(f) THEN "denied" ELSE Outcome[d]]
    BY <1>2 DEF Settle, Awaiting, Outcome
  <2>4. Gate!Denied(Awaiting(f))
    BY <1>0, <2>1, <2>2, <2>3 DEF Gate!Denied, Gate!End
  <2>5. Awaiting(f) \in SUBSET Call
    BY DEF Awaiting
  <2> QED
    BY <2>4, <2>5 DEF Gate!Next
<1> QED
  BY <1>1, <1>2 DEF Settle

\* Every step is a step of the gate, or none.
LEMMA StepGate == IInv /\ [SessionNext]_sessionVars => [Gate!Next]_Gate!vars
<1> SUFFICES ASSUME IInv, [SessionNext]_sessionVars PROVE [Gate!Next]_Gate!vars
  OBVIOUS
<1>1. ASSUME NEW c \in Call, Rotate(c) \/ RefuseRefresh(c) \/ LoseRefresh(c)
      PROVE  [Gate!Next]_Gate!vars
  <2>1. UNCHANGED <<phase, alive>> /\ (lost' = lost \/ lost')
    BY <1>1 DEF Rotate, RefuseRefresh, LoseRefresh, clientVars, serverVars
  <2>2. Outcome' = Outcome
    BY <2>1 DEF Outcome
  <2> QED
    BY <2>1, <2>2, Unseen DEF Whole
<1>2. ASSUME Expire \/ Revoke \/ UNCHANGED sessionVars PROVE [Gate!Next]_Gate!vars
  <2>1. UNCHANGED <<phase, lost>> /\ (alive' = alive \/ ~alive')
    BY <1>2 DEF Expire, Revoke, sessionVars, clientVars, serverVars
  <2>2. Outcome' = Outcome
    BY <2>1 DEF Outcome
  <2> QED
    BY <2>1, <2>2, Unseen DEF Whole
<1> QED
  BY <1>1, <1>2, CallGate, SettleGate DEF SessionNext, Refreshing

\* The api client implements the gate: calls end unauthorized only of a broken
\* session, or by the word of their own handler (api.ts, api and tryRefresh).
THEOREM SessionRefines == SessionSpec => GateHolds
  BY SessionInvariant, InitGate, StepGate, PTL DEF SessionSpec, GateHolds, Gate!Spec
=============================================================================
