---------------------------- MODULE SignInProofs ----------------------------
(* Theorems about SignIn, for any number of pairs, calls and refreshes.      *)
EXTENDS SignIn, TLAPS

Who == {"me", "poll", "act"}
AskOp == {"none", "me", "poll", "login", "logout"} \cup Passwords
AskStep == {"none", "sent", "served", "refused", "waiting", "again", "failed"}
RenewalStep == {"none", "sent", "found", "issued", "failed"}

AskUpTo(n) == [op : AskOp, step : AskStep, pair : 0 .. n]

(* Pairs are numbered upwards, and a request is under way with its operation. *)
SignInTyped ==
    /\ user \in BOOLEAN /\ loading \in BOOLEAN /\ path \in {"login", "console"}
    /\ crossed \in BOOLEAN /\ unanswered \in BOOLEAN
    /\ newest \in Nat /\ cookies \in 0 .. newest /\ dead \in 0 .. newest
    /\ refreshRows \subseteq 1 .. newest /\ denied \subseteq 0 .. newest
    /\ asks \in [Who -> AskUpTo(newest)]
    /\ renewal \in [step : RenewalStep, pair : 0 .. newest]

(* Who asks what, and how far it can get. *)
AsksWell ==
    /\ \A a \in Who : asks[a].step = "none" <=> asks[a] = Unasked
    /\ asks["me"].op \in {"none", "me"} /\ asks["poll"].op \in {"none", "poll"}
    /\ asks["act"].op \in {"none", "login", "logout"} \cup Passwords
    /\ asks["act"].op = "login" => asks["act"].step \in {"sent", "served", "failed"}
    /\ asks["act"].op = "logout" => asks["act"].step \in {"sent", "served"}
    /\ loading <=> asks["me"].step # "none"
    /\ loading => asks["poll"] = Unasked /\ asks["act"].op \in {"none", "login"}
    /\ renewal.step = "none" <=> renewal = NoRenewal
    /\ renewal # NoRenewal => asks["act"].step \in {"none", "refused", "waiting", "failed"}

(* The browser has a live pair or none, but while its logout or its refresh   *)
(* is being answered.                                                        *)
CookieLives ==
    /\ cookies # 0 => \/ cookies \in refreshRows
                      \/ asks["act"].op = "logout" /\ asks["act"].step = "served"
                      \/ renewal.step = "issued"
    /\ asks["act"].op \in {"logout"} \cup Passwords /\ asks["act"].step \in {"sent", "again", "served"}
          => asks["act"].pair = cookies
    /\ asks["act"].op = "login" /\ asks["act"].step = "served" => asks["act"].pair \in refreshRows
    /\ renewal.step \in {"sent", "found"} => renewal.pair = cookies
    /\ renewal.step = "found" => renewal.pair \in refreshRows
    /\ renewal.step = "issued" => /\ renewal.pair \in refreshRows /\ renewal.pair \notin denied
                                  /\ renewal.pair > dead /\ cookies # 0
    /\ renewal.step = "failed" => cookies = 0

(* The AuthProvider knows whether the browser has a pair, once me is answered. *)
UserKnown ==
    /\ user => cookies # 0 /\ path = "console"
    /\ ~loading /\ ~user => cookies = 0 /\ path = "login"
    /\ asks["me"].step = "sent" /\ asks["me"].pair # 0 => cookies # 0
    /\ asks["me"].step = "served" => cookies # 0
    /\ asks["me"].step = "again" => cookies # 0 /\ Authorized(asks["me"].pair)
    /\ asks["me"].step # "failed"

ShownInv == ~crossed /\ ~unanswered => AsksWell /\ CookieLives /\ UserKnown

(* A request as it is sent, and the record that keeps the three.              *)
LEMMA AskFields ==
    ASSUME NEW m, NEW p, NEW a
    PROVE  LET r == [me |-> m, poll |-> p, act |-> a]
           IN  /\ DOMAIN r = Who /\ r = [k \in Who |-> r[k]]
               /\ r["me"] = m /\ r["poll"] = p /\ r["act"] = a
BY DEF Who

LEMMA InitTyped == SignInInit => SignInTyped /\ ShownInv
<1> SUFFICES ASSUME SignInInit PROVE SignInTyped /\ ShownInv
  OBVIOUS
<1>1. /\ asks = [k \in Who |-> asks[k]]
      /\ asks["me"] = [op |-> "me", step |-> "sent", pair |-> cookies]
      /\ asks["poll"] = Unasked /\ asks["act"] = Unasked
  BY AskFields DEF SignInInit, Sent
<1>2. newest = 1 /\ cookies \in 0 .. 1 /\ dead \in 0 .. 1 /\ refreshRows = {1} /\ denied = {}
      /\ renewal = [step |-> "none", pair |-> 0]
  BY DEF SignInInit, NoRenewal
<1>3. asks \in [Who -> AskUpTo(newest)]
  BY <1>1, <1>2 DEF Who, AskUpTo, AskOp, AskStep, Unasked
<1>4. SignInTyped
  <2>1. renewal \in [step : RenewalStep, pair : 0 .. newest]
    BY <1>2 DEF RenewalStep
  <2>2. /\ user \in BOOLEAN /\ loading \in BOOLEAN /\ path \in {"login", "console"}
        /\ crossed \in BOOLEAN /\ unanswered \in BOOLEAN
    BY DEF SignInInit
  <2>3. /\ newest \in Nat /\ cookies \in 0 .. newest /\ dead \in 0 .. newest
        /\ refreshRows \subseteq 1 .. newest /\ denied \subseteq 0 .. newest
    BY DEF SignInInit
  <2> QED BY <1>3, <2>1, <2>2, <2>3 DEF SignInTyped
<1>5. AsksWell
  <2>1. \A a \in Who : asks[a].step = "none" <=> asks[a] = Unasked
    BY <1>1 DEF Who, Unasked
  <2>2. renewal.step = "none" /\ renewal = NoRenewal
    BY <1>2 DEF NoRenewal
  <2>3. loading <=> asks["me"].step # "none"
    BY <1>1 DEF SignInInit
  <2>4. /\ asks["me"].op = "me" /\ asks["poll"].op = "none" /\ asks["act"].op = "none"
        /\ asks["act"].step = "none"
    BY <1>1 DEF Unasked
  <2> QED BY <1>1, <2>1, <2>2, <2>3, <2>4 DEF AsksWell
<1>6. CookieLives /\ UserKnown
  BY <1>1, <1>2 DEF CookieLives, UserKnown, Unasked, SignInInit
<1> QED BY <1>4, <1>5, <1>6 DEF ShownInv
LEMMA Wider == ASSUME NEW n \in Nat PROVE AskUpTo(n) \subseteq AskUpTo(n + 1)
BY DEF AskUpTo

(* What changes of the requests when one takes a step, is sent or is over.    *)
LEMMA StepToAsks ==
    ASSUME SignInTyped, NEW a \in Who, NEW step \in AskStep, StepTo(a, step)
    PROVE  /\ asks' \in [Who -> AskUpTo(newest)]
           /\ asks'[a].op = asks[a].op /\ asks'[a].step = step /\ asks'[a].pair = asks[a].pair
           /\ \A b \in Who \ {a} : asks'[b] = asks[b]
BY DEF SignInTyped, StepTo, AskUpTo

LEMMA UnaskedTyped ==
    ASSUME SignInTyped
    PROVE  Unasked \in AskUpTo(newest)
BY DEF SignInTyped, Unasked, AskUpTo, AskOp, AskStep

LEMMA SentTyped ==
    ASSUME SignInTyped, NEW op \in AskOp
    PROVE  /\ Sent(op) \in AskUpTo(newest)
           /\ Sent(op).op = op /\ Sent(op).step = "sent" /\ Sent(op).pair = cookies
BY DEF SignInTyped, Sent, AskUpTo, AskOp, AskStep

LEMMA ServedAs ==
    ASSUME SignInTyped, asks' = [asks EXCEPT !.act.step = "served", !.act.pair = newest + 1]
    PROVE  /\ asks' \in [Who -> AskUpTo(newest + 1)]
           /\ asks'["act"].op = asks["act"].op /\ asks'["act"].step = "served" /\ asks'["act"].pair = newest + 1
           /\ \A b \in Who \ {"act"} : asks'[b] = asks[b]
<1>1. asks["act"] \in [op : AskOp, step : AskStep, pair : 0 .. newest]
  BY DEF SignInTyped, Who, AskUpTo
<1>2. asks' = [k \in Who |-> asks'[k]]
  BY DEF SignInTyped
<1>3. asks'["act"] = [asks["act"] EXCEPT !.step = "served", !.pair = newest + 1]
  BY DEF SignInTyped, Who
<1>4. asks'["act"] = [op |-> asks["act"].op, step |-> "served", pair |-> newest + 1]
  BY <1>1, <1>3
<1>5. \A b \in Who \ {"act"} : asks'[b] = asks[b] /\ asks[b] \in AskUpTo(newest + 1)
  BY Wider DEF SignInTyped, Who
<1>6. asks'["act"] \in AskUpTo(newest + 1)
  BY <1>1, <1>4 DEF SignInTyped, AskUpTo, AskStep
<1>7. asks' \in [Who -> AskUpTo(newest + 1)]
  BY <1>2, <1>5, <1>6
<1>8. asks'["act"].op = asks["act"].op /\ asks'["act"].step = "served" /\ asks'["act"].pair = newest + 1
  BY <1>1, <1>4
<1>9. \A b \in Who \ {"act"} : asks'[b] = asks[b]
  BY <1>5
<1> QED BY <1>7, <1>8, <1>9

LEMMA StepTyped == SignInTyped /\ [SignInNext]_signInVars => SignInTyped'
<1> SUFFICES ASSUME SignInTyped, [SignInNext]_signInVars PROVE SignInTyped'
  OBVIOUS
<1>1. ASSUME NEW op \in AskOp, AskServer(op) PROVE SignInTyped'
  <2>1. asks' \in [Who -> AskUpTo(newest)]
    BY <1>1, SentTyped DEF SignInTyped, AskServer, Who
  <2> QED BY <1>1, <2>1 DEF SignInTyped, AskServer, shellVars, tokenVars
<1>2. CASE PagePolls
  <2>1. asks' \in [Who -> AskUpTo(newest)]
    BY <1>2, SentTyped DEF SignInTyped, PagePolls, Who, AskOp
  <2> QED BY <1>2, <2>1 DEF SignInTyped, PagePolls, shellVars, tokenVars
<1>3. CASE Reopen
  <2>1. asks' \in [Who -> AskUpTo(newest)]
    BY <1>3, SentTyped DEF SignInTyped, Reopen, Who, AskOp
  <2> QED BY <1>3, <2>1 DEF SignInTyped, Reopen, tokenVars
<1>4. ASSUME NEW a \in Who, HandleMe(a) \/ HandleUnauthorized(a) PROVE SignInTyped'
  <2>1. asks' \in [Who -> AskUpTo(newest)]
    BY <1>4, StepToAsks DEF HandleMe, HandleUnauthorized, AskStep
  <2> QED BY <1>4, <2>1 DEF SignInTyped, HandleMe, HandleUnauthorized, ServerOnly, shellVars, tokenVars, signInHistory
<1>5. CASE HandlePassword
  <2>1. asks' \in [Who -> AskUpTo(newest)]
    BY <1>5, StepToAsks DEF HandlePassword, AskStep, Who
  <2> QED BY <1>5, <2>1 DEF SignInTyped, HandlePassword, RevokeOthers, ServerOnly, shellVars, signInHistory
<1>6. CASE HandleLogin
  <2>1. CASE newest' = newest + 1 /\ refreshRows' = refreshRows \cup {newest + 1}
             /\ asks' = [asks EXCEPT !.act.step = "served", !.act.pair = newest + 1]
    <3>1. asks' \in [Who -> AskUpTo(newest')]
      BY <2>1, ServedAs
    <3> QED BY <1>6, <2>1, <3>1 DEF SignInTyped, HandleLogin, ServerOnly, shellVars, signInHistory
  <2>2. CASE StepTo("act", "failed") /\ UNCHANGED <<newest, refreshRows>>
    <3>1. asks' \in [Who -> AskUpTo(newest)]
      BY <2>2, StepToAsks DEF AskStep, Who
    <3> QED BY <1>6, <2>2, <3>1 DEF SignInTyped, HandleLogin, ServerOnly, shellVars, signInHistory
  <2> QED BY <1>6, <2>1, <2>2 DEF HandleLogin
<1>7. CASE HandleLogout
  <2>1. asks' \in [Who -> AskUpTo(newest)]
    BY <1>7, StepToAsks DEF HandleLogout, AskStep, Who
  <2>2. asks.act.pair \in 0 .. newest
    BY DEF SignInTyped, Who, AskUpTo
  <2> QED BY <1>7, <2>1, <2>2 DEF SignInTyped, HandleLogout, ServerOnly, shellVars, signInHistory
<1>8. CASE RefreshLookup
  <2>1. renewal' = [renewal EXCEPT !.step = "found"] \/ renewal' = [renewal EXCEPT !.step = "failed"]
    BY <1>8 DEF RefreshLookup
  <2>2. renewal' \in [step : RenewalStep, pair : 0 .. newest]
    BY <2>1 DEF SignInTyped, RenewalStep
  <2> QED BY <1>8, <2>2 DEF SignInTyped, RefreshLookup, shellVars, tokenVars, signInHistory
<1>9. CASE RefreshRotate
  <2>1. asks' \in [Who -> AskUpTo(newest')]
    BY <1>9, Wider DEF SignInTyped, RefreshRotate
  <2>2. renewal' \in [step : RenewalStep, pair : 0 .. newest']
    BY <1>9 DEF SignInTyped, RefreshRotate, RenewalStep
  <2>3. /\ newest' = newest + 1 /\ UNCHANGED <<cookies, dead, denied>>
        /\ refreshRows' = (refreshRows \ {renewal.pair}) \cup {newest + 1}
    BY <1>9 DEF RefreshRotate
  <2>4. newest' \in Nat /\ cookies' \in 0 .. newest' /\ dead' \in 0 .. newest'
    BY <2>3 DEF SignInTyped
  <2>5. refreshRows' \subseteq 1 .. newest'
    <3>1. \A x \in refreshRows' : x \in 1 .. newest \/ x = newest + 1
      BY <2>3 DEF SignInTyped
    <3>2. 1 .. newest \subseteq 1 .. (newest + 1) /\ newest + 1 \in 1 .. (newest + 1)
      BY DEF SignInTyped
    <3> QED BY <2>3, <3>1, <3>2
  <2>6. denied' \subseteq 0 .. newest'
    BY <2>3 DEF SignInTyped
  <2> QED BY <1>9, <2>1, <2>2, <2>4, <2>5, <2>6 DEF SignInTyped, RefreshRotate, shellVars, signInHistory
<1>10. CASE AccessExpires
  BY <1>10 DEF SignInTyped, AccessExpires, shellVars
<1>11. CASE MeLands \/ PollLands \/ PasswordLands
  <2>1. asks' \in [Who -> AskUpTo(newest)]
    BY <1>11, UnaskedTyped DEF SignInTyped, MeLands, PollLands, PasswordLands, Who
  <2> QED BY <1>11, <2>1 DEF SignInTyped, MeLands, PollLands, PasswordLands, Present, shellVars, tokenVars, signInHistory
<1>12. CASE LoginLands \/ LogoutLands
  <2>1. asks' \in [Who -> AskUpTo(newest)]
    BY <1>12, UnaskedTyped DEF SignInTyped, LoginLands, LogoutLands, Who
  <2>2. asks.act.pair \in 0 .. newest
    BY DEF SignInTyped, Who, AskUpTo
  <2>3. cookies' \in {cookies, 0, asks.act.pair}
    BY <1>12 DEF LoginLands, LogoutLands
  <2>4. cookies' \in 0 .. newest
    BY <2>2, <2>3 DEF SignInTyped
  <2> QED BY <1>12, <2>1, <2>4 DEF SignInTyped, LoginLands, LogoutLands, Present, shellVars, tokenVars, signInHistory
<1>13. ASSUME NEW a \in Who, AwaitRefresh(a) PROVE SignInTyped'
  <2>1. asks' \in [Who -> AskUpTo(newest)]
    BY <1>13, StepToAsks DEF AwaitRefresh, AskStep
  <2>2. renewal' \in {renewal, [step |-> "sent", pair |-> cookies]}
    BY <1>13 DEF AwaitRefresh
  <2>3. renewal' \in [step : RenewalStep, pair : 0 .. newest]
    BY <2>2 DEF SignInTyped, RenewalStep
  <2>4. crossed' \in BOOLEAN
    BY <1>13 DEF SignInTyped, AwaitRefresh
  <2> QED BY <1>13, <2>1, <2>3, <2>4 DEF SignInTyped, AwaitRefresh, shellVars, tokenVars
<1>14. CASE RefreshLands
  <2>1. \A a \in Who : asks'[a] \in {asks[a], Unasked, [asks[a] EXCEPT !.step = "again", !.pair = renewal.pair]}
    BY <1>14 DEF SignInTyped, RefreshLands
  <2>2. asks' = [a \in Who |-> asks'[a]]
    BY <1>14 DEF SignInTyped, RefreshLands
  <2>3. \A a \in Who : [asks[a] EXCEPT !.step = "again", !.pair = renewal.pair] \in AskUpTo(newest)
    BY DEF SignInTyped, AskUpTo, AskStep
  <2>4. asks' \in [Who -> AskUpTo(newest)]
    BY ZenonT(60), <2>1, <2>2, <2>3, UnaskedTyped DEF SignInTyped
  <2>5. cookies' \in {cookies, renewal.pair} /\ renewal' = NoRenewal
    BY <1>14 DEF RefreshLands
  <2>6. cookies' \in 0 .. newest /\ renewal' \in [step : RenewalStep, pair : 0 .. newest]
    BY <2>5 DEF SignInTyped, NoRenewal, RenewalStep
  <2> QED BY <1>14, <2>4, <2>6 DEF SignInTyped, RefreshLands, Present, shellVars, tokenVars, signInHistory
<1>15. ASSUME NEW a \in Who, AnswerLost(a) PROVE SignInTyped'
  <2>1. asks' \in [Who -> AskUpTo(newest)]
    BY <1>15, StepToAsks DEF AnswerLost, AskStep
  <2> QED BY <1>15, <2>1 DEF SignInTyped, AnswerLost, shellVars, tokenVars
<1>16. CASE RefreshAnswerLost
  BY <1>16 DEF SignInTyped, RefreshAnswerLost, RenewalStep, shellVars, tokenVars
<1>17. CASE UNCHANGED signInVars
  BY <1>17 DEF SignInTyped, signInVars, shellVars, tokenVars, signInHistory
<1>18. DOMAIN asks = Who /\ {"login", "logout"} \cup Passwords \subseteq AskOp
  BY DEF SignInTyped, AskOp
<1> QED
  BY <1>1, <1>2, <1>3, <1>4, <1>5, <1>6, <1>7, <1>8, <1>9, <1>10, <1>11, <1>12, <1>13, <1>14,
     <1>15, <1>16, <1>17, <1>18
     DEF SignInNext, SubmitLogin, SignOut, ChangePassword

(* One step at a time, with no meeting of a login and a refresh and no answer  *)
(* lost: who asks what, the pairs, and what the provider shows.              *)
Clean == ~crossed /\ ~unanswered
Sound == AsksWell /\ CookieLives /\ UserKnown

LEMMA StepQuiet == SignInTyped /\ [SignInNext]_signInVars /\ Clean' => Clean
BY DEF SignInNext, signInVars, shellVars, tokenVars, signInHistory, Clean, SubmitLogin, SignOut,
       ChangePassword, AskServer, PagePolls, Reopen, HandleMe, HandleUnauthorized, HandlePassword,
       HandleLogin, HandleLogout, ServerOnly, RefreshLookup, RefreshRotate, AccessExpires, MeLands,
       PollLands, LoginLands, LogoutLands, PasswordLands, AwaitRefresh, RefreshLands, AnswerLost,
       RefreshAnswerLost, SignInTyped

LEMMA AskKnown ==
    ASSUME SignInTyped, Sound, Clean', NEW op \in {"login", "logout"} \cup Passwords,
           AskServer(op), op = "login" \/ Shown
    PROVE  Sound'
<1>1. /\ asks'["act"] = [op |-> op, step |-> "sent", pair |-> cookies]
      /\ asks'["me"] = asks["me"] /\ asks'["poll"] = asks["poll"]
      /\ renewal = NoRenewal /\ renewal' = NoRenewal
      /\ asks["act"] = Unasked
  BY DEF AskServer, SignInTyped, Who, Sent, Clean
<1>2. UNCHANGED <<user, loading, path, cookies, refreshRows, denied, dead, newest>>
  BY DEF AskServer, shellVars, tokenVars
<1>3. AsksWell'
  <2>1. asks'["act"].op = op /\ asks'["act"].step = "sent" /\ asks'["act"].pair = cookies
    BY <1>1
  <2>2. \A a \in Who : asks'[a].step = "none" <=> asks'[a] = Unasked
    BY <1>1 DEF AsksWell, Sound, Who, Unasked
  <2>3. loading => op \in {"none", "login"}
    BY DEF Shown
  <2>4. asks'["me"] = asks["me"] /\ asks'["poll"] = asks["poll"] /\ loading' = loading
    BY <1>1, <1>2
  <2>5. renewal'.step = "none" /\ renewal' = NoRenewal
    BY <1>1 DEF NoRenewal
  <2>6. /\ op = "login" => "sent" \in {"sent", "served", "failed"}
        /\ op = "logout" => "sent" \in {"sent", "served"}
    OBVIOUS
  <2> QED BY <2>1, <2>2, <2>3, <2>4, <2>5, <2>6 DEF AsksWell, Sound
<1>4. CookieLives'
  <2>1. asks'["act"].step = "sent" /\ asks'["act"].pair = cookies
    BY <1>1
  <2>2. asks["act"].op = "none" /\ renewal'.step = "none" /\ renewal.step = "none"
    BY <1>1 DEF Unasked, NoRenewal
  <2>3. cookies' = cookies /\ refreshRows' = refreshRows
    BY <1>2
  <2>4. cookies # 0 => cookies \in refreshRows
    BY <2>2 DEF CookieLives, Sound
  <2> QED BY <2>1, <2>2, <2>3, <2>4 DEF CookieLives
<1>5. UserKnown'
  BY <1>1, <1>2 DEF UserKnown, Sound, Authorized
<1> QED BY <1>3, <1>4, <1>5 DEF Sound

LEMMA PollKnown == ASSUME SignInTyped, Sound, PagePolls PROVE Sound'
<1>1. /\ asks'["poll"] = [op |-> "poll", step |-> "sent", pair |-> cookies]
      /\ asks'["me"] = asks["me"] /\ asks'["act"] = asks["act"]
  BY DEF PagePolls, SignInTyped, Who, Sent
<1>2. UNCHANGED <<user, loading, path, cookies, refreshRows, denied, dead, newest, renewal>> /\ ~loading
  BY DEF PagePolls, shellVars, tokenVars, Shown
<1>3. AsksWell'
  BY <1>1, <1>2 DEF AsksWell, Sound, Who, Unasked, NoRenewal
<1>4. CookieLives'
  BY <1>1, <1>2 DEF CookieLives, Sound
<1>5. UserKnown'
  BY <1>1, <1>2 DEF UserKnown, Sound, Authorized
<1> QED BY <1>3, <1>4, <1>5 DEF Sound

LEMMA ReopenKnown == ASSUME SignInTyped, Sound, Reopen PROVE Sound'
<1>1. /\ asks'["me"] = [op |-> "me", step |-> "sent", pair |-> cookies]
      /\ asks'["poll"] = Unasked /\ asks'["act"] = Unasked
      /\ asks["poll"] = Unasked /\ asks["act"] = Unasked
      /\ renewal = NoRenewal /\ renewal' = NoRenewal
  BY DEF Reopen, AtRest, SignInTyped, Who, Sent
<1>2. UNCHANGED <<path, cookies, refreshRows, denied, dead, newest>> /\ loading' = TRUE /\ user' = FALSE
  BY DEF Reopen, tokenVars
<1>3. AsksWell'
  BY <1>1, <1>2 DEF AsksWell, Who, Unasked, NoRenewal
<1>4. CookieLives'
  BY <1>1, <1>2 DEF CookieLives, Sound, Unasked, NoRenewal, Passwords
<1>5. UserKnown'
  BY <1>1, <1>2 DEF UserKnown, Sound, Authorized
<1> QED BY <1>3, <1>4, <1>5 DEF Sound

LEMMA MeServedKnown == ASSUME SignInTyped, Sound, NEW a \in Who, HandleMe(a) PROVE Sound'
<1>1. /\ asks'[a].op = asks[a].op /\ asks'[a].step = "served" /\ asks'[a].pair = asks[a].pair
      /\ \A b \in Who \ {a} : asks'[b] = asks[b]
  BY StepToAsks DEF HandleMe, AskStep
<1>2. asks[a].op \in {"me", "poll"} /\ asks[a].step \in {"sent", "again"} /\ Authorized(asks[a].pair)
  BY DEF HandleMe, OnServer
<1>3. UNCHANGED <<user, loading, path, cookies, refreshRows, denied, dead, newest, renewal>>
  BY DEF HandleMe, ServerOnly, shellVars, tokenVars
<1>4. a # "act"
  BY <1>2 DEF AsksWell, Sound, Passwords
<1>5. asks'["act"] = asks["act"]
  BY <1>1, <1>4 DEF Who
<1>6. AsksWell'
  <2>1. \A b \in Who : asks'[b].op = asks[b].op /\ (asks'[b].step = "none" <=> asks[b].step = "none")
    BY <1>1, <1>2
  <2>2. asks'[a] # Unasked
    BY <1>1 DEF Unasked
  <2>3. \A b \in Who : asks'[b].step = "none" <=> asks'[b] = Unasked
    BY <1>1, <2>2 DEF AsksWell, Sound
  <2>4. loading => asks'["poll"] = Unasked
    BY <1>1, <1>2, <2>1 DEF AsksWell, Sound, Who, Unasked
  <2> QED BY <1>3, <1>5, <2>1, <2>3, <2>4 DEF AsksWell, Sound, Who
<1>7. CookieLives'
  BY <1>3, <1>5 DEF CookieLives, Sound
<1>8. UserKnown'
  <2>1. a = "me" => cookies # 0
    BY <1>2 DEF UserKnown, Sound, Authorized
  <2>2. a # "me" => asks'["me"] = asks["me"]
    BY <1>1 DEF Who
  <2> QED BY <1>1, <1>3, <2>1, <2>2 DEF UserKnown, Sound, Authorized
<1> QED BY <1>6, <1>7, <1>8 DEF Sound

LEMMA RefusedKnown == ASSUME SignInTyped, Sound, NEW a \in Who, HandleUnauthorized(a) PROVE Sound'
<1> DEFINE step == IF asks[a].step = "sent" THEN "refused" ELSE "failed"
<1>1. /\ asks'[a].op = asks[a].op /\ asks'[a].step = step /\ asks'[a].pair = asks[a].pair
      /\ \A b \in Who \ {a} : asks'[b] = asks[b]
  BY StepToAsks DEF HandleUnauthorized, AskStep
<1>2. /\ asks[a].op \in {"me", "poll"} \cup Passwords /\ asks[a].step \in {"sent", "again"}
      /\ asks[a].op = "wrong password" \/ ~Authorized(asks[a].pair)
  BY DEF HandleUnauthorized, OnServer
<1>3. UNCHANGED <<user, loading, path, cookies, refreshRows, denied, dead, newest, renewal>>
  BY DEF HandleUnauthorized, ServerOnly, shellVars, tokenVars
<1>4. step \in {"refused", "failed"}
  OBVIOUS
<1> HIDE DEF step
<1>8. \/ asks'["act"] = asks["act"]
      \/ /\ asks["act"].op \in Passwords /\ asks'["act"].op = asks["act"].op
         /\ asks'["act"].step = step
  <2>1. CASE a = "act"
    BY <1>1, <1>2, <2>1 DEF AsksWell, Sound, Passwords
  <2>2. CASE a # "act"
    BY <1>1, <2>2 DEF Who
  <2> QED BY <2>1, <2>2
<1>5. AsksWell'
  <2>1. \A b \in Who : asks'[b].op = asks[b].op /\ (asks'[b].step = "none" <=> asks[b].step = "none")
    BY <1>1, <1>2, <1>4
  <2>2. asks'[a] # Unasked
    BY <1>1, <1>4 DEF Unasked
  <2>3. \A b \in Who : asks'[b].step = "none" <=> asks'[b] = Unasked
    BY <1>1, <2>2, <1>4 DEF AsksWell, Sound
  <2>4. loading => asks'["poll"] = Unasked
    BY <1>1, <1>2, <2>1 DEF AsksWell, Sound, Who, Unasked
  <2>5. \/ asks'["act"] = asks["act"]
        \/ asks["act"].op \in Passwords /\ asks'["act"].step \in {"refused", "failed"}
    BY <1>4, <1>8
  <2> QED BY <1>3, <2>1, <2>3, <2>4, <2>5 DEF AsksWell, Sound, Who, Passwords
<1>6. CookieLives'
  <2>1. \/ asks'["act"] = asks["act"]
        \/ /\ asks["act"].op \in Passwords /\ asks'["act"].op = asks["act"].op
           /\ asks'["act"].step \in {"refused", "failed"}
    BY <1>4, <1>8
  <2> QED BY <1>3, <2>1 DEF CookieLives, Sound, Passwords
<1>7. UserKnown'
  <2>1. CASE a = "me"
    <3>1. asks["me"].step = "sent"
      BY <1>2, <2>1 DEF AsksWell, Sound, UserKnown, Passwords
    <3>2. asks'["me"].step = "refused"
      BY <1>1, <2>1, <3>1 DEF step
    <3> QED BY <1>3, <3>2 DEF UserKnown, Sound
  <2>2. CASE a # "me"
    BY <1>1, <1>3, <2>2 DEF UserKnown, Sound, Authorized, Who
  <2> QED BY <2>1, <2>2
<1> QED BY <1>5, <1>6, <1>7 DEF Sound

LEMMA PasswordKnown == ASSUME SignInTyped, Sound, HandlePassword PROVE Sound'
<1>1. /\ asks'["act"].op = asks["act"].op /\ asks'["act"].step = "served" /\ asks'["act"].pair = asks["act"].pair
      /\ asks'["me"] = asks["me"] /\ asks'["poll"] = asks["poll"]
  BY StepToAsks DEF HandlePassword, AskStep, Who
<1>2. asks["act"].op = "password" /\ asks["act"].step \in {"sent", "again"}
  BY DEF HandlePassword, OnServer
<1>3. UNCHANGED <<user, loading, path, cookies, denied, dead, newest, renewal>>
  BY DEF HandlePassword, ServerOnly, shellVars
<1>4. renewal = NoRenewal /\ renewal.step = "none"
  BY <1>2 DEF AsksWell, Sound, NoRenewal
<1>5. refreshRows' = refreshRows \cap {cookies}
  BY <1>2 DEF HandlePassword, RevokeOthers, CookieLives, Sound, Passwords
<1>6. AsksWell'
  <2>1. \A b \in Who : asks'[b].step = "none" <=> asks'[b] = Unasked
    BY <1>1 DEF AsksWell, Sound, Who, Unasked
  <2> QED BY <1>1, <1>2, <1>3, <1>4, <2>1 DEF AsksWell, Sound, Passwords
<1>7. CookieLives'
  BY <1>1, <1>2, <1>3, <1>4, <1>5 DEF CookieLives, Sound, Passwords
<1>8. UserKnown'
  BY <1>1, <1>3 DEF UserKnown, Sound, Authorized
<1> QED BY <1>6, <1>7, <1>8 DEF Sound

LEMMA LoginKnown == ASSUME SignInTyped, Sound, HandleLogin PROVE Sound'
<1>1. asks["act"].op = "login" /\ asks["act"].step \in {"sent", "again"}
  BY DEF HandleLogin, OnServer
<1>2. UNCHANGED <<user, loading, path, cookies, denied, dead, renewal>>
  BY DEF HandleLogin, ServerOnly, shellVars
<1>3. /\ asks'["act"].op = "login" /\ asks'["act"].step \in {"served", "failed"}
      /\ asks'["me"] = asks["me"] /\ asks'["poll"] = asks["poll"]
      /\ refreshRows \subseteq refreshRows'
      /\ asks'["act"].step = "served" => asks'["act"].pair \in refreshRows'
  <2>1. CASE newest' = newest + 1 /\ refreshRows' = refreshRows \cup {newest + 1}
             /\ asks' = [asks EXCEPT !.act.step = "served", !.act.pair = newest + 1]
    BY <1>1, <2>1, ServedAs DEF Who
  <2>2. CASE StepTo("act", "failed") /\ UNCHANGED <<newest, refreshRows>>
    BY <1>1, <2>2, StepToAsks DEF Who, AskStep
  <2> QED BY <2>1, <2>2 DEF HandleLogin
<1>4. AsksWell'
  <2>1. \A b \in Who : asks'[b].step = "none" <=> asks'[b] = Unasked
    BY <1>3 DEF AsksWell, Sound, Who, Unasked
  <2>2. renewal = NoRenewal
    BY <1>1 DEF AsksWell, Sound
  <2> QED BY <1>1, <1>2, <1>3, <2>1, <2>2 DEF AsksWell, Sound, Passwords
<1>5. CookieLives'
  <2>1. renewal = NoRenewal /\ renewal.step = "none"
    BY <1>1 DEF AsksWell, Sound, NoRenewal
  <2> QED BY <1>1, <1>2, <1>3, <2>1 DEF CookieLives, Sound, Passwords
<1>6. UserKnown'
  BY <1>2, <1>3 DEF UserKnown, Sound, Authorized
<1> QED BY <1>4, <1>5, <1>6 DEF Sound

LEMMA LogoutKnown == ASSUME SignInTyped, Sound, HandleLogout PROVE Sound'
<1>1. /\ asks'["act"].op = "logout" /\ asks'["act"].step = "served" /\ asks'["act"].pair = asks["act"].pair
      /\ asks'["me"] = asks["me"] /\ asks'["poll"] = asks["poll"]
  BY StepToAsks DEF HandleLogout, AskStep, Who
<1>2. asks["act"].op = "logout" /\ asks["act"].step \in {"sent", "again"}
  BY DEF HandleLogout, OnServer
<1>3. UNCHANGED <<user, loading, path, cookies, dead, renewal>>
  BY DEF HandleLogout, ServerOnly, shellVars
<1>4. renewal = NoRenewal /\ renewal.step = "none"
  BY <1>2 DEF AsksWell, Sound, NoRenewal
<1>5. asks["act"].pair = cookies
  BY <1>2 DEF CookieLives, Sound
<1>6. asks["me"].step = "none"
  BY <1>2 DEF AsksWell, Sound, Passwords
<1>7. AsksWell'
  <2>1. \A b \in Who : asks'[b].step = "none" <=> asks'[b] = Unasked
    BY <1>1 DEF AsksWell, Sound, Who, Unasked
  <2> QED BY <1>1, <1>2, <1>3, <1>4, <2>1 DEF AsksWell, Sound, Passwords
<1>8. CookieLives'
  BY <1>1, <1>3, <1>4, <1>5 DEF CookieLives
<1>9. UserKnown'
  BY <1>1, <1>3, <1>6 DEF UserKnown, Sound
<1> QED BY <1>7, <1>8, <1>9 DEF Sound

LEMMA LookupKnown == ASSUME SignInTyped, Sound, RefreshLookup PROVE Sound'
<1>1. /\ renewal.step = "sent" /\ renewal'.pair = renewal.pair
      /\ renewal'.step = IF renewal.pair \in refreshRows THEN "found" ELSE "failed"
  BY DEF RefreshLookup, SignInTyped
<1>2. UNCHANGED <<user, loading, path, cookies, asks, refreshRows, denied, dead, newest>>
  BY DEF RefreshLookup, shellVars, tokenVars
<1>3. asks["act"].step \in {"none", "refused", "waiting", "failed"}
  BY <1>1 DEF AsksWell, Sound, NoRenewal
<1>4. AsksWell'
  <2>1. renewal'.step # "none" /\ renewal' # NoRenewal
    BY <1>1 DEF NoRenewal
  <2> QED BY <1>2, <1>3, <2>1 DEF AsksWell, Sound
<1>5. CookieLives'
  <2>1. cookies # 0 => cookies \in refreshRows
    BY <1>1, <1>3 DEF CookieLives, Sound
  <2>2. renewal.pair = cookies
    BY <1>1 DEF CookieLives, Sound
  <2>3. CASE renewal.pair \in refreshRows
    BY <1>1, <1>2, <1>3, <2>1, <2>2, <2>3 DEF CookieLives, Sound
  <2>4. CASE renewal.pair \notin refreshRows
    BY <1>1, <1>2, <1>3, <2>1, <2>2, <2>4 DEF CookieLives, Sound
  <2> QED BY <2>3, <2>4
<1>6. UserKnown'
  BY <1>2 DEF UserKnown, Sound, Authorized
<1> QED BY <1>4, <1>5, <1>6 DEF Sound

LEMMA RotateKnown == ASSUME SignInTyped, Sound, RefreshRotate PROVE Sound'
<1>1. /\ renewal.step = "found" /\ renewal'.step = "issued" /\ renewal'.pair = newest + 1
      /\ refreshRows' = (refreshRows \ {renewal.pair}) \cup {newest + 1}
  BY DEF RefreshRotate
<1>2. UNCHANGED <<user, loading, path, cookies, asks, denied, dead>>
  BY DEF RefreshRotate, shellVars
<1>3. asks["act"].step \in {"none", "refused", "waiting", "failed"}
  BY <1>1 DEF AsksWell, Sound, NoRenewal
<1>4. AsksWell'
  <2>1. renewal'.step # "none" /\ renewal' # NoRenewal
    BY <1>1 DEF NoRenewal
  <2> QED BY <1>2, <1>3, <2>1 DEF AsksWell, Sound
<1>5. CookieLives'
  <2>1. newest + 1 \notin denied /\ newest + 1 > dead
    BY DEF SignInTyped
  <2>2. cookies # 0
    BY <1>1 DEF CookieLives, Sound, SignInTyped
  <2> QED BY <1>1, <1>2, <1>3, <2>1, <2>2 DEF CookieLives, Sound
<1>6. UserKnown'
  BY <1>2 DEF UserKnown, Sound, Authorized
<1> QED BY <1>4, <1>5, <1>6 DEF Sound

LEMMA ExpiryKnown == ASSUME SignInTyped, Sound, AccessExpires PROVE Sound'
<1>1. UNCHANGED <<user, loading, path, cookies, asks, renewal, refreshRows, denied, newest>>
  BY DEF AccessExpires, shellVars
<1>2. renewal.step # "issued" /\ asks["me"].step # "again"
  BY DEF AccessExpires, SignInTyped, Who
<1>3. AsksWell'
  BY <1>1 DEF AsksWell, Sound
<1>4. CookieLives'
  BY <1>1, <1>2 DEF CookieLives, Sound
<1>5. UserKnown'
  BY <1>1, <1>2 DEF UserKnown, Sound
<1> QED BY <1>3, <1>4, <1>5 DEF Sound

LEMMA MeLandsKnown == ASSUME SignInTyped, Sound, MeLands PROVE Sound'
<1>1. asks'["me"] = Unasked /\ asks'["poll"] = asks["poll"] /\ asks'["act"] = asks["act"]
  BY DEF MeLands, SignInTyped, Who
<1>2. /\ asks["me"].step = "served"
      /\ user' = TRUE /\ loading' = FALSE /\ path' = "console"
  BY DEF MeLands, Present, UserKnown, Sound
<1>3. UNCHANGED <<cookies, renewal, refreshRows, denied, dead, newest>>
  BY DEF MeLands, tokenVars
<1>4. AsksWell'
  <2>1. \A b \in Who : asks'[b].step = "none" <=> asks'[b] = Unasked
    BY <1>1 DEF AsksWell, Sound, Who, Unasked
  <2> QED BY <1>1, <1>2, <1>3, <2>1 DEF AsksWell, Sound, Unasked
<1>5. CookieLives'
  BY <1>1, <1>3 DEF CookieLives, Sound
<1>6. UserKnown'
  BY <1>1, <1>2, <1>3 DEF UserKnown, Sound, Unasked
<1> QED BY <1>4, <1>5, <1>6 DEF Sound

LEMMA PollLandsKnown == ASSUME SignInTyped, Sound, PollLands PROVE Sound'
<1>1. asks'["poll"] = Unasked /\ asks'["me"] = asks["me"] /\ asks'["act"] = asks["act"]
  BY DEF PollLands, SignInTyped, Who
<1>2. UNCHANGED <<user, loading, path, cookies, renewal, refreshRows, denied, dead, newest>>
  BY DEF PollLands, shellVars, tokenVars
<1>3. AsksWell'
  <2>1. \A b \in Who : asks'[b].step = "none" <=> asks'[b] = Unasked
    BY <1>1 DEF AsksWell, Sound, Who, Unasked
  <2> QED BY <1>1, <1>2, <2>1 DEF AsksWell, Sound, Unasked
<1>4. CookieLives'
  BY <1>1, <1>2 DEF CookieLives, Sound
<1>5. UserKnown'
  BY <1>1, <1>2 DEF UserKnown, Sound, Authorized
<1> QED BY <1>3, <1>4, <1>5 DEF Sound

LEMMA ActLandsKnown ==
    ASSUME SignInTyped, Sound, LoginLands \/ LogoutLands \/ PasswordLands
    PROVE  Sound'
<1>1. asks'["act"] = Unasked /\ asks'["me"] = asks["me"] /\ asks'["poll"] = asks["poll"]
  BY DEF LoginLands, LogoutLands, PasswordLands, SignInTyped, Who
<1>2. UNCHANGED <<renewal, refreshRows, denied, dead, newest>> /\ loading' = loading
  BY DEF LoginLands, LogoutLands, PasswordLands, Present, shellVars, tokenVars
<1>3. asks["act"].op # "none" /\ asks["act"].step \in {"served", "failed"}
  BY DEF LoginLands, LogoutLands, PasswordLands, Passwords
<1>4. AsksWell'
  <2>1. \A b \in Who : asks'[b].step = "none" <=> asks'[b] = Unasked
    BY <1>1 DEF AsksWell, Sound, Who, Unasked
  <2> QED BY <1>1, <1>2, <2>1 DEF AsksWell, Sound, Unasked
<1>5. CASE LoginLands /\ asks["act"].step = "served"
  <2>1. cookies' = asks["act"].pair /\ asks["act"].pair \in refreshRows /\ user' /\ path' = "console"
    BY <1>5 DEF LoginLands, Present, CookieLives, Sound
  <2>2. cookies' # 0
    BY <2>1 DEF SignInTyped
  <2>3. renewal = NoRenewal /\ renewal.step = "none"
    BY <1>3, <1>5 DEF AsksWell, Sound, NoRenewal
  <2>4. CookieLives'
    BY <1>1, <1>2, <2>1, <2>3 DEF CookieLives, Unasked, Passwords
  <2>5. UserKnown'
    BY <1>1, <1>2, <2>1, <2>2 DEF UserKnown, Sound, Authorized
  <2> QED BY <1>4, <2>4, <2>5 DEF Sound
<1>6. CASE (LoginLands /\ asks["act"].step # "served") \/ PasswordLands
  <2>1. UNCHANGED <<user, path, cookies>>
    BY <1>6 DEF LoginLands, PasswordLands, shellVars
  <2>2. asks["act"].op # "logout"
    BY <1>6 DEF LoginLands, PasswordLands, Passwords
  <2>3. CookieLives'
    <3>1. asks'["act"].op = "none" /\ asks'["act"].step = "none"
      BY <1>1 DEF Unasked
    <3>2. cookies # 0 => cookies \in refreshRows \/ renewal.step = "issued"
      BY <2>2 DEF CookieLives, Sound
    <3> QED BY <1>2, <2>1, <3>1, <3>2 DEF CookieLives, Sound, Passwords
  <2>4. UserKnown'
    BY <1>1, <1>2, <2>1 DEF UserKnown, Sound, Authorized
  <2> QED BY <1>4, <2>3, <2>4 DEF Sound
<1>7. CASE LogoutLands
  <2>1. asks["act"].op = "logout" /\ asks["act"].step = "served"
    BY <1>7 DEF LogoutLands, AsksWell, Sound
  <2>2. ~loading /\ asks["me"].step = "none"
    BY <2>1 DEF AsksWell, Sound, Passwords
  <2>3. cookies' = 0 /\ user' = FALSE /\ path' = "login"
    BY <1>7, <2>1, <2>2 DEF LogoutLands, Present
  <2>4. renewal = NoRenewal /\ renewal.step = "none"
    BY <2>1 DEF AsksWell, Sound, NoRenewal
  <2>5. CookieLives'
    BY <1>1, <1>2, <2>3, <2>4 DEF CookieLives, Unasked, Passwords
  <2>6. UserKnown'
    BY <1>1, <2>2, <2>3 DEF UserKnown
  <2> QED BY <1>4, <2>5, <2>6 DEF Sound
<1> QED BY <1>5, <1>6, <1>7

LEMMA AwaitKnown ==
    ASSUME SignInTyped, Sound, Clean', NEW a \in Who, AwaitRefresh(a)
    PROVE  Sound'
<1>1. /\ asks'[a].op = asks[a].op /\ asks'[a].step = "waiting" /\ asks'[a].pair = asks[a].pair
      /\ \A b \in Who \ {a} : asks'[b] = asks[b]
  BY StepToAsks DEF AwaitRefresh, AskStep
<1>2. asks[a].step = "refused"
  BY DEF AwaitRefresh
<1>3. UNCHANGED <<user, loading, path, cookies, refreshRows, denied, dead, newest>>
  BY DEF AwaitRefresh, shellVars, tokenVars
<1>4. \/ renewal # NoRenewal /\ renewal' = renewal
      \/ /\ renewal = NoRenewal /\ renewal'.step = "sent" /\ renewal'.pair = cookies
         /\ asks["act"].step \notin {"sent", "again", "served"}
  <2>1. CASE renewal = NoRenewal
    <3>1. /\ renewal' = [step |-> "sent", pair |-> cookies]
          /\ crossed' <=> crossed \/ asks["act"].step \in {"sent", "again", "served"}
      BY <2>1 DEF AwaitRefresh
    <3>2. asks["act"].step \notin {"sent", "again", "served"}
      BY <3>1 DEF Clean
    <3> QED BY <2>1, <3>1, <3>2
  <2>2. CASE renewal # NoRenewal
    BY <2>2 DEF AwaitRefresh
  <2> QED BY <2>1, <2>2
<1>5. renewal'.step # "none" /\ renewal' # NoRenewal
  BY <1>4 DEF AsksWell, Sound, NoRenewal
<1>6. asks["act"].step \in {"none", "refused", "waiting", "failed"}
  BY <1>4 DEF AsksWell, Sound, SignInTyped, Who, AskUpTo, AskStep
<1>7. asks'["act"].op = asks["act"].op /\ asks'["act"].step \in {asks["act"].step, "waiting"}
  BY <1>1 DEF Who
<1>8. AsksWell'
  <2>1. \A b \in Who : asks'[b].op = asks[b].op /\ (asks'[b].step = "none" <=> asks[b].step = "none")
    BY <1>1, <1>2
  <2>2. asks'[a] # Unasked
    BY <1>1 DEF Unasked
  <2>3. \A b \in Who : asks'[b].step = "none" <=> asks'[b] = Unasked
    BY <1>1, <2>2 DEF AsksWell, Sound
  <2>4. loading => asks'["poll"] = Unasked
    BY <1>1, <1>2, <2>1 DEF AsksWell, Sound, Who, Unasked
  <2>5. asks["act"].op \in {"login", "logout"} => asks'["act"].step = asks["act"].step
    BY <1>1, <1>2 DEF AsksWell, Sound, Who
  <2>6. asks'["act"].step \in {"none", "refused", "waiting", "failed"}
    BY <1>6, <1>7
  <2> QED BY <1>3, <1>5, <2>1, <2>3, <2>4, <2>5, <2>6 DEF AsksWell, Sound, Who
<1>9. CookieLives'
  <2>1. /\ asks'["act"].step \notin {"sent", "again", "served"}
        /\ asks["act"].step \notin {"sent", "again", "served"}
    BY <1>6, <1>7
  <2>2. CASE renewal # NoRenewal /\ renewal' = renewal
    BY <1>3, <2>1, <2>2 DEF CookieLives, Sound
  <2>3. CASE renewal = NoRenewal /\ renewal'.step = "sent" /\ renewal'.pair = cookies
    <3>1. renewal.step = "none"
      BY <2>3 DEF NoRenewal
    <3>2. cookies # 0 => cookies \in refreshRows
      BY <2>1, <3>1 DEF CookieLives, Sound
    <3> QED BY <1>3, <2>1, <2>3, <3>2 DEF CookieLives
  <2> QED BY <1>4, <2>2, <2>3
<1>10. UserKnown'
  <2>1. asks'["me"] = asks["me"] \/ asks'["me"].step = "waiting"
    BY <1>1 DEF Who
  <2> QED BY <1>3, <2>1 DEF UserKnown, Sound, Authorized
<1> QED BY <1>8, <1>9, <1>10 DEF Sound

LEMMA RenewedKnown == ASSUME SignInTyped, Sound, RefreshLands PROVE Sound'
<1> DEFINE Again(k) == [k EXCEPT !.step = "again", !.pair = renewal.pair]
           ok == renewal.step = "issued"
<1>1. /\ renewal.step \in {"issued", "failed"} /\ renewal # NoRenewal
      /\ renewal' = NoRenewal /\ renewal'.step = "none"
      /\ UNCHANGED <<refreshRows, denied, dead, newest>>
  <2>1. renewal.step \in {"issued", "failed"} /\ renewal' = NoRenewal
    BY DEF RefreshLands
  <2>2. UNCHANGED <<refreshRows, denied, dead, newest>>
    BY DEF RefreshLands, tokenVars
  <2> QED BY <2>1, <2>2 DEF NoRenewal
<1>2. cookies' = IF ok THEN renewal.pair ELSE cookies
  BY DEF RefreshLands
<1>3. \A a \in Who : asks'[a] = IF asks[a].step # "waiting" THEN asks[a]
                               ELSE IF ok THEN Again(asks[a]) ELSE Unasked
  BY DEF RefreshLands, SignInTyped
<1>4. \A a \in Who : /\ Again(asks[a]).op = asks[a].op
                     /\ Again(asks[a]).step = "again" /\ Again(asks[a]).pair = renewal.pair
  BY DEF SignInTyped, AskUpTo
<1>5. \A a \in Who : \/ asks[a].step # "waiting" /\ asks'[a] = asks[a]
                     \/ /\ asks[a].step = "waiting" /\ ok
                        /\ asks'[a].op = asks[a].op /\ asks'[a].step = "again" /\ asks'[a].pair = renewal.pair
                     \/ asks[a].step = "waiting" /\ ~ok /\ asks'[a] = Unasked
  BY <1>3, <1>4
<1> HIDE DEF ok
<1>6. asks["act"].step \in {"none", "refused", "waiting", "failed"}
  BY <1>1 DEF AsksWell, Sound
<1>7. asks["act"].op # "logout"
  BY <1>6 DEF AsksWell, Sound
<1>8. /\ loading' <=> asks'["me"].step # "none"
      /\ loading' => loading
      /\ \/ UNCHANGED <<user, loading, path>>
         \/ /\ ~ok /\ asks["me"].step = "waiting" /\ asks'["me"] = Unasked
            /\ user' = FALSE /\ loading' = FALSE /\ path' = "login"
  <2>1. CASE ~ok /\ asks["me"].step = "waiting"
    <3>1. user' = FALSE /\ loading' = FALSE /\ path' = "login"
      BY <2>1 DEF ok, RefreshLands, Present
    <3>2. asks'["me"] = Unasked
      BY <1>5, <2>1 DEF Who
    <3> QED BY <2>1, <3>1, <3>2 DEF Unasked
  <2>2. CASE ~(~ok /\ asks["me"].step = "waiting")
    <3>1. UNCHANGED <<user, loading, path>>
      BY <2>2 DEF ok, RefreshLands, shellVars
    <3>2. asks'["me"].step = "none" <=> asks["me"].step = "none"
      BY <1>5, <2>2 DEF Who
    <3> QED BY <3>1, <3>2 DEF AsksWell, Sound
  <2> QED BY <2>1, <2>2
<1>9. AsksWell'
  <2>1. \A b \in Who : asks'[b].step = "none" <=> asks'[b] = Unasked
    BY <1>5 DEF AsksWell, Sound, Unasked
  <2>2. \A b \in Who : asks'[b].op \in {asks[b].op, "none"}
    BY <1>5 DEF Unasked
  <2>3. loading => asks'["poll"] = Unasked
    BY <1>5 DEF AsksWell, Sound, Unasked, Who
  <2>4. asks["act"].op \in {"login", "logout"} => asks'["act"] = asks["act"]
    BY <1>5 DEF AsksWell, Sound, Who
  <2> QED BY <1>1, <1>8, <2>1, <2>2, <2>3, <2>4 DEF AsksWell, Sound, Who, Passwords
<1>10. CookieLives'
  <2>1. asks'["act"].step = "again" => ok /\ asks'["act"].pair = renewal.pair
    BY <1>5, <1>6 DEF Who, Unasked
  <2>2. asks'["act"].step \notin {"sent", "served"}
    BY <1>5, <1>6 DEF Who, Unasked
  <2>3. ok => cookies' = renewal.pair /\ renewal.pair \in refreshRows
    BY <1>2 DEF ok, CookieLives, Sound
  <2>4. ~ok => cookies' = 0
    BY <1>1, <1>2 DEF ok, CookieLives, Sound
  <2> QED BY <1>1, <2>1, <2>2, <2>3, <2>4 DEF CookieLives
<1>11. UserKnown'
  <2>1. ok => /\ cookies' = renewal.pair /\ renewal.pair \in refreshRows
              /\ renewal.pair \notin denied /\ renewal.pair > dead
    BY <1>2 DEF ok, CookieLives, Sound
  <2>2. ok => cookies' # 0
    BY <2>1 DEF SignInTyped
  <2>3. ~ok => cookies' = 0 /\ cookies = 0
    BY <1>1, <1>2 DEF ok, CookieLives, Sound
  <2>4. CASE ok
    <3>1. UNCHANGED <<user, loading, path>>
      BY <1>8, <2>4
    <3>2. \/ asks'["me"] = asks["me"]
          \/ asks'["me"].step = "again" /\ asks'["me"].pair = renewal.pair
      BY <1>5, <2>4 DEF Who
    <3>3. loading \/ user
      BY <2>4 DEF ok, CookieLives, UserKnown, Sound
    <3> QED BY <1>1, <2>1, <2>2, <2>4, <3>1, <3>2, <3>3 DEF UserKnown, Sound, Authorized
  <2>5. CASE ~ok
    BY <1>1, <1>5, <1>8, <2>3, <2>5 DEF UserKnown, Sound, Authorized, Who, Unasked
  <2> QED BY <2>4, <2>5
<1> QED BY <1>9, <1>10, <1>11 DEF Sound

LEMMA StepShown == SignInTyped /\ ShownInv /\ [SignInNext]_signInVars => ShownInv'
<1> SUFFICES ASSUME SignInTyped, ShownInv, [SignInNext]_signInVars, Clean' PROVE Sound'
  BY DEF ShownInv, Clean, Sound
<1>1. Sound
  BY StepQuiet DEF ShownInv, Clean, Sound
<1>2. ASSUME NEW a \in Who, AnswerLost(a) PROVE FALSE
  BY <1>2 DEF AnswerLost, Clean
<1>3. CASE RefreshAnswerLost
  BY <1>3 DEF RefreshAnswerLost, Clean
<1>4. CASE UNCHANGED signInVars
  BY <1>1, <1>4 DEF signInVars, shellVars, tokenVars, Sound, AsksWell, CookieLives, UserKnown, Authorized
<1>5. CASE SubmitLogin \/ SignOut \/ ChangePassword
  BY <1>1, <1>5, AskKnown DEF SubmitLogin, SignOut, ChangePassword
<1>6. DOMAIN asks = Who
  BY DEF SignInTyped
<1> QED
  BY <1>1, <1>2, <1>3, <1>4, <1>5, <1>6, PollKnown, ReopenKnown, MeServedKnown, RefusedKnown,
     PasswordKnown, LoginKnown, LogoutKnown, LookupKnown, RotateKnown, ExpiryKnown, MeLandsKnown,
     PollLandsKnown, ActLandsKnown, AwaitKnown, RenewedKnown
     DEF SignInNext

LEMMA AtRestShown == SignInTyped /\ ShownInv => SignInShown
<1> SUFFICES ASSUME SignInTyped, Sound, AtRest
             PROVE  (user <=> cookies \in refreshRows) /\ path = IF user THEN "console" ELSE "login"
  BY DEF SignInShown, ShownInv, Sound
<1>1. /\ renewal.step = "none" /\ asks["act"].op = "none"
      /\ asks["me"].step = "none"
  BY DEF AtRest, NoRenewal, Unasked, SignInTyped, Who
<1>2. ~loading
  BY <1>1 DEF Sound, AsksWell
<1>3. 0 \notin refreshRows
  BY DEF SignInTyped
<1>4. CASE user
  BY <1>1, <1>4 DEF Sound, UserKnown, CookieLives
<1>5. CASE ~user
  BY <1>2, <1>3, <1>5 DEF Sound, UserKnown
<1> QED BY <1>4, <1>5

(* With nothing under way the console shows exactly to a browser whose pair   *)
(* has its row at the server, and the login page to any other: for any number *)
(* of logins, refreshes, expiries and new passwords, unless a login, a logout *)
(* or a new password met a refresh or an answer was lost.                    *)
THEOREM SpecSignInShown == SignInSpec => []SignInShown
<1>1. SignInInit => SignInTyped /\ ShownInv
  BY InitTyped
<1>2. SignInTyped /\ ShownInv /\ [SignInNext]_signInVars => (SignInTyped /\ ShownInv)'
  BY StepTyped, StepShown
<1>3. SignInTyped /\ ShownInv => SignInShown
  BY AtRestShown
<1> QED BY <1>1, <1>2, <1>3, PTL DEF SignInSpec
=============================================================================
