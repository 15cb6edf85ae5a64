------------------------------- MODULE SignIn -------------------------------
(***************************************************************************)
(* Signing in to the console and out of it: the AuthProvider and the shell *)
(* that let pages show (web/components/auth-provider.tsx, web/app/admin),  *)
(* the login form, the sidebar's way out and the change of the password,   *)
(* against the handlers of internal/api/auth.go.                           *)
(*                                                                         *)
(* Tokens come in pairs, numbered by issue; 0 is no cookie. Requests and   *)
(* answers travel: a request takes the cookies of its moment along, an     *)
(* answer changes those that are there when it lands. The refresh is in    *)
(* two steps on the server, as it is in handleRefresh.                     *)
(*                                                                         *)
(* Left out: the other browsers of the user, roles, the login guard. A     *)
(* definition that nothing uses is the slip that the next one avoids.      *)
(***************************************************************************)
EXTENDS Naturals

CONSTANT MaxDeeds   \* bound: what the user does, and expiries

VARIABLES
    user, loading,  \* AuthProvider: somebody is signed in; me has not been answered
    path,           \* the login or a page of the console
    cookies,        \* the pair in the browser
    asks,           \* me, a call of a page, and what the user asked for: the
                    \* operation, its step, the pair it carries
    renewal,        \* the shared refresh: step, pair carried or issued
    refreshRows,    \* table refresh_tokens
    denied, dead,   \* access tokens: in the deny list; expired up to this pair
    newest,         \* the newest pair
    deeds,
    crossed,        \* history: a login, a logout or a new password met a refresh
    unanswered      \* history: a call or a refresh got no answer

shellVars == <<user, loading, path>>
tokenVars == <<refreshRows, denied, dead, newest>>
signInHistory == <<deeds, crossed, unanswered>>
signInVars == <<shellVars, cookies, asks, renewal, tokenVars, signInHistory>>

Unasked == [op |-> "none", step |-> "none", pair |-> 0]
NoRenewal == [step |-> "none", pair |-> 0]
Sent(op) == [op |-> op, step |-> "sent", pair |-> cookies]
\* The right current password, or a wrong one.
Passwords == {"password", "wrong password"}
OnServer(a) == asks[a].step \in {"sent", "again"}
Deed == deeds < MaxDeeds /\ deeds' = deeds + 1

\* The provider asks for the user when it is mounted, on the login page too.
SignInInit ==
    /\ cookies \in {0, 1} /\ dead \in {0, 1} /\ path \in {"login", "console"}
    /\ user = FALSE /\ loading = TRUE
    /\ asks = [me |-> Sent("me"), poll |-> Unasked, act |-> Unasked]
    /\ renewal = NoRenewal /\ refreshRows = {1} /\ denied = {} /\ newest = 1
    /\ deeds = 0 /\ crossed = FALSE /\ unanswered = FALSE

-----------------------------------------------------------------------------
(* The user.                                                                *)

Shown == path = "console" /\ user /\ ~loading

\* The button of a form is disabled until its call has ended.
AskServer(op) ==
    /\ asks.act = Unasked /\ Deed
    /\ asks' = [asks EXCEPT !.act = Sent(op)]
    /\ crossed' = (crossed \/ renewal # NoRenewal)
    /\ UNCHANGED <<shellVars, cookies, renewal, tokenVars, unanswered>>
SubmitLogin == path = "login" /\ AskServer("login")
SignOut == Shown /\ AskServer("logout")
ChangePassword == Shown /\ \E op \in Passwords : AskServer(op)

PagePolls ==
    /\ Shown /\ asks.poll = Unasked /\ Deed
    /\ asks' = [asks EXCEPT !.poll = Sent("poll")]
    /\ UNCHANGED <<shellVars, cookies, renewal, tokenVars, crossed, unanswered>>

AtRest == renewal = NoRenewal /\ \A a \in DOMAIN asks : asks[a] = Unasked

\* A page is opened afresh.
Reopen ==
    /\ AtRest /\ Deed
    /\ user' = FALSE /\ loading' = TRUE /\ asks' = [asks EXCEPT !.me = Sent("me")]
    /\ UNCHANGED <<path, cookies, renewal, tokenVars, crossed, unanswered>>

-----------------------------------------------------------------------------
(* The server.                                                              *)

\* requireAuth
Authorized(n) == n # 0 /\ n \notin denied /\ n > dead

StepTo(a, step) == asks' = [asks EXCEPT ![a].step = step]
ServerOnly == UNCHANGED <<shellVars, cookies, renewal, dead, signInHistory>>

HandleMe(a) ==
    /\ asks[a].op \in {"me", "poll"} /\ OnServer(a) /\ Authorized(asks[a].pair)
    /\ StepTo(a, "served")
    /\ ServerOnly /\ UNCHANGED tokenVars

\* handleChangePassword: "Revoke every refresh token except the one in this
\* request's cookie".
RevokeAll(n) == {}
RevokeOthers(n) == refreshRows \cap {n}
HandlePassword ==
    /\ asks.act.op = "password" /\ OnServer("act") /\ Authorized(asks.act.pair)
    /\ refreshRows' = RevokeOthers(asks.act.pair)
    /\ StepTo("act", "served")
    /\ ServerOnly /\ UNCHANGED <<denied, newest>>

\* 401, to a wrong password, too. A call is retried once.
HandleUnauthorized(a) ==
    /\ asks[a].op \in {"me", "poll"} \cup Passwords /\ OnServer(a)
    /\ asks[a].op = "wrong password" \/ ~Authorized(asks[a].pair)
    /\ StepTo(a, IF asks[a].step = "sent" THEN "refused" ELSE "failed")
    /\ ServerOnly /\ UNCHANGED tokenVars

\* handleLogin with issueSession, or wrong credentials, which no refresh follows.
HandleLogin ==
    /\ asks.act.op = "login" /\ OnServer("act")
    /\ \/ /\ newest' = newest + 1 /\ refreshRows' = refreshRows \cup {newest + 1}
          /\ asks' = [asks EXCEPT !.act.step = "served", !.act.pair = newest + 1]
       \/ StepTo("act", "failed") /\ UNCHANGED <<newest, refreshRows>>
    /\ ServerOnly /\ UNCHANGED denied

HandleLogout ==
    /\ asks.act.op = "logout" /\ OnServer("act")
    /\ denied' = denied \cup {asks.act.pair}
    /\ refreshRows' = refreshRows \ {asks.act.pair}
    /\ StepTo("act", "served")
    /\ ServerOnly /\ UNCHANGED newest

\* handleRefresh looks the token up ...
RefreshLookup ==
    /\ renewal.step = "sent"
    /\ renewal' = [renewal EXCEPT !.step = IF renewal.pair \in refreshRows THEN "found" ELSE "failed"]
    /\ UNCHANGED <<shellVars, cookies, asks, tokenVars, signInHistory>>
\* ... and replaces it, whether it is still there or not.
RefreshRotate ==
    /\ renewal.step = "found"
    /\ newest' = newest + 1
    /\ refreshRows' = (refreshRows \ {renewal.pair}) \cup {newest + 1}
    /\ renewal' = [step |-> "issued", pair |-> newest + 1]
    /\ UNCHANGED <<shellVars, cookies, asks, denied, dead, signInHistory>>

\* Access tokens live minutes: longer than an answer takes, or a retry.
AccessExpires ==
    /\ dead # newest /\ Deed /\ dead' = newest
    /\ renewal.step # "issued" /\ \A a \in DOMAIN asks : asks[a].step \notin {"again", "served"}
    /\ UNCHANGED <<shellVars, cookies, asks, renewal, refreshRows, denied, newest, crossed, unanswered>>

-----------------------------------------------------------------------------
(* The answers.                                                             *)

\* setUser, and the effects of the login page and of the shell that lead away.
Present(u, l) ==
    /\ user' = u /\ loading' = l
    /\ path' = IF u THEN "console" ELSE IF l THEN path ELSE "login"

MeLands ==
    /\ asks.me.step \in {"served", "failed"}
    /\ Present(asks.me.step = "served", FALSE)
    /\ asks' = [asks EXCEPT !.me = Unasked]
    /\ UNCHANGED <<cookies, renewal, tokenVars, signInHistory>>
PollLands ==
    /\ asks.poll.step \in {"served", "failed"}
    /\ asks' = [asks EXCEPT !.poll = Unasked]
    /\ UNCHANGED <<shellVars, cookies, renewal, tokenVars, signInHistory>>
LoginLands ==
    /\ asks.act.op = "login" /\ asks.act.step \in {"served", "failed"}
    /\ IF asks.act.step = "served" THEN cookies' = asks.act.pair /\ Present(TRUE, loading)
       ELSE UNCHANGED <<cookies, shellVars>>
    /\ asks' = [asks EXCEPT !.act = Unasked]
    /\ UNCHANGED <<renewal, tokenVars, signInHistory>>
\* A logout that failed shows the login page, too.
LogoutLands ==
    /\ asks.act.op = "logout" /\ asks.act.step \in {"served", "failed"}
    /\ cookies' = IF asks.act.step = "served" THEN 0 ELSE cookies
    /\ Present(FALSE, loading)
    /\ asks' = [asks EXCEPT !.act = Unasked]
    /\ UNCHANGED <<renewal, tokenVars, signInHistory>>
PasswordLands ==
    /\ asks.act.op \in Passwords /\ asks.act.step \in {"served", "failed"}
    /\ asks' = [asks EXCEPT !.act = Unasked]
    /\ UNCHANGED <<shellVars, cookies, renewal, tokenVars, signInHistory>>

\* A 401 makes a call await the shared refresh.
AwaitRefresh(a) ==
    /\ asks[a].step = "refused"
    /\ StepTo(a, "waiting")
    /\ IF renewal = NoRenewal
       THEN /\ renewal' = [step |-> "sent", pair |-> cookies]
            /\ crossed' = (crossed \/ asks.act.step \in {"sent", "again", "served"})
       ELSE UNCHANGED <<renewal, crossed>>
    /\ UNCHANGED <<shellVars, cookies, tokenVars, deeds, unanswered>>
RefreshLands ==
    LET ok == renewal.step = "issued"
        Resumed(k) == IF k.step # "waiting" THEN k
                      ELSE IF ok THEN [k EXCEPT !.step = "again", !.pair = renewal.pair]
                      ELSE Unasked
    IN
    /\ renewal.step \in {"issued", "failed"}
    /\ cookies' = IF ok THEN renewal.pair ELSE cookies
    /\ renewal' = NoRenewal
    /\ asks' = [a \in DOMAIN asks |-> Resumed(asks[a])]
    /\ IF ~ok /\ asks.me.step = "waiting" THEN Present(FALSE, FALSE) ELSE UNCHANGED shellVars
    /\ UNCHANGED <<tokenVars, signInHistory>>

\* A request or its answer gets lost.
AnswerLost(a) ==
    /\ asks[a].step \in {"sent", "again", "served"}
    /\ StepTo(a, "failed")
    /\ unanswered' = TRUE
    /\ UNCHANGED <<shellVars, cookies, renewal, tokenVars, deeds, crossed>>
RefreshAnswerLost ==
    /\ renewal.step \in {"sent", "issued"}
    /\ renewal' = [renewal EXCEPT !.step = "failed"]
    /\ unanswered' = TRUE
    /\ UNCHANGED <<shellVars, cookies, asks, tokenVars, deeds, crossed>>

SignInNext ==
    \/ SubmitLogin \/ SignOut \/ ChangePassword \/ PagePolls \/ Reopen
    \/ HandlePassword \/ HandleLogin \/ HandleLogout
    \/ RefreshLookup \/ RefreshRotate \/ AccessExpires
    \/ MeLands \/ PollLands \/ LoginLands \/ LogoutLands \/ PasswordLands
    \/ RefreshLands \/ RefreshAnswerLost
    \/ \E a \in DOMAIN asks :
          HandleMe(a) \/ HandleUnauthorized(a) \/ AwaitRefresh(a) \/ AnswerLost(a)

SignInSpec == SignInInit /\ [][SignInNext]_signInVars

-----------------------------------------------------------------------------
(* Properties.                                                              *)

\* With no call under way, the console is shown to a browser with a session that
\* the server still keeps, and the login page to one without: after a login, a
\* logout and a change of the password, over expired tokens and refreshes, unless
\* one of these met a refresh or an answer was lost (auth.go: a new password
\* revokes "every refresh token except the one in this request's cookie").
SignInShown ==
    AtRest /\ ~crossed /\ ~unanswered =>
        /\ user <=> cookies \in refreshRows
        /\ path = IF user THEN "console" ELSE "login"
=============================================================================
