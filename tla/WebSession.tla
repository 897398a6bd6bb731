----------------------------- MODULE WebSession -----------------------------
(***************************************************************************)
(* One browser and the web server in front of the API: the session cookies *)
(* (apps/web/lib/auth) and the middleware that refreshes them.  The tabs   *)
(* share a cookie jar; each has at most one request under way, whose       *)
(* answer changes the jar when it arrives, in any order.  The API's tokens *)
(* are those of module Accounts, here as long as this browser holds them.  *)
(***************************************************************************)
EXTENDS Naturals, Sequences

CONSTANTS
  Tabs,
  MaxIssued,    \* bound on the refresh tokens ever issued to this browser
  MaxAttempts   \* bound on the single sign-on attempts it ever starts

ASSUME WebAssumption == MaxIssued \in Nat /\ MaxAttempts \in Nat

VARIABLES
  jar,          \* the cookies
  issued,       \* what became of each refresh token: "live", "rotated" or "ended"
  attempts,     \* single sign-on attempts started
  tabs,         \* the request each tab is waiting for
  lost          \* history: an answer that carried a session never reached the browser

webVars == <<jar, issued, attempts, tabs, lost>>

NoToken == 0
NoCookies == [fresh |-> FALSE, refresh |-> NoToken, mfa |-> FALSE, sso |-> 0]
Page == [at |-> "page"]

Sent(t, op) == tabs[t].at = "sent" /\ tabs[t].op = op
Send(t, op, with) == tabs' = [tabs EXCEPT ![t] = [at |-> "sent", op |-> op, with |-> with]]
Answer(t, got) ==
  tabs' = [tabs EXCEPT ![t] = [at |-> "answered", op |-> tabs[t].op, got |-> got]]

WebInit ==
  /\ jar = NoCookies
  /\ issued = <<>> /\ attempts = 0
  /\ tabs = [t \in Tabs |-> Page]
  /\ lost = FALSE

-----------------------------------------------------------------------------
(* Requests.                                                               *)

\* A page of the application: with a fresh access token it is rendered, without a
\* refresh token it redirects to the login page; in between the middleware refreshes.
Visit(t) ==
  /\ tabs[t] = Page
  /\ ~jar.fresh /\ jar.refresh # NoToken
  /\ Send(t, "refresh", jar.refresh)
  /\ UNCHANGED <<jar, issued, attempts, lost>>

LoginAction(t) ==
  /\ tabs[t] = Page
  /\ Send(t, "login", NoToken)
  /\ UNCHANGED <<jar, issued, attempts, lost>>

VerifyMfaAction(t) ==
  /\ tabs[t] = Page
  /\ jar.mfa
  /\ Send(t, "mfa", NoToken)
  /\ UNCHANGED <<jar, issued, attempts, lost>>

SsoStartAction(t) ==
  /\ tabs[t] = Page
  /\ attempts < MaxAttempts
  /\ attempts' = attempts + 1
  /\ Send(t, "start", attempts')
  /\ UNCHANGED <<jar, issued, lost>>

\* The provider sends the tab back with the state of its own attempt; the cookie holds
\* the state of the attempt that was started last.
SsoCallback(t) ==
  /\ tabs[t].at = "provider"
  /\ Send(t, "callback", <<tabs[t].state, jar.sso>>)
  /\ UNCHANGED <<jar, issued, attempts, lost>>

LogoutAction(t) ==
  /\ tabs[t] = Page
  /\ jar' = [jar EXCEPT !.fresh = FALSE, !.refresh = NoToken, !.mfa = FALSE]
  /\ UNCHANGED <<issued, attempts, tabs, lost>>

-----------------------------------------------------------------------------
(* The API.                                                                *)

CanIssue == Len(issued) < MaxIssued

\* Rotation; a token that is not live any more is refused.
AnswerRefresh(t) ==
  /\ Sent(t, "refresh")
  /\ LET old == tabs[t].with
     IN IF issued[old] = "live"
        THEN /\ CanIssue
             /\ issued' = Append([issued EXCEPT ![old] = "rotated"], "live")
             /\ Answer(t, Len(issued'))
        ELSE Answer(t, NoToken) /\ UNCHANGED issued
  /\ UNCHANGED <<jar, attempts, lost>>

SignsIn(t) ==
  \/ Sent(t, "login") \/ Sent(t, "mfa")
  \/ Sent(t, "callback") /\ tabs[t].with[1] = tabs[t].with[2]

AnswerSignIn(t) ==
  /\ SignsIn(t) /\ CanIssue
  /\ issued' = Append(issued, "live")
  /\ Answer(t, Len(issued'))
  /\ UNCHANGED <<jar, attempts, lost>>

\* The password was right, a second factor is due.
AnswerChallenge(t) ==
  /\ Sent(t, "login")
  /\ tabs' = [tabs EXCEPT ![t] = [at |-> "answered", op |-> "challenge", got |-> NoToken]]
  /\ UNCHANGED <<jar, issued, attempts, lost>>

AnswerStart(t) ==
  /\ Sent(t, "start")
  /\ Answer(t, tabs[t].with)
  /\ UNCHANGED <<jar, issued, attempts, lost>>

\* The API refuses, fails or cannot be reached.
Refuse(t) ==
  /\ tabs[t].at = "sent"
  /\ Answer(t, NoToken)
  /\ UNCHANGED <<jar, issued, attempts, lost>>

\* The token expires, or the person is signed out over SCIM.
EndSession(n) ==
  /\ issued[n] = "live"
  /\ issued' = [issued EXCEPT ![n] = "ended"]
  /\ UNCHANGED <<jar, attempts, tabs, lost>>

-----------------------------------------------------------------------------
(* Answers.                                                                *)

\* Faulty variant: the new pair is written on the forwarded request only, and the
\* browser is given the access token.
WithoutNewRefresh(cookies, n) == [cookies EXCEPT !.fresh = TRUE]

Refreshed(cookies, n) == [cookies EXCEPT !.fresh = TRUE, !.refresh = n]

SetSession(cookies, n) == [cookies EXCEPT !.fresh = TRUE, !.refresh = n, !.mfa = FALSE]

Received(op, got) ==
  CASE op = "refresh" /\ got # NoToken -> Refreshed(jar, got)
    [] op = "refresh" /\ got = NoToken -> [jar EXCEPT !.fresh = FALSE, !.refresh = NoToken]
    [] op \in {"login", "mfa"} -> IF got = NoToken THEN jar ELSE SetSession(jar, got)
    [] op = "challenge" -> [jar EXCEPT !.mfa = TRUE]
    [] op = "start" -> IF got = NoToken THEN jar ELSE [jar EXCEPT !.sso = got]
    [] op = "callback" ->
         [(IF got = NoToken THEN jar ELSE SetSession(jar, got)) EXCEPT !.sso = 0]

Deliver(t) ==
  /\ tabs[t].at = "answered"
  /\ LET r == tabs[t]
     IN /\ jar' = Received(r.op, r.got)
        /\ tabs' = [tabs EXCEPT ![t] = IF r.op = "start" /\ r.got # NoToken
                                       THEN [at |-> "provider", state |-> r.got] ELSE Page]
  /\ UNCHANGED <<issued, attempts, lost>>

Carries(t, n) ==
  tabs[t].at = "answered" /\ tabs[t].got = n /\ tabs[t].op \in {"refresh", "login", "mfa", "callback"}

\* The tab is closed, or the connection breaks, before the answer arrives.
Lose(t) ==
  /\ tabs[t] # Page
  /\ tabs' = [tabs EXCEPT ![t] = Page]
  /\ lost' = (lost \/ \E n \in DOMAIN issued : Carries(t, n))
  /\ UNCHANGED <<jar, issued, attempts>>

\* The access token comes within the skew of its expiry; the cookies that last for one
\* step of a sign-in run out.
Age ==
  /\ jar' \in {[jar EXCEPT !.fresh = FALSE], [jar EXCEPT !.mfa = FALSE], [jar EXCEPT !.sso = 0]}
  /\ jar' # jar
  /\ UNCHANGED <<issued, attempts, tabs, lost>>

-----------------------------------------------------------------------------
WebNext ==
  \/ \E t \in Tabs :
       \/ Visit(t) \/ LoginAction(t) \/ VerifyMfaAction(t)
       \/ SsoStartAction(t) \/ SsoCallback(t) \/ LogoutAction(t)
       \/ AnswerRefresh(t) \/ AnswerSignIn(t) \/ AnswerChallenge(t) \/ AnswerStart(t)
       \/ Refuse(t) \/ Deliver(t) \/ Lose(t)
  \/ \E n \in DOMAIN issued : EndSession(n)
  \/ Age

WebSpec == WebInit /\ [][WebNext]_webVars

-----------------------------------------------------------------------------
(* Properties.                                                             *)

\* However the answers to a browser's tabs are ordered, its cookie names a refresh token
\* that was exchanged for another one only while an answer that replaces or deletes the
\* cookie is on its way, unless an answer was lost: no tab is left to be turned away.
CookieCatchesUp ==
  (jar.refresh # NoToken /\ issued[jar.refresh] = "rotated") =>
    lost \/ \E t \in Tabs : tabs[t].at = "answered" /\ tabs[t].op = "refresh"
=============================================================================
