-------------------------- MODULE WebAssist_proofs --------------------------
(***************************************************************************)
(* What WebSession guarantees for every number of tabs: however their      *)
(* requests and answers overlap, the cookie catches up with the rotation.  *)
(* And what Assist guarantees for any users, questions, articles and       *)
(* number of turns: answers are grounded or followed up, and every         *)
(* follow-up has its one ticket.                                           *)
(***************************************************************************)
EXTENDS WebSession, Assist, FiniteSums

-----------------------------------------------------------------------------
(* The browser: the inductive invariant. *)

Cookies == [fresh : BOOLEAN, refresh : Nat, mfa : BOOLEAN, sso : Nat]
Fates == {"live", "rotated", "ended"}
WithSession == {"refresh", "login", "mfa", "callback"}

\* What a tab waits for names tokens that were issued.
TabOK(t) ==
  /\ tabs[t].at \in {"page", "sent", "answered", "provider"}
  /\ tabs[t].at = "sent" => tabs[t].op \in WithSession \cup {"start"}
  /\ tabs[t].at = "answered" => /\ tabs[t].op \in WithSession \cup {"start", "challenge"}
                                /\ tabs[t].got \in Nat
  /\ Sent(t, "refresh") => tabs[t].with \in DOMAIN issued
  /\ Sent(t, "start") => tabs[t].with \in Nat
  /\ tabs[t].at = "answered" /\ tabs[t].op \in WithSession => tabs[t].got <= Len(issued)
  /\ tabs[t].at = "provider" => tabs[t].state \in Nat

WebOK ==
  /\ issued \in Seq(Fates)
  /\ jar \in Cookies /\ jar.refresh <= Len(issued)
  /\ attempts \in Nat
  /\ tabs = [t \in Tabs |-> tabs[t]]
  /\ \A t \in Tabs : TabOK(t)

\* A token on its way is in one answer only, and nobody has used it.
OnItsWay(t, n) ==
  /\ issued[n] # "rotated" /\ jar.refresh # n
  /\ \A u \in Tabs : /\ Carries(u, n) => u = t
                     /\ ~(Sent(u, "refresh") /\ tabs[u].with = n)

Undelivered == \A t \in Tabs, n \in DOMAIN issued : Carries(t, n) => OnItsWay(t, n)

\* The successor of the token in the cookie is on its way.
SuccessorComes ==
  (jar.refresh # NoToken /\ issued[jar.refresh] = "rotated") =>
    lost \/ \E t \in Tabs, n \in DOMAIN issued : Carries(t, n) /\ tabs[t].op = "refresh"

WebInv == WebOK /\ Undelivered /\ SuccessorComes

-----------------------------------------------------------------------------
(* The parts of a state that a step leaves in order. *)

LEMMA IssuedFacts ==
    ASSUME WebOK
    PROVE  /\ Len(issued) \in Nat /\ DOMAIN issued = 1..Len(issued)
           /\ \A n \in DOMAIN issued : issued[n] \in Fates
BY DEF WebOK

\* One tab changes.
LEMMA OneTab ==
    ASSUME WebOK, NEW t \in Tabs, NEW r, tabs' = [tabs EXCEPT ![t] = r]
    PROVE  /\ tabs' = [u \in Tabs |-> tabs'[u]]
           /\ tabs'[t] = r /\ \A u \in Tabs \ {t} : tabs'[u] = tabs[u]
BY DEF WebOK

LEMMA OthersOK ==
    ASSUME WebOK, NEW t \in Tabs, TabOK(t)', \A u \in Tabs \ {t} : tabs'[u] = tabs[u],
           DOMAIN issued \subseteq DOMAIN issued', Len(issued) <= Len(issued'),
           Len(issued') \in Nat
    PROVE  \A u \in Tabs : TabOK(u)'
<1> SUFFICES ASSUME NEW u \in Tabs, u # t PROVE TabOK(u)'
  OBVIOUS
<1>1. TabOK(u) /\ Len(issued) \in Nat
  BY IssuedFacts DEF WebOK
<1> QED  BY <1>1 DEF TabOK, Sent

\* No answer with a session sets out, no token is rotated, and a refresh sends the cookie's.
LEMMA NothingIssued ==
    ASSUME WebOK, Undelivered, DOMAIN issued' = DOMAIN issued,
           \A u \in Tabs, n \in DOMAIN issued : Carries(u, n)' => Carries(u, n),
           \A n \in DOMAIN issued : issued'[n] = "rotated" => issued[n] = "rotated",
           \A u \in Tabs, n \in DOMAIN issued : Carries(u, n)' => jar'.refresh # n,
           \A u \in Tabs, n \in DOMAIN issued :
              (Sent(u, "refresh") /\ tabs[u].with = n)' =>
                 \/ Sent(u, "refresh") /\ tabs[u].with = n
                 \/ n = jar.refresh
    PROVE  Undelivered'
<1> SUFFICES ASSUME NEW t \in Tabs, NEW n \in DOMAIN issued', Carries(t, n)'
             PROVE  OnItsWay(t, n)'
  BY DEF Undelivered
<1>1. n \in DOMAIN issued /\ Carries(t, n) /\ OnItsWay(t, n)
  BY DEF Undelivered
<1>2. issued'[n] # "rotated" /\ jar'.refresh # n
  BY <1>1 DEF OnItsWay
<1>3. ASSUME NEW u \in Tabs
      PROVE  /\ Carries(u, n)' => u = t
             /\ ~(Sent(u, "refresh") /\ tabs[u].with = n)'
  BY <1>1, <1>3 DEF OnItsWay
<1> QED  BY <1>2, <1>3 DEF OnItsWay

\* The cookie and the answers that carry a session stay as they are.
LEMMA StillComes ==
    ASSUME WebOK, SuccessorComes, DOMAIN issued' = DOMAIN issued,
           jar'.refresh = jar.refresh, lost => lost',
           \A n \in DOMAIN issued : issued'[n] = "rotated" => issued[n] = "rotated",
           \A u \in Tabs, n \in DOMAIN issued :
             Carries(u, n) /\ tabs[u].op = "refresh" =>
               lost' \/ (Carries(u, n) /\ tabs[u].op = "refresh")'
    PROVE  SuccessorComes'
<1> SUFFICES ASSUME jar.refresh # NoToken, issued'[jar.refresh] = "rotated", ~lost'
             PROVE  \E t \in Tabs, n \in DOMAIN issued :
                      (Carries(t, n) /\ tabs[t].op = "refresh")'
  BY DEF SuccessorComes
<1>1. jar.refresh \in DOMAIN issued
  BY IssuedFacts DEF WebOK, Cookies, NoToken
<1>2. PICK t \in Tabs, n \in DOMAIN issued : Carries(t, n) /\ tabs[t].op = "refresh"
  BY <1>1 DEF SuccessorComes
<1> QED  BY <1>2

-----------------------------------------------------------------------------
(* Requests. *)

LEMMA WebInitOK == WebInit => WebInv
<1> SUFFICES ASSUME WebInit PROVE WebInv
  OBVIOUS
<1>1. \A t \in Tabs : TabOK(t)
  BY DEF WebInit, TabOK, Page, Sent
<1>2. WebOK
  BY <1>1 DEF WebInit, WebOK, NoCookies, NoToken, Cookies
<1> QED  BY <1>2 DEF WebInit, WebInv, Undelivered, SuccessorComes, NoCookies

\* A tab that carries nothing sends a request, or goes to the provider, or back to the page.
LEMMA EmptyHanded ==
    ASSUME WebInv, NEW t \in Tabs, NEW r, tabs' = [tabs EXCEPT ![t] = r], TabOK(t)',
           UNCHANGED <<jar, issued, lost>>, attempts' \in Nat,
           \A n \in DOMAIN issued : ~Carries(t, n) /\ ~Carries(t, n)',
           (Sent(t, "refresh"))' => r.with = jar.refresh
    PROVE  WebInv'
<1>1. /\ tabs' = [u \in Tabs |-> tabs'[u]] /\ tabs'[t] = r
      /\ \A u \in Tabs \ {t} : tabs'[u] = tabs[u]
  BY OneTab DEF WebInv
<1>2. WebOK'
  <2>1. \A u \in Tabs : TabOK(u)'
    BY <1>1, OthersOK, IssuedFacts DEF WebInv
  <2> QED  BY <1>1, <2>1 DEF WebInv, WebOK
<1>3. \A u \in Tabs, n \in DOMAIN issued :
        /\ Carries(u, n)' <=> Carries(u, n)
        /\ Carries(u, n) => tabs'[u] = tabs[u]
  BY <1>1 DEF Carries
<1>4. Undelivered'
  <2>1. \A u \in Tabs, n \in DOMAIN issued : Carries(u, n)' => jar'.refresh # n
    BY <1>3 DEF WebInv, Undelivered, OnItsWay
  <2>2. \A u \in Tabs, n \in DOMAIN issued :
          (Sent(u, "refresh") /\ tabs[u].with = n)' =>
             \/ Sent(u, "refresh") /\ tabs[u].with = n
             \/ n = jar.refresh
    BY <1>1 DEF Sent
  <2> QED  BY <1>3, <2>1, <2>2, NothingIssued DEF WebInv
<1>5. SuccessorComes'
  BY <1>3, StillComes DEF WebInv
<1> QED  BY <1>2, <1>4, <1>5 DEF WebInv

LEMMA Requests ==
    ASSUME WebInv, NEW t \in Tabs,
           \/ Visit(t) \/ LoginAction(t) \/ VerifyMfaAction(t) \/ SsoStartAction(t)
           \/ SsoCallback(t)
    PROVE  WebInv'
<1>1. PICK op \in WithSession \cup {"start"} :
        /\ \E with : /\ Send(t, op, with)
                     /\ op = "refresh" => with = jar.refresh /\ with # NoToken
                     /\ op = "start" => with \in Nat
        /\ tabs[t].at \in {"page", "provider"}
        /\ UNCHANGED <<jar, issued, lost>> /\ attempts' \in Nat
  BY DEF Visit, LoginAction, VerifyMfaAction, SsoStartAction, SsoCallback, WithSession, Page,
     WebInv, WebOK
<1>2. PICK with : /\ Send(t, op, with)
                  /\ op = "refresh" => with = jar.refresh /\ with # NoToken
                  /\ op = "start" => with \in Nat
  BY <1>1
<1> DEFINE r == [at |-> "sent", op |-> op, with |-> with]
<1>3. tabs' = [tabs EXCEPT ![t] = r]
  BY <1>2 DEF Send
<1>4. r.at = "sent" /\ r.op = op /\ r.with = with
  OBVIOUS
<1> HIDE DEF r
<1>5. tabs'[t] = r
  BY <1>3, OneTab DEF WebInv
<1>6. op = "refresh" => with \in DOMAIN issued
  BY <1>2, IssuedFacts DEF WebInv, WebOK, Cookies, NoToken
<1>7. TabOK(t)'
  BY <1>1, <1>2, <1>4, <1>5, <1>6 DEF TabOK, Sent
<1>8. \A n \in DOMAIN issued : ~Carries(t, n) /\ ~Carries(t, n)'
  BY <1>1, <1>4, <1>5 DEF Carries
<1>9. (Sent(t, "refresh"))' => r.with = jar.refresh
  BY <1>2, <1>4, <1>5 DEF Sent
<1> QED  BY <1>1, <1>3, <1>7, <1>8, <1>9, EmptyHanded

-----------------------------------------------------------------------------
(* The API's answers. *)

\* An answer without a session.
LEMMA PlainAnswer ==
    ASSUME WebInv, NEW t \in Tabs, tabs[t].at = "sent",
           NEW op \in WithSession \cup {"start", "challenge"}, NEW got \in Nat,
           tabs' = [tabs EXCEPT ![t] = [at |-> "answered", op |-> op, got |-> got]],
           op \in WithSession => got = NoToken, UNCHANGED <<jar, issued, attempts, lost>>
    PROVE  WebInv'
<1> DEFINE r == [at |-> "answered", op |-> op, got |-> got]
<1>1. r.at = "answered" /\ r.op = op /\ r.got = got /\ tabs' = [tabs EXCEPT ![t] = r]
  OBVIOUS
<1> HIDE DEF r
<1>2. tabs'[t] = r
  BY <1>1, OneTab DEF WebInv
<1>3. Len(issued) \in Nat /\ DOMAIN issued = 1..Len(issued)
  BY IssuedFacts DEF WebInv
<1>4. TabOK(t)'
  BY <1>1, <1>2, <1>3 DEF TabOK, Sent, NoToken
<1>5. \A n \in DOMAIN issued : ~Carries(t, n) /\ ~Carries(t, n)'
  BY <1>1, <1>2, <1>3 DEF Carries, NoToken, WithSession
<1>6. ~(Sent(t, "refresh"))' /\ attempts' \in Nat
  BY <1>1, <1>2 DEF Sent, WebInv, WebOK
<1> QED  BY <1>1, <1>4, <1>5, <1>6, EmptyHanded

\* An answer with the session n, the one just issued; the token old may be rotated for it.
LEMMA AnswerWithSession ==
    ASSUME WebInv, NEW t \in Tabs, tabs[t].at = "sent", NEW op \in WithSession, NEW n,
           n = Len(issued) + 1,
           tabs' = [tabs EXCEPT ![t] = [at |-> "answered", op |-> op, got |-> n]],
           issued' \in Seq(Fates), Len(issued') = n, issued'[n] = "live",
           \A i \in DOMAIN issued :
              issued'[i] # issued[i] => /\ op = "refresh" /\ Sent(t, "refresh")
                                        /\ tabs[t].with = i,
           UNCHANGED <<jar, attempts, lost>>
    PROVE  WebInv'
<1> DEFINE r == [at |-> "answered", op |-> op, got |-> n]
<1>1. r.at = "answered" /\ r.op = op /\ r.got = n /\ tabs' = [tabs EXCEPT ![t] = r]
  OBVIOUS
<1> HIDE DEF r
<1>2. /\ tabs' = [u \in Tabs |-> tabs'[u]] /\ tabs'[t] = r
      /\ \A u \in Tabs \ {t} : tabs'[u] = tabs[u]
  BY <1>1, OneTab DEF WebInv
<1>3. Len(issued) \in Nat /\ DOMAIN issued = 1..Len(issued) /\ DOMAIN issued' = 1..n
  BY IssuedFacts DEF WebInv
<1>4. WebOK'
  <2>1. TabOK(t)'
    BY <1>1, <1>2, <1>3 DEF TabOK, Sent
  <2>2. \A u \in Tabs : TabOK(u)'
    BY <1>2, <1>3, <2>1, OthersOK DEF WebInv
  <2>3. jar'.refresh <= Len(issued')
    BY <1>3 DEF WebInv, WebOK, Cookies
  <2> QED  BY <1>2, <2>2, <2>3 DEF WebInv, WebOK
<1>5. \A i \in DOMAIN issued : ~Carries(t, i)'
  BY <1>1, <1>2, <1>3 DEF Carries
<1>6. \A u \in Tabs \ {t}, i \in DOMAIN issued' :
        Carries(u, i)' => Carries(u, i) /\ i \in DOMAIN issued
  BY <1>2, <1>3 DEF Carries, WebInv, WebOK, TabOK, WithSession
<1>7. ASSUME NEW u \in Tabs, NEW i \in DOMAIN issued', Carries(u, i)'
      PROVE  OnItsWay(u, i)'
  <2>1. CASE u = t
    <3>1. i = n
      BY <1>3, <1>5, <1>7, <2>1
    <3>2. \A v \in Tabs : Carries(v, i)' => v = t
      BY <1>3, <1>6, <3>1
    <3>3. \A v \in Tabs : ~(Sent(v, "refresh") /\ tabs[v].with = n)'
      BY <1>1, <1>2, <1>3 DEF Sent, WebInv, WebOK, TabOK
    <3>4. jar'.refresh # n
      BY <1>3 DEF WebInv, WebOK, Cookies
    <3> QED  BY <2>1, <3>1, <3>2, <3>3, <3>4 DEF OnItsWay
  <2>2. CASE u # t
    <3>1. Carries(u, i) /\ i \in DOMAIN issued /\ OnItsWay(u, i)
      BY <1>6, <1>7, <2>2 DEF WebInv, Undelivered
    <3>2. issued'[i] # "rotated" /\ jar'.refresh # i
      BY <3>1 DEF OnItsWay
    <3>3. \A v \in Tabs : Carries(v, i)' => v = u
      BY <1>5, <1>6, <3>1 DEF OnItsWay
    <3>4. \A v \in Tabs : ~(Sent(v, "refresh") /\ tabs[v].with = i)'
      BY <1>1, <1>2, <3>1 DEF Sent, OnItsWay
    <3> QED  BY <3>2, <3>3, <3>4 DEF OnItsWay
  <2> QED  BY <2>1, <2>2
<1>8. SuccessorComes'
  <2> SUFFICES ASSUME jar.refresh # NoToken, issued'[jar.refresh] = "rotated", ~lost
               PROVE  \E u \in Tabs, i \in DOMAIN issued' :
                        (Carries(u, i) /\ tabs[u].op = "refresh")'
    BY DEF SuccessorComes
  <2>1. jar.refresh \in DOMAIN issued
    BY <1>3 DEF WebInv, WebOK, Cookies, NoToken
  <2>2. CASE op = "refresh"
    <3>1. (Carries(t, n) /\ tabs[t].op = "refresh")'
      BY <1>1, <1>2, <2>2 DEF Carries
    <3> QED  BY <1>3, <3>1
  <2>3. CASE op # "refresh"
    <3>1. issued[jar.refresh] = "rotated"
      BY <2>1, <2>3
    <3>2. PICK u \in Tabs, i \in DOMAIN issued : Carries(u, i) /\ tabs[u].op = "refresh"
      BY <3>1 DEF WebInv, SuccessorComes
    <3>3. u # t
      BY <3>2 DEF Carries
    <3> QED  BY <1>2, <1>3, <3>2, <3>3 DEF Carries
  <2> QED  BY <2>2, <2>3
<1> QED  BY <1>4, <1>7, <1>8 DEF WebInv, Undelivered

LEMMA Answers ==
    ASSUME WebInv, NEW t \in Tabs,
           \/ AnswerRefresh(t) \/ AnswerSignIn(t) \/ AnswerChallenge(t) \/ AnswerStart(t)
           \/ Refuse(t)
    PROVE  WebInv'
<1>0. TabOK(t) /\ Len(issued) \in Nat /\ DOMAIN issued = 1..Len(issued)
  BY IssuedFacts DEF WebInv, WebOK
<1>1. CASE AnswerRefresh(t) /\ issued[tabs[t].with] = "live"
  <2>1. PICK old \in DOMAIN issued : old = tabs[t].with
    BY <1>0, <1>1 DEF AnswerRefresh, TabOK
  <2>2. /\ Sent(t, "refresh") /\ UNCHANGED <<jar, attempts, lost>>
        /\ issued' = Append([issued EXCEPT ![old] = "rotated"], "live")
        /\ Answer(t, Len(issued'))
    BY <1>1, <2>1 DEF AnswerRefresh
  <2>3. [issued EXCEPT ![old] = "rotated"] \in Seq(Fates)
    BY <2>1 DEF WebInv, WebOK, Fates
  <2>4. /\ issued' \in Seq(Fates) /\ Len(issued') = Len(issued) + 1
        /\ issued'[Len(issued) + 1] = "live"
        /\ \A i \in DOMAIN issued : issued'[i] # issued[i] => i = old
    BY <1>0, <2>2, <2>3 DEF Fates
  <2>5. tabs[t].at = "sent" /\ tabs[t].op = "refresh"
    BY <2>2 DEF Sent
  <2>6. tabs' = [tabs EXCEPT ![t] =
                   [at |-> "answered", op |-> "refresh", got |-> Len(issued) + 1]]
    BY <2>2, <2>4, <2>5 DEF Answer
  <2> QED  BY <2>1, <2>2, <2>4, <2>5, <2>6, AnswerWithSession DEF WithSession
<1>2. CASE AnswerRefresh(t) /\ issued[tabs[t].with] # "live"
  BY <1>2, PlainAnswer DEF AnswerRefresh, Answer, Sent, WithSession, NoToken
<1>3. CASE AnswerSignIn(t)
  <2>1. tabs[t].at = "sent" /\ tabs[t].op \in WithSession
    BY <1>3 DEF AnswerSignIn, SignsIn, Sent, WithSession
  <2>2. /\ issued' = Append(issued, "live") /\ Answer(t, Len(issued'))
        /\ UNCHANGED <<jar, attempts, lost>>
    BY <1>3 DEF AnswerSignIn
  <2>3. /\ issued' \in Seq(Fates) /\ Len(issued') = Len(issued) + 1
        /\ issued'[Len(issued) + 1] = "live"
        /\ \A i \in DOMAIN issued : issued'[i] = issued[i]
    BY <1>0, <2>2 DEF Fates, WebInv, WebOK
  <2>4. tabs' = [tabs EXCEPT ![t] =
                   [at |-> "answered", op |-> tabs[t].op, got |-> Len(issued) + 1]]
    BY <2>2, <2>3 DEF Answer
  <2> QED  BY <2>1, <2>2, <2>3, <2>4, AnswerWithSession
<1>4. CASE AnswerChallenge(t)
  BY <1>4, PlainAnswer DEF AnswerChallenge, Sent, WithSession, NoToken
<1>5. CASE AnswerStart(t)
  BY <1>0, <1>5, PlainAnswer DEF AnswerStart, Answer, Sent, WithSession, TabOK
<1>6. CASE Refuse(t)
  <2>1. tabs[t].op \in WithSession \cup {"start", "challenge"}
    BY <1>0, <1>6 DEF Refuse, TabOK
  <2> QED  BY <1>6, <2>1, PlainAnswer DEF Refuse, Answer, NoToken
<1> QED  BY <1>1, <1>2, <1>3, <1>4, <1>5, <1>6

-----------------------------------------------------------------------------
(* Answers arrive, or are lost. *)

\* What an answer does to the cookies.
LEMMA CookiesReceived ==
    ASSUME WebInv, NEW t \in Tabs, Deliver(t)
    PROVE  /\ jar' \in Cookies
           /\ \/ tabs[t].op \in WithSession /\ tabs[t].got # NoToken
                 /\ jar'.refresh = tabs[t].got
              \/ jar'.refresh = NoToken
              \/ /\ jar'.refresh = jar.refresh
                 /\ \A n \in DOMAIN issued : Carries(t, n) => tabs[t].op # "refresh"
<1>1. TabOK(t) /\ jar \in Cookies /\ tabs[t].at = "answered"
  BY DEF WebInv, WebOK, Deliver
<1>2. PICK op \in WithSession \cup {"start", "challenge"}, got \in Nat :
        op = tabs[t].op /\ got = tabs[t].got
  BY <1>1 DEF TabOK
<1>3. jar' = Received(op, got)
  BY <1>2 DEF Deliver
<1>4. CASE op = "refresh" /\ got # NoToken
  BY <1>1, <1>2, <1>3, <1>4 DEF Received, Refreshed, Cookies, WithSession
<1>5. CASE op = "refresh" /\ got = NoToken
  BY <1>1, <1>3, <1>5 DEF Received, Cookies, NoToken
<1>6. CASE op \in {"login", "mfa"}
  BY <1>1, <1>2, <1>3, <1>6 DEF Received, SetSession, Cookies, WithSession
<1>7. CASE op = "challenge"
  BY <1>1, <1>2, <1>3, <1>7 DEF Received, Cookies
<1>8. CASE op = "start"
  BY <1>1, <1>2, <1>3, <1>8 DEF Received, Cookies
<1>9. CASE op = "callback"
  BY <1>1, <1>2, <1>3, <1>9 DEF Received, SetSession, Cookies, WithSession
<1> QED  BY <1>2, <1>4, <1>5, <1>6, <1>7, <1>8, <1>9 DEF WithSession

LEMMA Delivery ==
    ASSUME WebInv, NEW t \in Tabs, Deliver(t)
    PROVE  WebInv'
<1>0. Len(issued) \in Nat /\ DOMAIN issued = 1..Len(issued) /\ TabOK(t)
  BY IssuedFacts DEF WebInv, WebOK
<1>1. UNCHANGED <<issued, attempts, lost>> /\ tabs[t].at = "answered"
  BY DEF Deliver
<1>2. PICK r : /\ tabs' = [tabs EXCEPT ![t] = r]
               /\ r.at \in {"page", "provider"}
               /\ r.at = "provider" => r.state \in Nat
  <2>1. CASE tabs[t].op = "start" /\ tabs[t].got # NoToken
    <3> DEFINE r == [at |-> "provider", state |-> tabs[t].got]
    <3>1. tabs' = [tabs EXCEPT ![t] = r]
      BY <2>1 DEF Deliver
    <3>2. r.at = "provider" /\ r.state \in Nat
      BY <1>0, <1>1 DEF TabOK
    <3> HIDE DEF r
    <3> QED  BY <3>1, <3>2
  <2>2. CASE ~(tabs[t].op = "start" /\ tabs[t].got # NoToken)
    <3>1. tabs' = [tabs EXCEPT ![t] = Page]
      BY <2>2 DEF Deliver
    <3>2. Page.at = "page"
      BY DEF Page
    <3> QED  BY <3>1, <3>2
  <2> QED  BY <2>1, <2>2
<1>3. /\ tabs' = [u \in Tabs |-> tabs'[u]] /\ tabs'[t] = r
      /\ \A u \in Tabs \ {t} : tabs'[u] = tabs[u]
  BY <1>2, OneTab DEF WebInv
<1>4. WebOK'
  <2>1. TabOK(t)'
    BY <1>2, <1>3 DEF TabOK, Sent
  <2>2. \A u \in Tabs : TabOK(u)'
    BY <1>0, <1>1, <1>3, <2>1, OthersOK DEF WebInv
  <2>3. jar' \in Cookies /\ jar'.refresh <= Len(issued)
    BY <1>0, <1>1, CookiesReceived DEF WebInv, WebOK, TabOK, NoToken
  <2> QED  BY <1>1, <1>3, <2>2, <2>3 DEF WebInv, WebOK
<1>5. \A n \in DOMAIN issued : ~Carries(t, n)'
  BY <1>2, <1>3 DEF Carries
<1>6. \A u \in Tabs, n \in DOMAIN issued : Carries(u, n)' <=> u # t /\ Carries(u, n)
  BY <1>3, <1>5 DEF Carries
<1>7. Undelivered'
  <2>1. ASSUME NEW u \in Tabs, NEW n \in DOMAIN issued, Carries(u, n)'
        PROVE  jar'.refresh # n
    <3>1. u # t /\ Carries(u, n) /\ OnItsWay(u, n)
      BY <1>6, <2>1 DEF WebInv, Undelivered
    <3>2. ~Carries(t, n) /\ jar.refresh # n /\ n # NoToken
      BY <1>0, <3>1 DEF OnItsWay, NoToken
    <3>3. ~(tabs[t].op \in WithSession /\ tabs[t].got = n)
      BY <1>1, <3>2 DEF Carries, WithSession
    <3> QED  BY <3>2, <3>3, CookiesReceived
  <2>2. \A u \in Tabs, n \in DOMAIN issued :
          (Sent(u, "refresh") /\ tabs[u].with = n)' => Sent(u, "refresh") /\ tabs[u].with = n
    BY <1>2, <1>3 DEF Sent
  <2> QED  BY <1>1, <1>6, <2>1, <2>2, NothingIssued DEF WebInv
<1>8. SuccessorComes'
  <2>1. CASE jar'.refresh = NoToken
    BY <2>1 DEF SuccessorComes
  <2>2. CASE /\ tabs[t].op \in WithSession /\ tabs[t].got # NoToken
             /\ jar'.refresh = tabs[t].got
    <3>1. tabs[t].got \in DOMAIN issued
      BY <1>0, <1>1, <2>2 DEF TabOK, NoToken
    <3>2. Carries(t, tabs[t].got)
      BY <1>1, <2>2 DEF Carries, WithSession
    <3>3. issued[tabs[t].got] # "rotated"
      BY <3>1, <3>2 DEF WebInv, Undelivered, OnItsWay
    <3> QED  BY <1>1, <2>2, <3>3 DEF SuccessorComes
  <2>3. CASE /\ jar'.refresh = jar.refresh
             /\ \A n \in DOMAIN issued : Carries(t, n) => tabs[t].op # "refresh"
    BY <1>1, <1>3, <1>6, <2>3, StillComes DEF WebInv
  <2> QED  BY <2>1, <2>2, <2>3, CookiesReceived
<1> QED  BY <1>4, <1>7, <1>8 DEF WebInv

LEMMA Loss ==
    ASSUME WebInv, NEW t \in Tabs, Lose(t)
    PROVE  WebInv'
<1>1. /\ UNCHANGED <<jar, issued, attempts>> /\ tabs' = [tabs EXCEPT ![t] = Page]
      /\ lost' = (lost \/ \E n \in DOMAIN issued : Carries(t, n))
  BY DEF Lose
<1>2. /\ tabs' = [u \in Tabs |-> tabs'[u]] /\ tabs'[t] = Page
      /\ \A u \in Tabs \ {t} : tabs'[u] = tabs[u]
  BY <1>1, OneTab DEF WebInv
<1>3. WebOK'
  <2>1. TabOK(t)'
    BY <1>2 DEF TabOK, Sent, Page
  <2>2. \A u \in Tabs : TabOK(u)'
    BY <1>1, <1>2, <2>1, OthersOK, IssuedFacts DEF WebInv
  <2> QED  BY <1>1, <1>2, <2>2 DEF WebInv, WebOK
<1>4. \A u \in Tabs, n \in DOMAIN issued : Carries(u, n)' <=> u # t /\ Carries(u, n)
  BY <1>2 DEF Carries, Page
<1>5. Undelivered'
  <2>1. \A u \in Tabs, n \in DOMAIN issued : Carries(u, n)' => jar'.refresh # n
    BY <1>1, <1>4 DEF WebInv, Undelivered, OnItsWay
  <2>2. \A u \in Tabs, n \in DOMAIN issued :
          (Sent(u, "refresh") /\ tabs[u].with = n)' => Sent(u, "refresh") /\ tabs[u].with = n
    BY <1>2 DEF Sent, Page
  <2> QED  BY <1>1, <1>4, <2>1, <2>2, NothingIssued DEF WebInv
<1>6. SuccessorComes'
  BY <1>1, <1>2, <1>4, StillComes DEF WebInv
<1> QED  BY <1>3, <1>5, <1>6 DEF WebInv

-----------------------------------------------------------------------------
(* What happens to the cookies and the sessions between requests. *)

LEMMA Between ==
    ASSUME WebInv, UNCHANGED <<attempts, tabs, lost>>, jar' \in Cookies,
           jar'.refresh \in {jar.refresh, NoToken},
           issued' \in Seq(Fates), Len(issued') = Len(issued),
           \A n \in DOMAIN issued : issued'[n] = "rotated" => issued[n] = "rotated"
    PROVE  WebInv'
<1>1. Len(issued) \in Nat /\ DOMAIN issued = 1..Len(issued) /\ DOMAIN issued' = DOMAIN issued
  BY IssuedFacts DEF WebInv
<1>2. WebOK'
  <2>1. \A u \in Tabs : TabOK(u)'
    BY <1>1 DEF WebInv, WebOK, TabOK, Sent
  <2>2. jar'.refresh <= Len(issued')
    BY <1>1 DEF WebInv, WebOK, NoToken
  <2> QED  BY <2>1, <2>2 DEF WebInv, WebOK
<1>3. Undelivered'
  <2>1. \A u \in Tabs, n \in DOMAIN issued : Carries(u, n)' => jar'.refresh # n
    BY <1>1 DEF WebInv, Undelivered, OnItsWay, NoToken, Carries
  <2> QED  BY <1>1, <2>1, NothingIssued DEF WebInv, Carries, Sent
<1>4. SuccessorComes'
  <2>1. CASE jar'.refresh = NoToken
    BY <2>1 DEF SuccessorComes
  <2>2. CASE jar'.refresh = jar.refresh
    BY <1>1, <2>2, StillComes DEF WebInv, Carries
  <2> QED  BY <2>1, <2>2
<1> QED  BY <1>2, <1>3, <1>4 DEF WebInv

LEMMA Quiet ==
    ASSUME WebInv, \/ \E t \in Tabs : LogoutAction(t)
                   \/ \E n \in DOMAIN issued : EndSession(n)
                   \/ Age \/ UNCHANGED webVars
    PROVE  WebInv'
<1>0. issued \in Seq(Fates) /\ jar \in Cookies
  BY DEF WebInv, WebOK
<1>1. CASE \E t \in Tabs : LogoutAction(t)
  <2>1. jar' = [jar EXCEPT !.fresh = FALSE, !.refresh = NoToken, !.mfa = FALSE]
    BY <1>1 DEF LogoutAction
  <2>2. jar' \in Cookies /\ jar'.refresh = NoToken
    BY <1>0, <2>1 DEF Cookies, NoToken
  <2> QED  BY <1>0, <1>1, <2>2, Between DEF LogoutAction
<1>2. CASE \E n \in DOMAIN issued : EndSession(n)
  <2>1. PICK n \in DOMAIN issued : issued' = [issued EXCEPT ![n] = "ended"]
    BY <1>2 DEF EndSession
  <2>2. /\ issued' \in Seq(Fates) /\ Len(issued') = Len(issued)
        /\ \A i \in DOMAIN issued : issued'[i] = "rotated" => issued[i] = "rotated"
    BY <1>0, <2>1 DEF Fates
  <2> QED  BY <1>0, <1>2, <2>2, Between DEF EndSession
<1>3. CASE Age
  <2>1. jar' \in Cookies /\ jar'.refresh = jar.refresh
    <3>1. CASE jar' = [jar EXCEPT !.fresh = FALSE]
      BY <1>0, <3>1 DEF Cookies
    <3>2. CASE jar' = [jar EXCEPT !.mfa = FALSE]
      BY <1>0, <3>2 DEF Cookies
    <3>3. CASE jar' = [jar EXCEPT !.sso = 0]
      BY <1>0, <3>3 DEF Cookies
    <3> QED  BY <1>3, <3>1, <3>2, <3>3 DEF Age
  <2> QED  BY <1>0, <1>3, <2>1, Between DEF Age
<1>4. CASE UNCHANGED webVars
  <2>1. jar' = jar /\ issued' = issued /\ UNCHANGED <<attempts, tabs, lost>>
    BY <1>4 DEF webVars
  <2>2. /\ jar' \in Cookies /\ jar'.refresh = jar.refresh
        /\ issued' \in Seq(Fates) /\ Len(issued') = Len(issued)
        /\ \A i \in DOMAIN issued : issued'[i] = "rotated" => issued[i] = "rotated"
    BY <1>0, <2>1
  <2> QED  BY <2>1, <2>2, Between
<1> QED  BY <1>1, <1>2, <1>3, <1>4

\* Every step of the browser and the API preserves the invariant.
LEMMA WebStep == WebInv /\ [WebNext]_webVars => WebInv'
<1> SUFFICES ASSUME WebInv, [WebNext]_webVars PROVE WebInv'
  OBVIOUS
<1> QED  BY Requests, Answers, Delivery, Loss, Quiet DEF WebNext

\* The invariant holds of every execution: a token that is on its way to the browser is on
\* its way once, unused, and the cookie does not name it yet.
THEOREM WebInvariant == WebSpec => []WebInv
<1> QED  BY WebInitOK, WebStep, PTL DEF WebSpec

\* However many tabs refresh at once and in whatever order the answers arrive, a cookie that
\* names a token already exchanged is about to be replaced, unless an answer was lost
\* (middleware.ts, lib/auth).
THEOREM CookiesCatchUp == WebSpec => []CookieCatchesUp
<1>1. WebInv => CookieCatchesUp
  BY DEF WebInv, SuccessorComes, CookieCatchesUp, Carries
<1> QED  BY <1>1, WebInvariant, PTL

-----------------------------------------------------------------------------
(* Assist, retrieval: there is a best article as soon as one matches.  Scores are   *)
(* sums of weights, so they are numbers between 0 and the highest one.      *)

WeightsAddUp(text, S, f) ==
  f = [s \in SUBSET S |-> IF s = {} THEN 0 ELSE Weight(text, First(s)) + f[s \ {First(s)}]]

LEMMA WeightsAdded ==
    ASSUME NEW text, NEW S, IsFiniteSet(S)
    PROVE  \E f : WeightsAddUp(text, S, f)
<1> DEFINE w == [token \in S |-> Weight(text, token)]
<1>1. PICK f : AddsUp(w, S, f)
  BY AddsUpExists
<1> DEFINE a(s) == IF s = {} THEN 0 ELSE w[First(s)] + f[s \ {First(s)}]
           b(s) == IF s = {} THEN 0 ELSE Weight(text, First(s)) + f[s \ {First(s)}]
<1>2. ASSUME NEW s \in SUBSET S PROVE a(s) = b(s)
  BY FirstIn
<1>3. f = [s \in SUBSET S |-> a(s)]
  BY <1>1 DEF AddsUp
<1>4. f = [s \in SUBSET S |-> b(s)]
  <2> HIDE DEF a, b
  <2> QED  BY <1>2, <1>3
<1> QED  BY <1>4 DEF WeightsAddUp

LEMMA WeightIsNat == \A text, token : Weight(text, token) \in Nat
BY DEF Weight

LEMMA WeightsAreNat ==
    ASSUME NEW text, NEW S, IsFiniteSet(S), NEW f, WeightsAddUp(text, S, f)
    PROVE  f[S] \in Nat
<1> DEFINE T == {s \in SUBSET S : f[s] \notin Nat}
<1> SUFFICES ASSUME T # {} PROVE FALSE
  OBVIOUS
<1>0. T \subseteq SUBSET S
  OBVIOUS
<1>1. PICK s \in T : \A u \in SUBSET s : u # s => u \notin T
  <2> HIDE DEF T
  <2> QED  BY <1>0, LeastSubset
<1>2. f[s] = IF s = {} THEN 0 ELSE Weight(text, First(s)) + f[s \ {First(s)}]
  BY DEF WeightsAddUp
<1>3. s # {} => f[s \ {First(s)}] \in Nat
  BY <1>1, FirstIn
<1> QED  BY <1>2, <1>3, WeightIsNat

LEMMA ChosenWeights ==
    ASSUME NEW text, NEW S, \E f : WeightsAddUp(text, S, f)
    PROVE  WeightsAddUp(text, S, CHOOSE f : WeightsAddUp(text, S, f))
BY Zenon

Matched(text, query) == MapThenSumSet(LAMBDA token : Weight(text, token), query)

LEMMA MatchedIsNat ==
    ASSUME NEW text, NEW query, IsFiniteSet(query)
    PROVE  Matched(text, query) \in Nat
<1> DEFINE f == CHOOSE g : WeightsAddUp(text, query, g)
<1>1. WeightsAddUp(text, query, f)
  BY WeightsAdded, ChosenWeights
<1>2. Matched(text, query) = f[query]
  BY DEF Matched, MapThenSumSet, MapThenFoldSet, WeightsAddUp, First
<1> HIDE DEF f
<1> QED  BY <1>1, <1>2, WeightsAreNat

LEMMA ScoreBounds ==
    ASSUME NEW text, NEW query, IsFiniteSet(query)
    PROVE  scoreArticle(text, query) \in 0..(4 * Cardinality(query))
<1>1. Matched(text, query) \in Nat
  BY MatchedIsNat
<1>2. Cardinality(query) \in Nat
  BY FS_CardinalityType
<1>3. scoreArticle(text, query) =
        IF Matched(text, query) < 4 * Cardinality(query)
        THEN Matched(text, query) ELSE 4 * Cardinality(query)
  BY DEF scoreArticle, Matched, MapThenSumSet, MapThenFoldSet
<1> QED  BY <1>1, <1>2, <1>3

\* The article of a turn's answer is one that was offered.
LEMMA TopIsOffered ==
    ASSUME NEW query, IsFiniteSet(query), NEW articles, DOMAIN articles \subseteq Nat
    PROVE  TopArticle(articles, query) # 0 => TopArticle(articles, query) \in DOMAIN articles
<1> DEFINE Score(a) == scoreArticle(articles[a].text, query)
           found == {a \in DOMAIN articles : Score(a) > 0}
           best == {a \in found : \A b \in found : Score(b) <= Score(a)}
           most == 4 * Cardinality(query)
<1>0. TopArticle(articles, query) =
        IF found = {} THEN 0 ELSE CHOOSE a \in best : \A b \in best : a <= b
  BY DEF TopArticle
<1> SUFFICES ASSUME found # {} PROVE TopArticle(articles, query) \in DOMAIN articles
  BY <1>0
<1>1. most \in Nat /\ \A a : Score(a) \in 0..most
  BY ScoreBounds, FS_CardinalityType
<1>2. best # {}
  <2> DEFINE T == {most - Score(a) : a \in found}
  <2>1. T \subseteq Nat /\ T # {}
    <3> HIDE DEF Score, most, found
    <3> SUFFICES ASSUME NEW a \in found PROVE most - Score(a) \in Nat
      OBVIOUS
    <3> QED  BY <1>1
  <2>2. PICK n \in T : \A k \in T : n <= k
    <3> HIDE DEF T
    <3> QED  BY <2>1, LeastNatural
  <2>3. PICK a \in found : n = most - Score(a)
    OBVIOUS
  <2>4. ASSUME NEW b \in found PROVE Score(b) <= Score(a)
    <3> HIDE DEF Score, most, found
    <3>1. most - Score(a) <= most - Score(b)
      BY <2>2, <2>3
    <3> QED  BY <1>1, <3>1
  <2> QED  BY <2>4
<1>3. \E a \in best : \A b \in best : a <= b
  <2>1. best \subseteq Nat
    OBVIOUS
  <2> HIDE DEF best
  <2> QED  BY <1>2, <2>1, LeastNatural
<1>4. (CHOOSE a \in best : \A b \in best : a <= b) \in best
  <2> HIDE DEF best
  <2> QED  BY <1>3
<1> QED  BY <1>0, <1>4

-----------------------------------------------------------------------------
(* The answer and its verdict. *)

Grounded(t) ==
  /\ t.citations \subseteq t.offered
  /\ t.reason = "none" => (t.usedTools # {} \/ t.citations # {}) /\ ~t.sensitive

Reasons == {"sensitive_topic", "low_confidence"}

LEMMA AnswerIsGrounded ==
    ASSUME NEW query, IsFiniteSet(query), NEW articles, DOMAIN articles \subseteq Nat, NEW results
    PROVE  LET answer == compose(query, articles, results)
               reason == decideEscalation(query, answer.confidence)
           IN  /\ answer.citations \subseteq DOMAIN articles
               /\ answer.usedTools \subseteq DOMAIN results
               /\ reason \in Reasons \cup {"none"}
               /\ reason = "none" => /\ answer.usedTools # {} \/ answer.citations # {}
                                     /\ ~isSensitive(query)
<1> DEFINE answer == compose(query, articles, results)
           answered == {t \in DOMAIN results : results[t] = "ok"}
           top == TopArticle(articles, query)
<1>1. \/ answer.usedTools = answered /\ answered # {} /\ answer.citations = {}
      \/ answer.usedTools = {} /\ answer.citations = {top} /\ top # 0
      \/ answer.usedTools = {} /\ answer.citations = {} /\ answer.confidence \in {10, 30}
  BY DEF compose, Reply, CONFIDENCE
<1>2. /\ answer.citations \subseteq DOMAIN articles
      /\ answer.usedTools \subseteq DOMAIN results
  <2> HIDE DEF answer, top
  <2>1. top # 0 => top \in DOMAIN articles
    BY TopIsOffered DEF top
  <2> QED  BY <1>1, <2>1
<1> DEFINE reason == decideEscalation(query, answer.confidence)
<1>3. /\ reason \in Reasons \cup {"none"}
      /\ reason = "none" => ~isSensitive(query)
      /\ answer.confidence \in {10, 30} => reason # "none"
  <2> HIDE DEF answer
  <2> QED  BY DEF decideEscalation, Reasons, CONFIDENCE_ESCALATION_THRESHOLD
<1> HIDE DEF answer, reason
<1>4. reason = "none" => answer.usedTools # {} \/ answer.citations # {}
  BY <1>1, <1>3
<1> QED  BY <1>2, <1>3, <1>4 DEF answer, reason

-----------------------------------------------------------------------------
(* Rows. *)

Turn ==
  [stage : {"answered"}, user : Askers, conversation : Nat, sensitive : BOOLEAN,
   offered : SUBSET ArticleIds, citations : SUBSET ArticleIds,
   usedTools : SUBSET DOMAIN ASSIST_TOOLS, reason : Reasons \cup {"none"}]

Ticket == [conversation : Nat, user : Askers, reason : Reasons]

LEMMA Appended ==
    ASSUME NEW S, NEW rows \in Seq(S), NEW row \in S
    PROVE  /\ Append(rows, row) \in Seq(S)
           /\ Len(rows) \in Nat /\ Len(Append(rows, row)) = Len(rows) + 1
           /\ DOMAIN rows = 1..Len(rows) /\ DOMAIN Append(rows, row) = 1..(Len(rows) + 1)
           /\ Append(rows, row)[Len(rows) + 1] = row
           /\ \A i \in 1..Len(rows) : Append(rows, row)[i] = rows[i]
OBVIOUS

Matching(rows, c, reason) == {i \in DOMAIN rows : rows[i].conversation = c /\ rows[i].reason = reason}

LEMMA MatchingAppended ==
    ASSUME NEW S, NEW rows \in Seq(S), NEW row \in S, NEW c, NEW reason
    PROVE  /\ Cardinality(Matching(rows, c, reason)) \in Nat
           /\ Cardinality(Matching(Append(rows, row), c, reason)) =
                Cardinality(Matching(rows, c, reason))
                  + (IF row.conversation = c /\ row.reason = reason THEN 1 ELSE 0)
<1> DEFINE M == Matching(rows, c, reason)
           A == Matching(Append(rows, row), c, reason)
           n == Len(rows) + 1
<1>1. /\ Len(rows) \in Nat /\ DOMAIN rows = 1..Len(rows) /\ DOMAIN Append(rows, row) = 1..n
      /\ Append(rows, row)[n] = row /\ \A i \in 1..Len(rows) : Append(rows, row)[i] = rows[i]
  BY Appended
<1>2. 1..n = (1..Len(rows)) \cup {n} /\ n \notin 1..Len(rows)
  BY <1>1
<1>3. M \subseteq 1..Len(rows) /\ n \notin M
  BY <1>1, <1>2 DEF Matching
<1>4. IsFiniteSet(M)
  <2>1. IsFiniteSet(1..Len(rows))
    BY <1>1, FS_Interval
  <2> QED  BY <1>3, <2>1, FS_Subset
<1>5. Cardinality(M) \in Nat
  BY <1>4, FS_CardinalityType
<1>6. CASE row.conversation = c /\ row.reason = reason
  <2>1. A = M \cup {n}
    BY <1>1, <1>2, <1>6 DEF Matching
  <2> HIDE DEF A, M, n
  <2>2. Cardinality(A) = Cardinality(M) + 1
    BY <1>3, <1>4, <2>1, FS_AddElement
  <2> QED  BY <1>5, <1>6, <2>2 DEF A, M
<1>7. CASE ~(row.conversation = c /\ row.reason = reason)
  <2>1. A = M
    BY <1>1, <1>2, <1>7 DEF Matching
  <2> HIDE DEF A, M
  <2> QED  BY <1>5, <1>7, <2>1 DEF A, M
<1> QED  BY <1>6, <1>7

-----------------------------------------------------------------------------
(* The invariant. *)

AskedOK(a) ==
  /\ a.user \in Askers /\ a.query \in Questions
  /\ a.conversation \in 0..Len(conversations) /\ DOMAIN a.articles \subseteq ArticleIds

AnsweredOK(a) == a \in Turn /\ Grounded(a) /\ a.conversation \in 0..Len(conversations)

RowsOK ==
  /\ conversations \in Seq(Askers) /\ turns \in Seq(Turn) /\ escalations \in Seq(Ticket)

TurnsOK ==
  \A i \in DOMAIN turns :
    /\ Grounded(turns[i]) /\ turns[i].conversation \in DOMAIN conversations
    /\ conversations[turns[i].conversation] = turns[i].user

TicketsMatch ==
  \A c, reason : reason \in Reasons =>
    Cardinality(Matching(turns, c, reason)) = Cardinality(Matching(escalations, c, reason))

\* A turn that is answered is grounded or followed up, and the conversation it was asked in is
\* still there when it is written.
AssistInv ==
  /\ RowsOK /\ TurnsOK /\ TicketsMatch
  /\ asking.stage \in {"silent", "asked", "answered"}
  /\ asking.stage = "asked" => AskedOK(asking)
  /\ asking.stage = "answered" => AnsweredOK(asking)

LEMMA TurnsGrounded == AssistInv => GroundedOrEscalated
BY DEF AssistInv, TurnsOK, Grounded, GroundedOrEscalated

LEMMA TicketsRaised == AssistInv => OneTicketPerEscalation
<1> SUFFICES ASSUME AssistInv PROVE OneTicketPerEscalation
  OBVIOUS
<1>1. \A i \in DOMAIN turns : conversations[turns[i].conversation] = turns[i].user
  BY DEF AssistInv, TurnsOK
<1>2. \A c, reason : reason \in {"sensitive_topic", "low_confidence"} =>
        Cardinality(Matching(turns, c, reason)) = Cardinality(Matching(escalations, c, reason))
  BY DEF AssistInv, TicketsMatch, Reasons
<1>3. ASSUME NEW c \in DOMAIN conversations, NEW reason \in {"sensitive_topic", "low_confidence"}
      PROVE  Cardinality({i \in DOMAIN turns : turns[i].conversation = c /\ turns[i].reason = reason})
               = Cardinality({i \in DOMAIN escalations :
                                escalations[i].conversation = c /\ escalations[i].reason = reason})
  <2>1. /\ {i \in DOMAIN turns : turns[i].conversation = c /\ turns[i].reason = reason}
             = Matching(turns, c, reason)
        /\ {i \in DOMAIN escalations : escalations[i].conversation = c
                                      /\ escalations[i].reason = reason}
             = Matching(escalations, c, reason)
    BY DEF Matching
  <2>2. Cardinality(Matching(turns, c, reason)) = Cardinality(Matching(escalations, c, reason))
    BY <1>2
  <2> QED  BY <2>1, <2>2
<1> QED  BY <1>1, <1>3 DEF OneTicketPerEscalation

LEMMA AssistInitInv == AssistInit => AssistInv
<1> SUFFICES ASSUME AssistInit PROVE AssistInv
  OBVIOUS
<1>1. RowsOK /\ asking.stage = "silent"
  BY DEF AssistInit, RowsOK, Silent
<1>2. TurnsOK /\ TicketsMatch
  BY DEF AssistInit, TurnsOK, TicketsMatch, Matching
<1> QED  BY <1>1, <1>2 DEF AssistInv

\* The rows stay, and so does what they say.
LEMMA RowsStay ==
    ASSUME AssistInv, UNCHANGED <<conversations, turns, escalations>>
    PROVE  RowsOK' /\ TurnsOK' /\ TicketsMatch'
<1>1. RowsOK' /\ TurnsOK'
  BY DEF AssistInv, RowsOK, TurnsOK
<1>2. TicketsMatch'
  BY DEF AssistInv, TicketsMatch
<1> QED  BY <1>1, <1>2

LEMMA AskStep ==
    ASSUME AssistInv, NEW u \in Askers, NEW query \in Questions, NEW c \in 0..Len(conversations),
           Ask(u, query, c)
    PROVE  AssistInv'
<1> DEFINE active == {a \in ArticleIds : knowledge[a].active}
           asked == [stage |-> "asked", user |-> u, query |-> query, conversation |-> c,
                     articles |-> [a \in active |-> knowledge[a]]]
<1>1. asking' = asked /\ UNCHANGED <<conversations, turns, escalations>>
  BY DEF Ask
<1>2. /\ asked.stage = "asked" /\ asked.user = u /\ asked.query = query
      /\ asked.conversation = c /\ DOMAIN asked.articles \subseteq ArticleIds
  OBVIOUS
<1> HIDE DEF asked
<1> QED  BY <1>1, <1>2, RowsStay DEF AssistInv, AskedOK

LEMMA RunToolsStep ==
    ASSUME AssistInv, RunTools
    PROVE  AssistInv'
<1> DEFINE tools == routeTools(asking.query)
<1>1. PICK results \in [tools -> {"ok", "forbidden", "no_profile", "not_found"}] :
        LET answer == compose(asking.query, asking.articles, results)
        IN asking' =
             [stage |-> "answered", user |-> asking.user, conversation |-> asking.conversation,
              sensitive |-> isSensitive(asking.query), offered |-> DOMAIN asking.articles,
              citations |-> answer.citations, usedTools |-> answer.usedTools,
              reason |-> decideEscalation(asking.query, answer.confidence)]
  BY DEF RunTools
<1> DEFINE answer == compose(asking.query, asking.articles, results)
           reason == decideEscalation(asking.query, answer.confidence)
           new == [stage |-> "answered", user |-> asking.user,
                   conversation |-> asking.conversation,
                   sensitive |-> isSensitive(asking.query), offered |-> DOMAIN asking.articles,
                   citations |-> answer.citations, usedTools |-> answer.usedTools,
                   reason |-> reason]
<1>2. asking' = new /\ UNCHANGED <<conversations, turns, escalations>>
  BY <1>1 DEF RunTools
<1>3. AskedOK(asking) /\ asking.conversation \in Nat
  <2>1. AskedOK(asking)
    BY DEF AssistInv, RunTools
  <2> QED  BY <2>1 DEF AskedOK
<1>4. IsFiniteSet(asking.query) /\ DOMAIN asking.articles \subseteq ArticleIds
      /\ DOMAIN asking.articles \subseteq Nat
  BY <1>3, AssistAssumption DEF AskedOK, ArticleIds
<1>5. /\ answer.citations \subseteq DOMAIN asking.articles
      /\ answer.usedTools \subseteq DOMAIN results
      /\ reason \in Reasons \cup {"none"}
      /\ reason = "none" => /\ answer.usedTools # {} \/ answer.citations # {}
                            /\ ~isSensitive(asking.query)
  BY <1>4, AnswerIsGrounded
<1>6. DOMAIN results \subseteq DOMAIN ASSIST_TOOLS
  BY DEF routeTools
<1> HIDE DEF answer, reason
<1>7. new \in Turn
  BY <1>3, <1>4, <1>5, <1>6 DEF Turn, AskedOK, isSensitive
<1>8. Grounded(new) /\ new.stage = "answered" /\ new.conversation = asking.conversation
  BY <1>5 DEF Grounded
<1> HIDE DEF new
<1> QED  BY <1>2, <1>3, <1>7, <1>8, RowsStay DEF AssistInv, AskedOK, AnsweredOK

\* A turn is written with its ticket, into a conversation that its asker owns.
LEMMA PersistStep ==
    ASSUME AssistInv, Persist
    PROVE  AssistInv'
<1>1. asking \in Turn /\ Grounded(asking) /\ asking.conversation \in 0..Len(conversations)
  BY DEF AssistInv, Persist, AnsweredOK
<1>2. /\ asking.user \in Askers /\ asking.reason \in Reasons \cup {"none"}
      /\ Len(conversations) \in Nat /\ conversations \in Seq(Askers)
      /\ turns \in Seq(Turn) /\ escalations \in Seq(Ticket)
  BY <1>1 DEF Turn, AssistInv, RowsOK
<1> DEFINE c == IF asking.conversation = 0 THEN Len(conversations') ELSE asking.conversation
           owned == [asking EXCEPT !.conversation = c]
           ticket == [conversation |-> c, user |-> asking.user, reason |-> asking.reason]
<1>3. /\ conversations' = Resolved(asking.conversation) /\ conversations'[c] = asking.user
      /\ turns' = Append(turns, owned)
      /\ escalations' = IF asking.reason = "none" THEN escalations ELSE Append(escalations, ticket)
      /\ asking' = Silent
  BY DEF Persist, WriteTurn
<1>4. /\ conversations' \in Seq(Askers) /\ c \in DOMAIN conversations' /\ c \in Nat
      /\ DOMAIN conversations \subseteq DOMAIN conversations'
      /\ \A i \in DOMAIN conversations : conversations'[i] = conversations[i]
  <2>1. CASE asking.conversation = 0
    <3>1. conversations' = Append(conversations, asking.user)
      BY <1>3, <2>1 DEF Resolved
    <3>2. c = Len(conversations')
      BY <2>1
    <3> HIDE DEF c
    <3> QED  BY <1>2, <3>1, <3>2, Appended
  <2>2. CASE asking.conversation # 0
    <3>1. conversations' = conversations
      BY <1>3, <2>2 DEF Resolved
    <3>2. c = asking.conversation /\ DOMAIN conversations = 1..Len(conversations)
      BY <1>2, <2>2
    <3> HIDE DEF c
    <3> QED  BY <1>1, <1>2, <2>2, <3>1, <3>2
  <2> QED  BY <2>1, <2>2
<1> HIDE DEF c
<1>5. /\ owned \in Turn /\ Grounded(owned)
      /\ owned.conversation = c /\ owned.user = asking.user /\ owned.reason = asking.reason
  BY <1>1, <1>4 DEF Turn, Grounded
<1>6. asking.reason # "none" => ticket \in Ticket
  BY <1>2, <1>4 DEF Ticket
<1>7. ticket.conversation = c /\ ticket.reason = asking.reason
  OBVIOUS
<1> HIDE DEF owned, ticket
<1>8. RowsOK'
  <2>1. turns' \in Seq(Turn)
    BY <1>2, <1>3, <1>5, Appended
  <2>2. escalations' \in Seq(Ticket)
    <3>1. CASE asking.reason = "none"
      BY <1>2, <1>3, <3>1
    <3>2. CASE asking.reason # "none"
      BY <1>2, <1>3, <1>6, <3>2, Appended
    <3> QED  BY <3>1, <3>2
  <2> QED  BY <1>4, <2>1, <2>2 DEF RowsOK
<1>9. TurnsOK'
  <2> DEFINE n == Len(turns) + 1
  <2>1. /\ DOMAIN turns = 1..Len(turns) /\ Len(turns) \in Nat /\ DOMAIN turns' = 1..n
        /\ turns'[n] = owned /\ \A i \in 1..Len(turns) : turns'[i] = turns[i]
    BY <1>2, <1>3, <1>5, Appended
  <2> HIDE DEF n
  <2>2. ASSUME NEW i \in DOMAIN turns'
        PROVE  /\ Grounded(turns'[i]) /\ turns'[i].conversation \in DOMAIN conversations'
               /\ conversations'[turns'[i].conversation] = turns'[i].user
    <3>1. CASE i = n
      BY <1>3, <1>4, <1>5, <2>1, <3>1
    <3>2. CASE i # n
      <4>1. i \in DOMAIN turns /\ turns'[i] = turns[i]
        BY <2>1, <3>2 DEF n
      <4>2. /\ Grounded(turns[i]) /\ turns[i].conversation \in DOMAIN conversations
            /\ conversations[turns[i].conversation] = turns[i].user
        BY <4>1 DEF AssistInv, TurnsOK
      <4> QED  BY <1>4, <4>1, <4>2
    <3> QED  BY <3>1, <3>2
  <2> QED  BY <2>2 DEF TurnsOK, Grounded
<1>10. TicketsMatch'
  <2> SUFFICES ASSUME NEW d, NEW reason \in Reasons
               PROVE  Cardinality(Matching(turns', d, reason)) =
                        Cardinality(Matching(escalations', d, reason))
    BY DEF TicketsMatch, Matching
  <2>1. Cardinality(Matching(turns, d, reason)) = Cardinality(Matching(escalations, d, reason))
    BY DEF AssistInv, TicketsMatch
  <2>2. Cardinality(Matching(turns', d, reason)) =
          Cardinality(Matching(turns, d, reason)) + (IF c = d /\ asking.reason = reason THEN 1 ELSE 0)
    BY <1>2, <1>3, <1>5, MatchingAppended
  <2>3. CASE asking.reason = "none"
    <3>1. reason # "none" /\ escalations' = escalations
      BY <1>3, <2>3 DEF Reasons
    <3>2. Cardinality(Matching(turns, d, reason)) \in Nat
      BY <1>2, <1>5, MatchingAppended
    <3> QED  BY <2>1, <2>2, <2>3, <3>1, <3>2
  <2>4. CASE asking.reason # "none"
    <3>1. Cardinality(Matching(escalations', d, reason)) =
            Cardinality(Matching(escalations, d, reason))
              + (IF c = d /\ asking.reason = reason THEN 1 ELSE 0)
      BY <1>2, <1>3, <1>6, <1>7, <2>4, MatchingAppended
    <3> QED  BY <2>1, <2>2, <3>1
  <2> QED  BY <2>3, <2>4
<1>11. asking'.stage = "silent"
  BY <1>3 DEF Silent
<1> QED  BY <1>8, <1>9, <1>10, <1>11 DEF AssistInv

LEMMA AssistStep == AssistInv /\ [AssistNext]_assistVars => AssistInv'
<1> SUFFICES ASSUME AssistInv, [AssistNext]_assistVars PROVE AssistInv'
  OBVIOUS
<1>1. ASSUME UNCHANGED <<conversations, turns, escalations>>, asking' = asking \/ asking' = Silent
      PROVE  AssistInv'
  <2>1. Silent.stage = "silent"
    BY DEF Silent
  <2> QED  BY <1>1, <2>1, RowsStay DEF AssistInv, AskedOK, AnsweredOK
<1>2. CASE UNCHANGED assistVars
  BY <1>1, <1>2 DEF assistVars
<1>3. CASE Fail
  BY <1>1, <1>3 DEF Fail
<1>4. CASE \E a \in ArticleIds :
             \/ DeleteKnowledge(a)
             \/ \E text \in Texts :
                  CreateKnowledge(a, text) \/ \E on \in BOOLEAN : UpdateKnowledge(a, text, on)
  BY <1>1, <1>4 DEF DeleteKnowledge, CreateKnowledge, UpdateKnowledge, SetArticle
<1> QED  BY <1>2, <1>3, <1>4, AskStep, RunToolsStep, PersistStep DEF AssistNext

\* An answer that nobody is asked to follow up rests on a tool that succeeded or on an article that
\* was active when the turn read the knowledge base, whatever is edited meanwhile; and a sensitive
\* question is always followed up (AssistService.ask, TemplateProvider.compose,
\* decideEscalation).
THEOREM AnswersAreGrounded == AssistSpec => []GroundedOrEscalated
<1> QED  BY AssistInitInv, AssistStep, TurnsGrounded, PTL DEF AssistSpec

\* Each escalated answer has its one ticket, and nobody writes into another's conversation
\* (AssistService.resolveConversation and persist).
THEOREM EscalationsHaveTickets == AssistSpec => []OneTicketPerEscalation
<1> QED  BY AssistInitInv, AssistStep, TicketsRaised, PTL DEF AssistSpec
=============================================================================
