--------------------------- MODULE Accounts_proofs ---------------------------
(***************************************************************************)
(* What Accounts guarantees for every number of people, providers and      *)
(* overlapping handlers.                                                   *)
(***************************************************************************)
EXTENDS Accounts, FiniteSetTheorems, TLAPS

-----------------------------------------------------------------------------
(* The inductive invariant. *)

Statuses == {"NONE", "INVITED", "ACTIVE", "DISABLED"}

UsersOK ==
  users \in [Emails -> [status : Statuses, roles : SUBSET RoleKeys,
                        credential : {"none", "password", "enrolled", "mfa"}]]

SettingOK ==
  /\ online \subseteq Workers
  /\ \A d \in directory : d[1] \in Subjects /\ d[2] \in Emails

\* The fields that a single sign-on carries through its three transactions.
SsoOps == {"exchange", "sso.linked", "sso.existing", "sso.jit"}
SsoJob == [op : SsoOps, provider : Providers, subject : Subjects, user : Emails]

\* What a handler has read names people, and whoever existed then exists still.
GoodJob(w) ==
  LET job == pending[w]
  IN /\ job.op \in SsoOps => job \in SsoJob
     /\ job.op = "invite" => job.user \in Emails /\ job.roles \in SUBSET RoleKeys
     /\ job.op \in {"scim.create", "scim.update", "scim.delete"} => job.user \in Emails
     /\ job.op = "scim.create" => /\ job.provider \in Providers
                                  /\ job.active \in BOOLEAN
                                  /\ job.exists => Exists(job.user)
     /\ job.op = "scim.update" => job.to \in {"ACTIVE", "DISABLED", "same"}

PendingOK ==
  /\ pending = [w \in Workers |-> pending[w]]
  /\ \A w \in Workers : GoodJob(w)

\* Until the tenant is seeded there is nobody in it, and nobody does anything to it.
Quiet ==
  tenant # "ready" =>
    /\ users = [e \in Emails |-> NoAccount]
    /\ providers = [p \in Providers |-> "none"]
    /\ scim = {} /\ links = {} /\ tokens = <<>> /\ access = {} /\ mfaPending = {}
    /\ \A w \in Workers : pending[w].op \in {"idle", "onboard"}

\* At most one handler seeds the tenant, and only while it is bare.
OneOnboarding ==
  /\ tenant \in {"absent", "bare", "ready"}
  /\ \A v, w \in Workers :
       pending[w].op = "onboard" => /\ tenant = "bare"
                                    /\ pending[v].op = "onboard" => v = w

LinksOK ==
  /\ providers \in [Providers -> {"none", "stored", "deleted"}]
  /\ \A l \in links : l.provider \in Providers /\ l.user \in Emails

OwnerOnFile == tenant = "ready" => Exists(Owner)

IInv == /\ UsersOK /\ SettingOK /\ PendingOK /\ LinksOK /\ Quiet /\ OneOnboarding
        /\ OwnerOnFile /\ OwnerUnlessInterrupted /\ OneIdentityPerPerson

-----------------------------------------------------------------------------
(* What no step takes from an account: that it exists, its roles, that it  *)
(* has a credential.                                                       *)

Kept ==
  \A u \in Emails : Exists(u) =>
    /\ users'[u].status # "NONE"
    /\ users'[u].roles = users[u].roles
    /\ users[u].credential # "none" => users'[u].credential # "none"

\* Who is disabled stays so.
LeaversStay == \A u \in Emails : users[u].status = "DISABLED" => users'[u].status = "DISABLED"

Account == [status : Statuses, roles : SUBSET RoleKeys,
            credential : {"none", "password", "enrolled", "mfa"}]

\* A new account, for somebody who had none.
LEMMA NewAccount ==
    ASSUME UsersOK, NEW u \in Emails, ~Exists(u), NEW r \in Account, r.status # "NONE",
           users' = [users EXCEPT ![u] = r]
    PROVE  UsersOK' /\ Kept /\ LeaversStay /\ Exists(u)'
BY DEF UsersOK, Kept, LeaversStay, Exists, Account

\* Another status for an account on file, or for one about to be.
LEMMA NewStatus ==
    ASSUME UsersOK, NEW u \in Emails, NEW status \in {"ACTIVE", "DISABLED"},
           users' = [users EXCEPT ![u].status = status]
    PROVE  /\ UsersOK' /\ Kept /\ Exists(u)'
           /\ users'[u].status = status
           /\ \A v \in Emails \ {u} : users'[v] = users[v]
<1>1. users[u] \in Account
  BY DEF UsersOK, Account
<1>2. users'[u] = [users[u] EXCEPT !.status = status]
  BY DEF UsersOK
<1>3. /\ users'[u] \in Account /\ users'[u].status = status
      /\ users'[u].roles = users[u].roles /\ users'[u].credential = users[u].credential
  BY <1>1, <1>2 DEF Account, Statuses
<1>4. users' = [users EXCEPT ![u] = users'[u]]
  BY <1>2 DEF UsersOK
<1> QED  BY <1>3, <1>4 DEF UsersOK, Kept, Exists, Account

LEMMA Activated ==
    ASSUME UsersOK, NEW u \in Emails, users' = ActivateIfInvited(u)
    PROVE  UsersOK' /\ Kept /\ LeaversStay
<1>1. CASE users[u].status = "INVITED"
  <2>1. users' = [users EXCEPT ![u].status = "ACTIVE"]
    BY <1>1 DEF ActivateIfInvited
  <2>2. /\ UsersOK' /\ Kept /\ \A v \in Emails \ {u} : users'[v] = users[v]
    BY <2>1, NewStatus
  <2> QED  BY <1>1, <2>2 DEF LeaversStay
<1>2. CASE users[u].status # "INVITED"
  BY <1>2 DEF ActivateIfInvited, UsersOK, Kept, LeaversStay, Exists
<1> QED  BY <1>1, <1>2

\* Another credential that is not none.
LEMMA NewCredential ==
    ASSUME UsersOK, NEW u \in Emails, NEW c \in {"enrolled", "mfa"},
           users' = [users EXCEPT ![u].credential = c]
    PROVE  UsersOK' /\ Kept /\ LeaversStay
<1>1. users[u] \in Account
  BY DEF UsersOK, Account
<1>2. users'[u] = [users[u] EXCEPT !.credential = c]
  BY DEF UsersOK
<1>3. /\ users'[u] \in Account /\ users'[u].status = users[u].status
      /\ users'[u].roles = users[u].roles /\ users'[u].credential = c
  BY <1>1, <1>2 DEF Account
<1>4. users' = [users EXCEPT ![u] = users'[u]]
  BY <1>2 DEF UsersOK
<1> QED  BY <1>3, <1>4 DEF UsersOK, Kept, LeaversStay, Exists, Account

LEMMA SameUsers ==
    ASSUME UsersOK, UNCHANGED users
    PROVE  UsersOK' /\ Kept /\ LeaversStay
BY DEF UsersOK, Kept, LeaversStay, Exists

-----------------------------------------------------------------------------
(* Identities. *)

\* The unique indexes and the foreign key keep the table of identities in order.
LEMMA LinkedOnce ==
    ASSUME LinksOK, OneIdentityPerPerson, Kept, NEW p \in Providers, NEW u \in Emails, NEW s,
           LinkIdentity(p, u, s), UNCHANGED providers, Exists(u)'
    PROVE  LinksOK' /\ OneIdentityPerPerson'
<1> DEFINE new == [provider |-> p, subject |-> s, user |-> u]
<1>1. links' = links \cup {new} /\ providers[p] = "stored"
  BY DEF LinkIdentity
<1>2. \A l \in links : l.provider = p => l.subject # s /\ l.user # u
  BY DEF LinkIdentity, LinkedBySubject, LinkedByUser
<1>3. \A l \in links : Exists(l.user)'
  BY DEF LinksOK, OneIdentityPerPerson, Kept, Exists
<1> QED  BY <1>1, <1>2, <1>3 DEF LinksOK, OneIdentityPerPerson, Exists

LEMMA FewerLinks ==
    ASSUME LinksOK, OneIdentityPerPerson, Kept, links' \subseteq links,
           UNCHANGED providers
    PROVE  LinksOK' /\ OneIdentityPerPerson'
BY DEF LinksOK, OneIdentityPerPerson, Kept, Exists

-----------------------------------------------------------------------------
(* Steps in a tenant that is ready. *)

LEMMA Ready ==
    ASSUME IInv,
           \/ access # {} \/ mfaPending # {} \/ tokens # <<>> \/ scim # {}
           \/ \E p \in Providers : providers[p] = "stored"
           \/ \E u \in Emails : users[u].credential # "none"
           \/ \E w \in Workers : pending[w].op \notin {"idle", "onboard"}
    PROVE  tenant = "ready"
BY DEF IInv, Quiet, NoAccount

LEMMA ReadyStep ==
    ASSUME IInv, tenant = "ready", UNCHANGED <<tenant, setting>>,
           UsersOK', Kept, LinksOK', OneIdentityPerPerson',
           pending' = [w \in Workers |-> pending'[w]],
           \A w \in Workers : \/ pending'[w] = pending[w]
                              \/ GoodJob(w)' /\ pending'[w].op # "onboard"
    PROVE  IInv'
<1>1. \A w \in Workers : GoodJob(w)'
  <2> SUFFICES ASSUME NEW w \in Workers, pending'[w] = pending[w] PROVE GoodJob(w)'
    OBVIOUS
  <2>1. GoodJob(w)
    BY DEF IInv, PendingOK
  <2> QED  BY <2>1 DEF GoodJob, Kept, Exists
<1>2. \A w \in Workers : pending'[w].op # "onboard"
  BY DEF IInv, OneOnboarding
<1>3. /\ Exists(Owner)' /\ "tenant_admin" \in users'[Owner].roles
      /\ users'[Owner].credential # "none"
  BY AccountsAssumption DEF IInv, OwnerOnFile, OwnerUnlessInterrupted, Kept, Exists
<1> QED  BY <1>1, <1>2, <1>3 DEF IInv, SettingOK, setting, PendingOK, Quiet, OneOnboarding,
            OwnerOnFile, OwnerUnlessInterrupted

\* A handler that only reads, or that ends without a trace in accounts.
LEMMA JobStep ==
    ASSUME IInv, tenant = "ready", UNCHANGED <<accounts, setting>>, NEW w \in Workers, NEW j,
           Begin(w, j), pending'[w] = j => GoodJob(w)', j.op # "onboard"
    PROVE  IInv'
<1>1. pending'[w] = j /\ \A v \in Workers \ {w} : pending'[v] = pending[v]
  BY DEF Begin, IInv, PendingOK
<1>2. pending' = [v \in Workers |-> pending'[v]]
  BY DEF Begin, IInv, PendingOK
<1>3. UsersOK' /\ Kept /\ LinksOK' /\ OneIdentityPerPerson'
  BY SameUsers, FewerLinks DEF accounts, IInv
<1> QED  BY <1>1, <1>2, <1>3, ReadyStep DEF accounts, IInv, OneOnboarding

LEMMA IdleIsGood == \A w \in Workers : pending[w] = Idle => GoodJob(w)
BY DEF Idle, GoodJob, SsoOps


LEMMA InitIInv == AccountsInit => IInv
<1> SUFFICES ASSUME AccountsInit PROVE IInv
  OBVIOUS
<1>1. UsersOK /\ LinksOK /\ OneIdentityPerPerson
  BY DEF AccountsInit, UsersOK, LinksOK, OneIdentityPerPerson, NoAccount, Statuses
<1>2. SettingOK
  <2>1. PICK s \in Settings : online = s[1] /\ directory = s[2]
    BY DEF AccountsInit
  <2> QED  BY <2>1, AccountsAssumption DEF SettingOK, Subjects
<1>3. \A w \in Workers : pending[w] = Idle
  BY DEF AccountsInit
<1>4. PendingOK
  BY <1>3, IdleIsGood DEF PendingOK, AccountsInit
<1> QED  BY <1>1, <1>2, <1>3, <1>4 DEF AccountsInit, IInv, Quiet, OneOnboarding,
            OwnerOnFile, OwnerUnlessInterrupted, Idle

\* What a step may do to somebody who was disabled.
Leavers ==
  \A u \in Emails :
    (users[u].status = "DISABLED" /\ users'[u].status # "DISABLED") =>
      \E w \in Workers : /\ pending[w].op \in {"scim.create", "scim.update"}
                         /\ pending[w].user = u /\ pending'[w] = Idle

LEMMA StayIsEnough == LeaversStay => Leavers
BY DEF LeaversStay, Leavers

-----------------------------------------------------------------------------
(* Steps of sessions, and stuttering. *)

LEMMA SessionStep ==
    ASSUME IInv, tenant = "ready", UNCHANGED <<accounts, setting, pending>>
    PROVE  IInv' /\ Leavers
<1>1. UsersOK' /\ Kept /\ LeaversStay /\ LinksOK' /\ OneIdentityPerPerson'
  BY SameUsers, FewerLinks DEF accounts, IInv
<1>2. pending' = [w \in Workers |-> pending'[w]]
  BY DEF IInv, PendingOK
<1> QED  BY <1>1, <1>2, ReadyStep, StayIsEnough DEF accounts, IInv, OneOnboarding

LEMMA Stutter ==
    ASSUME IInv, UNCHANGED accountVars
    PROVE  IInv' /\ Leavers
<1> USE DEF accountVars, accounts, sessions, setting
<1>1. \A w \in Workers : GoodJob(w)'
  BY DEF IInv, PendingOK, GoodJob, Exists
<1> QED  BY <1>1 DEF IInv, UsersOK, SettingOK, PendingOK, LinksOK, Quiet, OneOnboarding,
            OwnerOnFile, OwnerUnlessInterrupted, OneIdentityPerPerson, Exists, Leavers

LEMMA SessionSteps ==
    ASSUME IInv, \/ \E u \in Emails : VerifyMfa(u) \/ Expire(u)
                 \/ \E i \in DOMAIN tokens : ExpireRefresh(i)
    PROVE  IInv' /\ Leavers
<1>1. mfaPending # {} \/ access # {} \/ tokens # <<>>
  BY DEF VerifyMfa, Expire, ExpireAccess, ExpireMfa
<1>2. tenant = "ready"
  BY <1>1, Ready
<1>3. UNCHANGED <<accounts, setting, pending>>
  BY DEF VerifyMfa, Expire, ExpireAccess, ExpireMfa, ExpireRefresh
<1> QED  BY <1>2, <1>3, SessionStep

-----------------------------------------------------------------------------
(* Steps that only note what they read, or that end with tokens alone. *)

LEMMA JobStays ==
    ASSUME IInv, UNCHANGED accounts
    PROVE  Leavers
BY SameUsers, StayIsEnough DEF accounts, IInv

LEMMA FinishSession ==
    ASSUME IInv, NEW w \in Workers, FinishLogin(w) \/ Refresh(w)
    PROVE  IInv' /\ Leavers
<1>1. tenant = "ready"
  BY Ready DEF FinishLogin, Refresh, Doing
<1>2. UNCHANGED <<accounts, setting>> /\ Begin(w, Idle)
  BY DEF FinishLogin, Refresh, End, Begin
<1>3. pending'[w] = Idle => GoodJob(w)'
  BY DEF Idle, GoodJob, SsoOps
<1> QED  BY <1>1, <1>2, <1>3, JobStep, JobStays DEF Idle

LEMMA ReadSession ==
    ASSUME IInv, NEW w \in Workers,
           \/ \E u \in Emails : Login(w, u)
           \/ \E i \in DOMAIN tokens : ReadRefresh(w, i)
    PROVE  IInv' /\ Leavers
<1>1. CASE \E u \in Emails : Login(w, u)
  <2>1. PICK u \in Emails : Login(w, u)
    BY <1>1
  <2>2. tenant = "ready"
    BY <2>1, Ready DEF Login
  <2>3. UNCHANGED <<accounts, setting>>
    BY <2>1 DEF Login
  <2>4. CASE users[u].credential = "mfa"
    <3>1. UNCHANGED pending
      BY <2>1, <2>4 DEF Login
    <3> QED  BY <2>2, <2>3, <3>1, SessionStep
  <2>5. CASE users[u].credential # "mfa"
    <3>1. Begin(w, [op |-> "login", user |-> u])
      BY <2>1, <2>5 DEF Login
    <3>2. pending'[w] = [op |-> "login", user |-> u] => GoodJob(w)'
      BY DEF GoodJob, SsoOps
    <3>3. [op |-> "login", user |-> u].op # "onboard"
      OBVIOUS
    <3> QED  BY <2>2, <2>3, <3>1, <3>2, <3>3, JobStep, JobStays
  <2> QED  BY <2>4, <2>5
<1>2. CASE \E i \in DOMAIN tokens : ReadRefresh(w, i)
  <2>1. PICK i \in DOMAIN tokens : ReadRefresh(w, i)
    BY <1>2
  <2>2. tenant = "ready"
    BY <2>1, Ready
  <2>3. UNCHANGED <<accounts, setting>> /\ Begin(w, [op |-> "refresh", token |-> i])
    BY <2>1 DEF ReadRefresh
  <2>4. pending'[w] = [op |-> "refresh", token |-> i] => GoodJob(w)'
    BY DEF GoodJob, SsoOps
  <2>5. [op |-> "refresh", token |-> i].op # "onboard"
    OBVIOUS
  <2> QED  BY <2>2, <2>3, <2>4, <2>5, JobStep, JobStays
<1> QED  BY <1>1, <1>2

\* An administrator's request.
LEMMA Authority ==
    ASSUME IInv, NEW perms, Authorised(perms)
    PROVE  tenant = "ready"
BY Ready DEF Authorised

LEMMA ReadInviteStep ==
    ASSUME IInv, NEW w \in Workers, NEW u \in Emails, NEW roles \in InviteRoles,
           ReadInvite(w, u, roles)
    PROVE  IInv' /\ Leavers
<1> DEFINE j == [op |-> "invite", user |-> u, roles |-> roles]
<1>1. tenant = "ready" /\ UNCHANGED <<accounts, setting>> /\ Begin(w, j)
  BY Authority DEF ReadInvite
<1>2. j.op = "invite" /\ j.user = u /\ j.roles \in SUBSET RoleKeys
  BY AccountsAssumption
<1>3. ASSUME pending'[w] = j PROVE GoodJob(w)'
  BY <1>2, <1>3 DEF GoodJob, SsoOps
<1> QED  BY <1>1, <1>2, <1>3, JobStep, JobStays

LEMMA StartCallbackStep ==
    ASSUME IInv, NEW w \in Workers, NEW p \in Providers, NEW person \in directory,
           StartCallback(w, p, person)
    PROVE  IInv' /\ Leavers
<1> DEFINE j == [op |-> "exchange", provider |-> p, subject |-> person[1], user |-> person[2]]
<1>1. tenant = "ready" /\ UNCHANGED <<accounts, setting>> /\ Begin(w, j)
  BY Ready DEF StartCallback
<1>2. j \in SsoJob /\ j.op = "exchange"
  BY DEF SsoJob, SsoOps, IInv, SettingOK
<1>3. ASSUME pending'[w] = j PROVE GoodJob(w)'
  BY <1>2, <1>3 DEF GoodJob, SsoOps
<1> QED  BY <1>1, <1>2, <1>3, JobStep, JobStays

\* Whom a callback resolves to, and on which of the three grounds.
LEMMA Resolved ==
    ASSUME IInv, NEW w \in Workers, ResolveUser(w)
    PROVE  \E j \in SsoJob : j.op \in {"sso.linked", "sso.existing", "sso.jit"} /\ Begin(w, j)
<1>1. pending[w].op = "exchange" /\ pending[w] \in SsoJob
  BY DEF ResolveUser, Doing, IInv, PendingOK, GoodJob, SsoOps
<1>2. CASE \E l \in LinkedBySubject(pending[w].provider, pending[w].subject) :
             Begin(w, [pending[w] EXCEPT !.op = "sso.linked", !.user = l.user])
  <2>1. PICK l \in LinkedBySubject(pending[w].provider, pending[w].subject) :
             Begin(w, [pending[w] EXCEPT !.op = "sso.linked", !.user = l.user])
    BY <1>2
  <2>2. l.user \in Emails
    BY DEF LinkedBySubject, IInv, LinksOK
  <2>3. [pending[w] EXCEPT !.op = "sso.linked", !.user = l.user] \in SsoJob
    BY <1>1, <2>2 DEF SsoJob, SsoOps
  <2>4. [pending[w] EXCEPT !.op = "sso.linked", !.user = l.user].op = "sso.linked"
    BY <1>1 DEF SsoJob
  <2> QED  BY <2>1, <2>3, <2>4
<1>3. CASE Begin(w, [pending[w] EXCEPT !.op = "sso.existing"])
  BY <1>1, <1>3 DEF SsoJob, SsoOps
<1>4. CASE Begin(w, [pending[w] EXCEPT !.op = "sso.jit"])
  BY <1>1, <1>4 DEF SsoJob, SsoOps
<1> QED  BY <1>2, <1>3, <1>4 DEF ResolveUser

LEMMA ResolveUserStep ==
    ASSUME IInv, NEW w \in Workers, ResolveUser(w)
    PROVE  IInv' /\ Leavers
<1>1. tenant = "ready" /\ UNCHANGED <<accounts, setting>>
  BY Ready DEF ResolveUser, Doing
<1>2. PICK j \in SsoJob : j.op \in {"sso.linked", "sso.existing", "sso.jit"} /\ Begin(w, j)
  BY Resolved
<1>3. ASSUME pending'[w] = j PROVE GoodJob(w)'
  BY <1>2, <1>3 DEF GoodJob, SsoOps
<1> QED  BY <1>1, <1>2, <1>3, JobStep, JobStays

LEMMA ReadScimCreateStep ==
    ASSUME IInv, NEW w \in Workers, NEW p \in Providers, NEW u \in People, NEW s,
           NEW active \in BOOLEAN, ReadScimCreate(w, p, u, s, active)
    PROVE  IInv' /\ Leavers
<1>1. tenant = "ready" /\ UNCHANGED <<accounts, setting>>
  BY Ready DEF ReadScimCreate
<1>2. PICK exists \in BOOLEAN : /\ exists = Exists(u)
                                /\ Begin(w, [op |-> "scim.create", provider |-> p, user |-> u,
                                             subject |-> s, active |-> active,
                                             exists |-> exists])
  BY DEF ReadScimCreate, Exists
<1> DEFINE j == [op |-> "scim.create", provider |-> p, user |-> u, subject |-> s,
                 active |-> active, exists |-> exists]
<1>3. u \in Emails
  BY DEF People, IInv, SettingOK
<1>4. ASSUME pending'[w] = j PROVE GoodJob(w)'
  <2>1. exists => Exists(u)'
    BY <1>1, <1>2 DEF accounts, Exists
  <2> QED  BY <1>3, <1>4, <2>1 DEF GoodJob, SsoOps
<1> QED  BY <1>1, <1>2, <1>4, JobStep, JobStays

LEMMA ReadScimStep ==
    ASSUME IInv, NEW w \in Workers, NEW p \in Providers, NEW u \in Emails,
           \/ \E to \in {"ACTIVE", "DISABLED", "same"} : ReadScimUpdate(w, p, u, to)
           \/ ReadScimDelete(w, p, u)
    PROVE  IInv' /\ Leavers
<1>1. tenant = "ready" /\ UNCHANGED <<accounts, setting>>
  BY Ready DEF ReadScimUpdate, ReadScimDelete
<1>2. CASE ReadScimDelete(w, p, u)
  <2> DEFINE j == [op |-> "scim.delete", provider |-> p, user |-> u]
  <2>1. Begin(w, j)
    BY <1>2 DEF ReadScimDelete
  <2>2. ASSUME pending'[w] = j PROVE GoodJob(w)'
    BY <2>2 DEF GoodJob, SsoOps
  <2> QED  BY <1>1, <2>1, <2>2, JobStep, JobStays
<1>3. CASE \E to \in {"ACTIVE", "DISABLED", "same"} : ReadScimUpdate(w, p, u, to)
  <2>1. PICK to \in {"ACTIVE", "DISABLED", "same"} : ReadScimUpdate(w, p, u, to)
    BY <1>3
  <2> DEFINE j == [op |-> "scim.update", user |-> u, to |-> to]
  <2>2. Begin(w, j)
    BY <2>1 DEF ReadScimUpdate
  <2>3. ASSUME pending'[w] = j PROVE GoodJob(w)'
    BY <2>3 DEF GoodJob, SsoOps
  <2> QED  BY <1>1, <2>2, <2>3, JobStep, JobStays
<1> QED  BY <1>2, <1>3

-----------------------------------------------------------------------------
(* Identity providers. *)

LEMMA AdministerStep ==
    ASSUME IInv, Administer
    PROVE  IInv' /\ Leavers
<1>1. PICK p \in Providers : \/ CreateProvider(p) \/ DeleteProvider(p)
                             \/ RegenerateScimToken(p) \/ DisableScim(p)
  BY DEF Administer
<1>2. tenant = "ready"
  BY <1>1, Authority DEF CreateProvider, DeleteProvider, RegenerateScimToken, DisableScim
<1>3. UNCHANGED <<tenant, interrupted, users, setting, pending>>
  BY <1>1 DEF CreateProvider, DeleteProvider, RegenerateScimToken, DisableScim
<1>4. UsersOK' /\ Kept /\ LeaversStay
  BY <1>3, SameUsers DEF IInv
<1>5. LinksOK' /\ OneIdentityPerPerson'
  <2>1. CASE CreateProvider(p)
    BY <1>3, <2>1 DEF CreateProvider, IInv, LinksOK, OneIdentityPerPerson, Exists
  <2>2. CASE DeleteProvider(p)
    BY <1>3, <2>2 DEF DeleteProvider, IInv, LinksOK, OneIdentityPerPerson, Exists
  <2>3. CASE RegenerateScimToken(p) \/ DisableScim(p)
    BY <1>4, <2>3, FewerLinks DEF RegenerateScimToken, DisableScim, IInv
  <2> QED  BY <1>1, <2>1, <2>2, <2>3
<1>6. pending' = [w \in Workers |-> pending'[w]]
  BY <1>3 DEF IInv, PendingOK
<1> QED  BY <1>2, <1>3, <1>4, <1>5, <1>6, ReadyStep,
            StayIsEnough DEF IInv, OneOnboarding

-----------------------------------------------------------------------------
(* Steps that write accounts. *)

LEMMA EndOfJob ==
    ASSUME IInv, NEW w \in Workers, End(w)
    PROVE  /\ pending' = [v \in Workers |-> pending'[v]]
           /\ \A v \in Workers : \/ pending'[v] = pending[v]
                                 \/ GoodJob(v)' /\ pending'[v].op # "onboard"
           /\ pending'[w] = Idle
<1>1. pending = [v \in Workers |-> pending[v]]
  BY DEF IInv, PendingOK
<1>2. /\ pending' = [v \in Workers |-> pending'[v]] /\ pending'[w] = Idle
      /\ \A v \in Workers \ {w} : pending'[v] = pending[v]
  BY <1>1 DEF End
<1>3. GoodJob(w)' /\ pending'[w].op # "onboard"
  BY <1>2 DEF Idle, GoodJob, SsoOps
<1> QED  BY <1>2, <1>3

\* A handler that ends in a tenant that is ready, having written accounts and links.
LEMMA WriteStep ==
    ASSUME IInv, tenant = "ready", NEW w \in Workers, End(w),
           UNCHANGED <<tenant, setting>>,
           UsersOK', Kept, LinksOK', OneIdentityPerPerson'
    PROVE  IInv'
<1>1. /\ pending' = [v \in Workers |-> pending'[v]]
      /\ \A v \in Workers : \/ pending'[v] = pending[v]
                            \/ GoodJob(v)' /\ pending'[v].op # "onboard"
  BY EndOfJob
<1> QED  BY <1>1, ReadyStep DEF IInv, OneOnboarding

LEMMA CredentialStep ==
    ASSUME IInv, NEW u \in Emails, EnrollMfa(u) \/ ActivateMfa(u)
    PROVE  IInv' /\ Leavers
<1>1. tenant = "ready"
  BY Ready DEF EnrollMfa, ActivateMfa
<1>2. PICK c \in {"enrolled", "mfa"} : SetCredential(u, c)
  BY DEF EnrollMfa, ActivateMfa
<1>3. UsersOK' /\ Kept /\ LeaversStay
  BY <1>2, NewCredential DEF SetCredential, IInv
<1>4. LinksOK' /\ OneIdentityPerPerson'
  BY <1>2, <1>3, FewerLinks DEF SetCredential, IInv
<1>5. pending' = [w \in Workers |-> pending'[w]]
  BY <1>2 DEF SetCredential, IInv, PendingOK
<1> QED  BY <1>1, <1>2, <1>3, <1>4, <1>5, ReadyStep, StayIsEnough
         DEF SetCredential, IInv, OneOnboarding

LEMMA InviteStep ==
    ASSUME IInv, NEW w \in Workers, Invite(w)
    PROVE  IInv' /\ Leavers
<1>1. tenant = "ready"
  BY Ready DEF Invite, Doing
<1>2. pending[w].user \in Emails /\ pending[w].roles \in SUBSET RoleKeys
  BY DEF Invite, Doing, IInv, PendingOK, GoodJob
<1> DEFINE r == [status |-> "INVITED", roles |-> pending[w].roles, credential |-> "none"]
<1>3. r \in Account /\ r.status # "NONE"
  BY <1>2 DEF Account, Statuses
<1>4. UsersOK' /\ Kept /\ LeaversStay
  BY <1>2, <1>3, NewAccount DEF Invite, IInv
<1>5. LinksOK' /\ OneIdentityPerPerson'
  BY <1>4, FewerLinks DEF Invite, IInv
<1> QED  BY <1>1, <1>4, <1>5, WriteStep, StayIsEnough DEF Invite

LEMMA ProvisionedOK ==
    ASSUME NEW p \in Providers, NEW status \in {"ACTIVE", "DISABLED"}
    PROVE  Provisioned(p, status) \in Account /\ Provisioned(p, status).status # "NONE"
BY DEF Provisioned, Account, Statuses

LEMMA SignInStep ==
    ASSUME IInv, NEW w \in Workers, SignIn(w)
    PROVE  IInv' /\ Leavers
<1>1. pending[w].op \in {"sso.linked", "sso.existing", "sso.jit"} /\ pending[w] \in SsoJob
  BY DEF SignIn, IInv, PendingOK, GoodJob, SsoOps
<1>2. tenant = "ready"
  BY <1>1, Ready
<1>3. PICK p \in Providers, s \in Subjects, u \in Emails :
        pending[w].provider = p /\ pending[w].subject = s /\ pending[w].user = u
  BY <1>1 DEF SsoJob
<1>4. /\ UNCHANGED <<tenant, interrupted, providers, setting>> /\ End(w)
      /\ users'[u].status = "ACTIVE"
  BY <1>3 DEF SignIn
<1>5. UsersOK' /\ Kept /\ LeaversStay /\ LinksOK' /\ OneIdentityPerPerson'
  <2>1. CASE pending[w].op = "sso.linked"
    <3>1. users' = ActivateIfInvited(u) /\ UNCHANGED links
      BY <1>3, <2>1 DEF SignIn
    <3>2. UsersOK' /\ Kept /\ LeaversStay
      BY <3>1, Activated DEF IInv
    <3> QED  BY <1>4, <3>1, <3>2, FewerLinks DEF IInv
  <2>2. CASE pending[w].op = "sso.existing"
    <3>1. users' = ActivateIfInvited(u) /\ LinkIdentity(p, u, s)
      BY <1>3, <2>2 DEF SignIn
    <3>2. UsersOK' /\ Kept /\ LeaversStay
      BY <3>1, Activated DEF IInv
    <3>3. Exists(u)'
      BY <1>4 DEF Exists
    <3> QED  BY <1>4, <3>1, <3>2, <3>3, LinkedOnce DEF IInv
  <2>3. CASE pending[w].op = "sso.jit"
    <3>1. /\ ~Exists(u) /\ LinkIdentity(p, u, s)
          /\ users' = [users EXCEPT ![u] = Provisioned(p, "ACTIVE")]
      BY <1>3, <2>3 DEF SignIn
    <3>2. UsersOK' /\ Kept /\ LeaversStay /\ Exists(u)'
      BY <3>1, ProvisionedOK, NewAccount DEF IInv
    <3> QED  BY <1>4, <3>1, <3>2, LinkedOnce DEF IInv
  <2> QED  BY <1>1, <2>1, <2>2, <2>3
<1> QED  BY <1>2, <1>4, <1>5, WriteStep, StayIsEnough

\* A SCIM call that sets the status of an account is the one way back for a leaver.
LEMMA ScimCall ==
    ASSUME NEW w \in Workers, NEW u \in Emails,
           pending[w].op \in {"scim.create", "scim.update"}, pending[w].user = u,
           pending'[w] = Idle, \A v \in Emails \ {u} : users'[v] = users[v]
    PROVE  Leavers
BY DEF Leavers

LEMMA ScimCreateStep ==
    ASSUME IInv, NEW w \in Workers, ScimCreate(w)
    PROVE  IInv' /\ Leavers
<1>1. pending[w].op = "scim.create"
  BY DEF ScimCreate, Doing
<1>2. tenant = "ready"
  BY <1>1, Ready
<1>3. GoodJob(w)
  BY DEF IInv, PendingOK
<1>4. PICK p \in Providers, u \in Emails, active \in BOOLEAN :
        /\ pending[w].provider = p /\ pending[w].user = u
        /\ pending[w].active = active
  BY <1>1, <1>3 DEF GoodJob
<1>5. StatusOf(active) \in {"ACTIVE", "DISABLED"}
  BY DEF StatusOf
<1>6. /\ UNCHANGED <<tenant, interrupted, providers, setting>> /\ End(w)
      /\ LinkIdentity(p, u, pending[w].subject)
  BY <1>4 DEF ScimCreate
<1>7. UsersOK' /\ Kept /\ Exists(u)' /\ \A v \in Emails \ {u} : users'[v] = users[v]
  <2>1. CASE pending[w].exists
    <3>1. users' = [users EXCEPT ![u].status = StatusOf(active)]
      BY <1>4, <2>1 DEF ScimCreate
    <3> QED  BY <1>5, <3>1, NewStatus DEF IInv
  <2>2. CASE ~pending[w].exists
    <3>1. ~Exists(u) /\ users' = [users EXCEPT ![u] = Provisioned(p, StatusOf(active))]
      BY <1>4, <2>2 DEF ScimCreate
    <3>2. UsersOK' /\ Kept /\ Exists(u)'
      BY <1>5, <3>1, ProvisionedOK, NewAccount DEF IInv
    <3> QED  BY <3>1, <3>2 DEF IInv, UsersOK
  <2> QED  BY <2>1, <2>2
<1>8. LinksOK' /\ OneIdentityPerPerson'
  BY <1>6, <1>7, LinkedOnce DEF IInv
<1>9. Leavers
  BY <1>1, <1>4, <1>6, <1>7, ScimCall, EndOfJob
<1> QED  BY <1>2, <1>6, <1>7, <1>8, <1>9, WriteStep

LEMMA ScimUpdateStep ==
    ASSUME IInv, NEW w \in Workers, ScimUpdate(w)
    PROVE  IInv' /\ Leavers
<1>1. pending[w].op = "scim.update"
  BY DEF ScimUpdate, Doing
<1>2. tenant = "ready"
  BY <1>1, Ready
<1>3. PICK u \in Emails, to \in {"ACTIVE", "DISABLED", "same"} :
        pending[w].user = u /\ pending[w].to = to
  BY <1>1 DEF IInv, PendingOK, GoodJob
<1>4. UNCHANGED <<tenant, interrupted, providers, links, setting>> /\ End(w)
  BY DEF ScimUpdate
<1>5. UsersOK' /\ Kept /\ \A v \in Emails \ {u} : users'[v] = users[v]
  <2>1. CASE to = "same"
    <3>1. UNCHANGED users
      BY <1>3, <2>1 DEF ScimUpdate
    <3> QED  BY <3>1, SameUsers DEF IInv
  <2>2. CASE to # "same"
    <3>1. users' = [users EXCEPT ![u].status = to]
      BY <1>3, <2>2 DEF ScimUpdate
    <3> QED  BY <2>2, <3>1, NewStatus DEF IInv
  <2> QED  BY <2>1, <2>2
<1>6. LinksOK' /\ OneIdentityPerPerson'
  BY <1>4, <1>5, FewerLinks DEF IInv
<1>7. Leavers
  BY <1>1, <1>3, <1>4, <1>5, ScimCall, EndOfJob
<1> QED  BY <1>2, <1>4, <1>5, <1>6, <1>7, WriteStep

LEMMA ScimDeleteStep ==
    ASSUME IInv, NEW w \in Workers, ScimDelete(w)
    PROVE  IInv' /\ Leavers
<1>1. pending[w].op = "scim.delete"
  BY DEF ScimDelete, Doing
<1>2. tenant = "ready"
  BY <1>1, Ready
<1>3. PICK u \in Emails : pending[w].user = u
  BY <1>1 DEF IInv, PendingOK, GoodJob
<1>4. /\ UNCHANGED <<tenant, interrupted, providers, setting>> /\ End(w)
      /\ users' = [users EXCEPT ![u].status = "DISABLED"]
      /\ links' \subseteq links
  BY <1>3 DEF ScimDelete
<1>5. /\ UsersOK' /\ Kept /\ users'[u].status = "DISABLED"
      /\ \A v \in Emails \ {u} : users'[v] = users[v]
  BY <1>4, NewStatus DEF IInv
<1>6. LinksOK' /\ OneIdentityPerPerson'
  BY <1>4, <1>5, FewerLinks DEF IInv
<1>7. LeaversStay
  BY <1>5 DEF LeaversStay
<1> QED  BY <1>2, <1>4, <1>5, <1>6, <1>7, WriteStep, StayIsEnough

-----------------------------------------------------------------------------
(* Onboarding, and handlers that stop. *)

LEMMA CreateTenantRowStep ==
    ASSUME IInv, NEW w \in Workers, CreateTenantRow(w)
    PROVE  IInv' /\ Leavers
<1>1. /\ tenant = "absent" /\ tenant' = "bare" /\ pending[w] = Idle
      /\ UNCHANGED <<interrupted, users, providers, scim, links, sessions, setting>>
  BY DEF CreateTenantRow, Free
<1>2. /\ pending' = [v \in Workers |-> pending'[v]]
      /\ pending'[w] = [op |-> "onboard"]
      /\ \A v \in Workers \ {w} : pending'[v] = pending[v]
  BY DEF CreateTenantRow, Begin, IInv, PendingOK
<1>3. \A v \in Workers : GoodJob(v)'
  <2> SUFFICES ASSUME NEW v \in Workers PROVE GoodJob(v)'
    OBVIOUS
  <2>1. CASE v = w
    BY <1>2, <2>1 DEF GoodJob, SsoOps
  <2>2. CASE v # w
    <3>1. GoodJob(v)
      BY DEF IInv, PendingOK
    <3> QED  BY <1>1, <1>2, <2>2, <3>1 DEF GoodJob, Exists
  <2> QED  BY <2>1, <2>2
<1>4. UsersOK' /\ SettingOK' /\ PendingOK' /\ LinksOK' /\ OneIdentityPerPerson'
  BY <1>1, <1>2, <1>3 DEF IInv, UsersOK, SettingOK, setting, PendingOK, LinksOK,
     OneIdentityPerPerson, Exists
<1>5. \A v \in Workers : pending[v].op # "onboard"
  BY <1>1 DEF IInv, OneOnboarding
<1>6. OneOnboarding' /\ OwnerOnFile' /\ OwnerUnlessInterrupted'
  BY <1>1, <1>2, <1>5 DEF IInv, OneOnboarding, OwnerOnFile, OwnerUnlessInterrupted
<1>7. Quiet'
  BY <1>1, <1>2 DEF IInv, Quiet, sessions
<1>8. Leavers
  BY <1>1, SameUsers, StayIsEnough DEF IInv
<1> QED  BY <1>4, <1>6, <1>7, <1>8 DEF IInv

LEMMA SeedTenantStep ==
    ASSUME IInv, NEW w \in Workers, SeedTenant(w)
    PROVE  IInv' /\ Leavers
<1> DEFINE r == [status |-> "ACTIVE", roles |-> {"tenant_admin"}, credential |-> "password"]
<1>1. /\ tenant = "bare" /\ tenant' = "ready" /\ pending[w].op = "onboard"
      /\ users' = [users EXCEPT ![Owner] = r] /\ End(w)
      /\ UNCHANGED <<interrupted, providers, scim, links, sessions, setting>>
  BY DEF SeedTenant, Doing, IInv, OneOnboarding
<1>2. ~Exists(Owner)
  BY <1>1, AccountsAssumption DEF IInv, Quiet, Exists, NoAccount
<1>3. r \in Account /\ r.status # "NONE"
  BY DEF Account, Statuses, RoleKeys, TENANT_SYSTEM_ROLES
<1>4. UsersOK' /\ Kept /\ LeaversStay /\ Exists(Owner)'
  BY <1>1, <1>2, <1>3, NewAccount, AccountsAssumption DEF IInv
<1>5. users'[Owner] = r
  BY <1>1, AccountsAssumption DEF IInv, UsersOK
<1>6. LinksOK' /\ OneIdentityPerPerson'
  BY <1>1, <1>4, FewerLinks DEF IInv
<1>7. \A v \in Workers \ {w} : pending'[v].op = "idle" /\ pending'[v] = pending[v]
  BY <1>1, EndOfJob DEF IInv, Quiet, OneOnboarding, End
<1>8. pending'[w] = Idle /\ pending' = [v \in Workers |-> pending'[v]]
  BY <1>1, EndOfJob
<1>9. PendingOK' /\ \A v \in Workers : pending'[v].op = "idle"
  BY <1>7, <1>8 DEF PendingOK, GoodJob, SsoOps, Idle
<1> QED  BY <1>1, <1>4, <1>5, <1>6, <1>9, StayIsEnough DEF IInv, SettingOK, setting, Quiet,
            OneOnboarding, OwnerOnFile, OwnerUnlessInterrupted

LEMMA AbortStep ==
    ASSUME IInv, NEW w \in Workers, Abort(w)
    PROVE  IInv' /\ Leavers
<1>1. /\ UNCHANGED <<tenant, users, providers, scim, links, sessions, setting>> /\ End(w)
      /\ interrupted' = (interrupted \/ pending[w].op = "onboard")
  BY DEF Abort, IInv, OneOnboarding
<1>2. UsersOK' /\ Kept /\ LeaversStay /\ LinksOK' /\ OneIdentityPerPerson'
  BY <1>1, SameUsers, FewerLinks DEF IInv
<1>3. CASE tenant = "ready"
  <2>1. IInv'
    BY <1>1, <1>2, <1>3, WriteStep
  <2> QED  BY <1>2, <2>1, StayIsEnough
<1>4. CASE tenant # "ready"
  <2>1. \A v \in Workers \ {w} : pending'[v] = pending[v]
    BY <1>1 DEF End, IInv, PendingOK
  <2>2. pending'[w] = Idle /\ pending' = [v \in Workers |-> pending'[v]]
    BY <1>1, EndOfJob
  <2>3. \A v \in Workers : pending'[v].op \in {"idle", "onboard"}
    BY <1>4, <2>1, <2>2 DEF IInv, Quiet, Idle
  <2>4. PendingOK'
    BY <2>2, <2>3 DEF PendingOK, GoodJob, SsoOps
  <2>5. Quiet' /\ SettingOK' /\ OwnerOnFile'
    BY <1>1, <1>4, <2>3 DEF IInv, Quiet, sessions, SettingOK, setting, OwnerOnFile
  <2>6. OneOnboarding'
    BY <1>1, <2>1, <2>2 DEF IInv, OneOnboarding, Idle
  <2>7. OwnerUnlessInterrupted'
    BY <1>1, <1>4, <2>1 DEF IInv, OwnerUnlessInterrupted
  <2> QED  BY <1>2, <2>4, <2>5, <2>6, <2>7, StayIsEnough DEF IInv
<1> QED  BY <1>3, <1>4

-----------------------------------------------------------------------------
LEMMA Step == IInv /\ [AccountsNext]_accountVars => IInv' /\ Leavers
<1> SUFFICES ASSUME IInv, [AccountsNext]_accountVars PROVE IInv' /\ Leavers
  OBVIOUS
<1>1. CASE \E w \in Workers : Reading(w)
  BY <1>1, CreateTenantRowStep, ReadSession, ReadInviteStep, StartCallbackStep,
     ReadScimCreateStep, ReadScimStep DEF Reading
<1>2. CASE \E w \in Workers : Finishing(w)
  BY <1>2, SeedTenantStep, InviteStep, FinishSession, ResolveUserStep, SignInStep,
     ScimCreateStep, ScimUpdateStep, ScimDeleteStep, AbortStep DEF Finishing
<1>3. CASE \/ \E u \in Emails : VerifyMfa(u) \/ EnrollMfa(u) \/ ActivateMfa(u) \/ Expire(u)
           \/ \E i \in DOMAIN tokens : ExpireRefresh(i)
  BY <1>3, SessionSteps, CredentialStep
<1>4. CASE Administer
  BY <1>4, AdministerStep
<1>5. CASE UNCHANGED accountVars
  BY <1>5, Stutter
<1> QED  BY <1>1, <1>2, <1>3, <1>4, <1>5 DEF AccountsNext

\* The invariant holds of every execution: what a handler remembers is about people, whoever
\* existed still exists, and nothing happens to a tenant before it is seeded.
THEOREM Invariant == AccountsSpec => []IInv
<1> QED  BY InitIInv, Step, PTL DEF AccountsSpec

\* However sign-ins, SCIM calls and the deletion of providers overlap, a provider knows a
\* person by one identity, and no identity outlives its provider (sso.service.ts,
\* scim.service.ts).
THEOREM IdentitiesConverge == AccountsSpec => []OneIdentityPerPerson
<1>1. IInv => OneIdentityPerPerson
  BY DEF IInv
<1> QED  BY <1>1, Invariant, PTL

\* A seeded tenant keeps its administrator and a bare one is being seeded, or its onboarding
\* was interrupted between the two commits (tenants.service.ts).
THEOREM OwnerStays == AccountsSpec => []OwnerUnlessInterrupted
<1>1. IInv => OwnerUnlessInterrupted
  BY DEF IInv
<1> QED  BY <1>1, Invariant, PTL

\* Nobody but the identity provider's SCIM call brings back an account it disabled: neither a
\* sign-in, nor an invitation read before, nor a just-in-time account.
THEOREM LeaversReturnByScim == AccountsSpec => ReactivatedByScim
<1>1. IInv /\ [AccountsNext]_accountVars =>
        [\A u \in Emails :
           (users[u].status = "DISABLED" /\ users'[u].status # "DISABLED") =>
             \E w \in Workers : /\ pending[w].op \in {"scim.create", "scim.update"}
                                /\ pending[w].user = u /\ pending'[w] = Idle]_accountVars
  BY Step DEF Leavers
<1> QED  BY <1>1, Invariant, PTL DEF AccountsSpec, ReactivatedByScim

-----------------------------------------------------------------------------
(* Sessions.  A second invariant: what the refresh tokens on file are, and, *)
(* when a single handler serves the tenant, what it may still rely on of    *)
(* what it has read.                                                        *)

Token == [user : Emails, family : Nat, live : BOOLEAN]

\* Each token is of a family begun at or before it.
TokensOK ==
  /\ tokens \in Seq(Token)
  /\ \A i \in DOMAIN tokens : tokens[i].family <= Len(tokens)
  /\ access \subseteq Emails /\ mfaPending \subseteq Emails

SessionJob(w) ==
  /\ pending[w] # Idle => w \in online
  /\ pending[w].op = "login" => pending[w].user \in Emails
  /\ pending[w].op = "refresh" => pending[w].token \in DOMAIN tokens

SessionsOK == TokensOK /\ \A w \in Workers : SessionJob(w)

\* What a single handler has read of a session is still so: the account is active, and the
\* token it is about to exchange is the only one of its family that may be live.
StillGood(w) ==
  /\ pending[w].op = "login" => Active(pending[w].user)
  /\ pending[w].op = "refresh" =>
       LET old == tokens[pending[w].token]
       IN /\ Active(old.user)
          /\ \A j \in DOMAIN tokens :
               tokens[j].live /\ tokens[j].family = old.family => j = pending[w].token

Rotated == \A i, j \in DOMAIN tokens :
  (tokens[i].live /\ tokens[j].live /\ tokens[i].family = tokens[j].family) => i = j

AloneInv == (\A w \in Workers : StillGood(w)) /\ Rotated

SessionInv == SessionsOK /\ (Cardinality(online) = 1 => AloneInv)

-----------------------------------------------------------------------------
(* The refresh tokens on file. *)

Old(i) == tokens'[i].user = tokens[i].user /\ tokens'[i].family = tokens[i].family

\* No token is issued, none comes back to life.
Weaker ==
  /\ tokens' \in Seq(Token) /\ Len(tokens') = Len(tokens)
  /\ \A i \in DOMAIN tokens : Old(i) /\ (tokens'[i].live => tokens[i].live)

\* The token t is issued, no other comes back to life.
Longer(t) ==
  /\ tokens' \in Seq(Token) /\ Len(tokens') = Len(tokens) + 1
  /\ \A i \in DOMAIN tokens : Old(i) /\ (tokens'[i].live => tokens[i].live)
  /\ tokens'[Len(tokens) + 1] = t

LEMMA TokenFacts ==
    ASSUME TokensOK
    PROVE  /\ Len(tokens) \in Nat /\ DOMAIN tokens = 1..Len(tokens)
           /\ \A i \in DOMAIN tokens : tokens[i] \in Token
BY DEF TokensOK

LEMMA RevokedWeaker ==
    ASSUME TokensOK, NEW u \in Emails, tokens' = Revoked(u)
    PROVE  Weaker /\ \A i \in DOMAIN tokens : tokens'[i].live => tokens'[i].user # u
<1>1. DOMAIN tokens = 1..Len(tokens) /\ Len(tokens) \in Nat
  BY TokenFacts
<1>2. ASSUME NEW i \in DOMAIN tokens
      PROVE  /\ tokens'[i] \in Token /\ Old(i) /\ (tokens'[i].live => tokens[i].live)
             /\ tokens'[i].live => tokens'[i].user # u
  <2>1. tokens[i] \in Token
    BY TokenFacts
  <2>2. tokens'[i] = IF tokens[i].user = u THEN [tokens[i] EXCEPT !.live = FALSE] ELSE tokens[i]
    BY DEF Revoked
  <2> QED  BY <2>1, <2>2 DEF Token, Old
<1>3. tokens' \in [1..Len(tokens) -> Token]
  BY <1>1, <1>2 DEF Revoked
<1>4. tokens' \in Seq(Token) /\ Len(tokens') = Len(tokens)
  BY <1>1, <1>3
<1> QED  BY <1>2, <1>4 DEF Weaker

LEMMA SameTokens ==
    ASSUME TokensOK, UNCHANGED tokens
    PROVE  Weaker
BY DEF TokensOK, Weaker, Old

LEMMA WeakerKeeps ==
    ASSUME TokensOK, Weaker, access' \subseteq Emails, mfaPending' \subseteq Emails
    PROVE  TokensOK' /\ (Rotated => Rotated')
<1>1. DOMAIN tokens' = DOMAIN tokens
  BY DEF Weaker, TokensOK
<1> QED  BY <1>1 DEF Weaker, TokensOK, Rotated, Old

LEMMA LongerKeeps ==
    ASSUME TokensOK, NEW t \in Token, Longer(t), t.family <= Len(tokens) + 1,
           access' \subseteq Emails, mfaPending' \subseteq Emails
    PROVE  /\ TokensOK'
           /\ Rotated /\ (\A j \in DOMAIN tokens : tokens'[j].live => tokens[j].family # t.family)
                => Rotated'
<1>1. DOMAIN tokens' = 1..(Len(tokens) + 1) /\ DOMAIN tokens = 1..Len(tokens) /\ Len(tokens) \in Nat
  BY DEF Longer, TokensOK
<1>2. \A i \in DOMAIN tokens' : i \in DOMAIN tokens \/ i = Len(tokens) + 1
  BY <1>1
<1>3. TokensOK'
  <2>1. ASSUME NEW i \in DOMAIN tokens'
        PROVE  tokens'[i].family <= Len(tokens')
    <3>1. CASE i \in DOMAIN tokens
      <4>1. tokens'[i].family = tokens[i].family /\ tokens[i].family <= Len(tokens)
        BY <3>1 DEF Longer, TokensOK, Old
      <4>2. tokens[i].family \in Nat /\ Len(tokens') = Len(tokens) + 1
        BY <3>1, TokenFacts DEF Longer, Token
      <4> QED  BY <1>1, <4>1, <4>2
    <3>2. CASE i = Len(tokens) + 1
      BY <3>2 DEF Longer
    <3> QED  BY <1>2, <3>1, <3>2
  <2> QED  BY <2>1 DEF Longer, TokensOK
<1>4. ASSUME Rotated, \A j \in DOMAIN tokens : tokens'[j].live => tokens[j].family # t.family
      PROVE  Rotated'
  BY <1>2, <1>4 DEF Rotated, Longer, Old
<1> QED  BY <1>3, <1>4

LEMMA FreshToken ==
    ASSUME NEW u \in Emails, NEW n \in Nat
    PROVE  [user |-> u, family |-> n + 1, live |-> TRUE] \in Token
BY DEF Token

\* A new session begins a family of its own.
LEMMA Issued ==
    ASSUME TokensOK, NEW u \in Emails, IssueSession(u)
    PROVE  /\ Longer([user |-> u, family |-> Len(tokens) + 1, live |-> TRUE])
           /\ Len(tokens) + 1 \in Nat
           /\ \A j \in DOMAIN tokens : tokens[j].family # Len(tokens) + 1
           /\ access' \subseteq Emails
<1>1. Len(tokens) \in Nat /\ DOMAIN tokens = 1..Len(tokens)
  BY TokenFacts
<1>2. PICK t \in Token : t = [user |-> u, family |-> Len(tokens) + 1, live |-> TRUE]
  BY <1>1, FreshToken
<1>3. /\ tokens' \in Seq(Token) /\ Len(tokens') = Len(tokens) + 1
      /\ tokens'[Len(tokens) + 1] = t
      /\ \A i \in DOMAIN tokens : tokens'[i] = tokens[i]
  BY <1>1, <1>2 DEF IssueSession, TokensOK
<1>4. \A j \in DOMAIN tokens : tokens[j].family \in Nat /\ tokens[j].family <= Len(tokens)
  BY TokenFacts DEF Token, TokensOK
<1>5. \A j \in DOMAIN tokens : tokens[j].family # Len(tokens) + 1
  BY <1>1, <1>4
<1> QED  BY <1>1, <1>2, <1>3, <1>5 DEF Longer, Old, IssueSession, TokensOK

-----------------------------------------------------------------------------
(* One handler at a time. *)

LEMMA OneAtWork ==
    ASSUME IInv, SessionsOK, Cardinality(online) = 1, NEW w \in Workers, pending[w] # Idle,
           NEW v \in Workers, v # w
    PROVE  pending[v] = Idle /\ v \notin online
<1>1. IsFiniteSet(online)
  BY AccountsAssumption, FS_Subset DEF IInv, SettingOK
<1>2. PICK x : online = {x}
  BY <1>1, FS_Singleton
<1> QED  BY <1>2 DEF SessionsOK, SessionJob

\* Somebody who serves this tenant is alone, or is not.
LEMMA AloneOrNot ==
    ASSUME IInv, NEW w \in online
    PROVE  Cardinality(online) = 1 \/ Cardinality(online) > 1
<1>1. IsFiniteSet(online)
  BY AccountsAssumption, FS_Subset DEF IInv, SettingOK
<1>2. Cardinality(online) \in Nat /\ Cardinality(online) # 0
  BY <1>1, FS_CardinalityType, FS_EmptySet
<1> QED  BY <1>2

\* What a step that issues a token promises of its user.
Served ==
  Len(tokens') > Len(tokens) =>
    LET user == tokens'[Len(tokens')].user
    IN users'[user].status = "ACTIVE" \/ user \in mfaPending \/ Cardinality(online) > 1

LEMMA NoneServed ==
    ASSUME TokensOK, Len(tokens') = Len(tokens)
    PROVE  Served
BY TokenFacts DEF Served

\* What a step does to those whom it disables, and to those who are disabled.
SignsOut ==
  \A u \in Emails : users'[u].status = "DISABLED" =>
    /\ users[u].status # "DISABLED" => Usable(u)' = {}
    /\ users[u].status = "DISABLED" =>
         /\ Admitted(u)' \subseteq Admitted(u) /\ (u \in mfaPending' => u \in mfaPending)
         /\ \A i \in Usable(u)' \ Usable(u) :
              i = Len(tokens') /\ (u \in mfaPending \/ Admitted(u)' # Admitted(u))

\* Whom a handler comes to admit is not disabled.
AdmitsSome(w) ==
  \A u \in Emails : Admits(w, u)' /\ ~Admits(w, u) => users[u].status # "DISABLED"

\* A handler that goes on, or that ends, admits nobody new.
LEMMA AdmitsNoMore ==
    ASSUME SessionInv, \A i \in DOMAIN tokens : Old(i), NEW w \in Workers,
           pending'[w] = pending[w] \/ pending'[w] = Idle
    PROVE  AdmitsSome(w)
<1>1. CASE pending'[w] = pending[w]
  BY <1>1 DEF AdmitsSome, Admits, SessionInv, SessionsOK, SessionJob, Old
<1>2. CASE pending'[w] = Idle
  BY <1>2 DEF AdmitsSome, Admits, Idle
<1> QED  BY <1>1, <1>2

\* Steps that issue no token: those whom they disable are left none.
LEMMA WeakerSignsOut ==
    ASSUME SessionInv, Weaker, \A w \in Workers : AdmitsSome(w),
           \A u \in Emails : u \in mfaPending' => u \in mfaPending \/ users[u].status # "DISABLED",
           \A u \in Emails : users'[u].status = "DISABLED" =>
             \/ users[u].status = "DISABLED"
             \/ \A i \in DOMAIN tokens : tokens[i].user = u => ~tokens'[i].live
    PROVE  SignsOut
<1> SUFFICES ASSUME NEW u \in Emails, users'[u].status = "DISABLED"
             PROVE  /\ users[u].status # "DISABLED" => Usable(u)' = {}
                    /\ users[u].status = "DISABLED" =>
                         /\ Admitted(u)' \subseteq Admitted(u)
                         /\ u \in mfaPending' => u \in mfaPending
                         /\ Usable(u)' \subseteq Usable(u)
  BY DEF SignsOut
<1>1. DOMAIN tokens' = DOMAIN tokens
  BY DEF Weaker, SessionInv, SessionsOK, TokensOK
<1>2. Usable(u)' \subseteq Usable(u)
  BY <1>1 DEF Usable, Weaker, Old
<1>3. users[u].status # "DISABLED" => Usable(u)' = {}
  BY <1>1 DEF Usable, Weaker, Old
<1>4. users[u].status = "DISABLED" => Admitted(u)' \subseteq Admitted(u)
  BY DEF Admitted, AdmitsSome
<1> QED  BY <1>2, <1>3, <1>4

\* Steps that issue one: they disable nobody, and whom they serve had been admitted.
LEMMA LongerSignsOut ==
    ASSUME SessionInv, NEW t \in Token, Longer(t), \A w \in Workers : AdmitsSome(w),
           UNCHANGED mfaPending,
           \A u \in Emails : users'[u].status = "DISABLED" => users[u].status = "DISABLED",
           users'[t.user].status = "DISABLED" =>
             \/ t.user \in mfaPending
             \/ \E w \in Workers : Admits(w, t.user) /\ ~Admits(w, t.user)'
    PROVE  SignsOut
<1> SUFFICES ASSUME NEW u \in Emails, users'[u].status = "DISABLED"
             PROVE  /\ Admitted(u)' \subseteq Admitted(u)
                    /\ \A i \in Usable(u)' \ Usable(u) :
                         i = Len(tokens') /\ (u \in mfaPending \/ Admitted(u)' # Admitted(u))
  BY DEF SignsOut
<1>1. /\ DOMAIN tokens' = 1..(Len(tokens) + 1) /\ DOMAIN tokens = 1..Len(tokens)
      /\ Len(tokens) \in Nat /\ Len(tokens') = Len(tokens) + 1
  BY DEF Longer, SessionInv, SessionsOK, TokensOK
<1>2. Admitted(u)' \subseteq Admitted(u)
  BY DEF Admitted, AdmitsSome
<1>3. ASSUME NEW i \in Usable(u)' \ Usable(u)
      PROVE  i = Len(tokens') /\ (u \in mfaPending \/ Admitted(u)' # Admitted(u))
  <2>1. i \in DOMAIN tokens' /\ tokens'[i].user = u /\ tokens'[i].live
    BY <1>3 DEF Usable
  <2>2. i \notin DOMAIN tokens
    BY <1>3, <2>1 DEF Usable, Longer, Old
  <2>3. i = Len(tokens') /\ t.user = u
    BY <1>1, <2>1, <2>2 DEF Longer
  <2>4. u \in mfaPending \/ \E w \in Workers : Admits(w, u) /\ ~Admits(w, u)'
    BY <2>3
  <2>5. (\E w \in Workers : Admits(w, u) /\ ~Admits(w, u)') => Admitted(u)' # Admitted(u)
    BY DEF Admitted
  <2> QED  BY <2>3, <2>4, <2>5
<1> QED  BY <1>2, <1>3

-----------------------------------------------------------------------------
(* The three kinds of step: a handler reads, a handler ends, or something   *)
(* happens beside the handlers.                                             *)

LEMMA ReadKeeps ==
    ASSUME IInv, SessionInv, NEW w \in Workers, NEW j, w \in online, Begin(w, j),
           UNCHANGED <<users, tokens, access, mfaPending, online>>,
           j.op = "login" => j.user \in Emails /\ Active(j.user),
           j.op = "refresh" => /\ j.token \in DOMAIN tokens /\ tokens[j.token].live
                               /\ Active(tokens[j.token].user)
    PROVE  SessionInv' /\ Served /\ SignsOut
<1>1. pending'[w] = j /\ \A v \in Workers \ {w} : pending'[v] = pending[v]
  BY DEF Begin, IInv, PendingOK
<1>2. TokensOK' /\ Served
  BY NoneServed DEF SessionInv, SessionsOK, TokensOK
<1>3. \A v \in Workers : SessionJob(v)'
  <2>1. \A v \in Workers : SessionJob(v)
    BY DEF SessionInv, SessionsOK
  <2> QED  BY <1>1, <2>1 DEF SessionJob
<1>4. ASSUME Cardinality(online) = 1
      PROVE  AloneInv'
  <2>1. AloneInv
    BY <1>4 DEF SessionInv
  <2>2. Rotated'
    BY <2>1 DEF AloneInv, Rotated
  <2>3. \A v \in Workers : StillGood(v)'
    BY <1>1, <2>1 DEF AloneInv, StillGood, Active, Rotated
  <2> QED  BY <2>2, <2>3 DEF AloneInv
<1>5. Weaker /\ \A i \in DOMAIN tokens : Old(i)
  BY SameTokens DEF SessionInv, SessionsOK, Old
<1>6. ASSUME NEW v \in Workers
      PROVE  AdmitsSome(v)
  <2>1. CASE v = w
    BY <1>1, <2>1 DEF AdmitsSome, Admits, Active
  <2>2. CASE v # w
    BY <1>1, <1>5, <2>2, AdmitsNoMore
  <2> QED  BY <2>1, <2>2
<1>7. SignsOut
  BY <1>5, <1>6, WeakerSignsOut
<1> QED  BY <1>2, <1>3, <1>4, <1>7 DEF SessionInv, SessionsOK

LEMMA FinishKeeps ==
    ASSUME IInv, SessionInv, NEW w \in Workers, pending[w] # Idle, End(w), UNCHANGED online,
           TokensOK', Len(tokens) <= Len(tokens'),
           Cardinality(online) = 1 => Rotated'
    PROVE  SessionInv'
<1>1. pending'[w] = Idle /\ \A v \in Workers \ {w} : pending'[v] = pending[v]
  BY DEF End, IInv, PendingOK
<1>2. ASSUME NEW v \in Workers
      PROVE  SessionJob(v)'
  <2>1. SessionJob(v) /\ DOMAIN tokens \subseteq DOMAIN tokens'
    BY DEF SessionInv, SessionsOK, TokensOK
  <2> QED  BY <1>1, <2>1 DEF SessionJob, Idle
<1>3. ASSUME Cardinality(online) = 1
      PROVE  AloneInv'
  <2>1. \A v \in Workers : pending'[v] = Idle
    BY <1>1, <1>3, OneAtWork DEF SessionInv
  <2> QED  BY <1>3, <2>1 DEF AloneInv, StillGood, Idle
<1> QED  BY <1>2, <1>3 DEF SessionInv, SessionsOK

LEMMA BesideKeeps ==
    ASSUME IInv, SessionInv, UNCHANGED <<online, pending>>,
           \A u \in Emails : users'[u].status = users[u].status,
           TokensOK', Len(tokens) <= Len(tokens'), \A i \in DOMAIN tokens : Old(i),
           \A i \in DOMAIN tokens' : tokens'[i].live =>
              \/ i \in DOMAIN tokens /\ tokens[i].live
              \/ tokens'[i].family = Len(tokens) + 1,
           Cardinality(online) = 1 => Rotated'
    PROVE  SessionInv'
<1>1. DOMAIN tokens \subseteq DOMAIN tokens'
  BY DEF SessionInv, SessionsOK, TokensOK
<1>2. \A v \in Workers : SessionJob(v)'
  BY <1>1 DEF SessionInv, SessionsOK, SessionJob
<1>3. ASSUME Cardinality(online) = 1, NEW w \in Workers
      PROVE  StillGood(w)'
  <2>1. StillGood(w) /\ SessionJob(w)
    BY <1>3 DEF SessionInv, AloneInv, SessionsOK
  <2>2. CASE pending[w].op = "login"
    BY <2>1, <2>2 DEF StillGood, SessionJob, Active
  <2>3. CASE pending[w].op = "refresh"
    <3>1. PICK k \in DOMAIN tokens : k = pending[w].token
      BY <2>1, <2>3 DEF SessionJob
    <3>2. /\ tokens[k].user \in Emails /\ tokens[k].family \in Nat /\ Len(tokens) \in Nat
          /\ tokens[k].family <= Len(tokens)
      BY TokenFacts DEF SessionInv, SessionsOK, TokensOK, Token
    <3>3. Active(tokens[k].user) /\ users'[tokens'[k].user].status = "ACTIVE"
      BY <2>1, <2>3, <3>1, <3>2 DEF StillGood, Active, Old
    <3>4. ASSUME NEW j \in DOMAIN tokens', tokens'[j].live, tokens'[j].family = tokens'[k].family
          PROVE  j = k
      <4>1. tokens'[k].family = tokens[k].family
        BY DEF Old
      <4>2. j \in DOMAIN tokens /\ tokens[j].live
        BY <3>2, <3>4, <4>1
      <4>3. tokens[j].family = tokens[k].family
        BY <3>4, <4>1, <4>2 DEF Old
      <4> QED  BY <2>1, <2>3, <3>1, <4>2, <4>3 DEF StillGood
    <3> QED  BY <2>3, <3>1, <3>3, <3>4 DEF StillGood, Active
  <2> QED  BY <2>2, <2>3 DEF StillGood
<1> QED  BY <1>2, <1>3 DEF SessionInv, SessionsOK, AloneInv

-----------------------------------------------------------------------------
(* The steps, one by one. *)

LEMMA ReadingServes ==
    ASSUME IInv, SessionInv, NEW w \in Workers, Reading(w) \/ ResolveUser(w)
    PROVE  SessionInv' /\ Served /\ SignsOut
<1>0. mfaPending \subseteq Emails
  BY DEF SessionInv, SessionsOK, TokensOK
<1>1. CASE \E u \in Emails : Login(w, u)
  <2>1. PICK u \in Emails : Login(w, u)
    BY <1>1
  <2>2. w \in online /\ Active(u) /\ UNCHANGED <<accounts, tokens, access, setting>>
    BY <2>1 DEF Login, Free
  <2>3. CASE users[u].credential = "mfa"
    <3>1. pending' = pending /\ mfaPending' \subseteq Emails
      BY <1>0, <2>1, <2>3 DEF Login
    <3>2. TokensOK' /\ Served /\ \A i \in DOMAIN tokens : Old(i)
      BY <2>2, <3>1, NoneServed DEF SessionInv, SessionsOK, TokensOK, Old
    <3>3. Cardinality(online) = 1 => Rotated'
      BY <2>2 DEF SessionInv, AloneInv, Rotated, accounts
    <3>4. SessionInv'
      BY <2>2, <3>1, <3>2, <3>3, TokenFacts, BesideKeeps
      DEF setting, accounts, SessionInv, SessionsOK
    <3>5. Weaker /\ \A v \in Workers : AdmitsSome(v)
      BY <2>2, <3>1, <3>2, SameTokens, AdmitsNoMore DEF SessionInv, SessionsOK
    <3>6. mfaPending' = mfaPending \cup {u} /\ users[u].status # "DISABLED" /\ UNCHANGED users
      BY <2>1, <2>2, <2>3 DEF Login, Active, accounts
    <3>7. SignsOut
      BY <3>5, <3>6, WeakerSignsOut
    <3> QED  BY <3>2, <3>4, <3>7
  <2>4. CASE users[u].credential # "mfa"
    <3>1. Begin(w, [op |-> "login", user |-> u]) /\ UNCHANGED mfaPending
      BY <2>1, <2>4 DEF Login
    <3> DEFINE j == [op |-> "login", user |-> u]
    <3>2. j.op = "login" /\ j.user = u
      OBVIOUS
    <3> HIDE DEF j
    <3> QED  BY <2>2, <3>1, <3>2, ReadKeeps DEF j, setting, accounts
  <2> QED  BY <2>3, <2>4
<1>2. CASE \E i \in DOMAIN tokens : ReadRefresh(w, i)
  <2>1. PICK i \in DOMAIN tokens : ReadRefresh(w, i)
    BY <1>2
  <2> DEFINE j == [op |-> "refresh", token |-> i]
  <2>2. j.op = "refresh" /\ j.token = i
    OBVIOUS
  <2>3. /\ w \in online /\ Begin(w, j) /\ tokens[i].live /\ Active(tokens[i].user)
        /\ UNCHANGED <<accounts, sessions, setting>>
    BY <2>1 DEF ReadRefresh, Free
  <2> HIDE DEF j
  <2> QED  BY <1>0, <2>2, <2>3, ReadKeeps DEF setting, accounts, sessions
<1>3. ASSUME NEW j, w \in online, Begin(w, j), j.op \notin {"login", "refresh"},
             UNCHANGED <<users, sessions, setting>>
      PROVE  SessionInv' /\ Served /\ SignsOut
  BY <1>0, <1>3, ReadKeeps DEF setting, sessions
<1>4. CASE CreateTenantRow(w)
  BY <1>3, <1>4 DEF CreateTenantRow, Free
<1>5. CASE \E u \in Emails, roles \in InviteRoles : ReadInvite(w, u, roles)
  BY <1>3, <1>5 DEF ReadInvite, Free, accounts
<1>6. CASE \E p \in Providers, person \in directory : StartCallback(w, p, person)
  BY <1>3, <1>6 DEF StartCallback, Free, accounts
<1>7. CASE \E p \in Providers, u \in People, active \in BOOLEAN :
             \E s \in ScimSubjects(u) : ReadScimCreate(w, p, u, s, active)
  BY <1>3, <1>7 DEF ReadScimCreate, Free, accounts
<1>8. CASE \E p \in Providers, u \in Emails, to \in {"ACTIVE", "DISABLED", "same"} :
             ReadScimUpdate(w, p, u, to)
  BY <1>3, <1>8 DEF ReadScimUpdate, Free, accounts
<1>9. CASE \E p \in Providers, u \in Emails : ReadScimDelete(w, p, u)
  BY <1>3, <1>9 DEF ReadScimDelete, Free, accounts
<1>10. CASE ResolveUser(w)
  <2>1. PICK j \in SsoJob : j.op \in {"sso.linked", "sso.existing", "sso.jit"} /\ Begin(w, j)
    BY <1>10, Resolved
  <2> QED  BY <1>3, <1>10, <2>1 DEF ResolveUser, Doing, accounts
<1> QED  BY <1>1, <1>2, <1>4, <1>5, <1>6, <1>7, <1>8, <1>9, <1>10 DEF Reading

LEMMA EndAdmits ==
    ASSUME IInv, SessionInv, NEW w \in Workers, End(w), \A i \in DOMAIN tokens : Old(i)
    PROVE  \A v \in Workers : AdmitsSome(v)
<1>1. pending'[w] = Idle /\ \A v \in Workers \ {w} : pending'[v] = pending[v]
  BY DEF End, IInv, PendingOK
<1> QED  BY <1>1, AdmitsNoMore

\* A handler that ends without issuing a token, and leaves no leaver with a live one.
LEMMA EndsWeaker ==
    ASSUME IInv, SessionInv, NEW w \in Workers, pending[w] # Idle, End(w),
           UNCHANGED <<online, mfaPending>>, Weaker, access' \subseteq Emails,
           \A v \in Emails : users'[v].status = "DISABLED" =>
             \/ users[v].status = "DISABLED"
             \/ \A i \in DOMAIN tokens : tokens[i].user = v => ~tokens'[i].live
    PROVE  SessionInv' /\ Served /\ SignsOut
<1>0. mfaPending' \subseteq Emails
  BY DEF SessionInv, SessionsOK, TokensOK
<1>1. TokensOK /\ TokensOK' /\ (Rotated => Rotated') /\ Len(tokens) = Len(tokens')
  BY <1>0, WeakerKeeps DEF SessionInv, SessionsOK, Weaker
<1>2. Len(tokens) <= Len(tokens')
  BY <1>1, TokenFacts
<1>3. Cardinality(online) = 1 => Rotated'
  BY <1>1 DEF SessionInv, AloneInv
<1>4. SignsOut
  BY EndAdmits, WeakerSignsOut DEF Weaker
<1> QED  BY <1>1, <1>2, <1>3, <1>4, FinishKeeps, NoneServed

\* A handler that ends by issuing the token t to an active account.
LEMMA EndsLonger ==
    ASSUME IInv, SessionInv, NEW w \in Workers, pending[w] # Idle, End(w),
           UNCHANGED <<online, mfaPending>>,
           NEW t \in Token, Longer(t), t.family <= Len(tokens) + 1, access' \subseteq Emails,
           \A v \in Emails : users'[v].status = "DISABLED" => users[v].status = "DISABLED",
           users'[t.user].status = "DISABLED" => Admits(w, t.user),
           Cardinality(online) = 1 =>
             /\ users'[t.user].status = "ACTIVE"
             /\ \A j \in DOMAIN tokens : tokens'[j].live => tokens[j].family # t.family
    PROVE  SessionInv' /\ Served /\ SignsOut
<1>0. mfaPending' \subseteq Emails
  BY DEF SessionInv, SessionsOK, TokensOK
<1>1. TokensOK /\ TokensOK' /\ Len(tokens') = Len(tokens) + 1
  BY <1>0, LongerKeeps DEF SessionInv, SessionsOK, Longer
<1>2. Len(tokens) <= Len(tokens')
  BY <1>1, TokenFacts
<1>3. Cardinality(online) = 1 => Rotated'
  BY <1>0, <1>1, LongerKeeps DEF SessionInv, SessionsOK, AloneInv
<1>4. Served
  <2>1. w \in online
    BY DEF SessionInv, SessionsOK, SessionJob
  <2>2. tokens'[Len(tokens')] = t
    BY <1>1 DEF Longer
  <2> QED  BY <2>1, <2>2, AloneOrNot DEF Served
<1>5. \A v \in Workers : AdmitsSome(v)
  BY EndAdmits DEF Longer
<1>6. ~Admits(w, t.user)'
  BY DEF Admits, End, Idle, IInv, PendingOK
<1>7. SignsOut
  BY <1>5, <1>6, LongerSignsOut
<1> QED  BY <1>1, <1>2, <1>3, <1>4, <1>7, FinishKeeps

LEMMA FinishLoginServes ==
    ASSUME IInv, SessionInv, NEW w \in Workers, FinishLogin(w)
    PROVE  SessionInv' /\ Served /\ SignsOut
<1>1. TokensOK /\ pending[w].op = "login" /\ pending[w] # Idle
  BY DEF FinishLogin, Doing, SessionInv, SessionsOK, Idle
<1>2. PICK u \in Emails : u = pending[w].user
  BY <1>1 DEF SessionInv, SessionsOK, SessionJob
<1>3. /\ IssueSession(u) /\ End(w) /\ UNCHANGED <<accounts, mfaPending, setting>>
  BY <1>2 DEF FinishLogin
<1>4. PICK t \in Token : t = [user |-> u, family |-> Len(tokens) + 1, live |-> TRUE]
  BY <1>1, TokenFacts, FreshToken
<1>5. /\ Longer(t) /\ access' \subseteq Emails /\ mfaPending' \subseteq Emails
      /\ t.family <= Len(tokens) + 1 /\ t.user = u
      /\ \A j \in DOMAIN tokens : tokens[j].family # t.family
  BY <1>1, <1>3, <1>4, Issued DEF TokensOK
<1>6. Cardinality(online) = 1 => users'[u].status = "ACTIVE"
  BY <1>1, <1>2, <1>3 DEF SessionInv, AloneInv, StillGood, Active, accounts
<1>7. Admits(w, t.user) /\ UNCHANGED users
  BY <1>1, <1>2, <1>3, <1>5 DEF Admits, accounts
<1> QED  BY <1>1, <1>3, <1>5, <1>6, <1>7, EndsLonger DEF setting

LEMMA RefreshServes ==
    ASSUME IInv, SessionInv, NEW w \in Workers, Refresh(w)
    PROVE  SessionInv' /\ Served /\ SignsOut
<1>1. TokensOK /\ pending[w].op = "refresh" /\ pending[w] # Idle
  BY DEF Refresh, Doing, SessionInv, SessionsOK, Idle
<1>2. PICK k \in DOMAIN tokens : k = pending[w].token
  BY <1>1 DEF SessionInv, SessionsOK, SessionJob
<1>3. tokens[k] \in Token /\ Len(tokens) \in Nat /\ DOMAIN tokens = 1..Len(tokens)
  BY <1>1, TokenFacts
<1>4. PICK t \in Token : t = [tokens[k] EXCEPT !.live = TRUE]
  BY <1>3 DEF Token
<1>5. t.user = tokens[k].user /\ t.family = tokens[k].family /\ t.user \in Emails
  BY <1>3, <1>4 DEF Token
<1> DEFINE cut == [tokens EXCEPT ![k].live = FALSE]
<1>6. /\ cut \in Seq(Token) /\ Len(cut) = Len(tokens)
      /\ \A i \in DOMAIN tokens : /\ cut[i].user = tokens[i].user
                                  /\ cut[i].family = tokens[i].family
                                  /\ cut[i].live => tokens[i].live /\ i # k
  <2>1. [tokens[k] EXCEPT !.live = FALSE] \in Token
    BY <1>3 DEF Token
  <2>2. cut \in [1..Len(tokens) -> Token]
    BY <1>1, <1>3, <2>1, TokenFacts
  <2>3. \A i \in DOMAIN tokens : /\ cut[i].user = tokens[i].user
                                 /\ cut[i].family = tokens[i].family
                                 /\ cut[i].live => tokens[i].live /\ i # k
    BY <1>1, <1>3, TokenFacts DEF Token
  <2> QED  BY <1>3, <2>2, <2>3
<1>7. /\ tokens' = Append(cut, t) /\ access' = access \cup {t.user}
      /\ End(w) /\ UNCHANGED <<accounts, mfaPending, setting>>
  BY <1>2, <1>4, <1>5 DEF Refresh
<1> HIDE DEF cut
<1>8. Longer(t)
  BY <1>3, <1>6, <1>7 DEF Longer, Old
<1>9. access' \subseteq Emails /\ mfaPending' \subseteq Emails
  BY <1>1, <1>5, <1>7 DEF TokensOK
<1>10. t.family <= Len(tokens) + 1
  BY <1>1, <1>3, <1>5 DEF TokensOK, Token
<1>11. ASSUME Cardinality(online) = 1
       PROVE  /\ users'[t.user].status = "ACTIVE"
              /\ \A j \in DOMAIN tokens : tokens'[j].live => tokens[j].family # t.family
  <2>1. StillGood(w)
    BY <1>11 DEF SessionInv, AloneInv
  <2>2. users'[t.user].status = "ACTIVE"
    BY <1>1, <1>2, <1>5, <1>7, <2>1 DEF StillGood, Active, accounts
  <2>3. ASSUME NEW j \in DOMAIN tokens, tokens'[j].live
        PROVE  tokens[j].family # t.family
    <3>1. tokens'[j] = cut[j]
      BY <1>3, <1>6, <1>7
    <3> QED  BY <1>1, <1>2, <1>5, <1>6, <2>1, <2>3, <3>1 DEF StillGood
  <2> QED  BY <2>2, <2>3
<1>12. Admits(w, t.user) /\ UNCHANGED users
  BY <1>1, <1>2, <1>5, <1>7 DEF Admits, accounts
<1> QED  BY <1>1, <1>7, <1>8, <1>9, <1>10, <1>11, <1>12, EndsLonger DEF setting

\* Setting up a tenant, inviting, and stopping: no token is touched.
LEMMA PlainEnds ==
    ASSUME IInv, SessionInv, NEW w \in Workers, SeedTenant(w) \/ Invite(w) \/ Abort(w)
    PROVE  SessionInv' /\ Served /\ SignsOut
<1>1. TokensOK /\ pending[w] # Idle /\ End(w) /\ UNCHANGED <<sessions, online>>
  BY DEF SeedTenant, Invite, Abort, Doing, Idle, setting, SessionInv, SessionsOK
<1>2. Weaker /\ access' \subseteq Emails /\ mfaPending' \subseteq Emails
  BY <1>1, SameTokens DEF sessions, TokensOK
<1>3. \A v \in Emails : users'[v].status = "DISABLED" => users[v].status = "DISABLED"
  BY AccountsAssumption DEF SeedTenant, Invite, Abort, IInv, UsersOK
<1> QED  BY <1>1, <1>2, <1>3, EndsWeaker DEF sessions

\* What a person's first sign-in, or any other, does to the statuses.
LEMMA SignInActivates ==
    ASSUME IInv, NEW w \in Workers, SignIn(w)
    PROVE  /\ \E u \in Emails : /\ u = pending[w].user /\ users'[u].status = "ACTIVE"
                               /\ IssueSession(u)
           /\ pending[w] # Idle /\ End(w) /\ UNCHANGED <<mfaPending, setting>>
           /\ \A v \in Emails : users'[v].status = "DISABLED" => users[v].status = "DISABLED"
<1>1. pending[w].op \in {"sso.linked", "sso.existing", "sso.jit"} /\ pending[w] \in SsoJob
  BY DEF SignIn, IInv, PendingOK, GoodJob, SsoOps
<1>2. PICK u \in Emails : u = pending[w].user
  BY <1>1 DEF SsoJob
<1>3. users'[u].status = "ACTIVE" /\ IssueSession(u) /\ End(w) /\ UNCHANGED <<mfaPending, setting>>
  BY <1>2 DEF SignIn
<1>4. \A v \in Emails \ {u} : users'[v] = users[v]
  <2>1. \/ users' = ActivateIfInvited(u)
        \/ users' = [users EXCEPT ![u] = Provisioned(pending[w].provider, "ACTIVE")]
    BY <1>1, <1>2 DEF SignIn
  <2> QED  BY <2>1 DEF ActivateIfInvited, IInv, UsersOK
<1>5. \A v \in Emails : users'[v].status = "DISABLED" => users[v].status = "DISABLED"
  BY <1>3, <1>4
<1> QED  BY <1>1, <1>2, <1>3, <1>5 DEF Idle

LEMMA SignInServes ==
    ASSUME IInv, SessionInv, NEW w \in Workers, SignIn(w)
    PROVE  SessionInv' /\ Served /\ SignsOut
<1>1. PICK u \in Emails : users'[u].status = "ACTIVE" /\ IssueSession(u)
  BY SignInActivates
<1>2. /\ pending[w] # Idle /\ End(w) /\ UNCHANGED <<mfaPending, online>>
      /\ \A v \in Emails : users'[v].status = "DISABLED" => users[v].status = "DISABLED"
  BY SignInActivates DEF setting
<1>3. TokensOK
  BY DEF SessionInv, SessionsOK
<1>4. PICK t \in Token : t = [user |-> u, family |-> Len(tokens) + 1, live |-> TRUE]
  BY <1>3, TokenFacts, FreshToken
<1>5. /\ Longer(t) /\ access' \subseteq Emails /\ mfaPending' \subseteq Emails
      /\ t.family <= Len(tokens) + 1 /\ t.user = u
      /\ \A j \in DOMAIN tokens : tokens[j].family # t.family
  BY <1>1, <1>2, <1>3, <1>4, Issued DEF TokensOK
<1> QED  BY <1>1, <1>2, <1>5, EndsLonger

\* The SCIM calls write one account, and revoke its tokens when they disable it.
LEMMA ScimServes ==
    ASSUME IInv, SessionInv, NEW w \in Workers,
           ScimCreate(w) \/ ScimUpdate(w) \/ ScimDelete(w)
    PROVE  SessionInv' /\ Served /\ SignsOut
<1>1. /\ pending[w].op \in {"scim.create", "scim.update", "scim.delete"}
      /\ pending[w] # Idle /\ End(w) /\ UNCHANGED <<access, mfaPending, online>>
  BY DEF ScimCreate, ScimUpdate, ScimDelete, Doing, Idle, setting
<1>2. PICK u \in Emails : u = pending[w].user
  BY <1>1 DEF IInv, PendingOK, GoodJob
<1>3. TokensOK /\ access' \subseteq Emails /\ mfaPending' \subseteq Emails
  BY <1>1 DEF SessionInv, SessionsOK, TokensOK
<1>4. \A v \in Emails \ {u} : users'[v] = users[v]
  BY <1>2 DEF ScimCreate, ScimUpdate, ScimDelete, IInv, UsersOK
<1>5. \/ tokens' = Revoked(u)
      \/ UNCHANGED tokens /\ (users'[u].status # "DISABLED" \/ users' = users)
  <2>1. CASE ScimCreate(w)
    <3>1. GoodJob(w)
      BY DEF IInv, PendingOK
    <3>2. PICK active \in BOOLEAN : active = pending[w].active
      BY <2>1, <3>1 DEF ScimCreate, Doing, GoodJob
    <3>3. CASE active
      <4>1. users'[u].status = "ACTIVE"
        BY <1>2, <2>1, <3>2, <3>3 DEF ScimCreate, StatusOf, Provisioned, IInv, UsersOK
      <4> QED  BY <2>1, <3>2, <3>3, <4>1 DEF ScimCreate
    <3>4. CASE ~active
      BY <1>2, <2>1, <3>2, <3>4 DEF ScimCreate
    <3> QED  BY <3>3, <3>4
  <2>2. CASE ScimUpdate(w)
    BY <1>2, <2>2 DEF ScimUpdate, IInv, UsersOK
  <2>3. CASE ScimDelete(w)
    BY <1>2, <2>3 DEF ScimDelete
  <2> QED  BY <2>1, <2>2, <2>3
<1>6. Weaker /\ \A v \in Emails : users'[v].status = "DISABLED" =>
                  \/ users[v].status = "DISABLED"
                  \/ \A i \in DOMAIN tokens : tokens[i].user = v => ~tokens'[i].live
  <2>1. CASE tokens' = Revoked(u)
    <3>1. Weaker /\ \A i \in DOMAIN tokens : tokens'[i].live => tokens'[i].user # u
      BY <1>3, <2>1, RevokedWeaker
    <3>2. \A i \in DOMAIN tokens : tokens[i].user = u => ~tokens'[i].live
      BY <3>1 DEF Weaker, Old
    <3> QED  BY <1>4, <3>1, <3>2
  <2>2. CASE UNCHANGED tokens /\ (users'[u].status # "DISABLED" \/ users' = users)
    BY <1>3, <1>4, <2>2, SameTokens
  <2> QED  BY <1>5, <2>1, <2>2
<1> QED  BY <1>1, <1>3, <1>6, EndsWeaker

-----------------------------------------------------------------------------
(* Beside the handlers. *)

\* No token is issued and no status changes: tokens expire, credentials and providers change.
LEMMA BesideWeaker ==
    ASSUME IInv, SessionInv, UNCHANGED <<online, pending>>, Weaker,
           access' \subseteq Emails, mfaPending' \subseteq mfaPending,
           \A u \in Emails : users'[u].status = users[u].status
    PROVE  SessionInv' /\ Served /\ SignsOut
<1>0. mfaPending' \subseteq Emails
  BY DEF SessionInv, SessionsOK, TokensOK
<1>1. TokensOK /\ TokensOK' /\ (Rotated => Rotated') /\ Len(tokens) = Len(tokens')
  BY <1>0, WeakerKeeps DEF SessionInv, SessionsOK, Weaker
<1>2. Len(tokens) <= Len(tokens')
  BY <1>1, TokenFacts
<1>3. Cardinality(online) = 1 => Rotated'
  BY <1>1 DEF SessionInv, AloneInv
<1>4. /\ \A i \in DOMAIN tokens : Old(i)
      /\ \A i \in DOMAIN tokens' : tokens'[i].live => i \in DOMAIN tokens /\ tokens[i].live
  BY <1>1 DEF Weaker, TokensOK
<1>5. SignsOut
  BY <1>4, AdmitsNoMore, WeakerSignsOut
<1> QED  BY <1>1, <1>2, <1>3, <1>4, <1>5, BesideKeeps, NoneServed

LEMMA CredentialServes ==
    ASSUME IInv, SessionInv, NEW u \in Emails, EnrollMfa(u) \/ ActivateMfa(u)
    PROVE  SessionInv' /\ Served /\ SignsOut
<1>1. PICK c \in {"enrolled", "mfa"} : SetCredential(u, c)
  BY DEF EnrollMfa, ActivateMfa
<1>2. UNCHANGED <<sessions, online, pending>> /\ TokensOK
  BY <1>1 DEF SetCredential, setting, SessionInv, SessionsOK
<1>3. Weaker /\ access' \subseteq Emails /\ UNCHANGED mfaPending
  BY <1>2, SameTokens DEF sessions, TokensOK
<1>4. \A v \in Emails : users'[v].status = users[v].status
  <2>1. /\ users'[u] = [users[u] EXCEPT !.credential = c]
        /\ \A v \in Emails \ {u} : users'[v] = users[v]
    BY <1>1 DEF SetCredential, IInv, UsersOK
  <2>2. users[u] \in Account
    BY DEF IInv, UsersOK, Account
  <2>3. users'[u].status = users[u].status /\ users'[u].credential = c
    BY <2>1, <2>2 DEF Account
  <2> QED  BY <2>1, <2>3
<1> QED  BY <1>2, <1>3, <1>4, BesideWeaker

LEMMA ExpiryServes ==
    ASSUME IInv, SessionInv, \/ \E u \in Emails : Expire(u)
                             \/ \E i \in DOMAIN tokens : ExpireRefresh(i)
    PROVE  SessionInv' /\ Served /\ SignsOut
<1>1. UNCHANGED <<accounts, setting, pending>> /\ TokensOK
  BY DEF Expire, ExpireAccess, ExpireMfa, ExpireRefresh, SessionInv, SessionsOK
<1>2. access' \subseteq Emails /\ mfaPending' \subseteq mfaPending
  BY <1>1 DEF Expire, ExpireAccess, ExpireMfa, ExpireRefresh, TokensOK
<1>3. Weaker
  <2>1. CASE \E u \in Emails : Expire(u)
    BY <1>1, <2>1, SameTokens DEF Expire, ExpireAccess, ExpireMfa
  <2>2. CASE \E i \in DOMAIN tokens : ExpireRefresh(i)
    <3>1. PICK k \in DOMAIN tokens : tokens' = [tokens EXCEPT ![k].live = FALSE]
      BY <2>2 DEF ExpireRefresh
    <3>2. DOMAIN tokens = 1..Len(tokens) /\ Len(tokens) \in Nat
      BY <1>1, TokenFacts
    <3>3. ASSUME NEW i \in DOMAIN tokens
          PROVE  tokens'[i] \in Token /\ Old(i) /\ (tokens'[i].live => tokens[i].live)
      <4>1. tokens[i] \in Token
        BY <1>1, TokenFacts
      <4>2. tokens'[i] = IF i = k THEN [tokens[i] EXCEPT !.live = FALSE] ELSE tokens[i]
        BY <3>1
      <4> QED  BY <4>1, <4>2 DEF Token, Old
    <3>4. tokens' \in [1..Len(tokens) -> Token]
      BY <3>1, <3>2, <3>3, <1>1 DEF TokensOK
    <3> QED  BY <3>2, <3>3, <3>4 DEF Weaker
  <2> QED  BY <2>1, <2>2
<1> QED  BY <1>1, <1>2, <1>3, BesideWeaker DEF accounts, setting

LEMMA StillServes ==
    ASSUME IInv, SessionInv, Administer \/ UNCHANGED accountVars
    PROVE  SessionInv' /\ Served /\ SignsOut
<1>1. UNCHANGED <<users, sessions, setting, pending>> /\ TokensOK
  BY DEF Administer, CreateProvider, DeleteProvider, RegenerateScimToken, DisableScim,
     accountVars, accounts, SessionInv, SessionsOK
<1>2. Weaker /\ access' \subseteq Emails /\ UNCHANGED mfaPending
  BY <1>1, SameTokens DEF sessions, TokensOK
<1> QED  BY <1>1, <1>2, BesideWeaker DEF setting

\* A second factor is accepted by its interim token, whatever became of the account.
LEMMA VerifyMfaServes ==
    ASSUME IInv, SessionInv, NEW u \in Emails, VerifyMfa(u)
    PROVE  SessionInv' /\ Served /\ SignsOut
<1>1. TokensOK /\ IssueSession(u) /\ UNCHANGED <<accounts, mfaPending, setting, pending>>
      /\ u \in mfaPending /\ users[u].credential = "mfa"
  BY DEF VerifyMfa, SessionInv, SessionsOK
<1>2. PICK t \in Token : t = [user |-> u, family |-> Len(tokens) + 1, live |-> TRUE]
  BY <1>1, TokenFacts, FreshToken
<1>3. /\ Longer(t) /\ access' \subseteq Emails /\ mfaPending' \subseteq Emails
      /\ t.family = Len(tokens) + 1 /\ t.family <= Len(tokens) + 1 /\ t.user = u
      /\ \A j \in DOMAIN tokens : tokens[j].family # t.family
  BY <1>1, <1>2, Issued DEF TokensOK
<1>4. TokensOK' /\ (Rotated => Rotated') /\ Len(tokens') = Len(tokens) + 1
  BY <1>1, <1>3, LongerKeeps DEF Longer
<1>5. Cardinality(online) = 1 => Rotated'
  BY <1>3, <1>4, <1>1, LongerKeeps DEF SessionInv, AloneInv, Longer
<1>6. /\ Len(tokens) <= Len(tokens')
      /\ \A i \in DOMAIN tokens : Old(i) /\ (tokens'[i].live => tokens[i].live)
      /\ \A i \in DOMAIN tokens' : i \in DOMAIN tokens \/ tokens'[i] = t
  BY <1>1, <1>3, <1>4, TokenFacts DEF Longer, TokensOK
<1>7. Served
  BY <1>1, <1>3, <1>4 DEF Served, Longer
<1>8. \A i \in DOMAIN tokens' : tokens'[i].live =>
              \/ i \in DOMAIN tokens /\ tokens[i].live
              \/ tokens'[i].family = Len(tokens) + 1
  BY <1>3, <1>6
<1>9. SignsOut
  BY <1>1, <1>3, <1>6, AdmitsNoMore, LongerSignsOut DEF accounts
<1> QED  BY <1>1, <1>4, <1>5, <1>6, <1>7, <1>8, <1>9, BesideKeeps DEF accounts, setting

-----------------------------------------------------------------------------
LEMMA SessionInit == AccountsInit => SessionInv
BY DEF AccountsInit, SessionInv, SessionsOK, TokensOK, SessionJob, AloneInv, StillGood, Rotated,
   Idle

LEMMA SessionStepServes ==
    IInv /\ SessionInv /\ [AccountsNext]_accountVars => SessionInv' /\ Served /\ SignsOut
<1> SUFFICES ASSUME IInv, SessionInv, [AccountsNext]_accountVars PROVE SessionInv' /\ Served /\ SignsOut
  OBVIOUS
<1>1. CASE \E w \in Workers : Reading(w)
  BY <1>1, ReadingServes
<1>2. CASE \E w \in Workers : Finishing(w)
  BY <1>2, PlainEnds, FinishLoginServes, RefreshServes, ReadingServes, SignInServes,
     ScimServes DEF Finishing
<1>3. CASE \/ \E u \in Emails : VerifyMfa(u) \/ EnrollMfa(u) \/ ActivateMfa(u) \/ Expire(u)
           \/ \E i \in DOMAIN tokens : ExpireRefresh(i)
  BY <1>3, VerifyMfaServes, CredentialServes, ExpiryServes
<1>4. CASE Administer \/ UNCHANGED accountVars
  BY <1>4, StillServes
<1> QED  BY <1>1, <1>2, <1>3, <1>4 DEF AccountsNext

THEOREM SessionInvariant == AccountsSpec => []SessionInv
<1>1. IInv /\ SessionInv /\ [AccountsNext]_accountVars => SessionInv'
  BY SessionStepServes
<1> QED  BY SessionInit, <1>1, Invariant, PTL DEF AccountsSpec

\* Served one at a time, a refresh token is exchanged once: however often tokens are
\* rotated, revoked and issued, one of a family is usable at most (auth.service.ts, refresh).
THEOREM RotationLeavesOne == AccountsSpec => []OneLivePerFamily
<1>1. SessionInv => OneLivePerFamily
  BY DEF SessionInv, AloneInv, Rotated, OneLivePerFamily
<1> QED  BY <1>1, SessionInvariant, PTL

\* However handlers overlap, the call that disables a leaver leaves no usable token, and
\* afterwards only who had been admitted before, by a handler in flight or with a second
\* factor asked for, gets one (scim.service.ts, auth.service.ts).
THEOREM LeaversAreSignedOut == AccountsSpec => LeaverSignedOut
<1>1. IInv /\ SessionInv /\ [AccountsNext]_accountVars =>
        [\A u \in Emails : users'[u].status = "DISABLED" =>
           /\ users[u].status # "DISABLED" => Usable(u)' = {}
           /\ users[u].status = "DISABLED" =>
                /\ Admitted(u)' \subseteq Admitted(u) /\ (u \in mfaPending' => u \in mfaPending)
                /\ \A i \in Usable(u)' \ Usable(u) :
                     i = Len(tokens') /\ (u \in mfaPending \/ Admitted(u)' # Admitted(u))]_accountVars
  BY SessionStepServes DEF SignsOut
<1> QED  BY <1>1, Invariant, SessionInvariant, PTL DEF AccountsSpec, LeaverSignedOut

\* Served one at a time, whatever a handler read of an account before it issues a token is
\* still so: only active accounts are served, or a second factor already asked for.
THEOREM OnlyActiveAreServed == AccountsSpec => TokensForActiveOnly
<1>1. IInv /\ SessionInv /\ [AccountsNext]_accountVars =>
        [Len(tokens') > Len(tokens) =>
           LET user == tokens'[Len(tokens')].user
           IN users'[user].status = "ACTIVE" \/ user \in mfaPending
                                             \/ Cardinality(online) > 1]_accountVars
  BY SessionStepServes DEF Served
<1> QED  BY <1>1, Invariant, SessionInvariant, PTL DEF AccountsSpec, TokensForActiveOnly
=============================================================================
