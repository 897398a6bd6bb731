------------------------------ MODULE Accounts ------------------------------
(***************************************************************************)
(* The accounts of one tenant: onboarding, invitations, password and MFA   *)
(* sign-in, rotating refresh tokens, single sign-on with just-in-time      *)
(* provisioning, and the SCIM joiner/mover/leaver life cycle.              *)
(*                                                                         *)
(* An account is identified by its email: the table is unique on it and no *)
(* handler deletes a row.  A handler that reads and later writes is two    *)
(* steps, with the transactions of other handlers committing in between;   *)
(* unique indexes and foreign keys are enforced when it writes.            *)
(***************************************************************************)
EXTENDS Rbac, Naturals, Sequences, FiniteSets

CONSTANTS
  Emails,       \* the people of the checked instance
  Owner,        \* the administrator named at onboarding
  Providers,    \* identity providers the administrator may configure
  Config,       \* per provider: [kind, enabled, allowJit, defaultRole, domain]
  Settings,     \* which workers serve the tenant, and whom the identity provider knows:
                \* pairs of a set of workers and a set of (subject, email) pairs
  InviteRoles,  \* the role sets an invitation may ask for
  Workers,      \* handlers that run concurrently
  MaxTokens     \* bound on the refresh tokens ever issued

ASSUME AccountsAssumption ==
  /\ Owner \in Emails
  /\ MaxTokens \in Nat
  /\ IsFiniteSet(Workers)
  /\ InviteRoles \subseteq SUBSET RoleKeys
  /\ \A s \in Settings : s[1] \subseteq Workers /\ \A d \in s[2] : d[2] \in Emails

VARIABLES
  tenant,       \* "absent", "bare" (the row alone) or "ready" (seeded)
  interrupted,  \* history: an onboarding stopped between its two commits
  users,        \* app_user by email: its status, roles and credential, which is "none",
                \* "password", "enrolled" (an MFA secret not yet enabled) or "mfa"
  providers,    \* identity_provider rows
  scim,         \* providers with a SCIM credential
  links,        \* user_identity rows
  tokens,       \* refresh_token rows in the order of creation
  access,       \* users with an unexpired access token
  mfaPending,   \* users with an unexpired interim MFA token
  online,       \* the workers that serve this tenant
  directory,    \* the people the identity provider knows
  pending       \* what each handler read and has not yet written

accounts == <<tenant, interrupted, users, providers, scim, links>>
sessions == <<tokens, access, mfaPending>>
setting == <<online, directory>>
accountVars == <<accounts, sessions, setting, pending>>

Subjects == {d[1] : d \in UNION {s[2] : s \in Settings}} \cup ({"scim"} \X Emails)
People == {d[2] : d \in directory}
Idle == [op |-> "idle"]

NoAccount == [status |-> "NONE", roles |-> {}, credential |-> "none"]
Exists(email) == users[email].status # "NONE"
Active(email) == users[email].status = "ACTIVE"

-----------------------------------------------------------------------------
(* Handlers in flight.                                                     *)

Begin(w, what) == pending' = [pending EXCEPT ![w] = what]
End(w) == pending' = [pending EXCEPT ![w] = Idle]
Free(w) == w \in online /\ pending[w] = Idle
Doing(w, op) == w \in online /\ pending[w].op = op

\* An administrator's request: a token of a user whose roles grant the permissions.
Authorised(permissions) ==
  \E u \in access : permissions \subseteq collectPermissions(users[u].roles)

\* A handler fails or the process dies: nothing of its transaction is kept.
Abort(w) ==
  /\ w \in online /\ pending[w] # Idle
  /\ interrupted' = (interrupted \/ pending[w].op = "onboard")
  /\ End(w)
  /\ UNCHANGED <<tenant, users, providers, scim, links, sessions, setting>>

-----------------------------------------------------------------------------
(* Onboarding and invitations.                                             *)

\* The tenant's row is committed on its own; a second request meets the taken slug.
CreateTenantRow(w) ==
  /\ Free(w)
  /\ tenant = "absent"
  /\ tenant' = "bare"
  /\ Begin(w, [op |-> "onboard"])
  /\ UNCHANGED <<interrupted, users, providers, scim, links, sessions, setting>>

\* Roles, first administrator, credential and role assignment in one transaction.
SeedTenant(w) ==
  /\ Doing(w, "onboard")
  /\ tenant' = "ready"
  /\ users' = [users EXCEPT ![Owner] = [status |-> "ACTIVE", roles |-> {"tenant_admin"},
                                        credential |-> "password"]]
  /\ End(w)
  /\ UNCHANGED <<interrupted, providers, scim, links, sessions, setting>>

ReadInvite(w, email, roles) ==
  /\ Free(w)
  /\ Authorised({"identity.user.invite", "identity.role.assign"})
  /\ ~Exists(email)
  /\ Begin(w, [op |-> "invite", user |-> email, roles |-> roles])
  /\ UNCHANGED <<accounts, sessions, setting>>

Invite(w) ==
  /\ Doing(w, "invite")
  /\ LET p == pending[w]
     IN /\ ~Exists(p.user)
        /\ users' = [users EXCEPT ![p.user] = [status |-> "INVITED", roles |-> p.roles,
                                               credential |-> "none"]]
  /\ End(w)
  /\ UNCHANGED <<tenant, interrupted, providers, scim, links, sessions, setting>>

-----------------------------------------------------------------------------
(* Sessions: an access token and a refresh token that starts a family.     *)

\* Faulty variant: the user's latest token only.
RevokedLatest(user) ==
  [i \in DOMAIN tokens |-> IF tokens[i].user = user /\ i = Len(tokens)
                           THEN [tokens[i] EXCEPT !.live = FALSE] ELSE tokens[i]]

\* revokeSessions.
Revoked(user) ==
  [i \in DOMAIN tokens |-> IF tokens[i].user = user THEN [tokens[i] EXCEPT !.live = FALSE]
                           ELSE tokens[i]]

IssueSession(user) ==
  /\ Len(tokens) < MaxTokens
  /\ tokens' = Append(tokens, [user |-> user, family |-> Len(tokens) + 1, live |-> TRUE])
  /\ access' = access \cup {user}

\* Faulty variant: the account's status is not looked at.
LoginAnyStatus(w, user) ==
  /\ Free(w)
  /\ users[user].credential # "none"
  /\ IF users[user].credential = "mfa"
     THEN mfaPending' = mfaPending \cup {user} /\ UNCHANGED pending
     ELSE Begin(w, [op |-> "login", user |-> user]) /\ UNCHANGED mfaPending
  /\ UNCHANGED <<accounts, tokens, access, setting>>

\* The password is right; whether a second factor is due decides what is issued.
Login(w, user) ==
  /\ Free(w)
  /\ users[user].credential # "none"
  /\ Active(user)
  /\ IF users[user].credential = "mfa"
     THEN mfaPending' = mfaPending \cup {user} /\ UNCHANGED pending
     ELSE Begin(w, [op |-> "login", user |-> user]) /\ UNCHANGED mfaPending
  /\ UNCHANGED <<accounts, tokens, access, setting>>

\* A second transaction, on the user that the first one loaded.
FinishLogin(w) ==
  /\ Doing(w, "login")
  /\ IssueSession(pending[w].user)
  /\ End(w)
  /\ UNCHANGED <<accounts, mfaPending, setting>>

VerifyMfa(user) ==
  /\ user \in mfaPending
  /\ users[user].credential = "mfa"
  /\ IssueSession(user)
  /\ UNCHANGED <<accounts, mfaPending, setting, pending>>

SetCredential(user, credential) ==
  /\ users' = [users EXCEPT ![user].credential = credential]
  /\ UNCHANGED <<tenant, interrupted, providers, scim, links, sessions, setting, pending>>

\* A new secret; the second factor is off until it is activated with a code.
EnrollMfa(user) ==
  /\ user \in access
  /\ users[user].credential # "none"
  /\ SetCredential(user, "enrolled")

ActivateMfa(user) ==
  /\ user \in access
  /\ users[user].credential \in {"enrolled", "mfa"}
  /\ SetCredential(user, "mfa")

\* A token that is revoked or expired, or whose user is not active, is refused and
\* the transaction rolls back, with the revocation of the family it had started.
ReadRefresh(w, i) ==
  /\ Free(w)
  /\ tokens[i].live
  /\ Active(tokens[i].user)
  /\ Begin(w, [op |-> "refresh", token |-> i])
  /\ UNCHANGED <<accounts, sessions, setting>>

\* Faulty variant: the token that is exchanged stays usable.
RefreshKeepingOld(w) ==
  /\ Doing(w, "refresh")
  /\ Len(tokens) < MaxTokens
  /\ LET old == pending[w].token
     IN /\ tokens' = Append(tokens, [tokens[old] EXCEPT !.live = TRUE])
        /\ access' = access \cup {tokens[old].user}
  /\ End(w)
  /\ UNCHANGED <<accounts, mfaPending, setting>>

\* The old token is revoked by its id, and its successor joins its family.
Refresh(w) ==
  /\ Doing(w, "refresh")
  /\ Len(tokens) < MaxTokens
  /\ LET old == pending[w].token
     IN /\ tokens' = Append([tokens EXCEPT ![old].live = FALSE],
                            [tokens[old] EXCEPT !.live = TRUE])
        /\ access' = access \cup {tokens[old].user}
  /\ End(w)
  /\ UNCHANGED <<accounts, mfaPending, setting>>

\* Tokens carry their expiry: the access and MFA tokens as signed claims.
ExpireAccess(user) ==
  /\ user \in access
  /\ access' = access \ {user}
  /\ UNCHANGED <<accounts, tokens, mfaPending, setting, pending>>

ExpireMfa(user) ==
  /\ user \in mfaPending
  /\ mfaPending' = mfaPending \ {user}
  /\ UNCHANGED <<accounts, tokens, access, setting, pending>>

ExpireRefresh(i) ==
  /\ tokens[i].live
  /\ tokens' = [tokens EXCEPT ![i].live = FALSE]
  /\ UNCHANGED <<accounts, access, mfaPending, setting, pending>>

-----------------------------------------------------------------------------
(* Identity providers and their SCIM credential.                           *)

CreateProvider(p) ==
  /\ Authorised({"identity.sso.manage"})
  /\ providers[p] = "none"
  /\ providers' = [providers EXCEPT ![p] = "stored"]
  /\ UNCHANGED <<tenant, interrupted, users, scim, links, sessions, setting, pending>>

\* The row's identities and SCIM credential go with it.
DeleteProvider(p) ==
  /\ Authorised({"identity.sso.manage"})
  /\ providers[p] = "stored"
  /\ providers' = [providers EXCEPT ![p] = "deleted"]
  /\ scim' = scim \ {p}
  /\ links' = {l \in links : l.provider # p}
  /\ UNCHANGED <<tenant, interrupted, users, sessions, setting, pending>>

\* Issues the credential or replaces it: one per provider, so only the last token works.
RegenerateScimToken(p) ==
  /\ Authorised({"identity.sso.manage"})
  /\ providers[p] = "stored"
  /\ scim' = scim \cup {p}
  /\ UNCHANGED <<tenant, interrupted, users, providers, links, sessions, setting, pending>>

DisableScim(p) ==
  /\ Authorised({"identity.sso.manage"})
  /\ providers[p] = "stored"
  /\ scim' = scim \ {p}
  /\ UNCHANGED <<tenant, interrupted, users, providers, links, sessions, setting, pending>>

-----------------------------------------------------------------------------
(* Links, accounts and the constraints that guard their insertion.         *)

LinkedBySubject(p, subject) == {l \in links : l.provider = p /\ l.subject = subject}
LinkedByUser(p, user) == {l \in links : l.provider = p /\ l.user = user}

\* Faulty variant: a table without constraints.
LinkUnchecked(p, user, subject) ==
  links' = links \cup {[provider |-> p, subject |-> subject, user |-> user]}

\* Foreign key on the provider; unique on (provider, subject) and (provider, user).
LinkIdentity(p, user, subject) ==
  /\ providers[p] = "stored"
  /\ LinkedBySubject(p, subject) = {} /\ LinkedByUser(p, user) = {}
  /\ links' = links \cup {[provider |-> p, subject |-> subject, user |-> user]}

\* A new account with the provider's default role, if that role exists.
Provisioned(p, status) ==
  [status |-> status, roles |-> {Config[p].defaultRole} \cap RoleKeys, credential |-> "none"]

\* Faulty variant: whatever the status was.
ActivateAnyone(user) == [users EXCEPT ![user].status = "ACTIVE"]

ActivateIfInvited(user) ==
  IF users[user].status = "INVITED" THEN [users EXCEPT ![user].status = "ACTIVE"] ELSE users

-----------------------------------------------------------------------------
(* Single sign-on: read the provider, exchange the code outside any        *)
(* transaction, then resolve the person and sign in.                       *)

StartCallback(w, p, person) ==
  /\ Free(w)
  /\ tenant # "absent"
  /\ providers[p] = "stored" /\ Config[p].enabled
  /\ Config[p].kind # "SAML"                     \* start() brokers it elsewhere
  /\ Begin(w, [op |-> "exchange", provider |-> p, subject |-> person[1], user |-> person[2]])
  /\ UNCHANGED <<accounts, sessions, setting>>

\* resolveUser's reads: the link, else the account with the asserted email, else a
\* new account where the provider allows it.
ResolveUser(w) ==
  /\ Doing(w, "exchange")
  /\ LET p == pending[w]
         found == LinkedBySubject(p.provider, p.subject)
     IN /\ p.user \in Config[p.provider].domain
        /\ \/ \E l \in found : Begin(w, [p EXCEPT !.op = "sso.linked", !.user = l.user])
           \/ found = {} /\ Exists(p.user) /\ Begin(w, [p EXCEPT !.op = "sso.existing"])
           \/ /\ found = {} /\ ~Exists(p.user) /\ Config[p.provider].allowJit
              /\ Begin(w, [p EXCEPT !.op = "sso.jit"])
  /\ UNCHANGED <<accounts, sessions, setting>>

\* resolveUser's writes and issueSessionForUserId: a user who is not active after them
\* is refused, and the whole transaction rolls back.
SignIn(w) ==
  /\ pending[w].op \in {"sso.linked", "sso.existing", "sso.jit"}
  /\ LET p == pending[w]
     IN /\ CASE p.op = "sso.linked" ->
                  /\ [provider |-> p.provider, subject |-> p.subject, user |-> p.user] \in links
                  /\ users' = ActivateIfInvited(p.user)
                  /\ UNCHANGED links
             [] p.op = "sso.existing" ->
                  /\ users' = ActivateIfInvited(p.user)
                  /\ LinkIdentity(p.provider, p.user, p.subject)
             [] p.op = "sso.jit" ->
                  /\ ~Exists(p.user)
                  /\ users' = [users EXCEPT ![p.user] = Provisioned(p.provider, "ACTIVE")]
                  /\ LinkIdentity(p.provider, p.user, p.subject)
        /\ users'[p.user].status = "ACTIVE"
        /\ IssueSession(p.user)
  /\ End(w)
  /\ UNCHANGED <<tenant, interrupted, providers, scim, mfaPending, setting>>

-----------------------------------------------------------------------------
(* SCIM: the joiner, mover and leaver calls of the identity provider.      *)

StatusOf(active) == IF active THEN "ACTIVE" ELSE "DISABLED"

\* Without an externalId the subject is made from the email.
ScimSubjects(email) == {d[1] : d \in {x \in directory : x[2] = email}} \cup {<<"scim", email>>}

ReadScimCreate(w, p, email, subject, active) ==
  /\ Free(w)
  /\ p \in scim /\ providers[p] = "stored"
  /\ LinkedBySubject(p, subject) = {}
  /\ Exists(email) => LinkedByUser(p, email) = {}
  /\ Begin(w, [op |-> "scim.create", provider |-> p, user |-> email, subject |-> subject,
               active |-> active, exists |-> Exists(email)])
  /\ UNCHANGED <<accounts, sessions, setting>>

ScimCreate(w) ==
  /\ Doing(w, "scim.create")
  /\ LET p == pending[w]
     IN /\ IF p.exists
           THEN users' = [users EXCEPT ![p.user].status = StatusOf(p.active)]
           ELSE /\ ~Exists(p.user)
                /\ users' = [users EXCEPT ![p.user] = Provisioned(p.provider, StatusOf(p.active))]
        /\ LinkIdentity(p.provider, p.user, p.subject)
        /\ tokens' = IF p.active THEN tokens ELSE Revoked(p.user)
  /\ End(w)
  /\ UNCHANGED <<tenant, interrupted, providers, scim, access, mfaPending, setting>>

\* replaceUser and patchUser: to is the new status, or "same" for a patch without it.
ReadScimUpdate(w, p, email, to) ==
  /\ Free(w)
  /\ p \in scim
  /\ LinkedByUser(p, email) # {}
  /\ Begin(w, [op |-> "scim.update", user |-> email, to |-> to])
  /\ UNCHANGED <<accounts, sessions, setting>>

\* Faulty variant: the account is replaced, roles and credential included.
ScimReplaceAccount(w) ==
  /\ Doing(w, "scim.update")
  /\ LET p == pending[w]
     IN /\ users' = IF p.to = "same" THEN users
                    ELSE [users EXCEPT ![p.user] = [NoAccount EXCEPT !.status = p.to]]
        /\ tokens' = IF p.to = "DISABLED" THEN Revoked(p.user) ELSE tokens
  /\ End(w)
  /\ UNCHANGED <<tenant, interrupted, providers, scim, links, access, mfaPending, setting>>

ScimUpdate(w) ==
  /\ Doing(w, "scim.update")
  /\ LET p == pending[w]
     IN /\ users' = IF p.to = "same" THEN users ELSE [users EXCEPT ![p.user].status = p.to]
        /\ tokens' = IF p.to = "DISABLED" THEN Revoked(p.user) ELSE tokens
  /\ End(w)
  /\ UNCHANGED <<tenant, interrupted, providers, scim, links, access, mfaPending, setting>>

ReadScimDelete(w, p, email) ==
  /\ Free(w)
  /\ p \in scim
  /\ LinkedByUser(p, email) # {}
  /\ Begin(w, [op |-> "scim.delete", provider |-> p, user |-> email])
  /\ UNCHANGED <<accounts, sessions, setting>>

\* The account is kept, disabled and unlinked.
ScimDelete(w) ==
  /\ Doing(w, "scim.delete")
  /\ LET p == pending[w]
     IN /\ users' = [users EXCEPT ![p.user].status = "DISABLED"]
        /\ tokens' = Revoked(p.user)
        /\ links' = links \ LinkedByUser(p.provider, p.user)
  /\ End(w)
  /\ UNCHANGED <<tenant, interrupted, providers, scim, access, mfaPending, setting>>

-----------------------------------------------------------------------------
AccountsInit ==
  /\ tenant = "absent" /\ interrupted = FALSE
  /\ users = [e \in Emails |-> NoAccount]
  /\ providers = [p \in Providers |-> "none"]
  /\ scim = {} /\ links = {} /\ tokens = <<>>
  /\ access = {} /\ mfaPending = {}
  /\ \E s \in Settings : online = s[1] /\ directory = s[2]
  /\ pending = [w \in Workers |-> Idle]

Reading(w) ==
  \/ CreateTenantRow(w)
  \/ \E u \in Emails : Login(w, u)
  \/ \E u \in Emails, roles \in InviteRoles : ReadInvite(w, u, roles)
  \/ \E i \in DOMAIN tokens : ReadRefresh(w, i)
  \/ \E p \in Providers, person \in directory : StartCallback(w, p, person)
  \/ \E p \in Providers, u \in People, active \in BOOLEAN :
       \E s \in ScimSubjects(u) : ReadScimCreate(w, p, u, s, active)
  \/ \E p \in Providers, u \in Emails, to \in {"ACTIVE", "DISABLED", "same"} :
       ReadScimUpdate(w, p, u, to)
  \/ \E p \in Providers, u \in Emails : ReadScimDelete(w, p, u)

Finishing(w) ==
  \/ SeedTenant(w) \/ Invite(w) \/ FinishLogin(w) \/ Refresh(w) \/ ResolveUser(w)
  \/ SignIn(w) \/ ScimCreate(w) \/ ScimUpdate(w) \/ ScimDelete(w) \/ Abort(w)

Administer ==
  \E p \in Providers : \/ CreateProvider(p) \/ DeleteProvider(p)
                       \/ RegenerateScimToken(p) \/ DisableScim(p)

Expire(u) == ExpireAccess(u) \/ ExpireMfa(u)

AccountsNext ==
  \/ \E w \in Workers : Reading(w) \/ Finishing(w)
  \/ \E u \in Emails : VerifyMfa(u) \/ EnrollMfa(u) \/ ActivateMfa(u) \/ Expire(u)
  \/ \E i \in DOMAIN tokens : ExpireRefresh(i)
  \/ Administer

AccountsSpec == AccountsInit /\ [][AccountsNext]_accountVars

-----------------------------------------------------------------------------
(* Properties.                                                             *)

\* SSO and SCIM converge on one identity per person and provider (ADR-0012), however
\* their look-ups and inserts overlap, and no identity outlives its provider.
OneIdentityPerPerson ==
  /\ \A l, m \in links :
       (l.provider = m.provider /\ (l.subject = m.subject \/ l.user = m.user)) => l = m
  /\ \A l \in links : providers[l.provider] = "stored" /\ Exists(l.user)

\* A tenant whose onboarding was not interrupted has its administrator; a bare tenant
\* row, on which nobody can ever sign in, is only left behind by an interruption.
OwnerUnlessInterrupted ==
  /\ tenant = "bare" => interrupted \/ \E w \in Workers : pending[w].op = "onboard"
  /\ tenant = "ready" => /\ "tenant_admin" \in users[Owner].roles
                         /\ users[Owner].credential # "none"

\* With one handler at a time, rotation leaves one usable refresh token per family.
OneLivePerFamily ==
  Cardinality(online) = 1 =>
    \A i, j \in DOMAIN tokens :
      (tokens[i].live /\ tokens[j].live /\ tokens[i].family = tokens[j].family) => i = j

\* A disabled account comes back only by a SCIM call that says so: no sign-in, and no
\* invitation, reactivates a leaver.
ReactivatedByScim ==
  [][\A u \in Emails :
       (users[u].status = "DISABLED" /\ users'[u].status # "DISABLED") =>
         \E w \in Workers : /\ pending[w].op \in {"scim.create", "scim.update"}
                            /\ pending[w].user = u /\ pending'[w] = Idle]_accountVars

\* What a person can still go on with: usable refresh tokens, and handlers that have
\* looked at the account and will issue one.
Usable(u) == {i \in DOMAIN tokens : tokens[i].user = u /\ tokens[i].live}
Admits(w, u) == \/ pending[w].op = "login" /\ pending[w].user = u
                \/ pending[w].op = "refresh" /\ tokens[pending[w].token].user = u
Admitted(u) == {w \in Workers : Admits(w, u)}

\* The step that disables an account leaves it no usable token, whatever sessions and second
\* factor it has.  From then on nobody admits it: no sign-in or refresh gets past the check
\* of its status, and no second factor is asked for.  It gets a token only from a handler
\* that had admitted it before, one each, or by a second factor already asked for, which
\* looks at no status and works until it expires.
LeaverSignedOut ==
  [][\A u \in Emails : users'[u].status = "DISABLED" =>
       /\ users[u].status # "DISABLED" => Usable(u)' = {}
       /\ users[u].status = "DISABLED" =>
            /\ Admitted(u)' \subseteq Admitted(u) /\ (u \in mfaPending' => u \in mfaPending)
            /\ \A i \in Usable(u)' \ Usable(u) :
                 i = Len(tokens') /\ (u \in mfaPending \/ Admitted(u)' # Admitted(u))]_accountVars

\* Handled one at a time, a sign-in or a refresh only ever serves an active account:
\* an invited one is activated by its first sign-in, a leaver is refused; only a second
\* factor already asked for is still accepted from an account disabled since.
TokensForActiveOnly ==
  [][Len(tokens') > Len(tokens) =>
       LET user == tokens'[Len(tokens')].user
       IN users'[user].status = "ACTIVE" \/ user \in mfaPending \/ Cardinality(online) > 1
    ]_accountVars
=============================================================================
