# A TLA+ model of Payce payroll

Payce is a multi-tenant payroll service: a NestJS API (`src/apps/api`) over one Postgres database
(`src/packages/db`), a set of pure packages (`src/packages/payroll-core`, `rbac`, `insights`,
`integrations`, `assist`, `i18n`) and a Next.js client (`src/apps/web`). This directory holds TLA+
modules translated from that code, the TLC configurations that check them and TLAPS proofs about
them. `PROJECT.json` ties every definition to the source lines it stands for and lists the hazards
of the code with the properties that watch them.

## 1. Inventory

All state of the service is rows in Postgres and objects in S3; the API's processes keep nothing
between requests. Every handler calls `runInTenant` (`packages/db/src/tenant.ts`), one interactive
transaction. No isolation level is set anywhere, so it is Postgres' READ COMMITTED: a statement sees
what is committed when it runs, and a row read, checked and later updated *by id* may have changed in
between. Production runs at least two API tasks per service (`docs/aws-architecture.md:80`), and one
task interleaves requests at every `await`. That is the main source of hard behaviour here: nearly
every handler is "read, check, write by id" without a version column, a conditional update or a lock.

| component | state | operations | hard behaviour | what makes it correct |
|---|---|---|---|---|
| Payroll runs (`payroll/runs.service.ts`) | run header, lines, anomalies, approvals, period status | create, calculate, submit, decide, publish | overlapping requests, inputs that move between two calculations, recalculation after rejection | two-person rule, one line per employee, totals = lines, published runs immutable, each claim paid once |
| Claims (`claims/claims.service.ts`) | claim row, receipts | create, attach, decide; settled by publish | decision overlapping a decision or a publication | a decided claim stays decided; PAID only by a published run |
| Disbursement (`bank-file`, `payslip`) | S3 objects and their rows | the two jobs started by publish after its commit | failure or crash after the commit, partial failure among payslips | files show the published lines; every file appears or can be retried |
| Pay groups and periods (`payroll/pay-groups.service.ts`, `payroll-core/calendar.ts`) | group, members, periods | create, assignMembers, generatePeriods | overlapping generations, calendar edges | periods of a year tile it; one set per group and year |
| Leave (`leave/leave.service.ts`) | balance (entitled, used, pending), request | set balance, apply, decide, cancel | check-then-reserve races, double release, year boundary | used + pending = days of live requests; never above the entitlement |
| Integrations (`integrations/integrations.service.ts`) | run by idempotency key, imported employees, webhooks | triggerRun, webhooks, emit | retry with the same key, failure after success, crash while RUNNING | a key imports once; the status tells what happened |
| Accounts and sessions (`auth/auth.service.ts`, `users`) | users, credentials, refresh tokens, MFA | invite, login, MFA challenge and enrolment, refresh | two refreshes of one token, a leaver who is signing in, revocation rolled back by its own exception | one live token per family; only active people get tokens |
| SSO and SCIM (`auth/sso`, `scim`) | provider, identity links, SCIM credential | providers, SSO callback with just-in-time accounts, SCIM create/replace/patch/delete | provider deleted during a callback, SSO and SCIM creating the same person | one identity per person; a leaver is signed out and comes back only by SCIM |
| Onboarding (`tenants/tenants.service.ts`) | tenant, roles, owner | create | failure between its two commits | a tenant has an owner |
| Access (`packages/rbac`, guards, every `*.controller.ts`) | none | dispatch, authentication guard, permissions guard | a route that shadows another; class and handler metadata that combine | every route is reachable and guarded as declared |
| Employees (`employees/*.ts`) | employees and their managers | import, reporting tree | overlap between lookup and bulk insert; circular or deleted managers | a number names one employee; the tree shows everybody once |
| Kernels (`packages/payroll-core/src`) | none | formulas, rounding, brackets, rule packs, payslip, anomalies, calendar | rounding and boundaries, precedence, month ends | the payslip reconciles; no tax cliff; formulas mean what they say |
| Insights (`insights`, `packages/insights`) | saved reports, schedules | compile and run, save, schedule, update, delete | an update that read its schedule before another's write | reports agree with each other; the next run lies on the schedule's grid |
| Assist (`assist`, `packages/assist`) | knowledge, conversations, messages, escalations | ask, articles | articles edited between retrieval and persistence, tools that fail | an answer is grounded or escalated, once |
| Web session (`apps/web/lib/auth`, `middleware.ts`) | cookies of one browser | sign-in, MFA, SSO, refresh, sign-out | tabs whose answers arrive out of order or not at all | the jar ends up with the session the API knows |
| Audit, localisation, pages | append-only log, static texts | writes, formatting | none worth a model | – |

Interactions: leave (unpaid days) and claims feed `calculate`; `assignMembers` decides whom a run
pays; `publish` settles claims, closes the period and then starts the file jobs; SCIM and SSO revoke
sessions; integrations and the CSV import create employees; everything appends to the audit trail.

## 2. Modules

* **`PayrollRun`** – the run service, the claims it settles and the inputs it reads.
  *State*: `run` (header, by pay period: `payPeriodId` is unique), `line`, `flagged` (NO_COMPENSATION
  anomalies), `paid` (period status), `trail` (submissions and decisions on record), `claim`, `member`,
  `payable`, and `tx`, the open transaction of each session.
  *Actions*: a handler is an opening step (its reads and the checks on them; a failing check throws
  and changes nothing, so it is the guard) and a commit step (its writes); `Rollback` ends a
  transaction at any point. `calculate` is `CalculateOpen` (status), `CalculateRead` (members,
  compensation, approved claims), `CalculateClear` (the two `deleteMany`) and `CalculateCommit`
  (`createMany`, header, visible together). A deletion removes the rows that were committed when it
  ran (`oldLines`, `oldFlags`); rows inserted by another session later survive it, and the unique
  index on (run, employee) then refuses the commit. A second deletion of the same rows waits for the
  first and finds them gone (`Forget`).
* **`MakerChecker`** – the abstract contract of a run: payslips are edited while it is open, a maker
  submits it, somebody else decides, then it is paid and frozen. `PayrollRun!ImplementsContract`
  states the refinement (phase from status, maker from `submittedBy`, payslips are the lines).
* **`Disbursement`** – extends `PayrollRun` with the jobs `publish` starts after its commit: read the
  lines, write and record the bank file; read the lines, write and record each payslip, all payslips
  concurrently. `Fail` rejects one task, `Crash` loses every job and open transaction. `lost` is a
  history variable.
* **`LeaveBalance`** – leave requests and the balance rows that account for them. *State*: `balance`
  (a row per employee, leave type and year, or none yet), `request` (status), `tx`. *Actions*: apply,
  decide and cancel as an opening and a commit step, `SetBalance` (one upsert). Unlike a run's header,
  a balance is written by increments, so what a stale commit does is not lost but done twice. A
  balance row created on first use exists from the commit on; a second creation is refused by the
  unique index.
* **`LeaveLedger`** – the promise: a request is admitted only if it fits beside everything pending or
  approved, and is settled once. No rows: reserved days are computed from the requests.
  `LeaveBalance!ImplementsLedger` maps the entitlement column and the statuses to it.
* **`IntegrationRun`** – one integration's inbound runs, named by their idempotency keys, and the
  employee import they share with CSV uploads. *State*: `status` of each run, `origin` of each
  employee number, `told` (webhook events about each run), `job` (what each request is doing), `lost`
  (history). `triggerRun` is not one transaction but a chain: lookup (`Trigger`), reservation
  (`Reserve`, `LoseRace`), the import's read and insert (`ReadExisting`, `InsertFresh`), the outcome
  (`RecordSuccess`) and one per event (`EmitSucceeded`, `EmitImported`). `Throw` fails any link after
  the reservation and ends in `MarkFailed`, `EmitFailed`; `Stop` is a crash anywhere, or an error in
  the failure handler itself.
* **`Rbac`**, **`Access`** – the permission catalogue and the seeded roles; every route of every
  controller with its decorators, in the order Nest registers them, and the path of one request through
  dispatch and guards.
* **`Accounts`** – one tenant's accounts. A handler that reads and later writes is two steps (`Begin`,
  `End`) with other workers' commits in between; `Abort` is an error or a crash. Unique indexes and
  foreign keys hold when a handler writes (`LinkIdentity`). `Settings` chooses which workers serve the
  tenant, so that the properties that hold only without overlaps say so
  (`Cardinality(online) = 1`), and the others are asked of two workers. `Usable` and `Admitted` say
  what a person can still go on with: live tokens, and handlers that have checked her status and
  will issue one.
* **`WebSession`** – the cookie jar of one browser, its tabs' requests under way, and the API's view of
  the refresh tokens it issued to them.
* **`Rationals`**, **`Lexemes`**, **`Formula`**, **`PayMath`**, **`Payslip`** – the engine: rounding
  modes, the tokenizer, recursive-descent parser and evaluator of formulas, the three country packs,
  `calculate`, `runPayroll`, `detectAnomalies`. Values between two roundings are exact rationals.
  `Payslip` takes what `calculate.ts` imports from `formula.ts` as the operator constants `Compiled` and
  `Evaluated`, to which the configurations give `compile` and `evaluate` of `Formula`: the calculation
  depends on the language only through those two.
* **`Reports`**, **`OrgTree`** – the report compiler with what a compiled query returns, and the
  reporting tree. `Pages` is the set of answers PostgreSQL may give: groups, ordered by the given sort
  or the first measure and then the first dimension, of which `LIMIT` returns the first. Where the
  order leaves a tie at the cut, every choice is an answer. `Collation` stands for the database's
  order of strings; a missing value is the largest, as with `NULL`. A node of the tree is kept by the
  employee it shows; what was `seen` on the way down is carried along, as in the code.
* **`Figures`** – asks the pure operators one question per behaviour: an employee to pay (as she is and
  with each raise), a report, an organisation chart. **`Kernels`** adds a syntax tree to write down and
  compile.
* **`PayYear`** – the payslips of one employee through a year.
* **`Calendar`**, **`PayPeriods`** – UTC date arithmetic on day numbers; creating a pay group and
  generating its periods in instalments by overlapping requests.
* **`Insights`** – saved reports and their schedules, with updates that read, compute the next run and
  write. No worker of this repository executes a schedule.
* **`Assist`** – knowledge articles and one turn: routing, permitted tools and their outcomes,
  retrieval, answer, confidence, escalation, persistence.
* **`BackOffice`** – the parts above as one system. They share no row that one writes and another
  reads, so which part moves is chosen at the start and the others rest; a behaviour of the whole is a
  shuffle of such behaviours and violates nothing that they do not.
* **`MC*`** – constants and symmetry for TLC. `MCBackOffice` also states the golden masters of the
  repository's own tests (packs, payslips, calendar, schedules) as assumptions TLC evaluates.
* **`PayrollRun_proofs`** (also of `Disbursement` and the refinement of `MakerChecker`),
  **`LeaveBalance_proofs`** (also of the refinement of `LeaveLedger`), **`IntegrationRun_proofs`**,
  **`Accounts_proofs`**, **`WebAssist_proofs`** (of `WebSession` and `Assist`), **`Calendar_proofs`**
  (of `PayPeriods` and `Insights`), **`Figures_proofs`** – the theorems of section 5. **`FiniteSums`** –
  least elements, and sums over finite sets as the folds of the community modules define them.

Each module that models code also holds a few definitions marked *Faulty variant*: the form a helper
would have with a plausible bug. Nothing uses them; they exist to show that a property notices.
Substituting a variant for the definition it precedes must make the property named for it in
`PROJECT.json` (`mutants`) fail.

### Abstractions

Amounts are left out: what a line pays beyond salary is the set of claims in it, and "totals" are the
set of lines they were summed over. Unpaid leave, PAY_VARIANCE anomalies, currencies and the rule pack
change numbers and no control decision there; the kernels compute them. The reads of `calculate` are
one step (they are statements of one transaction on unrelated tables), and so are its deletions and
its insertions. Update statements such as `assignMembers` are one step. The order in which three
overlapping deletions take their locks is not tracked; more interleavings are allowed, never fewer.
Tenants do not interact, so there is one. Users keep their permissions; a user may hold both. A crash
takes the whole API down. In `LeaveBalance` the dates of a request are reduced to its working days and
the balance it is charged to. In `IntegrationRun` rows are reduced to employee numbers (what the
connector derives from a key is a function of the key, as the code's seed makes it), and all webhooks
that listen to an event are told in one transaction, so an event about a run is told or not told.

In the kernels amounts are counted in a unit per country (25 dollars, 10 pounds, 1000 rupees) so that a
year fits TLC's 32-bit integers; the golden masters that fit are evaluated in minor units. Doubles are
exact rationals: `roundToMinor` snaps to six decimals first. Overflow of a double is left out. In
`Accounts` a token is what it names (hashes, TOTP codes and signatures are left out) and the OIDC
exchange answers with a subject and an email. In `Assist` a text is its set of tokens and the words of
an answer are left out. With the seeded roles everybody who may use Assist may also read leave and
claims, so a tool is never forbidden in the checked instance. Times in `Insights` are hours.

## 3. Runs

| run | what it asks | result |
|---|---|---|
| `payroll_serial` | one request at a time: consistency of header, lines, anomalies and claims; a run is frozen from submission on; claims are final; the contract is implemented | holds |
| `payroll_concurrent` | two overlapping requests: what survives | holds |
| `double_payment` | can two published runs pay one claim? (`schema.prisma:863` says not) | violated |
| `paid_not_reimbursed` | is a PAID claim in some line of its run? (`runs.service.ts:499-500`) | violated |
| `published_reopened` | does a published run stay published? (`schema.prisma:607`) | violated when requests overlap |
| `disbursement` | files show the published lines; each appears unless its own job was lost | holds |
| `bank_file_lost` | can a lost bank file be produced again? (`bank-file.service.ts:62-63`) | violated |
| `leave` | one request at a time: columns are the sums over the requests, the ledger is implemented; overlapping: approved leave is booked, no reservation outlives its request | holds |
| `leave_oversubscribed` | do reservations keep requests within the entitlement? (`leave.service.ts:193`) | violated when requests overlap |
| `integration` | one worker per key, no employee twice, truthful webhooks, every run finishes unless its worker was lost | holds |
| `back_office` | the eighteen properties of the seven parts around the payroll core | holds |
| `annual_cap` | do twelve payslips stay within the annual Social Security cap? (`rules/us.ts:17`) | violated |

What `back_office` shows, part by part:

* *Access* (every route × every caller with up to two roles): `RoutesReachable` – no route shadows a
  later one; `AuditorReadsOnly` – the auditor role serves no state-changing route, however class and
  handler requirements combine.
* *Accounts*: `OneIdentityPerPerson`, `OwnerUnlessInterrupted`, `ReactivatedByScim` and
  `LeaverSignedOut` with two overlapping workers; `OneLivePerFamily`, `TokensForActiveOnly` for one
  worker. `LeaverSignedOut` says that the step that disables an account leaves it no usable token,
  whatever its second factor; that nobody admits it from then on; and that it gets a token only from a
  handler that had admitted it before, one each, or by a second factor asked for before, which
  `verifyMfa` (`auth.service.ts:152`) accepts without a look at the status.
* *Web*: `CookieCatchesUp` – the jar names a refresh token that was rotated only while an answer with
  its successor is on the way, unless an answer was lost.
* *Kernels*: `FormulaRoundTrip`, `RaiseNeverCosts`, `PayslipReconciles`, `ReportsReconcile`,
  `EverybodyOnce`. A report cut by its limit (`compile.ts:109`) does not add up to the grand total, so
  `ReportsReconcile` asks that no page exceeds it, that a page below its limit adds up to it, that a
  filter and its opposite share out the whole, and that a report of one dimension has one page.
* *Periods*: `PeriodsTile`. *Insights*: `NextRunOnGrid`. *Assist*: `GroundedOrEscalated`,
  `OneTicketPerEscalation`.

**Bounds.** `payroll_serial`: two periods of different groups, claim `c1` in both windows and `c2` in
one, employee `e1` who may join both groups, `e2` whose compensation may lapse, `u1` who is maker and
potential checker, `u2` checker. Two runs and one shared claim are what it takes for a claim to be
counted twice; one moving employee is what it takes for lines to go stale. `payroll_concurrent`: one
period, two sessions (every race here is between a check and one intervening commit), two makers of
whom one is also the checker, two employees of whom one may leave the group. Nothing is counted, so
there are no counters to cap. Sessions are symmetric. Serial properties are not asked of the
concurrent run because the code does not keep them there; `published_reopened` shows the simplest
way. `leave` has two balances so that a mix-up of rows would show, requests against three days, and
entitlements that HR may lower below what is reserved; its two sessions let any decision overtake
another's check. `integration` has
two requests, two keys with disjoint batches and uploads of any set of rows, so a lookup can be
overtaken by the same key, the other key or a file. These runs are finite without counter bounds:
a request id and an idempotency key are used once.

`back_office`: `MaxTokens = 2` refresh tokens (one rotation, or two sessions), two people, one
provider that knows the owner or the employee; `MaxIssued = 2` and `MaxAttempts = 2` let a second
sign-in overlap a refresh; two clerks with instalments of one and thirteen periods up to `MaxPeriods =
14`, so that every monthly calendar passes a year's end and a leap February; two editors, four kinds
of schedule changes, two reports, `Elapsed` of three hours; one article that changes and `MaxTurns =
2` turns, so that a conversation is continued. The kernels enumerate every formula of depth two over
all operators, unary plus included, reports of up to two dimensions over two employees, with a limit
that cuts a group off and one that does not, salaries one unit around every threshold of the three
packs, and every function from four employees to managers, a deleted one included. `annual_cap`: two
salaries, twelve periods. Two overlapping refreshes of one token need a third token to show and lie
beyond `MaxTokens`; `OneLivePerFamily` therefore speaks of one handler at a time. Two tabs may sign
each other's session out in `WebSession`; `CookieCatchesUp` allows it because the code does.

**Fairness.** Only `Disbursement` and `IntegrationRun` assume any: weak fairness of each file task and
of each request in flight, since the event loop resumes every promise whose I/O completed. *How* a
task ends is left open (it may fail), and no request is assumed to be made: clients are free.
`back_office` has safety and action properties only. A crash is one of the ways a request in
`IntegrationRun` goes on, and `FinishesUnlessLost` says exactly which runs it leaves RUNNING. Deadlock
is checked in every run but `back_office`, whose kernels stop when they have answered and whose
counters are bounded.

## 4. Findings

1. *A claim can be paid twice.* `calculate` reads approved claims of the period's window per
   employee, for the group she is in then; only `publish` takes them out of APPROVED. Calculate run 1
   in group A, move the employee, calculate run 2 in group B with an overlapping window, publish both.
2. *A claim can be PAID without being paid.* `publish` settles all APPROVED claims of the window of
   the period, whether or not a line of the run reimburses them.
3. *A published run can be reopened* by a request that passed its check before the publication.
4. *A lost bank file stays lost*: publish refuses a run that is already PUBLISHED.
5. *Overlapping leave requests oversubscribe a balance*: both read what is free before either reserves.
6. *Social Security passes its annual cap*: the pack stops at the cap by the year-to-date wages it is
   passed, and `calculate` passes none (`runs.service.ts:288`).

Seen while modelling, and no contradiction of a doc: an integration run whose employees were imported
can end FAILED, even after webhooks were told it succeeded (an error in a later event is caught by the
same handler), so `ToldTheTruth` does not say that a failed run imported nobody; and a run whose
worker crashed stays RUNNING and is returned as such to every retry with its key. Unpaid leave is
docked after contributions were taken from the whole gross (`runs.service.ts:270-289`): with most of a
period unpaid, the net falls as the salary rises and may be negative, for which there is a warning
(`NEGATIVE_NET`). The tie-breaker of a report (`compile.ts:218`, "Deterministic tiebreaker so
equal-measure groups (and tests) have a stable order") is the first dimension only: groups of two
dimensions that agree in the first and in the sort key come in no particular order, and at a limit
either may be cut, so `ReportsReconcile` asks for one page only where there is one dimension. The
dashboard "Active employees grouped by department" (`dashboards.ts:20`) has no filter on the status.

## 5. Proofs

Every property of the passing runs is proved for all values of the constants, except progress
(`BankFileUnlessLost`, `PayslipUnlessLost`, `FinishesUnlessLost`), the parser's `FormulaRoundTrip` and
the two about the route table (see the end of this section). Each invariant below was checked by TLC on
the instance of its run before it was proved.

**`PayrollRun_proofs`**, for any sets of users, employees, groups, periods, claims and sessions
(assumption `PayrollAssumption`: the constant functions have their types and `None` is none of the
values it stands beside). However requests overlap:

* `TypeCorrect` – `Spec => []TypeOK`. The work is in the union type of open transactions
  (`TransactionKinds`) and in `Forget`, which edits transactions of other sessions.
* `FourEyes` – `Spec => []TwoPersonRule`. `TwoPersonRule` is not inductive: an approval is checked in
  `DecideOpen` and written in `DecideCommit`, and in between the submitter in the header may become
  the approver herself. What survives is the record: `MakerOnRecord` (whoever is named as submitter
  has a submission in the trail, which only grows) and `InFlightVouched` (a decision in flight is by
  somebody who is not the only submitter on record; a publication in flight is of a run with an
  approver). `MakerCheckerStable` covers the steps that touch none of it.
* `PaidMeansPublished` – `Spec => []PaidClaimPinned`, inductive together with `TypeOK`.
* `NobodyPaidTwice` and `OwnClaimsOnly` – `Spec => []OneLinePerEmployee` and
  `Spec => []LinesPayOwnClaims`, from `LineInv`, which adds that the claims a calculation carries
  from its read to its commit lie in its window.

The properties of `payroll_serial` are false of overlapping requests (`published_reopened` shows one
way), so a hypothesis is needed, and one worker is more than it takes. `OneRequestPerRow` says that no
two requests are in flight for the same *run*, and no two reviews of the same *claim*; requests for
different runs and claims, `publish` settling claims under review, and all changes of members and
compensation may overlap. It is what the service would have if handlers locked the row they check
(`SELECT ... FOR UPDATE`), and one worker has it (`OneWorkerIsEnough`). Under `[]OneRequestPerRow`:

* `CheckerIsNotMaker` (`DistinctApprover`), `HeaderReconciles` (`TotalsMatchLines`),
  `AnomaliesAreNotPaid` (`FlaggedNotPaid`), `SettledWhenPublished` (`ReimbursedIsPaid`) are parts of the
  inductive invariant `SerialInv`. Its other parts are `AllChecksHold` – what a transaction found at
  its opening still holds when it commits – and `LinesDue` – a claim in a line was approved and stays
  so until a publication takes it. `ChecksKept` shows that steps on other rows do not disturb a check;
  `TypeOK` and `LineInv` are used with it.
* `FrozenWhileReviewed` – `FrozenUnderReview`; `ClaimsAreFinal` – `ClaimFinal`: each from what one
  step of `SerialInv` states may write (`AllChecksHold` rules out a stale commit).
* `ServiceImplementsContract` – `ImplementsContract`: the initial states map to initial states of
  `MakerChecker`, and every step maps to a step or a stutter. Openings and rollbacks stutter, a
  commit is the action of the contract of its name, and a calculation that overlaps with nobody else's
  replaces the payslips of an open run.
* `FilesAreRight` – `OutSpec /\ []OneRequestPerRow => []FilesShowTheRun`. A job reads the lines some
  time after the commit that started it, writes later, and may meet failures, crashes and other jobs
  in between. `OutInv` says that a task carries what its run's lines are now and that its run is
  published; lines of published runs do not change (the frozen part above), which keeps it true. A
  step of a job is a stutter of `PayrollRun`; a crash is none of its steps but only closes
  transactions, so it preserves `SerialInv` (`PayrollStep`).

**`IntegrationRun_proofs`**, for any keys, requests, employees and batches (assumption
`IntegrationAssumption`): `OneWorker` – `Spec => []SingleWorker`; `Truthful` – `Spec =>
[]ToldTheTruth`; `NobodyImportedTwice` – `Spec => NoDoubleImport`; `IntTypeCorrect` – `Spec =>
[]IntTypeOK`. The invariant `IInv` says of each request what its step promises (`GoodJob`: after the
import its batch is on file, and what it inserted bears its key), of each key what its row and its
webhooks say (`GoodKey`: once a failure is announced, nobody works on the run any more) and that a key
has one worker (`Alone`). `StepPreserves` reduces every action to what it writes: a step that touches
only its own job, its own key or a free one, and no existing employee, preserves the rest.

**`Accounts_proofs`**, for any people, providers, invited roles and overlapping handlers, and any
`MaxTokens` (assumption `AccountsAssumption`: the owner is one of the people, and so is everybody the
identity provider knows; there are finitely many workers, as `Cardinality(online)` supposes):

* `IdentitiesConverge` – `[]OneIdentityPerPerson`; `OwnerStays` – `[]OwnerUnlessInterrupted`;
  `LeaversReturnByScim` – `ReactivatedByScim`. None is inductive alone. `IInv` adds what a handler
  carries from its reads to its writes (`GoodJob`: it names people, and who existed then exists
  still), that nothing happens to a tenant before it is seeded (`Quiet`), and that at most one handler
  seeds it (`OneOnboarding`). No step takes away an account, its roles or its credential (`Kept`); with
  that, `ReadyStep` reduces a step in a seeded tenant to what it writes to users and links, and
  `LinkedOnce` shows why a check at the insert suffices.
* `LeaversAreSignedOut` – `LeaverSignedOut`, however handlers overlap; `RotationLeavesOne` –
  `[]OneLivePerFamily`; `OnlyActiveAreServed` – `TokensForActiveOnly`. `SessionInv` adds to `IInv` the
  shape of the token table and of handlers that name its tokens (`SessionsOK`) and, when one worker
  serves the tenant, that what it read is still so (`StillGood`) and that a family has one live token
  (`Rotated`). Steps are grouped by what they do to the table: issue none and revive none (`Weaker`),
  or issue one (`Longer`); `WeakerSignsOut` and `LongerSignsOut` say what such a step owes a leaver,
  and `EndAdmits` that a handler that has ended admits nobody any more.

**`WebAssist_proofs`**, for any tabs and limits: `CookiesCatchUp` – `WebSpec => []CookieCatchesUp`.
The property follows one token, and the answer it depends on may be overtaken by any other; `WebInv`
therefore adds `Undelivered`: a token on its way is in one answer only, is not in the jar, has not been
rotated, and no request under way presents it. So whichever answer is delivered last leaves a token that
is fresh, or one whose successor is still to come (`SuccessorComes`).

**`LeaveBalance_proofs`**, for any employees and balances, finitely many requests and handlers
(assumptions `LeaveAssumption`, `NoneIsNoRow`):

* `LeaveTypeCorrect` – `[]LeaveTypeOK`; `SettledOnARow` – `[]RowMade`: a decision or a cancellation
  always finds the row that its application made.
* `NoDaysAreLost` – `[]NoDaysLost`, however handlers overlap. `LedgerInv` adds `ApplicantsApart` (a
  request is made by one application). A commit changes one request and one row (`Writes`), and moves
  one term between the two sums (`SumRemove`, `SumStep`): a stale commit adds to `used` or takes from
  `pending` once too often, and both inequalities point the other way.
* `BalancesAreExact` – `[]LedgerExact`. `ExactInv` adds `AloneInv`: a lone handler finds at its commit
  what it read at its opening, the free days included.
* `ServiceKeepsLedger` – `Spec => ImplementsLedger`, step by step from `ExactInv`: that the days of an
  application were free in the columns is what the ledger asks of the requests.

**`Calendar_proofs`**, for any anchors, frequencies, clerks, counts and limits (`PayPeriodsAssumption`,
`InsightsAssumption`: changes hold only valid cadences and hours, as `UpdateScheduleSchema` in
`apps/api/src/insights/insights.dto.ts:48-54` makes sure):

* `CalendarHasNoGaps` – `PeriodsSpec => []PeriodsTile`. Half of it is a proof about the calendar, for
  every day from 2000 on (day 0; earlier anchors are not modelled): the date of a day and the day of a
  date agree (`MonthFound`, `DayFound`),
  months have their lengths, leap years included (`MonthLength`, `YearSpan`), and the i-th and the
  next boundary of each frequency meet, with month ends clamped (`WeeksTile`, `HalvesTile`,
  `MonthsTile`, `BoundariesTile`). The other half is `PeriodsInv`: the rows are the first n of the
  calendar, and a request in flight is about to insert consecutive rows that begin at or before the
  next; so whoever comes second either fails on the unique index or continues.
* `NextRunsAreOnTime` – `InsightsSpec => []NextRunOnGrid`, from `NextRunBounds` (the arithmetic of
  `computeNextRun`) and `SchedulesInv` (schedules belong to reports that are kept, and an update under
  way is of a schedule that still exists).

**`WebAssist_proofs`** also, for any people, articles, questions (finite sets of tokens) and limits
(`AssistAssumption`): `AnswersAreGrounded` – `[]GroundedOrEscalated`; `EscalationsHaveTickets` –
`[]OneTicketPerEscalation`. `ScoreBounds` and `TopIsOffered` show that the ranking picks an article
that was offered, whatever the texts; `AnswerIsGrounded` that the confidence of an answer without
ground lies below the threshold; `AssistInv` carries this from the answer to its persistence
(`AskedOK`, `AnsweredOK`) and counts tickets and turns alike (`MatchingAppended`).

**`Figures_proofs`**, for any payslips, reports and organisation charts that `FiguresAssumption` admits.
A kernel answers in one step, so `FiguresInv` only says that the answer is that of its question; the
work is in what the answer is for every question.

* `RaisesPay` – `[]RaiseNeverCosts`. From the bottom up: what rounding and the share of a period do to
  a difference (`ShareWithin`, `ShareRises`, `WholeRise`); what one more unit adds to the tax of any
  ascending bands, by adding up their slices (`TaxStep`, `TaxRises`); hence what each contribution of
  the three packs takes of a raise, at most its highest rate and its roundings, through standard
  deductions, thresholds, caps and the net of another contribution (`FederalTaxTakes`, `PayeTakes`,
  `SlabTaxTakes`, `SocialSecurityTakes`, `MedicareTakes`, `PensionTakes`, `InsuranceTakes`,
  `ProvidentFundTakes`); the slip itself, line by line (`PayslipIs`); and two slips side by side
  (`WithheldRises`, `DockRises`, `RaiseAlwaysPays`).
* `PayslipsAddUp` – `[]PayslipReconciles`, from the same description of a slip. The lines come out of
  the elements one by one (`NextIsRead`, `ElementsAreRead`), the pack's are appended to them and share
  no code with them (`ContributionsAreNotOwn`, `OneMoreContribution`), and no contribution is negative or
  more than the gross (`ContributionsWithin`).
* `ReportsAddUp` – `[]ReportsReconcile`, for any finite table and any dimensions, measures, filters,
  order and limit that the compiler accepts, and any collation. Groups partition the rows that are
  kept (`GroupsPartition`), so a sum over groups is a sum over rows (`TotalOfKept`, with `SumParts` of
  `FiniteSums`); a filter and its opposite part the table (`StatusSplits`); and the tie-breaker puts
  every group of a report of one dimension in a place of its own (`GroupsNeverTie`).
* `ChartsShowEverybodyOnce` – `[]EverybodyOnce`, for any finite number of employees and any managers on
  record. `EveryPlace` says what a place on a level of the chart is: a line of people, each the manager
  of the next, with `seen` exactly those above, and below it the chart of those who are left. Whoever is
  on no line has a manager who is on none either, so all of them together form a group that nobody's
  managers lead out of (`EverybodySeated`), and nobody whose line of managers ends is in such a group.
  Nobody has two lines: of two, drop the last of each, down to the level where only one of them can
  be (`OneLine`).

What these four suppose. `NamesAreRead` (the two about payslips): a formula that is one name compiles
and has the value of that name. It is all that a run's three elements ask of the formula language; the
assumption `NamesRead` of `MCBackOffice` has TLC evaluate it, for the names of a run and a sample of
values, on the parser as it is. `BeatsRounding`: a raise is at least four units and, with unpaid days
on the slip, more than what they dock of it and the roundings of four lines. It excludes slips that
dock more than about two fifths of the period's working days: unpaid leave is docked after tax and
contributions were taken from the undocked gross (`runs.service.ts:270-289`), so that a raise may
indeed cost those who hardly worked. `EmployeeTable`: ids tell employees apart, everybody has a
status, pay is not negative. A hierarchy has finitely many employees, and none of them is `Nobody`.

**Sums, least elements and recursive functions.** `FiniteSums` proves what the folds return without an
induction principle that takes a predicate: among the subsets for which a claim fails there would be a
least one (`LeastSubset`, from the well-foundedness of strict inclusion on a finite set;
`LeastNatural` likewise). That gives the existence of the function that the fold chooses
(`AddsUpExists`), and `SumStep`, `SumNat`, `SumRemove`, `SumUnion`, `SumParts`. A function that is
defined by recursion equals its definition only if there is such a function. For `calculate` it is
written down element by element (`CalculateIs`); for `buildTree` and its levels it is built up, over
larger and larger sets of those who are left (`ChartsGrow`, `ChartsExist`) and level by level
(`LevelsExist`).

**Only model-checked.**
* `BankFileUnlessLost`, `PayslipUnlessLost`, `FinishesUnlessLost`: liveness, which rests on fairness
  (`ENABLED`), out of the prover's reach.
* `FormulaRoundTrip`: the parser is mutually recursive and the property an induction over syntax trees;
  the prover takes neither a recursive operator nor a module that reaches one.
* `RoutesReachable`, `AuditorReadsOnly`: statements about one table of routes and roles that is written
  out in `Access` and `Rbac` and depends on no constant. The run visits every route, with every
  caller of up to `MaxRoles` roles; a proof would repeat the enumeration.
* The violations of section 4 are counterexamples and have nothing to prove.

## 6. Not modelled, and what could follow

Not modelled: pages, forms, formatting and localisation; the layout of CSV and PDF files and presigned
URLs; receipts of claims (an object and a metadata row); the creation of leave types, integrations and
webhooks (plain rows); lists and look-ups, which only read; row-level security (a property of the
database's policies); the redaction of personal data in Assist; currencies of claims; a year with a
53rd pay date; leave that spans New Year; a worker that executes schedules (there is none in the
repository).

Next: the same theorems for overlapping handlers of one row where the code survives them (which parts
of `SerialInv` a single row lock in `decide` and `publish` would restore); `NamesAreRead` as a theorem
about `compile` and `evaluate`, and the round trip of formulas, for which the parser would have to be
written as a recursive function over positions; callers with any number of roles in `Access`; claims
with currencies in the kernels.
