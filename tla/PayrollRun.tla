------------------------------ MODULE PayrollRun ------------------------------
(***************************************************************************)
(* The payroll run service: a run is created for a pay period, calculated, *)
(* submitted by a maker, decided by a checker and published; publishing    *)
(* settles the expense claims of the period.                               *)
(*                                                                         *)
(* Every handler is one interactive database transaction under Postgres'   *)
(* READ COMMITTED isolation: it reads a row, checks it, and later writes   *)
(* by primary key.  A request is therefore two or more steps here.  The    *)
(* opening step is the read together with the checks that follow it (a     *)
(* failed check is an exception: the request ends and nothing changes), so *)
(* it is enabled only when the checks pass.  The commit step is the        *)
(* handler's writes, made visible at once.  Between the two, any other     *)
(* session's commit may intervene, and the transaction may be rolled back. *)
(***************************************************************************)
CONSTANTS
    Managers,    \* users holding payroll.run.manage: create, calculate, submit, publish
    Approvers,   \* users holding payroll.run.approve: approve, reject
    Employees,
    Groups,      \* pay groups
    Periods,     \* pay periods; payPeriodId is unique, so a period also names its run
    Claims,      \* expense claims
    Sessions,    \* concurrent request workers of the API
    GroupOf,     \* the pay group of a period
    OwnerOf,     \* the employee who filed a claim
    PeriodsOf,   \* the periods whose date window covers the day a claim was incurred
    MayJoin,     \* the groups an employee may be assigned to
    MayLapse,    \* the employees whose compensation record may start or end
    None

Users == Managers \cup Approvers

ASSUME PayrollAssumption ==
    /\ GroupOf \in [Periods -> Groups]
    /\ OwnerOf \in [Claims -> Employees]
    /\ PeriodsOf \in [Claims -> SUBSET Periods]
    /\ MayJoin \in [Employees -> SUBSET Groups]
    /\ MayLapse \subseteq Employees
    /\ None \notin Users
    /\ None \notin Groups
    /\ None \notin Periods

VARIABLES
    run,      \* run headers, by period
    line,     \* the payslip lines of each run
    flagged,  \* employees with a NO_COMPENSATION anomaly row, by run
    paid,     \* the periods in status PAID
    trail,    \* submissions and decisions on record (audit events, approval rows)
    claim,    \* expense claims: review status and the run they are pinned to
    member,   \* the pay group each employee is assigned to
    payable,  \* employees with a compensation record in their group's currency
    tx        \* the open transaction of each session

runVars == <<run, line, flagged, paid, trail>>
hrVars  == <<member, payable>>
vars    == <<runVars, claim, hrVars, tx>>

Status      == {"NONE", "DRAFT", "CALCULATED", "PENDING_APPROVAL", "APPROVED",
                "PUBLISHED", "REJECTED"}
ClaimStatus == {"NONE", "PENDING", "APPROVED", "REJECTED", "PAID"}
Verdicts    == {"APPROVE", "REJECT"}

\* What the line of an employee pays on top of basic salary: her claims.
Line == [emp : Employees, pays : SUBSET Claims]

\* "sheet" stands for the totals and the employee count frozen in the header:
\* the lines they were summed over.
Header == [status : Status, submittedBy : Users \cup {None},
           approvedBy : Users \cup {None}, publishedBy : Users \cup {None},
           sheet : SUBSET Line]

Idle == [op |-> "idle"]

Calculation ==
    [op : {"calculate"}, step : {"opened", "read", "cleared"}, run : Periods,
     members : SUBSET Employees, skipped : SUBSET Employees, claims : SUBSET Claims,
     oldLines : SUBSET Employees, oldFlags : SUBSET Employees]
Handover == [op : {"submit", "publish"}, run : Periods, user : Managers]
Decision == [op : {"decide"}, run : Periods, user : Approvers, verdict : Verdicts]
Review   == [op : {"review"}, claim : Claims, verdict : Verdicts]

Transaction == {Idle} \cup Calculation \cup Handover \cup Decision \cup Review

TypeOK ==
    /\ run \in [Periods -> Header]
    /\ line \in [Periods -> SUBSET Line]
    /\ flagged \in [Periods -> SUBSET Employees]
    /\ paid \subseteq Periods
    /\ trail \in [Periods -> SUBSET ({"SUBMIT", "APPROVE", "REJECT"} \X Users)]
    /\ claim \in [Claims -> [status : ClaimStatus, run : Periods \cup {None}]]
    /\ member \in [Employees -> Groups \cup {None}]
    /\ payable \subseteq Employees
    /\ tx \in [Sessions -> Transaction]

Init ==
    /\ run = [p \in Periods |-> [status |-> "NONE", submittedBy |-> None,
                                 approvedBy |-> None, publishedBy |-> None, sheet |-> {}]]
    /\ line = [p \in Periods |-> {}]
    /\ flagged = [p \in Periods |-> {}]
    /\ paid = {}
    /\ trail = [p \in Periods |-> {}]
    /\ claim = [c \in Claims |-> [status |-> "NONE", run |-> None]]
    /\ member = [e \in Employees |-> None]
    /\ payable = Employees
    /\ tx = [s \in Sessions |-> Idle]

-----------------------------------------------------------------------------
(* Opening and ending a transaction. *)

\* s, which serves no request, reads what t records and passes its checks.
Open(s, t) ==
    /\ tx[s] = Idle
    /\ tx' = [tx EXCEPT ![s] = t]
    /\ UNCHANGED <<runVars, claim, hrVars>>

Close(s) == tx' = [tx EXCEPT ![s] = Idle]

\* A timeout, a dropped connection, a crash or a failed statement rolls the
\* transaction back: none of its writes was ever visible.
Rollback(s) ==
    /\ tx[s] # Idle
    /\ Close(s)
    /\ UNCHANGED <<runVars, claim, hrVars>>

-----------------------------------------------------------------------------
(* Creating a run: the unique index on payPeriodId admits one per period. *)

CreateRun(p) ==
    /\ run[p].status = "NONE"
    /\ run' = [run EXCEPT ![p].status = "DRAFT"]
    /\ UNCHANGED <<line, flagged, paid, trail, claim, hrVars, tx>>

-----------------------------------------------------------------------------
(* Calculating: status check, inputs, deletion of the old rows, new rows.  *)
(* Each statement sees what is committed when it runs.                     *)

\* Faulty variant: a submitted run can still be recalculated.
RecalculableUntilApproved == {"DRAFT", "CALCULATED", "PENDING_APPROVAL", "REJECTED"}

Recalculable == {"DRAFT", "CALCULATED", "REJECTED"}

CalculateOpen(s, p) ==
    /\ run[p].status \in Recalculable
    /\ Open(s, [op |-> "calculate", step |-> "opened", run |-> p, members |-> {},
                skipped |-> {}, claims |-> {}, oldLines |-> {}, oldFlags |-> {}])

CalculateRead(s) ==
    LET t    == tx[s]
        here == {e \in Employees : member[e] = GroupOf[t.run]}
    IN  /\ t.op = "calculate"
        /\ t.step = "opened"
        /\ tx' = [tx EXCEPT ![s] =
                    [t EXCEPT !.step = "read",
                              !.members = here \cap payable,
                              !.skipped = here \ payable,
                              !.claims = {c \in Claims : /\ claim[c].status = "APPROVED"
                                                         /\ t.run \in PeriodsOf[c]}]]
        /\ UNCHANGED <<runVars, claim, hrVars>>

\* The two deleteMany statements remove the rows visible to them, and no others.
CalculateClear(s) ==
    LET t == tx[s]
    IN  /\ t.op = "calculate"
        /\ t.step = "read"
        /\ tx' = [tx EXCEPT ![s] =
                    [t EXCEPT !.step = "cleared",
                              !.oldLines = {l.emp : l \in line[t.run]},
                              !.oldFlags = flagged[t.run]]]
        /\ UNCHANGED <<runVars, claim, hrVars>>

\* Faulty variant: the claims of the window are not split by employee.
NewLinesUnsplit(t) == {[emp |-> e, pays |-> t.claims] : e \in t.members}

\* One line per payable member, with the approved claims she filed.
NewLines(t) == {[emp |-> e, pays |-> {c \in t.claims : OwnerOf[c] = e}] : e \in t.members}

\* Faulty variant: rows are replaced employee by employee, not wholesale.
KeptLinesOfOthers(t) == {l \in line[t.run] : l.emp \notin t.members}

\* The lines of the run that t's deletion has not seen.
KeptLines(t) == {l \in line[t.run] : l.emp \notin t.oldLines}

\* Faulty variant: anomalies accumulate over recalculations.
KeptFlagsAll(t) == flagged[t.run]

KeptFlags(t) == flagged[t.run] \ t.oldFlags

\* Faulty variant: no unique index on the lines.
NoUniqueIndex(t) == TRUE

\* The unique index (run, employee) refuses a second line for an employee.
UniqueIndexHolds(t) == \A l \in KeptLines(t) : l.emp \notin t.members

\* Rows another open transaction u meant to delete are gone once t deleted them.
Forget(u, t) ==
    IF u.op = "calculate" /\ u.run = t.run
    THEN [u EXCEPT !.oldLines = @ \ t.oldLines, !.oldFlags = @ \ t.oldFlags]
    ELSE u

\* A transaction the unique index refuses can only be rolled back.
CalculateCommit(s) ==
    LET t == tx[s]
    IN  /\ t.op = "calculate"
        /\ t.step = "cleared"
        /\ UniqueIndexHolds(t)
        /\ line' = [line EXCEPT ![t.run] = KeptLines(t) \cup NewLines(t)]
        /\ flagged' = [flagged EXCEPT ![t.run] = KeptFlags(t) \cup t.skipped]
        /\ run' = [run EXCEPT ![t.run].status = "CALCULATED",
                              ![t.run].sheet = NewLines(t)]
        /\ tx' = [u \in Sessions |-> IF u = s THEN Idle ELSE Forget(tx[u], t)]
        /\ UNCHANGED <<paid, trail, claim, hrVars>>

-----------------------------------------------------------------------------
(* Submitting. *)

SubmitOpen(s, p, u) ==
    /\ run[p].status \in {"CALCULATED", "REJECTED"}
    /\ run[p].sheet # {}
    /\ Open(s, [op |-> "submit", run |-> p, user |-> u])

SubmitCommit(s) ==
    LET t == tx[s]
    IN  /\ t.op = "submit"
        /\ run' = [run EXCEPT ![t.run].status = "PENDING_APPROVAL",
                              ![t.run].submittedBy = t.user]
        /\ trail' = [trail EXCEPT ![t.run] = @ \cup {<<"SUBMIT", t.user>>}]
        /\ Close(s)
        /\ UNCHANGED <<line, flagged, paid, claim, hrVars>>

-----------------------------------------------------------------------------
(* Deciding. *)

\* Faulty variant: the checker is not compared with the submitter.
AnyoneChecks(p, u) == TRUE

\* The checker must not be the submitter.
IsChecker(p, u) == run[p].submittedBy # u

\* Faulty variant: the request's verb is stored as the status.
RawVerdict(verdict) == verdict

StatusAfter(verdict) == IF verdict = "APPROVE" THEN "APPROVED" ELSE "REJECTED"

DecideOpen(s, p, u, verdict) ==
    /\ run[p].status = "PENDING_APPROVAL"
    /\ IsChecker(p, u)
    /\ Open(s, [op |-> "decide", run |-> p, user |-> u, verdict |-> verdict])

DecideCommit(s) ==
    LET t == tx[s]
    IN  /\ t.op = "decide"
        /\ run' = [run EXCEPT
                     ![t.run].status = StatusAfter(t.verdict),
                     ![t.run].approvedBy = IF t.verdict = "APPROVE" THEN t.user ELSE @]
        /\ trail' = [trail EXCEPT ![t.run] = @ \cup {<<t.verdict, t.user>>}]
        /\ Close(s)
        /\ UNCHANGED <<line, flagged, paid, claim, hrVars>>

-----------------------------------------------------------------------------
(* Publishing. *)

PublishOpen(s, p, u) ==
    /\ run[p].status = "APPROVED"
    /\ run[p].approvedBy # None
    /\ run[p].approvedBy # run[p].submittedBy
    /\ Open(s, [op |-> "publish", run |-> p, user |-> u])

\* Faulty variant: only claims of employees who are members now are settled.
SettledOfMembers(p) == {c \in Claims : /\ claim[c].status = "APPROVED"
                                       /\ p \in PeriodsOf[c]
                                       /\ member[OwnerOf[c]] = GroupOf[p]}

\* The claims the bulk update matches: approved ones of the period, whoever filed them.
Settled(p) == {c \in Claims : claim[c].status = "APPROVED" /\ p \in PeriodsOf[c]}

\* Faulty variant: the settled claim is not pinned to the run.
Unpinned(p) == [status |-> "PAID", run |-> None]

PaidBy(p) == [status |-> "PAID", run |-> p]

PublishCommit(s) ==
    LET t == tx[s]
    IN  /\ t.op = "publish"
        /\ run' = [run EXCEPT ![t.run].status = "PUBLISHED", ![t.run].publishedBy = t.user]
        /\ paid' = paid \cup {t.run}
        /\ claim' = [c \in Claims |-> IF c \in Settled(t.run) THEN PaidBy(t.run)
                                                              ELSE claim[c]]
        /\ Close(s)
        /\ UNCHANGED <<line, flagged, trail, hrVars>>

-----------------------------------------------------------------------------
(* The inputs of a run: claims, group membership, compensation. *)

CreateClaim(c) ==
    /\ claim[c].status = "NONE"
    /\ claim' = [claim EXCEPT ![c].status = "PENDING"]
    /\ UNCHANGED <<runVars, hrVars, tx>>

\* Faulty variant: a decision can be taken again.
ReviewableTwice(c) == claim[c].status # "NONE"

Reviewable(c) == claim[c].status = "PENDING"

ReviewOpen(s, c, verdict) ==
    /\ Reviewable(c)
    /\ Open(s, [op |-> "review", claim |-> c, verdict |-> verdict])

ReviewCommit(s) ==
    LET t == tx[s]
    IN  /\ t.op = "review"
        /\ claim' = [claim EXCEPT ![t.claim].status = StatusAfter(t.verdict)]
        /\ Close(s)
        /\ UNCHANGED <<runVars, hrVars>>

\* One UPDATE statement: its read and its write cannot be separated.
AssignMembers(es, g) ==
    /\ \A e \in es : g \in MayJoin[e]
    /\ member' = [e \in Employees |-> IF e \in es THEN g ELSE member[e]]
    /\ UNCHANGED <<runVars, claim, payable, tx>>

\* Compensation records are loaded outside the API; one may start, end or be
\* in another currency than the group's.
ChangeCompensation(e) ==
    /\ payable' = IF e \in payable THEN payable \ {e} ELSE payable \cup {e}
    /\ UNCHANGED <<runVars, claim, member, tx>>

-----------------------------------------------------------------------------
RunStep(s) ==
    \/ \E p \in Periods : CalculateOpen(s, p)
    \/ CalculateRead(s)
    \/ CalculateClear(s)
    \/ CalculateCommit(s)
    \/ \E p \in Periods, u \in Managers : SubmitOpen(s, p, u)
    \/ SubmitCommit(s)
    \/ \E p \in Periods, u \in Approvers, v \in Verdicts : DecideOpen(s, p, u, v)
    \/ DecideCommit(s)
    \/ \E p \in Periods, u \in Managers : PublishOpen(s, p, u)
    \/ Rollback(s)

ClaimStep(s) ==
    \/ \E c \in Claims, v \in Verdicts : ReviewOpen(s, c, v)
    \/ ReviewCommit(s)

InputStep ==
    \/ \E c \in Claims : CreateClaim(c)
    \/ \E es \in SUBSET Employees, g \in Groups : AssignMembers(es, g)
    \/ \E e \in MayLapse : ChangeCompensation(e)

Next ==
    \/ \E p \in Periods : CreateRun(p)
    \/ \E s \in Sessions : RunStep(s)
    \/ \E s \in Sessions : PublishCommit(s)
    \/ \E s \in Sessions : ClaimStep(s)
    \/ InputStep

Spec == Init /\ [][Next]_vars

-----------------------------------------------------------------------------
(* What holds however requests overlap. *)

\* Maker-checker on the record: a run that carries an approver (and every
\* published run does) was approved by that user, and somebody else submitted it
\* (RunsService.decide and publish).
TwoPersonRule ==
    \A p \in Periods :
        /\ run[p].status \in {"APPROVED", "PUBLISHED"} \/ run[p].publishedBy # None
              => run[p].approvedBy # None
        /\ run[p].approvedBy # None
              => /\ <<"APPROVE", run[p].approvedBy>> \in trail[p]
                 /\ \E u \in Managers \ {run[p].approvedBy} : <<"SUBMIT", u>> \in trail[p]

\* A claim is marked PAID only by publishing: it is pinned to a run that was
\* published, whose window covers it and whose period is closed (RunsService.publish).
PaidClaimPinned ==
    \A c \in Claims :
        /\ claim[c].status = "PAID" => claim[c].run # None
        /\ claim[c].run # None => /\ claim[c].run \in PeriodsOf[c] \cap paid
                                  /\ run[claim[c].run].publishedBy # None

\* Overlapping calculations never leave an employee with two lines in a run: the
\* row-by-row deletion and the unique index together see to it.
OneLinePerEmployee ==
    \A p \in Periods : \A l, m \in line[p] : l.emp = m.emp => l = m

\* A line reimburses only claims its own employee incurred within the period.
LinesPayOwnClaims ==
    \A p \in Periods : \A l \in line[p] :
        \A c \in l.pays : OwnerOf[c] = l.emp /\ p \in PeriodsOf[c]

-----------------------------------------------------------------------------
(* What holds as long as requests do not overlap. *)

\* The approver of an approved or published run is not its submitter.
DistinctApprover ==
    \A p \in Periods :
        run[p].status \in {"APPROVED", "PUBLISHED"} => run[p].approvedBy # run[p].submittedBy

\* The header totals are the sums over the lines on file.
TotalsMatchLines == \A p \in Periods : run[p].sheet = line[p]

\* An employee flagged as having no compensation has no line in that run.
FlaggedNotPaid == \A p \in Periods : \A l \in line[p] : l.emp \notin flagged[p]

\* Every claim a published run reimburses is settled, so that no later run pays it.
ReimbursedIsPaid ==
    \A p \in Periods : run[p].status = "PUBLISHED" =>
        \A l \in line[p] : \A c \in l.pays : claim[c].status = "PAID"

\* A published run, its lines and its anomalies never change again, and nobody
\* touches the lines between submission and decision.
FrozenUnderReview ==
    [][\A p \in Periods :
         /\ run[p].status = "PUBLISHED" =>
               run'[p] = run[p] /\ line'[p] = line[p] /\ flagged'[p] = flagged[p]
         /\ run[p].status \in {"PENDING_APPROVAL", "APPROVED"} => line'[p] = line[p]]_vars

\* A claim that is paid or rejected stays so, and stays with its run.
ClaimFinal ==
    [][\A c \in Claims :
         claim[c].status \in {"PAID", "REJECTED"} => claim'[c] = claim[c]]_vars

\* The service implements the maker-checker contract.
Phase(p) ==
    CASE run[p].status = "PENDING_APPROVAL" -> "review"
      [] run[p].status = "APPROVED"         -> "approved"
      [] run[p].status = "PUBLISHED"        -> "paid"
      [] OTHER                              -> "open"

Contract == INSTANCE MakerChecker
                WITH Runs <- Periods, Payslips <- Line, slips <- line,
                     phase <- [p \in Periods |-> Phase(p)],
                     maker <- [p \in Periods |-> run[p].submittedBy]

\* Seen without transactions, a run goes through open, review, approved and paid,
\* its payslips change only while it is open, and its checker is not its maker.
ImplementsContract == Contract!Spec

-----------------------------------------------------------------------------
(* Promises of the documentation that the code does not keep. *)

\* "an approved claim is disbursed exactly once" (runs.service.ts:500): a claim
\* marked PAID by a run is reimbursed by a line of that run.
PaidClaimReimbursed ==
    \A c \in Claims : claim[c].status = "PAID" =>
        \E l \in line[claim[c].run] : c \in l.pays

\* "idempotent: prevents double-payment" (schema.prisma:863): no two published
\* runs reimburse the same claim.
NoDoublePayment ==
    \A p, q \in Periods :
        run[p].status = "PUBLISHED" /\ run[q].status = "PUBLISHED" /\ p # q =>
            \A l \in line[p], m \in line[q] : l.pays \cap m.pays = {}

\* "PUBLISHED // disbursed; immutable" (schema.prisma:607): a published run stays
\* published.
PublishedForever ==
    \A p \in Periods : run[p].publishedBy # None => run[p].status = "PUBLISHED"
=============================================================================
