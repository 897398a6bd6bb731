--------------------------- MODULE PayrollRun_proofs ---------------------------
(***************************************************************************)
(* What PayrollRun guarantees for every number of users, employees, pay    *)
(* periods, claims and concurrent sessions: first however they overlap,    *)
(* then as long as no two requests are in flight for the same row, and at  *)
(* the end what follows for the files that the jobs of a run write.        *)
(***************************************************************************)
EXTENDS Disbursement, TLAPS

-----------------------------------------------------------------------------
(* The kind of an open transaction tells which fields it has. *)

LEMMA TransactionKinds ==
    ASSUME NEW t \in Transaction
    PROVE  /\ t.op = "calculate" => t \in Calculation
           /\ t.op \in {"submit", "publish"} => t \in Handover
           /\ t.op = "decide" => t \in Decision
           /\ t.op = "review" => t \in Review
<1>1. Idle.op = "idle"
  BY DEF Idle
<1>2. \A u \in Calculation : u.op = "calculate"
  BY DEF Calculation
<1>3. \A u \in Handover : u.op \in {"submit", "publish"}
  BY DEF Handover
<1>4. \A u \in Decision : u.op = "decide"
  BY DEF Decision
<1>5. \A u \in Review : u.op = "review"
  BY DEF Review
<1> QED  BY <1>1, <1>2, <1>3, <1>4, <1>5 DEF Transaction

\* Opening a transaction of a known kind, or closing one, keeps tx well-typed.
LEMMA OpenTyped ==
    ASSUME TypeOK, NEW s \in Sessions, NEW t \in Transaction, Open(s, t)
    PROVE  TypeOK'
BY DEF TypeOK, Open, runVars, hrVars

LEMMA CloseTyped ==
    ASSUME TypeOK, NEW s \in Sessions, Close(s)
    PROVE  tx' \in [Sessions -> Transaction]
BY DEF TypeOK, Close, Transaction

\* Writing columns of a row leaves a row.
LEMMA HeaderWritten ==
    ASSUME NEW h \in Header, NEW st \in Status, NEW u \in Users \cup {None},
           NEW sh \in SUBSET Line
    PROVE  /\ [h EXCEPT !.status = st] \in Header
           /\ [h EXCEPT !.status = st, !.sheet = sh] \in Header
           /\ [h EXCEPT !.status = st, !.submittedBy = u] \in Header
           /\ [h EXCEPT !.status = st, !.approvedBy = u] \in Header
           /\ [h EXCEPT !.status = st, !.publishedBy = u] \in Header
BY DEF Header

LEMMA CalculationWritten ==
    ASSUME NEW t \in Calculation, NEW step \in {"opened", "read", "cleared"},
           NEW A \in SUBSET Employees, NEW B \in SUBSET Employees, NEW C \in SUBSET Claims
    PROVE  /\ [t EXCEPT !.step = step, !.members = A, !.skipped = B, !.claims = C] \in Calculation
           /\ [t EXCEPT !.step = step, !.oldLines = A, !.oldFlags = B] \in Calculation
           /\ [t EXCEPT !.oldLines = A, !.oldFlags = B] \in Calculation
BY DEF Calculation

LEMMA ClaimWritten ==
    ASSUME NEW c \in [status : ClaimStatus, run : Periods \cup {None}], NEW st \in ClaimStatus
    PROVE  [c EXCEPT !.status = st] \in [status : ClaimStatus, run : Periods \cup {None}]
OBVIOUS

\* A calculation that commits leaves the kind of every other open transaction alone.
LEMMA ForgetTyped ==
    ASSUME NEW t \in Calculation, NEW u \in Transaction
    PROVE  /\ Forget(u, t) \in Transaction
           /\ Forget(u, t) = u \/ Forget(u, t) \in Calculation
<1>1. CASE u.op = "calculate"
  <2>1. u \in Calculation
    BY <1>1, TransactionKinds
  <2>2. u.oldLines \ t.oldLines \subseteq Employees /\ u.oldFlags \ t.oldFlags \subseteq Employees
    BY <2>1 DEF Calculation
  <2> QED  BY <2>1, <2>2, CalculationWritten DEF Forget, Transaction
<1>2. CASE u.op # "calculate"
  BY <1>2 DEF Forget
<1> QED  BY <1>1, <1>2

-----------------------------------------------------------------------------
(* Type correctness. *)

LEMMA InitTyped == Init => TypeOK
BY PayrollAssumption DEF Init, TypeOK, Header, Status, ClaimStatus, Transaction

LEMMA NextTyped ==
    ASSUME TypeOK, [Next]_vars
    PROVE  TypeOK'
<1> USE PayrollAssumption
<1>1. ASSUME NEW p \in Periods, CreateRun(p)
      PROVE  TypeOK'
  <2>1. run' \in [Periods -> Header]
    BY <1>1, HeaderWritten DEF TypeOK, CreateRun, Status
  <2> QED  BY <1>1, <2>1 DEF TypeOK, CreateRun, hrVars
<1>2. ASSUME NEW s \in Sessions, NEW p \in Periods, CalculateOpen(s, p)
      PROVE  TypeOK'
  BY <1>2, OpenTyped DEF CalculateOpen, Transaction, Calculation
<1>3. ASSUME NEW s \in Sessions, CalculateRead(s)
      PROVE  TypeOK'
  <2>1. tx[s] \in Calculation
    BY <1>3, TransactionKinds DEF CalculateRead, TypeOK
  <2>2. tx' \in [Sessions -> Transaction]
    BY <1>3, <2>1, CalculationWritten DEF CalculateRead, TypeOK, Transaction
  <2> QED  BY <1>3, <2>2 DEF CalculateRead, TypeOK, runVars, hrVars
<1>4. ASSUME NEW s \in Sessions, CalculateClear(s)
      PROVE  TypeOK'
  <2>1. tx[s] \in Calculation
    BY <1>4, TransactionKinds DEF CalculateClear, TypeOK
  <2>2. /\ flagged[tx[s].run] \subseteq Employees
        /\ {l.emp : l \in line[tx[s].run]} \subseteq Employees
    BY <2>1 DEF TypeOK, Calculation, Line
  <2>3. tx' \in [Sessions -> Transaction]
    BY <1>4, <2>1, <2>2, CalculationWritten DEF CalculateClear, TypeOK, Transaction
  <2> QED  BY <1>4, <2>3 DEF CalculateClear, TypeOK, runVars, hrVars
<1>5. ASSUME NEW s \in Sessions, CalculateCommit(s)
      PROVE  TypeOK'
  <2>1. tx[s] \in Calculation
    BY <1>5, TransactionKinds DEF CalculateCommit, TypeOK
  <2>2. NewLines(tx[s]) \subseteq Line /\ KeptLines(tx[s]) \subseteq Line
    BY <2>1 DEF NewLines, KeptLines, Calculation, Line, TypeOK
  <2>3. KeptFlags(tx[s]) \cup tx[s].skipped \subseteq Employees
    BY <2>1 DEF KeptFlags, Calculation, TypeOK
  <2>5. tx' \in [Sessions -> Transaction]
    BY <1>5, <2>1, ForgetTyped DEF CalculateCommit, TypeOK, Transaction
  <2>6. run' \in [Periods -> Header]
    <3>1. tx[s].run \in Periods /\ NewLines(tx[s]) \in SUBSET Line /\ "CALCULATED" \in Status
      BY <2>1, <2>2 DEF Calculation, Status
    <3>2. [run[tx[s].run] EXCEPT !.status = "CALCULATED", !.sheet = NewLines(tx[s])] \in Header
      BY <3>1, HeaderWritten DEF TypeOK
    <3> QED  BY <1>5, <3>1, <3>2 DEF CalculateCommit, TypeOK
  <2> QED  BY <1>5, <2>1, <2>2, <2>3, <2>5, <2>6
           DEF CalculateCommit, TypeOK, Calculation, hrVars
<1>6. ASSUME NEW s \in Sessions, NEW p \in Periods, NEW u \in Managers, SubmitOpen(s, p, u)
      PROVE  TypeOK'
  BY <1>6, OpenTyped DEF SubmitOpen, Transaction, Handover
<1>7. ASSUME NEW s \in Sessions, SubmitCommit(s)
      PROVE  TypeOK'
  <2>1. tx[s] \in Handover
    BY <1>7, TransactionKinds DEF SubmitCommit, TypeOK
  <2>2. run' \in [Periods -> Header]
    BY <1>7, <2>1, HeaderWritten DEF SubmitCommit, TypeOK, Handover, Status, Users
  <2> QED  BY <1>7, <2>1, <2>2, CloseTyped DEF SubmitCommit, TypeOK, Handover, Users, hrVars
<1>8. ASSUME NEW s \in Sessions, NEW p \in Periods, NEW u \in Approvers, NEW v \in Verdicts,
             DecideOpen(s, p, u, v)
      PROVE  TypeOK'
  BY <1>8, OpenTyped DEF DecideOpen, Transaction, Decision
<1>9. ASSUME NEW s \in Sessions, DecideCommit(s)
      PROVE  TypeOK'
  <2>1. tx[s] \in Decision
    BY <1>9, TransactionKinds DEF DecideCommit, TypeOK
  <2>2. run' \in [Periods -> Header]
    <3> DEFINE h   == run[tx[s].run]
               who == IF tx[s].verdict = "APPROVE" THEN tx[s].user ELSE h.approvedBy
    <3>1. tx[s].run \in Periods /\ h \in Header /\ StatusAfter(tx[s].verdict) \in Status
      BY <2>1 DEF TypeOK, Decision, StatusAfter, Status
    <3>2. who \in Users \cup {None}
      BY <2>1, <3>1 DEF Decision, Header, Users
    <3>3. [h EXCEPT !.status = StatusAfter(tx[s].verdict), !.approvedBy = who] \in Header
      BY <3>1, <3>2, HeaderWritten
    <3> QED  BY <1>9, <3>1, <3>3 DEF DecideCommit, TypeOK
  <2> QED  BY <1>9, <2>1, <2>2, CloseTyped
           DEF DecideCommit, TypeOK, Decision, Verdicts, Users, hrVars
<1>10. ASSUME NEW s \in Sessions, NEW p \in Periods, NEW u \in Managers, PublishOpen(s, p, u)
       PROVE  TypeOK'
  BY <1>10, OpenTyped DEF PublishOpen, Transaction, Handover
<1>11. ASSUME NEW s \in Sessions, PublishCommit(s)
       PROVE  TypeOK'
  <2>1. tx[s] \in Handover
    BY <1>11, TransactionKinds DEF PublishCommit, TypeOK
  <2>2. claim' \in [Claims -> [status : ClaimStatus, run : Periods \cup {None}]]
    BY <1>11, <2>1 DEF PublishCommit, PaidBy, TypeOK, Handover, ClaimStatus
  <2>3. run' \in [Periods -> Header]
    BY <1>11, <2>1, HeaderWritten DEF PublishCommit, TypeOK, Handover, Status, Users
  <2> QED  BY <1>11, <2>1, <2>2, <2>3, CloseTyped
           DEF PublishCommit, TypeOK, Handover, hrVars
<1>12. ASSUME NEW s \in Sessions, Rollback(s)
       PROVE  TypeOK'
  BY <1>12, CloseTyped DEF Rollback, TypeOK, runVars, hrVars
<1>13. ASSUME NEW s \in Sessions, NEW c \in Claims, NEW v \in Verdicts, ReviewOpen(s, c, v)
       PROVE  TypeOK'
  BY <1>13, OpenTyped DEF ReviewOpen, Transaction, Review
<1>14. ASSUME NEW s \in Sessions, ReviewCommit(s)
       PROVE  TypeOK'
  <2>1. tx[s] \in Review
    BY <1>14, TransactionKinds DEF ReviewCommit, TypeOK
  <2>2. claim' \in [Claims -> [status : ClaimStatus, run : Periods \cup {None}]]
    BY <1>14, <2>1, ClaimWritten DEF ReviewCommit, StatusAfter, TypeOK, Review, ClaimStatus
  <2> QED  BY <1>14, <2>2, CloseTyped DEF ReviewCommit, TypeOK, runVars, hrVars
<1>15. ASSUME InputStep
       PROVE  TypeOK'
  <2>1. CASE \E c \in Claims : CreateClaim(c)
    <3>1. PICK c \in Claims : CreateClaim(c)
      BY <2>1
    <3>2. [claim[c] EXCEPT !.status = "PENDING"]
            \in [status : ClaimStatus, run : Periods \cup {None}]
      BY ClaimWritten DEF TypeOK, ClaimStatus
    <3> QED  BY <3>1, <3>2 DEF CreateClaim, TypeOK, runVars, hrVars
  <2>2. CASE \E es \in SUBSET Employees, g \in Groups : AssignMembers(es, g)
    BY <2>2 DEF AssignMembers, TypeOK, runVars
  <2>3. CASE \E e \in MayLapse : ChangeCompensation(e)
    BY <2>3 DEF ChangeCompensation, TypeOK, runVars
  <2> QED  BY <1>15, <2>1, <2>2, <2>3 DEF InputStep
<1>16. CASE UNCHANGED vars
  BY <1>16 DEF vars, runVars, hrVars, TypeOK
<1> QED
  BY <1>1, <1>2, <1>3, <1>4, <1>5, <1>6, <1>7, <1>8, <1>9, <1>10, <1>11, <1>12, <1>13, <1>14,
     <1>15, <1>16
  DEF Next, RunStep, ClaimStep

\* Every reachable state is well-typed: handlers that overlap, and the partial clearing of a
\* calculation's snapshots by another, never produce a record the schema has no place for.
THEOREM TypeCorrect == Spec => []TypeOK
<1>1. Init => TypeOK
  BY InitTyped
<1>2. TypeOK /\ [Next]_vars => TypeOK'
  BY NextTyped
<1> QED  BY <1>1, <1>2, PTL DEF Spec

-----------------------------------------------------------------------------
(* Maker-checker.  The check of a decision (or of a publication) is made in  *)
(* one step and used in a later one, when the header may be another.  What   *)
(* survives in between is the record: the trail only grows.                  *)

\* A run under review has a submitter, and her submission is on record.
MakerOnRecord ==
    \A p \in Periods :
        /\ run[p].status = "PENDING_APPROVAL" => run[p].submittedBy # None
        /\ run[p].submittedBy # None => /\ run[p].submittedBy \in Managers
                                        /\ <<"SUBMIT", run[p].submittedBy>> \in trail[p]

\* Somebody other than u submitted p at some time.
Vouched(p, u) == \E m \in Managers \ {u} : <<"SUBMIT", m>> \in trail[p]

\* A decision in flight is by somebody who is not the only submitter on record, and a
\* publication in flight is of a run that has an approver.
InFlightVouched ==
    \A s \in Sessions :
        /\ tx[s].op = "decide" => Vouched(tx[s].run, tx[s].user)
        /\ tx[s].op = "publish" => run[tx[s].run].approvedBy # None

MakerCheckerInv == TypeOK /\ MakerOnRecord /\ InFlightVouched /\ TwoPersonRule

\* A step preserves the invariant if it forgets no record, appoints nobody, moves a run at most
\* back to an editable status, and opens only vouched decisions and publications.
LEMMA MakerCheckerStable ==
    ASSUME MakerCheckerInv, TypeOK',
           \A p \in Periods : /\ trail[p] \subseteq trail'[p]
                              /\ run'[p].approvedBy = run[p].approvedBy
                              /\ run'[p].publishedBy = run[p].publishedBy
                              /\ run'[p].submittedBy = run[p].submittedBy
                              /\ run'[p].status # run[p].status
                                    => run'[p].status \in {"DRAFT", "CALCULATED"},
           \A u \in Sessions : \/ tx'[u].op \notin {"decide", "publish"}
                               \/ tx'[u] = tx[u]
                               \/ tx'[u].op = "decide" /\ Vouched(tx'[u].run, tx'[u].user)
                               \/ tx'[u].op = "publish" /\ run[tx'[u].run].approvedBy # None
    PROVE  MakerCheckerInv'
<1>1. \A u \in Sessions : tx'[u].op \in {"decide", "publish"} => tx'[u].run \in Periods
  BY TransactionKinds DEF TypeOK, Decision, Handover
<1>2. \A p \in Periods : \A u : Vouched(p, u) => Vouched(p, u)'
  BY DEF Vouched
<1>3. MakerOnRecord'
  BY DEF MakerCheckerInv, MakerOnRecord
<1>4. InFlightVouched'
  BY <1>1, <1>2 DEF MakerCheckerInv, InFlightVouched
<1>5. TwoPersonRule'
  BY DEF MakerCheckerInv, TwoPersonRule
<1> QED  BY <1>3, <1>4, <1>5 DEF MakerCheckerInv

LEMMA InFlightStable ==
    ASSUME MakerCheckerInv, TypeOK',
           \A p \in Periods : /\ trail[p] \subseteq trail'[p]
                              /\ run[p].approvedBy # None => run'[p].approvedBy # None,
           \A u \in Sessions : tx'[u].op \notin {"decide", "publish"} \/ tx'[u] = tx[u]
    PROVE  InFlightVouched'
<1>1. \A u \in Sessions : tx'[u].op \in {"decide", "publish"} => tx'[u].run \in Periods
  BY TransactionKinds DEF TypeOK, Decision, Handover
<1>2. \A p \in Periods : \A u : Vouched(p, u) => Vouched(p, u)'
  BY DEF Vouched
<1> QED  BY <1>1, <1>2 DEF MakerCheckerInv, InFlightVouched

LEMMA MakerCheckerStep ==
    ASSUME MakerCheckerInv, [Next]_vars
    PROVE  MakerCheckerInv'
<1> USE PayrollAssumption
<1>t. TypeOK /\ TypeOK'
  BY NextTyped DEF MakerCheckerInv
<1>o. ASSUME NEW s \in Sessions, NEW t, Open(s, t),
             \/ t.op \notin {"decide", "publish"}
             \/ t.op = "decide" /\ Vouched(t.run, t.user)
             \/ t.op = "publish" /\ run[t.run].approvedBy # None
      PROVE  MakerCheckerInv'
  BY <1>o, <1>t, MakerCheckerStable DEF Open, TypeOK, runVars
<1>c. ASSUME NEW s \in Sessions, Close(s)
      PROVE  \A u \in Sessions : tx'[u].op \notin {"decide", "publish"} \/ tx'[u] = tx[u]
  BY <1>c, <1>t DEF Close, Idle, TypeOK
<1>1. ASSUME NEW p \in Periods, CreateRun(p)
      PROVE  MakerCheckerInv'
  BY <1>1, <1>t, MakerCheckerStable DEF CreateRun, TypeOK, Header
<1>2. ASSUME NEW s \in Sessions, NEW p \in Periods, CalculateOpen(s, p)
      PROVE  MakerCheckerInv'
  BY <1>2, <1>o DEF CalculateOpen
<1>3. ASSUME NEW s \in Sessions, CalculateRead(s) \/ CalculateClear(s)
      PROVE  MakerCheckerInv'
  <2>1. tx[s] \in Calculation
    BY <1>3, <1>t, TransactionKinds DEF CalculateRead, CalculateClear, TypeOK
  <2>2. \A u \in Sessions \ {s} : tx'[u] = tx[u]
    BY <1>3, <1>t DEF CalculateRead, CalculateClear, TypeOK
  <2>3. tx'[s].op = "calculate"
    <3>1. CASE CalculateRead(s)
      <4>1. tx'[s] \in Calculation
        BY <1>t, <2>1, <3>1, CalculationWritten DEF CalculateRead, TypeOK
      <4> QED  BY <4>1 DEF Calculation
    <3>2. CASE CalculateClear(s)
      <4>1. {l.emp : l \in line[tx[s].run]} \subseteq Employees /\ flagged[tx[s].run] \subseteq Employees
        BY <1>t, <2>1 DEF TypeOK, Line, Calculation
      <4>2. tx'[s] \in Calculation
        BY <1>t, <2>1, <3>2, <4>1, CalculationWritten DEF CalculateClear, TypeOK
      <4> QED  BY <4>2 DEF Calculation
    <3> QED  BY <1>3, <3>1, <3>2
  <2> QED  BY <1>3, <1>t, <2>2, <2>3, MakerCheckerStable DEF CalculateRead, CalculateClear, runVars
<1>4. ASSUME NEW s \in Sessions, CalculateCommit(s)
      PROVE  MakerCheckerInv'
  <2>1. tx[s] \in Calculation
    BY <1>4, <1>t, TransactionKinds DEF CalculateCommit, TypeOK
  <2>2. ASSUME NEW u \in Sessions
        PROVE  tx'[u].op \notin {"decide", "publish"} \/ tx'[u] = tx[u]
    <3>1. Forget(tx[u], tx[s]) = tx[u] \/ Forget(tx[u], tx[s]).op = "calculate"
      BY <1>t, <2>1, ForgetTyped DEF TypeOK, Calculation
    <3> QED  BY <1>4, <3>1 DEF CalculateCommit, Idle
  <2>3. ASSUME NEW p \in Periods
        PROVE  /\ run'[p].approvedBy = run[p].approvedBy
               /\ run'[p].publishedBy = run[p].publishedBy
               /\ run'[p].submittedBy = run[p].submittedBy
               /\ run'[p].status # run[p].status => run'[p].status = "CALCULATED"
    BY <1>4, <1>t, <2>1 DEF CalculateCommit, TypeOK, Header, Calculation
  <2> QED  BY <1>4, <1>t, <2>2, <2>3, MakerCheckerStable DEF CalculateCommit
<1>5. ASSUME NEW s \in Sessions, NEW p \in Periods, NEW u \in Managers, SubmitOpen(s, p, u)
      PROVE  MakerCheckerInv'
  BY <1>5, <1>o DEF SubmitOpen
<1>6. ASSUME NEW s \in Sessions, SubmitCommit(s)
      PROVE  MakerCheckerInv'
  <2>1. tx[s].run \in Periods /\ tx[s].user \in Managers
    BY <1>6, <1>t, TransactionKinds DEF SubmitCommit, TypeOK, Handover
  <2>2. ASSUME NEW p \in Periods
        PROVE  /\ trail[p] \subseteq trail'[p]
               /\ run'[p].approvedBy = run[p].approvedBy
               /\ run'[p].publishedBy = run[p].publishedBy
               /\ \/ run'[p] = run[p]
                  \/ /\ run'[p].status = "PENDING_APPROVAL"
                     /\ run'[p].submittedBy = tx[s].user
                     /\ <<"SUBMIT", tx[s].user>> \in trail'[p]
    <3>1. run[tx[s].run] \in Header
      BY <1>t, <2>1 DEF TypeOK
    <3>2. CASE p = tx[s].run
      <4>1. run'[p] = [run[p] EXCEPT !.status = "PENDING_APPROVAL", !.submittedBy = tx[s].user]
        BY <1>6, <1>t, <2>1, <3>2 DEF SubmitCommit, TypeOK
      <4>2. trail'[p] = trail[p] \cup {<<"SUBMIT", tx[s].user>>}
        BY <1>6, <1>t, <2>1, <3>2 DEF SubmitCommit, TypeOK
      <4> QED  BY <3>1, <3>2, <4>1, <4>2 DEF Header
    <3>3. CASE p # tx[s].run
      <4>1. run'[p] = run[p]
        BY <1>6, <1>t, <2>1, <3>3 DEF SubmitCommit, TypeOK
      <4>2. trail'[p] = trail[p]
        BY <1>6, <1>t, <2>1, <3>3 DEF SubmitCommit, TypeOK
      <4> QED  BY <4>1, <4>2
    <3> QED  BY <3>2, <3>3
  <2>3. \A u \in Sessions : tx'[u].op \notin {"decide", "publish"} \/ tx'[u] = tx[u]
    BY <1>6, <1>c DEF SubmitCommit
  <2>5. MakerOnRecord'
    <3>1. tx[s].user # None
      BY <2>1 DEF Users
    <3> SUFFICES ASSUME NEW p \in Periods
                 PROVE  MakerOnRecord!(p)'
      BY DEF MakerOnRecord
    <3>2. CASE run'[p] = run[p]
      BY <2>2, <3>2 DEF MakerCheckerInv, MakerOnRecord
    <3>3. CASE run'[p] # run[p]
      BY <2>1, <2>2, <3>1, <3>3 DEF MakerOnRecord
    <3> QED  BY <3>2, <3>3
  <2>6. InFlightVouched'
    BY <1>t, <2>2, <2>3, InFlightStable
  <2>7. TwoPersonRule'
    BY <2>2 DEF MakerCheckerInv, TwoPersonRule
  <2> QED  BY <1>t, <2>5, <2>6, <2>7 DEF MakerCheckerInv
<1>7. ASSUME NEW s \in Sessions, NEW p \in Periods, NEW u \in Approvers, NEW v \in Verdicts,
             DecideOpen(s, p, u, v)
      PROVE  MakerCheckerInv'
  <2>1. Vouched(p, u)
    BY <1>7 DEF DecideOpen, IsChecker, MakerCheckerInv, MakerOnRecord, Vouched
  <2> QED  BY <1>7, <1>o, <2>1 DEF DecideOpen
<1>8. ASSUME NEW s \in Sessions, DecideCommit(s)
      PROVE  MakerCheckerInv'
  <2>1. tx[s].run \in Periods /\ tx[s].user \in Approvers /\ tx[s].verdict \in Verdicts
    BY <1>8, <1>t, TransactionKinds DEF DecideCommit, TypeOK, Decision
  <2>2. Vouched(tx[s].run, tx[s].user)
    BY <1>8 DEF DecideCommit, MakerCheckerInv, InFlightVouched
  <2>3. ASSUME NEW p \in Periods
        PROVE  /\ trail[p] \subseteq trail'[p]
               /\ run'[p].submittedBy = run[p].submittedBy
               /\ run'[p].publishedBy = run[p].publishedBy
               /\ \/ run'[p] = run[p]
                  \/ /\ run'[p].status = "REJECTED"
                     /\ run'[p].approvedBy = run[p].approvedBy
                  \/ /\ p = tx[s].run
                     /\ run'[p].status = "APPROVED"
                     /\ run'[p].approvedBy = tx[s].user
                     /\ <<"APPROVE", tx[s].user>> \in trail'[p]
    BY <1>8, <1>t, <2>1 DEF DecideCommit, StatusAfter, Verdicts, TypeOK, Header
  <2>4. \A u \in Sessions : tx'[u].op \notin {"decide", "publish"} \/ tx'[u] = tx[u]
    BY <1>8, <1>c DEF DecideCommit
  <2>6. tx[s].user # None
    BY <2>1 DEF Users
  <2>7. MakerOnRecord'
    BY <2>3 DEF MakerCheckerInv, MakerOnRecord
  <2>8. InFlightVouched'
    BY <1>t, <2>3, <2>4, <2>6, InFlightStable
  <2>9. TwoPersonRule'
    BY <2>2, <2>3, <2>6 DEF MakerCheckerInv, TwoPersonRule, Vouched
  <2> QED  BY <1>t, <2>7, <2>8, <2>9 DEF MakerCheckerInv
<1>9. ASSUME NEW s \in Sessions, NEW p \in Periods, NEW u \in Managers, PublishOpen(s, p, u)
      PROVE  MakerCheckerInv'
  BY <1>9, <1>o DEF PublishOpen
<1>10. ASSUME NEW s \in Sessions, PublishCommit(s)
       PROVE  MakerCheckerInv'
  <2>1. tx[s].run \in Periods
    BY <1>10, <1>t, TransactionKinds DEF PublishCommit, TypeOK, Handover
  <2>2. run[tx[s].run].approvedBy # None
    BY <1>10 DEF PublishCommit, MakerCheckerInv, InFlightVouched
  <2>3. ASSUME NEW p \in Periods
        PROVE  /\ trail'[p] = trail[p]
               /\ run'[p].approvedBy = run[p].approvedBy
               /\ run'[p].submittedBy = run[p].submittedBy
               /\ \/ run'[p] = run[p]
                  \/ p = tx[s].run /\ run'[p].status = "PUBLISHED"
    <3>1. run[tx[s].run] \in Header
      BY <1>t, <2>1 DEF TypeOK
    <3>2. CASE p = tx[s].run
      <4>1. run'[p] = [run[p] EXCEPT !.status = "PUBLISHED", !.publishedBy = tx[s].user]
        BY <1>10, <1>t, <2>1, <3>2 DEF PublishCommit, TypeOK
      <4>2. trail' = trail
        BY <1>10 DEF PublishCommit
      <4> QED  BY <3>1, <3>2, <4>1, <4>2 DEF Header
    <3>3. CASE p # tx[s].run
      <4>1. run'[p] = run[p]
        BY <1>10, <1>t, <2>1, <3>3 DEF PublishCommit, TypeOK
      <4>2. trail' = trail
        BY <1>10 DEF PublishCommit
      <4> QED  BY <4>1, <4>2
    <3> QED  BY <3>2, <3>3
  <2>4. \A u \in Sessions : tx'[u].op \notin {"decide", "publish"} \/ tx'[u] = tx[u]
    BY <1>10, <1>c DEF PublishCommit
  <2>6. MakerOnRecord'
    BY <2>3 DEF MakerCheckerInv, MakerOnRecord
  <2>7. InFlightVouched'
    BY <1>t, <2>3, <2>4, InFlightStable
  <2>8. TwoPersonRule'
    BY <2>2, <2>3 DEF MakerCheckerInv, TwoPersonRule
  <2> QED  BY <1>t, <2>6, <2>7, <2>8 DEF MakerCheckerInv
<1>11. ASSUME NEW s \in Sessions, Rollback(s) \/ ReviewCommit(s)
       PROVE  MakerCheckerInv'
  BY <1>11, <1>t, <1>c, MakerCheckerStable DEF Rollback, ReviewCommit, runVars
<1>12. ASSUME NEW s \in Sessions, NEW c \in Claims, NEW v \in Verdicts, ReviewOpen(s, c, v)
       PROVE  MakerCheckerInv'
  BY <1>12, <1>o DEF ReviewOpen
<1>13. CASE InputStep \/ UNCHANGED vars
  <2>1. UNCHANGED <<runVars, tx>>
    BY <1>13 DEF InputStep, CreateClaim, AssignMembers, ChangeCompensation, vars
  <2> QED  BY <2>1, <1>t, MakerCheckerStable DEF runVars
<1> QED
  BY <1>1, <1>2, <1>3, <1>4, <1>5, <1>6, <1>7, <1>8, <1>9, <1>10, <1>11, <1>12, <1>13
  DEF Next, RunStep, ClaimStep

\* Four eyes on every payroll, however requests overlap: whoever approved a run that was ever
\* approved or published, another user submitted it (RunsService.submit, decide, publish).
THEOREM FourEyes == Spec => []TwoPersonRule
<1>1. Init => MakerCheckerInv
  BY InitTyped DEF Init, MakerCheckerInv, MakerOnRecord, InFlightVouched, TwoPersonRule, Idle
<1>2. MakerCheckerInv /\ [Next]_vars => MakerCheckerInv'
  BY MakerCheckerStep
<1>3. MakerCheckerInv => TwoPersonRule
  BY DEF MakerCheckerInv
<1> QED  BY <1>1, <1>2, <1>3, PTL DEF Spec

-----------------------------------------------------------------------------
(* Claims. *)

LEMMA PinnedStep ==
    ASSUME TypeOK, PaidClaimPinned, [Next]_vars
    PROVE  PaidClaimPinned'
<1> USE PayrollAssumption
<1>1. ASSUME \A c \in Claims : claim'[c] = claim[c],
             paid \subseteq paid',
             \A p \in Periods : run'[p].publishedBy = run[p].publishedBy
      PROVE  PaidClaimPinned'
  BY <1>1 DEF PaidClaimPinned, TypeOK
<1>2. ASSUME NEW p \in Periods, CreateRun(p)
      PROVE  PaidClaimPinned'
  BY <1>1, <1>2 DEF CreateRun, TypeOK, Header
<1>3. ASSUME NEW s \in Sessions, CalculateRead(s) \/ CalculateClear(s) \/ Rollback(s)
      PROVE  PaidClaimPinned'
  BY <1>1, <1>3 DEF CalculateRead, CalculateClear, Rollback, runVars
<1>4. ASSUME NEW s \in Sessions, NEW t, Open(s, t)
      PROVE  PaidClaimPinned'
  BY <1>1, <1>4 DEF Open, runVars
<1>5. ASSUME NEW s \in Sessions, CalculateCommit(s)
      PROVE  PaidClaimPinned'
  <2>1. tx[s].run \in Periods
    BY <1>5, TransactionKinds DEF CalculateCommit, TypeOK, Calculation
  <2>2. \A p \in Periods : run'[p].publishedBy = run[p].publishedBy
    BY <1>5, <2>1 DEF CalculateCommit, TypeOK, Header
  <2> QED  BY <1>1, <1>5, <2>2 DEF CalculateCommit
<1>6. ASSUME NEW s \in Sessions, SubmitCommit(s)
      PROVE  PaidClaimPinned'
  <2>1. tx[s].run \in Periods
    BY <1>6, TransactionKinds DEF SubmitCommit, TypeOK, Handover
  <2>2. \A p \in Periods : run'[p].publishedBy = run[p].publishedBy
    BY <1>6, <2>1 DEF SubmitCommit, TypeOK, Header
  <2> QED  BY <1>1, <1>6, <2>2 DEF SubmitCommit
<1>7. ASSUME NEW s \in Sessions, DecideCommit(s)
      PROVE  PaidClaimPinned'
  <2>1. tx[s].run \in Periods
    BY <1>7, TransactionKinds DEF DecideCommit, TypeOK, Decision
  <2>2. \A p \in Periods : run'[p].publishedBy = run[p].publishedBy
    BY <1>7, <2>1 DEF DecideCommit, TypeOK, Header
  <2> QED  BY <1>1, <1>7, <2>2 DEF DecideCommit
<1>8. ASSUME NEW s \in Sessions, PublishCommit(s)
      PROVE  PaidClaimPinned'
  <2> DEFINE r == tx[s].run
  <2>1. r \in Periods /\ tx[s].user \in Users
    BY <1>8, TransactionKinds DEF PublishCommit, TypeOK, Handover, Users
  <2>2. ASSUME NEW p \in Periods
        PROVE  run'[p].publishedBy = IF p = r THEN tx[s].user ELSE run[p].publishedBy
    BY <1>8, <2>1 DEF PublishCommit, TypeOK, Header
  <2>3. r # None /\ tx[s].user # None
    BY <2>1
  <2> SUFFICES ASSUME NEW c \in Claims
               PROVE  PaidClaimPinned!(c)'
    BY DEF PaidClaimPinned
  <2>4. CASE c \in Settled(r)
    <3>1. claim'[c].run = r /\ r \in PeriodsOf[c]
      BY <1>8, <2>4 DEF PublishCommit, PaidBy, Settled
    <3>2. r \in paid' /\ run'[r].publishedBy # None
      BY <1>8, <2>1, <2>2, <2>3 DEF PublishCommit
    <3> QED  BY <2>3, <3>1, <3>2
  <2>5. CASE c \notin Settled(r)
    <3>1. claim'[c] = claim[c]
      BY <1>8, <2>5 DEF PublishCommit
    <3>2. paid \subseteq paid'
      BY <1>8 DEF PublishCommit
    <3>3. claim[c].run # None => run'[claim[c].run].publishedBy # None
      BY <2>2, <2>3 DEF PaidClaimPinned, TypeOK
    <3> QED  BY <3>1, <3>2, <3>3 DEF PaidClaimPinned
  <2> QED  BY <2>4, <2>5
<1>9. ASSUME NEW s \in Sessions, ReviewCommit(s)
      PROVE  PaidClaimPinned'
  <2>1. tx[s].claim \in Claims /\ StatusAfter(tx[s].verdict) # "PAID"
    BY <1>9, TransactionKinds DEF ReviewCommit, TypeOK, Review, StatusAfter
  <2>2. ASSUME NEW c \in Claims
        PROVE  /\ claim'[c].run = claim[c].run
               /\ claim'[c].status = "PAID" => claim[c].status = "PAID"
    BY <1>9, <2>1 DEF ReviewCommit, TypeOK
  <2> QED  BY <1>9, <2>2 DEF ReviewCommit, PaidClaimPinned, runVars
<1>10. ASSUME NEW d \in Claims, CreateClaim(d)
       PROVE  PaidClaimPinned'
  <2>1. ASSUME NEW c \in Claims
        PROVE  /\ claim'[c].run = claim[c].run
               /\ claim'[c].status = "PAID" => claim[c].status = "PAID"
    BY <1>10 DEF CreateClaim, TypeOK
  <2> QED  BY <1>10, <2>1 DEF CreateClaim, PaidClaimPinned, runVars
<1>11. CASE \/ \E es \in SUBSET Employees, g \in Groups : AssignMembers(es, g)
            \/ \E e \in MayLapse : ChangeCompensation(e)
            \/ UNCHANGED vars
  <2>1. UNCHANGED <<runVars, claim>>
    BY <1>11 DEF AssignMembers, ChangeCompensation, vars
  <2> QED  BY <1>1, <2>1 DEF runVars
<1> QED
  BY <1>2, <1>3, <1>4, <1>5, <1>6, <1>7, <1>8, <1>9, <1>10, <1>11
  DEF Next, RunStep, ClaimStep, InputStep, CalculateOpen, SubmitOpen, DecideOpen, PublishOpen,
      ReviewOpen

\* A claim is PAID only by a publication that covers it, whatever reviews, calculations and
\* publications overlap with it (RunsService.publish, ClaimsService.decide).
THEOREM PaidMeansPublished == Spec => []PaidClaimPinned
<1>1. Init => TypeOK /\ PaidClaimPinned
  BY InitTyped DEF Init, PaidClaimPinned
<1>2. TypeOK /\ PaidClaimPinned /\ [Next]_vars => (TypeOK /\ PaidClaimPinned)'
  BY NextTyped, PinnedStep
<1> QED  BY <1>1, <1>2, PTL DEF Spec

-----------------------------------------------------------------------------
(* Payslip lines.  Only a commit of a calculation writes them; what it writes  *)
(* it read some steps before.                                                 *)

\* The claims a calculation carries along fall in the window of its run.
ClaimsInWindow ==
    \A s \in Sessions : tx[s].op = "calculate" =>
        \A c \in tx[s].claims : c \in Claims /\ tx[s].run \in PeriodsOf[c]

LineInv == OneLinePerEmployee /\ LinesPayOwnClaims /\ ClaimsInWindow

LEMMA LineStep ==
    ASSUME TypeOK, TypeOK', LineInv, [Next]_vars
    PROVE  LineInv'
<1> USE PayrollAssumption
<1>1. ASSUME line' = line,
             \A u \in Sessions : \/ tx'[u].op # "calculate"
                                 \/ tx'[u].claims = {}
                                 \/ tx'[u] = tx[u]
      PROVE  LineInv'
  <2>1. OneLinePerEmployee'
    BY <1>1 DEF LineInv, OneLinePerEmployee
  <2>2. LinesPayOwnClaims'
    BY <1>1 DEF LineInv, LinesPayOwnClaims
  <2>3. ClaimsInWindow'
    BY <1>1 DEF LineInv, ClaimsInWindow
  <2> QED  BY <2>1, <2>2, <2>3 DEF LineInv
<1>2. ASSUME NEW s \in Sessions, NEW t, Open(s, t), t.op # "calculate" \/ t.claims = {}
      PROVE  LineInv'
  BY <1>1, <1>2 DEF Open, TypeOK, runVars
<1>3. ASSUME NEW s \in Sessions, Close(s), line' = line
      PROVE  LineInv'
  BY <1>1, <1>3 DEF Close, Idle, TypeOK
<1>4. ASSUME NEW s \in Sessions, CalculateRead(s)
      PROVE  LineInv'
  <2> DEFINE C == {c \in Claims : /\ claim[c].status = "APPROVED"
                                  /\ tx[s].run \in PeriodsOf[c]}
             A == {e \in Employees : member[e] = GroupOf[tx[s].run]} \cap payable
             B == {e \in Employees : member[e] = GroupOf[tx[s].run]} \ payable
  <2>1. tx[s] \in Calculation
    BY <1>4, TransactionKinds DEF CalculateRead, TypeOK
  <2>2. tx'[s] = [tx[s] EXCEPT !.step = "read", !.members = A, !.skipped = B, !.claims = C]
    BY <1>4 DEF CalculateRead, TypeOK
  <2>3. tx'[s].run = tx[s].run /\ tx'[s].claims = C
    BY <2>1, <2>2 DEF Calculation
  <2>4. ASSUME NEW u \in Sessions, u # s
        PROVE  tx'[u] = tx[u]
    BY <1>4, <2>4 DEF CalculateRead, TypeOK
  <2>5. line' = line
    BY <1>4 DEF CalculateRead, runVars
  <2>6. ClaimsInWindow'
    BY <2>3, <2>4 DEF LineInv, ClaimsInWindow
  <2> QED  BY <2>5, <2>6 DEF LineInv, OneLinePerEmployee, LinesPayOwnClaims
<1>5. ASSUME NEW s \in Sessions, CalculateClear(s)
      PROVE  LineInv'
  <2> DEFINE A == {l.emp : l \in line[tx[s].run]}
             B == flagged[tx[s].run]
  <2>1. tx[s] \in Calculation
    BY <1>5, TransactionKinds DEF CalculateClear, TypeOK
  <2>2. tx'[s] = [tx[s] EXCEPT !.step = "cleared", !.oldLines = A, !.oldFlags = B]
    BY <1>5 DEF CalculateClear, TypeOK
  <2>3. tx'[s].run = tx[s].run /\ tx'[s].claims = tx[s].claims /\ tx[s].op = "calculate"
    BY <2>1, <2>2 DEF Calculation
  <2>4. ASSUME NEW u \in Sessions, u # s
        PROVE  tx'[u] = tx[u]
    BY <1>5, <2>4 DEF CalculateClear, TypeOK
  <2>5. line' = line
    BY <1>5 DEF CalculateClear, runVars
  <2>6. ClaimsInWindow'
    BY <2>3, <2>4 DEF LineInv, ClaimsInWindow
  <2> QED  BY <2>5, <2>6 DEF LineInv, OneLinePerEmployee, LinesPayOwnClaims
<1>6. ASSUME NEW s \in Sessions, CalculateCommit(s)
      PROVE  LineInv'
  <2> DEFINE t == tx[s]
  <2>1. t \in Calculation
    BY <1>6, TransactionKinds DEF CalculateCommit, TypeOK
  <2>2. t.run \in Periods /\ t.members \subseteq Employees /\ t.op = "calculate"
    BY <2>1 DEF Calculation
  <2>3. /\ line'[t.run] = KeptLines(t) \cup NewLines(t)
        /\ \A p \in Periods : p # t.run => line'[p] = line[p]
    BY <1>6, <2>2 DEF CalculateCommit, TypeOK
  <2>4. KeptLines(t) \subseteq line[t.run]
    BY DEF KeptLines
  <2>5. OneLinePerEmployee'
    <3>1. ASSUME NEW l \in line'[t.run], NEW m \in line'[t.run], l.emp = m.emp
          PROVE  l = m
      <4>1. \A k \in NewLines(t) : k.emp \in t.members
        BY DEF NewLines
      <4>2. \A k \in KeptLines(t) : k.emp \notin t.members
        BY <1>6 DEF CalculateCommit, UniqueIndexHolds
      <4>3. CASE l \in KeptLines(t) /\ m \in KeptLines(t)
        BY <2>2, <2>4, <3>1, <4>3 DEF LineInv, OneLinePerEmployee
      <4>4. CASE l \in NewLines(t) /\ m \in NewLines(t)
        <5> DEFINE own(e) == {c \in t.claims : OwnerOf[c] = e}
        <5>1. \A k \in NewLines(t) : k = [emp |-> k.emp, pays |-> own(k.emp)]
          BY DEF NewLines
        <5> HIDE DEF own
        <5> QED  BY <3>1, <4>4, <5>1
      <4> QED  BY <2>3, <3>1, <4>1, <4>2, <4>3, <4>4
    <3> QED  BY <2>3, <3>1 DEF LineInv, OneLinePerEmployee
  <2>6. LinesPayOwnClaims'
    <3>1. ASSUME NEW l \in NewLines(t), NEW c \in l.pays
          PROVE  OwnerOf[c] = l.emp /\ t.run \in PeriodsOf[c]
      <4>1. c \in t.claims /\ OwnerOf[c] = l.emp
        BY <3>1 DEF NewLines
      <4> QED  BY <2>2, <4>1 DEF LineInv, ClaimsInWindow
    <3>2. ASSUME NEW l \in KeptLines(t), NEW c \in l.pays
          PROVE  OwnerOf[c] = l.emp /\ t.run \in PeriodsOf[c]
      BY <2>2, <2>4, <3>2 DEF LineInv, LinesPayOwnClaims
    <3> QED  BY <2>3, <3>1, <3>2 DEF LineInv, LinesPayOwnClaims
  <2>7. ClaimsInWindow'
    <3> SUFFICES ASSUME NEW u \in Sessions, tx'[u].op = "calculate"
                 PROVE  \A c \in tx'[u].claims : c \in Claims /\ tx'[u].run \in PeriodsOf[c]
      BY DEF ClaimsInWindow
    <3>1. u # s /\ tx'[u] = Forget(tx[u], t)
      BY <1>6 DEF CalculateCommit, Idle
    <3>2. tx[u] \in Transaction
      BY DEF TypeOK
    <3>3. CASE tx[u].op = "calculate"
      <4>1. tx[u] \in Calculation
        BY <3>2, <3>3, TransactionKinds
      <4>2. Forget(tx[u], t).run = tx[u].run /\ Forget(tx[u], t).claims = tx[u].claims
        BY <4>1 DEF Forget, Calculation
      <4> QED  BY <3>1, <3>3, <4>2 DEF LineInv, ClaimsInWindow
    <3>4. CASE tx[u].op # "calculate"
      BY <3>1, <3>4 DEF Forget
    <3> QED  BY <3>3, <3>4
  <2> QED  BY <2>5, <2>6, <2>7 DEF LineInv
<1>7. ASSUME NEW s \in Sessions,
             \/ SubmitCommit(s) \/ DecideCommit(s) \/ PublishCommit(s)
             \/ Rollback(s) \/ ReviewCommit(s)
      PROVE  LineInv'
  BY <1>3, <1>7 DEF SubmitCommit, DecideCommit, PublishCommit, Rollback, ReviewCommit, runVars
<1>8. ASSUME NEW s \in Sessions, NEW p \in Periods, CalculateOpen(s, p)
      PROVE  LineInv'
  BY <1>2, <1>8 DEF CalculateOpen
<1>9. ASSUME NEW s \in Sessions,
             \/ \E p \in Periods, u \in Managers : SubmitOpen(s, p, u) \/ PublishOpen(s, p, u)
             \/ \E p \in Periods, u \in Approvers, v \in Verdicts : DecideOpen(s, p, u, v)
             \/ \E c \in Claims, v \in Verdicts : ReviewOpen(s, c, v)
      PROVE  LineInv'
  BY <1>2, <1>9 DEF SubmitOpen, PublishOpen, DecideOpen, ReviewOpen
<1>10. CASE (\E p \in Periods : CreateRun(p)) \/ InputStep \/ UNCHANGED vars
  <2>1. line' = line /\ tx' = tx
    BY <1>10 DEF CreateRun, InputStep, CreateClaim, AssignMembers, ChangeCompensation, vars, runVars
  <2> QED  BY <1>1, <2>1
<1> QED
  BY <1>4, <1>5, <1>6, <1>7, <1>8, <1>9, <1>10 DEF Next, RunStep, ClaimStep

LEMMA LinesSound == Spec => [](TypeOK /\ LineInv)
<1>1. Init => TypeOK /\ LineInv
  BY InitTyped DEF Init, LineInv, OneLinePerEmployee, LinesPayOwnClaims, ClaimsInWindow, Idle
<1>2. TypeOK /\ LineInv /\ [Next]_vars => (TypeOK /\ LineInv)'
  BY NextTyped, LineStep
<1> QED  BY <1>1, <1>2, PTL DEF Spec

\* Recalculations that overlap never pay an employee twice in one run: whatever rows the
\* deletion misses, the unique index refuses (RunsService.calculate).
THEOREM NobodyPaidTwice == Spec => []OneLinePerEmployee
<1>1. LineInv => OneLinePerEmployee
  BY DEF LineInv
<1> QED  BY <1>1, LinesSound, PTL

\* No line ever reimburses another employee's claim, or one outside the period's window
\* (RunsService.calculate).
THEOREM OwnClaimsOnly == Spec => []LinesPayOwnClaims
<1>1. LineInv => LinesPayOwnClaims
  BY DEF LineInv
<1> QED  BY <1>1, LinesSound, PTL

-----------------------------------------------------------------------------
(* What PayrollRun guarantees as long as no two requests are in flight for the *)
(* same run, or for the same review of a claim: what it would guarantee always *)
(* if its handlers locked the row they check.  Requests for other runs and     *)
(* claims, and changes of the inputs, may overlap in any way.                  *)

OnRun(t) == t.op \in {"calculate", "submit", "decide", "publish"}

OneRequestPerRow ==
    \A s, u \in Sessions : s # u =>
        /\ OnRun(tx[s]) /\ OnRun(tx[u]) => tx[s].run # tx[u].run
        /\ tx[s].op = "review" /\ tx[u].op = "review" => tx[s].claim # tx[u].claim

\* A service with one worker is an instance.
LEMMA OneWorkerIsEnough ==
    ASSUME \A s, u \in Sessions : s = u
    PROVE  []OneRequestPerRow
<1>1. OneRequestPerRow
  BY DEF OneRequestPerRow
<1> QED  BY <1>1, PTL

-----------------------------------------------------------------------------
(* The inductive invariant: what a transaction checked when it opened still  *)
(* holds when it commits, and what it read is still what is on file.         *)

\* A claim that is approved can only be paid.
Due(c) == claim[c].status \in {"APPROVED", "PAID"}

ChecksHold(t) ==
    /\ t.op = "calculate" =>
          /\ run[t.run].status \in Recalculable
          /\ t.members \cap t.skipped = {}
          /\ \A c \in t.claims : Due(c)
          /\ t.step = "cleared" => /\ t.oldLines = {l.emp : l \in line[t.run]}
                                   /\ t.oldFlags = flagged[t.run]
    /\ t.op = "submit" => /\ run[t.run].status \in {"CALCULATED", "REJECTED"}
                          /\ run[t.run].sheet # {}
    /\ t.op = "decide" => /\ run[t.run].status = "PENDING_APPROVAL"
                          /\ IsChecker(t.run, t.user)
    /\ t.op = "publish" => /\ run[t.run].status = "APPROVED"
                           /\ run[t.run].approvedBy # run[t.run].submittedBy
    /\ t.op = "review" => Reviewable(t.claim)

AllChecksHold == \A s \in Sessions : ChecksHold(tx[s])

LinesDue == \A p \in Periods : \A l \in line[p] : \A c \in l.pays : Due(c)

RunSound == DistinctApprover /\ TotalsMatchLines /\ FlaggedNotPaid

ClaimSound == LinesDue /\ ReimbursedIsPaid

SerialInv == AllChecksHold /\ RunSound /\ ClaimSound

\* Requests in flight for other rows are not affected by a step.
LEMMA ChecksKept ==
    ASSUME NEW t \in Transaction, ChecksHold(t),
           OnRun(t) => /\ run'[t.run] = run[t.run]
                       /\ line'[t.run] = line[t.run]
                       /\ flagged'[t.run] = flagged[t.run],
           \A c \in Claims : Due(c) => Due(c)',
           t.op = "review" => claim'[t.claim] = claim[t.claim]
    PROVE  ChecksHold(t)'
<1>1. CASE t.op = "calculate"
  <2>1. t.claims \subseteq Claims
    BY <1>1, TransactionKinds DEF Calculation
  <2>2. /\ run'[t.run] = run[t.run]
        /\ line'[t.run] = line[t.run]
        /\ flagged'[t.run] = flagged[t.run]
    BY <1>1 DEF OnRun
  <2>3. \A c \in t.claims : Due(c)'
    BY <1>1, <2>1 DEF ChecksHold
  <2> QED  BY <1>1, <2>2, <2>3 DEF ChecksHold
<1>2. CASE t.op # "calculate"
  BY <1>2 DEF ChecksHold, OnRun, IsChecker, Reviewable
<1> QED  BY <1>1, <1>2

\* Closing a request, when the step wrote at most its own run and paid at most approved claims,
\* leaves the other requests as they are.
LEMMA ClosingKeepsOthers ==
    ASSUME TypeOK, AllChecksHold, OneRequestPerRow, NEW s \in Sessions,
           tx' = [tx EXCEPT ![s] = Idle],
           \A p \in Periods : \/ OnRun(tx[s]) /\ p = tx[s].run
                              \/ /\ run'[p] = run[p]
                                 /\ line'[p] = line[p]
                                 /\ flagged'[p] = flagged[p],
           \A c \in Claims : Due(c) => Due(c)',
           \A c \in Claims : \/ tx[s].op = "review" /\ c = tx[s].claim
                             \/ Reviewable(c) => claim'[c] = claim[c]
    PROVE  AllChecksHold'
<1> SUFFICES ASSUME NEW u \in Sessions
             PROVE  ChecksHold(tx[u])'
  BY DEF AllChecksHold
<1>1. CASE u = s
  <2>1. tx'[u] = Idle
    BY <1>1 DEF TypeOK
  <2> QED  BY <2>1 DEF ChecksHold, Idle
<1>2. CASE u # s
  <2>1. PICK t \in Transaction : t = tx[u]
    BY DEF TypeOK
  <2>2. tx'[u] = t
    BY <1>2, <2>1 DEF TypeOK
  <2>3. ChecksHold(t)
    BY <2>1 DEF AllChecksHold
  <2>4. OnRun(t) => t.run \in Periods /\ (OnRun(tx[s]) => t.run # tx[s].run)
    BY <1>2, <2>1, TransactionKinds DEF OneRequestPerRow, OnRun, Calculation, Handover, Decision
  <2>5. t.op = "review" => t.claim \in Claims /\ (tx[s].op = "review" => t.claim # tx[s].claim)
    BY <1>2, <2>1, TransactionKinds DEF OneRequestPerRow, Review
  <2>6. t.op = "review" => claim'[t.claim] = claim[t.claim]
    BY <2>3, <2>5 DEF ChecksHold
  <2>7. ChecksHold(t)'
    BY <2>3, <2>4, <2>6, ChecksKept
  <2> QED  BY <2>2, <2>7 DEF ChecksHold, IsChecker, Reviewable, Due
<1> QED  BY <1>1, <1>2

\* A step that leaves the runs, and the claims already due, as they are keeps what holds of them.
LEMMA RunsUntouched ==
    ASSUME TypeOK, RunSound, ClaimSound, UNCHANGED <<run, line, flagged>>,
           \A c \in Claims : /\ Due(c) => Due(c)'
                             /\ claim[c].status = "PAID" => claim'[c].status = "PAID"
    PROVE  RunSound' /\ ClaimSound'
<1>1. \A p \in Periods : \A l \in line[p] : l.pays \subseteq Claims
  BY DEF TypeOK, Line
<1>2. RunSound'
  BY DEF RunSound, DistinctApprover, TotalsMatchLines, FlaggedNotPaid
<1>3. ClaimSound'
  BY <1>1 DEF ClaimSound, LinesDue, ReimbursedIsPaid
<1> QED  BY <1>2, <1>3

\* Opening a request that passes its checks.
LEMMA OpeningKeeps ==
    ASSUME TypeOK, SerialInv, NEW s \in Sessions, NEW t \in Transaction, Open(s, t), ChecksHold(t)
    PROVE  SerialInv'
<1>1. UNCHANGED <<run, line, flagged, claim>>
  BY DEF Open, runVars
<1>2. RunSound' /\ ClaimSound'
  BY <1>1, RunsUntouched DEF SerialInv, Due
<1>3. ASSUME NEW u \in Sessions
      PROVE  ChecksHold(tx[u])'
  <2>1. PICK v \in Transaction : v = IF u = s THEN t ELSE tx[u]
    BY DEF TypeOK
  <2>2. tx'[u] = v
    BY <2>1 DEF Open, TypeOK
  <2>3. ChecksHold(v)
    BY <2>1 DEF SerialInv, AllChecksHold
  <2> QED  BY <1>1, <2>2, <2>3 DEF ChecksHold, IsChecker, Reviewable, Due
<1> QED  BY <1>2, <1>3 DEF SerialInv, AllChecksHold
-----------------------------------------------------------------------------
(* One step. *)

LEMMA CalculateReadKeeps ==
    ASSUME TypeOK, SerialInv, NEW s \in Sessions, CalculateRead(s)
    PROVE  SerialInv'
<1> DEFINE here == {e \in Employees : member[e] = GroupOf[tx[s].run]}
           owed == {c \in Claims : claim[c].status = "APPROVED" /\ tx[s].run \in PeriodsOf[c]}
<1>1. PICK t \in Calculation :
        t = [tx[s] EXCEPT !.step = "read", !.members = here \cap payable,
                          !.skipped = here \ payable, !.claims = owed]
  <2>1. tx[s] \in Calculation
    BY TransactionKinds DEF CalculateRead, TypeOK
  <2> QED  BY <2>1, CalculationWritten
<1>2. UNCHANGED <<run, line, flagged, claim>> /\ tx' = [tx EXCEPT ![s] = t]
  BY <1>1 DEF CalculateRead, runVars
<1>3. RunSound' /\ ClaimSound'
  BY <1>2, RunsUntouched DEF SerialInv, Due
<1>4. ChecksHold(t)
  <2>1. tx[s] \in Calculation /\ ChecksHold(tx[s])
    BY TransactionKinds DEF CalculateRead, TypeOK, SerialInv, AllChecksHold
  <2>2. /\ t.op = "calculate" /\ t.step = "read" /\ t.run = tx[s].run
        /\ t.members = here \cap payable /\ t.skipped = here \ payable /\ t.claims = owed
    BY <1>1, <2>1 DEF Calculation
  <2>3. run[t.run].status \in Recalculable
    BY <2>1, <2>2 DEF ChecksHold, Calculation
  <2> QED  BY <2>2, <2>3 DEF ChecksHold, Due
<1>5. ASSUME NEW u \in Sessions
      PROVE  ChecksHold(tx[u])'
  <2>1. tx'[u] = IF u = s THEN t ELSE tx[u]
    BY <1>2 DEF TypeOK
  <2>2. CASE u = s
    BY <1>2, <1>4, <2>1, <2>2 DEF ChecksHold, IsChecker, Reviewable, Due
  <2>3. CASE u # s
    <3>1. ChecksHold(tx[u])
      BY DEF SerialInv, AllChecksHold
    <3> QED  BY <1>2, <2>1, <2>3, <3>1 DEF ChecksHold, IsChecker, Reviewable, Due
  <2> QED  BY <2>2, <2>3
<1> QED  BY <1>3, <1>5 DEF SerialInv, AllChecksHold

LEMMA CalculateClearKeeps ==
    ASSUME TypeOK, SerialInv, NEW s \in Sessions, CalculateClear(s)
    PROVE  SerialInv'
<1>0. tx[s] \in Calculation /\ ChecksHold(tx[s])
  BY TransactionKinds DEF CalculateClear, TypeOK, SerialInv, AllChecksHold
<1>1. PICK t \in Calculation :
        t = [tx[s] EXCEPT !.step = "cleared", !.oldLines = {l.emp : l \in line[tx[s].run]},
                          !.oldFlags = flagged[tx[s].run]]
  <2>1. /\ flagged[tx[s].run] \subseteq Employees
        /\ {l.emp : l \in line[tx[s].run]} \subseteq Employees
    BY <1>0 DEF TypeOK, Calculation, Line
  <2> QED  BY <1>0, <2>1, CalculationWritten
<1>2. UNCHANGED <<run, line, flagged, claim>> /\ tx' = [tx EXCEPT ![s] = t]
  BY <1>1 DEF CalculateClear, runVars
<1>3. RunSound' /\ ClaimSound'
  BY <1>2, RunsUntouched DEF SerialInv, Due
<1>4. ChecksHold(t)
  <2>2. /\ t.op = "calculate" /\ t.run = tx[s].run
        /\ t.members = tx[s].members /\ t.skipped = tx[s].skipped /\ t.claims = tx[s].claims
        /\ t.oldLines = {l.emp : l \in line[t.run]} /\ t.oldFlags = flagged[t.run]
    BY <1>0, <1>1 DEF Calculation
  <2> QED  BY <1>0, <2>2 DEF ChecksHold, Calculation
<1>5. ASSUME NEW u \in Sessions
      PROVE  ChecksHold(tx[u])'
  <2>1. tx'[u] = IF u = s THEN t ELSE tx[u]
    BY <1>2 DEF TypeOK
  <2>2. CASE u = s
    BY <1>2, <1>4, <2>1, <2>2 DEF ChecksHold, IsChecker, Reviewable, Due
  <2>3. CASE u # s
    <3>1. ChecksHold(tx[u])
      BY DEF SerialInv, AllChecksHold
    <3> QED  BY <1>2, <2>1, <2>3, <3>1 DEF ChecksHold, IsChecker, Reviewable, Due
  <2> QED  BY <2>2, <2>3
<1> QED  BY <1>3, <1>5 DEF SerialInv, AllChecksHold

\* With its run to itself, a calculation that commits replaces every row of the run, and
\* forgets nothing on behalf of the others.
LEMMA CalculateReplaces ==
    ASSUME TypeOK, AllChecksHold, OneRequestPerRow, NEW s \in Sessions, CalculateCommit(s)
    PROVE  /\ tx[s] \in Calculation
           /\ tx' = [tx EXCEPT ![s] = Idle]
           /\ line' = [line EXCEPT ![tx[s].run] = NewLines(tx[s])]
           /\ flagged' = [flagged EXCEPT ![tx[s].run] = tx[s].skipped]
<1>1. tx[s] \in Calculation /\ ChecksHold(tx[s])
  BY TransactionKinds DEF CalculateCommit, TypeOK, AllChecksHold
<1>2. tx[s].op = "calculate" /\ tx[s].run \in Periods
  BY <1>1 DEF Calculation
<1>3. /\ tx[s].oldLines = {l.emp : l \in line[tx[s].run]}
      /\ tx[s].oldFlags = flagged[tx[s].run]
  BY <1>1, <1>2 DEF ChecksHold, CalculateCommit
<1>4. KeptLines(tx[s]) = {} /\ KeptFlags(tx[s]) = {}
  BY <1>3 DEF KeptLines, KeptFlags
<1>5. \A u \in Sessions \ {s} : Forget(tx[u], tx[s]) = tx[u]
  BY <1>2 DEF Forget, OneRequestPerRow, OnRun
<1>6. tx' = [tx EXCEPT ![s] = Idle]
  BY <1>5 DEF CalculateCommit, TypeOK
<1> QED  BY <1>1, <1>4, <1>6 DEF CalculateCommit

LEMMA CalculateCommitKeeps ==
    ASSUME TypeOK, LineInv, SerialInv, OneRequestPerRow, NEW s \in Sessions, CalculateCommit(s)
    PROVE  SerialInv'
<1> DEFINE r == tx[s].run
<1>1. /\ tx[s] \in Calculation
      /\ tx' = [tx EXCEPT ![s] = Idle]
      /\ line' = [line EXCEPT ![r] = NewLines(tx[s])]
      /\ flagged' = [flagged EXCEPT ![r] = tx[s].skipped]
      /\ claim' = claim
      /\ run' = [run EXCEPT ![r].status = "CALCULATED", ![r].sheet = NewLines(tx[s])]
  BY CalculateReplaces DEF SerialInv, CalculateCommit
<1>2. r \in Periods /\ tx[s].op = "calculate" /\ ChecksHold(tx[s])
  BY <1>1 DEF Calculation, SerialInv, AllChecksHold
<1>3. \A p \in Periods : p # r => /\ run'[p] = run[p]
                                  /\ line'[p] = line[p]
                                  /\ flagged'[p] = flagged[p]
  BY <1>1, <1>2 DEF TypeOK
<1>4. /\ run'[r].status = "CALCULATED" /\ run'[r].sheet = NewLines(tx[s])
      /\ line'[r] = NewLines(tx[s])
      /\ flagged'[r] = tx[s].skipped
  BY <1>1, <1>2 DEF TypeOK, Header
<1>5. AllChecksHold'
  BY <1>1, <1>2, <1>3, ClosingKeepsOthers DEF SerialInv, OnRun, Due
<1>6. RunSound'
  <2>1. \A l \in NewLines(tx[s]) : l.emp \notin tx[s].skipped
    BY <1>2 DEF ChecksHold, NewLines
  <2> QED  BY <1>3, <1>4, <2>1 DEF SerialInv, RunSound, DistinctApprover, TotalsMatchLines,
                                  FlaggedNotPaid
<1>7. ClaimSound'
  <2>1. \A l \in NewLines(tx[s]) : \A c \in l.pays : Due(c)
    BY <1>2 DEF ChecksHold, NewLines
  <2>2. \A p \in Periods : p # r => /\ \A l \in line'[p] : \A c \in l.pays : Due(c)
                                    /\ ReimbursedIsPaid!(p)'
    BY <1>1, <1>3 DEF SerialInv, ClaimSound, LinesDue, ReimbursedIsPaid
  <2>3. LinesDue'
    BY <1>1, <1>4, <2>1, <2>2 DEF LinesDue, Due
  <2>4. ReimbursedIsPaid'
    BY <1>4, <2>2 DEF ReimbursedIsPaid
  <2> QED  BY <2>3, <2>4 DEF ClaimSound
<1> QED  BY <1>5, <1>6, <1>7 DEF SerialInv

\* Handing over, deciding and publishing write the header of their run and never its lines.
LEMMA HeaderCommitKeeps ==
    ASSUME TypeOK, LineInv, SerialInv, OneRequestPerRow, NEW s \in Sessions,
           SubmitCommit(s) \/ DecideCommit(s) \/ PublishCommit(s)
    PROVE  SerialInv'
<1> USE PayrollAssumption
<1> DEFINE r == tx[s].run
<1>1. /\ tx[s].op \in {"submit", "decide", "publish"}
      /\ OnRun(tx[s]) /\ r \in Periods /\ ChecksHold(tx[s])
  BY TransactionKinds DEF SubmitCommit, DecideCommit, PublishCommit, TypeOK, Handover, Decision,
                          SerialInv, AllChecksHold, OnRun
<1>2. tx' = [tx EXCEPT ![s] = Idle] /\ line' = line /\ flagged' = flagged
  BY DEF SubmitCommit, DecideCommit, PublishCommit, Close
<1>3. \A p \in Periods : p # r => run'[p] = run[p]
  BY DEF SubmitCommit, DecideCommit, PublishCommit, TypeOK
<1>4. run[r] \in Header /\ run'[r].sheet = run[r].sheet
  BY <1>1 DEF SubmitCommit, DecideCommit, PublishCommit, TypeOK, Header
<1>5. \A c \in Claims : \/ claim'[c] = claim[c]
                        \/ claim[c].status = "APPROVED" /\ claim'[c].status = "PAID"
  BY DEF SubmitCommit, DecideCommit, PublishCommit, Settled, PaidBy
<1>6. AllChecksHold'
  <2>1. \A c \in Claims : Due(c) => Due(c)'
    BY <1>5 DEF Due
  <2>2. \A c \in Claims : Reviewable(c) => claim'[c] = claim[c]
    BY <1>5 DEF Reviewable
  <2> QED  BY <1>1, <1>2, <1>3, <2>1, <2>2, ClosingKeepsOthers DEF SerialInv
<1>7. run'[r].status \in {"APPROVED", "PUBLISHED"} => run'[r].approvedBy # run'[r].submittedBy
  <2>1. CASE SubmitCommit(s)
    <3>1. run'[r].status = "PENDING_APPROVAL"
      BY <1>1, <1>4, <2>1 DEF SubmitCommit, TypeOK, Header
    <3> QED  BY <3>1
  <2>2. CASE DecideCommit(s)
    <3>1. run'[r] = [run[r] EXCEPT !.status = StatusAfter(tx[s].verdict),
                                   !.approvedBy = IF tx[s].verdict = "APPROVE" THEN tx[s].user
                                                                              ELSE @]
      BY <1>1, <2>2 DEF DecideCommit, TypeOK
    <3>2. run[r].submittedBy # tx[s].user
      BY <1>1, <2>2 DEF DecideCommit, ChecksHold, IsChecker
    <3> QED  BY <1>4, <3>1, <3>2 DEF StatusAfter, Header
  <2>3. CASE PublishCommit(s)
    <3>1. run[r].approvedBy # run[r].submittedBy
      BY <1>1, <2>3 DEF PublishCommit, ChecksHold
    <3>2. /\ run'[r].approvedBy = run[r].approvedBy
          /\ run'[r].submittedBy = run[r].submittedBy
      BY <1>1, <1>4, <2>3 DEF PublishCommit, TypeOK, Header
    <3> QED  BY <3>1, <3>2
  <2> QED  BY <2>1, <2>2, <2>3
<1>8. RunSound'
  <2>1. DistinctApprover'
    BY <1>3, <1>7 DEF SerialInv, RunSound, DistinctApprover
  <2>2. TotalsMatchLines'
    BY <1>2, <1>3, <1>4 DEF SerialInv, RunSound, TotalsMatchLines
  <2>3. FlaggedNotPaid'
    BY <1>2 DEF SerialInv, RunSound, FlaggedNotPaid
  <2> QED  BY <2>1, <2>2, <2>3 DEF RunSound
<1>9. ASSUME NEW p \in Periods, NEW l \in line[p], NEW c \in l.pays
      PROVE  Due(c) /\ Due(c)' /\ c \in Claims /\ p \in PeriodsOf[c]
  BY <1>5, <1>9 DEF SerialInv, ClaimSound, LinesDue, Due, LineInv, LinesPayOwnClaims, TypeOK, Line
<1>10. ReimbursedIsPaid'
  <2> SUFFICES ASSUME NEW p \in Periods, run'[p].status = "PUBLISHED",
                      NEW l \in line[p], NEW c \in l.pays
               PROVE  claim'[c].status = "PAID"
    BY <1>2 DEF ReimbursedIsPaid
  <2>1. CASE run[p].status = "PUBLISHED"
    BY <1>5, <1>9, <2>1 DEF SerialInv, ClaimSound, ReimbursedIsPaid
  <2>2. CASE run[p].status # "PUBLISHED"
    <3>1. p = r
      BY <1>3, <2>2
    <3>2. PublishCommit(s)
      BY <1>1, <1>4, <3>1 DEF SubmitCommit, DecideCommit, StatusAfter, TypeOK, Header
    <3>3. claim[c].status = "APPROVED" => c \in Settled(r)
      BY <1>9, <3>1 DEF Settled
    <3>4. claim'[c] = IF c \in Settled(r) THEN PaidBy(r) ELSE claim[c]
      BY <1>9, <3>2 DEF PublishCommit
    <3> QED  BY <1>9, <3>3, <3>4 DEF Due, PaidBy
  <2> QED  BY <2>1, <2>2
<1>11. ClaimSound'
  BY <1>2, <1>9, <1>10 DEF ClaimSound, LinesDue
<1> QED  BY <1>6, <1>8, <1>11 DEF SerialInv

LEMMA ReviewCommitKeeps ==
    ASSUME TypeOK, SerialInv, OneRequestPerRow, NEW s \in Sessions, ReviewCommit(s)
    PROVE  SerialInv'
<1>1. tx[s] \in Review /\ ChecksHold(tx[s])
  BY TransactionKinds DEF ReviewCommit, TypeOK, SerialInv, AllChecksHold
<1>2. tx[s].claim \in Claims /\ Reviewable(tx[s].claim) /\ tx[s].op = "review"
  BY <1>1 DEF ReviewCommit, Review, ChecksHold
<1>3. /\ UNCHANGED <<run, line, flagged>>
      /\ tx' = [tx EXCEPT ![s] = Idle]
      /\ \A c \in Claims : c = tx[s].claim \/ claim'[c] = claim[c]
  BY DEF ReviewCommit, Close, runVars, TypeOK
<1>4. \A c \in Claims : /\ Due(c) => Due(c)'
                        /\ claim[c].status = "PAID" => claim'[c].status = "PAID"
  BY <1>2, <1>3 DEF Due, Reviewable
<1>5. AllChecksHold'
  BY <1>2, <1>3, <1>4, ClosingKeepsOthers DEF SerialInv
<1>6. RunSound' /\ ClaimSound'
  BY <1>3, <1>4, RunsUntouched DEF SerialInv
<1> QED  BY <1>5, <1>6 DEF SerialInv

\* Creating a run or a claim, moving members, changing compensation: nothing in flight checked it.
LEMMA InputKeeps ==
    ASSUME TypeOK, SerialInv,
           (\E p \in Periods : CreateRun(p)) \/ InputStep \/ UNCHANGED vars
    PROVE  SerialInv'
<1>1. tx' = tx /\ line' = line /\ flagged' = flagged
  BY DEF CreateRun, InputStep, CreateClaim, AssignMembers, ChangeCompensation, vars, runVars
<1>2. \A p \in Periods : \/ run'[p] = run[p]
                         \/ /\ run[p].status = "NONE" /\ run'[p].status = "DRAFT"
                            /\ run'[p].sheet = run[p].sheet
  BY DEF CreateRun, InputStep, CreateClaim, AssignMembers, ChangeCompensation, vars, runVars,
         TypeOK, Header
<1>3. \A c \in Claims : claim'[c] = claim[c] \/ claim[c].status = "NONE"
  BY DEF CreateRun, InputStep, CreateClaim, AssignMembers, ChangeCompensation, vars, TypeOK
<1>4. RunSound'
  BY <1>1, <1>2 DEF SerialInv, RunSound, DistinctApprover, TotalsMatchLines, FlaggedNotPaid
<1>5. ClaimSound'
  <2>1. \A p \in Periods : \A l \in line[p] : l.pays \subseteq Claims
    BY DEF TypeOK, Line
  <2> QED  BY <1>1, <1>2, <1>3, <2>1 DEF SerialInv, ClaimSound, LinesDue, ReimbursedIsPaid, Due
<1>6. ASSUME NEW s \in Sessions
      PROVE  ChecksHold(tx[s])'
  <2>1. PICK t \in Transaction : t = tx[s]
    BY DEF TypeOK
  <2>2. ChecksHold(t)
    BY <2>1 DEF SerialInv, AllChecksHold
  <2>3. OnRun(t) => t.run \in Periods /\ run[t.run].status # "NONE"
    BY <2>2, TransactionKinds DEF OnRun, ChecksHold, Calculation, Handover, Decision, Recalculable
  <2>4. OnRun(t) => run'[t.run] = run[t.run]
    BY <1>2, <2>3
  <2>5. t.op = "review" => claim'[t.claim] = claim[t.claim]
    BY <1>3, <2>2, TransactionKinds DEF ChecksHold, Reviewable, Review
  <2>6. ChecksHold(t)'
    BY <1>1, <1>3, <2>2, <2>4, <2>5, ChecksKept DEF Due
  <2> QED  BY <1>1, <2>1, <2>6 DEF ChecksHold, IsChecker, Reviewable, Due
<1> QED  BY <1>4, <1>5, <1>6 DEF SerialInv, AllChecksHold

LEMMA SerialStep ==
    ASSUME TypeOK, LineInv, SerialInv, OneRequestPerRow, [Next]_vars
    PROVE  SerialInv'
<1>1. ASSUME NEW s \in Sessions, NEW p \in Periods, CalculateOpen(s, p)
      PROVE  SerialInv'
  BY <1>1, OpeningKeeps DEF CalculateOpen, ChecksHold, Transaction, Calculation
<1>2. ASSUME NEW s \in Sessions, NEW p \in Periods, NEW u \in Managers, SubmitOpen(s, p, u)
      PROVE  SerialInv'
  BY <1>2, OpeningKeeps DEF SubmitOpen, ChecksHold, Transaction, Handover
<1>3. ASSUME NEW s \in Sessions, NEW p \in Periods, NEW u \in Approvers, NEW v \in Verdicts,
             DecideOpen(s, p, u, v)
      PROVE  SerialInv'
  BY <1>3, OpeningKeeps DEF DecideOpen, ChecksHold, Transaction, Decision
<1>4. ASSUME NEW s \in Sessions, NEW p \in Periods, NEW u \in Managers, PublishOpen(s, p, u)
      PROVE  SerialInv'
  BY <1>4, OpeningKeeps DEF PublishOpen, ChecksHold, Transaction, Handover
<1>5. ASSUME NEW s \in Sessions, NEW c \in Claims, NEW v \in Verdicts, ReviewOpen(s, c, v)
      PROVE  SerialInv'
  BY <1>5, OpeningKeeps DEF ReviewOpen, ChecksHold, Transaction, Review
<1>6. ASSUME NEW s \in Sessions, Rollback(s)
      PROVE  SerialInv'
  <2>1. UNCHANGED <<run, line, flagged, claim>> /\ tx' = [tx EXCEPT ![s] = Idle]
    BY <1>6 DEF Rollback, Close, runVars
  <2>2. RunSound' /\ ClaimSound'
    BY <2>1, RunsUntouched DEF SerialInv, Due
  <2>3. AllChecksHold'
    BY <2>1, ClosingKeepsOthers DEF SerialInv, Due
  <2> QED  BY <2>2, <2>3 DEF SerialInv
<1> QED
  BY <1>1, <1>2, <1>3, <1>4, <1>5, <1>6, CalculateReadKeeps, CalculateClearKeeps,
     CalculateCommitKeeps, HeaderCommitKeeps, ReviewCommitKeeps, InputKeeps
  DEF Next, RunStep, ClaimStep

LEMMA SerialSound == Spec /\ []OneRequestPerRow => [](TypeOK /\ LineInv /\ SerialInv)
<1>1. Init => SerialInv
  BY DEF Init, SerialInv, AllChecksHold, ChecksHold, RunSound, ClaimSound, DistinctApprover,
         TotalsMatchLines, FlaggedNotPaid, LinesDue, ReimbursedIsPaid, Idle
<1>2. TypeOK /\ LineInv /\ SerialInv /\ OneRequestPerRow /\ [Next]_vars => SerialInv'
  BY SerialStep
<1> QED  BY <1>1, <1>2, LinesSound, PTL DEF Spec
-----------------------------------------------------------------------------
(* What follows for a run. *)

\* The checker compared herself with the submitter of the very submission she decides on, so the
\* approver of an approved or published run is never its submitter (RunsService.decide).
THEOREM CheckerIsNotMaker == Spec /\ []OneRequestPerRow => []DistinctApprover
<1>1. SerialInv => DistinctApprover
  BY DEF SerialInv, RunSound
<1> QED  BY <1>1, SerialSound, PTL

\* The totals frozen in the header are those of the lines on file, after any number of
\* recalculations (RunsService.calculate).
THEOREM HeaderReconciles == Spec /\ []OneRequestPerRow => []TotalsMatchLines
<1>1. SerialInv => TotalsMatchLines
  BY DEF SerialInv, RunSound
<1> QED  BY <1>1, SerialSound, PTL

\* Nobody is paid by the run that reports her compensation as missing (RunsService.calculate).
THEOREM AnomaliesAreNotPaid == Spec /\ []OneRequestPerRow => []FlaggedNotPaid
<1>1. SerialInv => FlaggedNotPaid
  BY DEF SerialInv, RunSound
<1> QED  BY <1>1, SerialSound, PTL

\* Every claim a published run reimburses is marked PAID: what the lines carry was approved when
\* they were written, only a publication takes an approved claim further, and the bulk update of
\* the publication finds all that are left (RunsService.publish).
THEOREM SettledWhenPublished == Spec /\ []OneRequestPerRow => []ReimbursedIsPaid
<1>1. SerialInv => ReimbursedIsPaid
  BY DEF SerialInv, ClaimSound
<1> QED  BY <1>1, SerialSound, PTL

-----------------------------------------------------------------------------
(* What no step does. *)

\* The steps that write a line or a header, and the status they find.
LEMMA WritesByStatus ==
    ASSUME TypeOK, AllChecksHold, OneRequestPerRow, [Next]_vars, NEW p \in Periods
    PROVE  /\ run[p].status = "PUBLISHED" =>
                 run'[p] = run[p] /\ line'[p] = line[p] /\ flagged'[p] = flagged[p]
           /\ run[p].status \in {"PENDING_APPROVAL", "APPROVED"} => line'[p] = line[p]
<1>1. ASSUME NEW s \in Sessions, CalculateCommit(s), p = tx[s].run
      PROVE  run[p].status \in Recalculable
  BY <1>1 DEF CalculateCommit, AllChecksHold, ChecksHold
<1>2. ASSUME NEW s \in Sessions, CalculateCommit(s), p # tx[s].run
      PROVE  run'[p] = run[p] /\ line'[p] = line[p] /\ flagged'[p] = flagged[p]
  BY <1>2, CalculateReplaces DEF CalculateCommit, TypeOK
<1>3. ASSUME NEW s \in Sessions, SubmitCommit(s) \/ DecideCommit(s) \/ PublishCommit(s)
      PROVE  /\ line' = line /\ flagged' = flagged
             /\ run[p].status # "PUBLISHED" \/ run'[p] = run[p]
  <2>1. p = tx[s].run => run[p].status # "PUBLISHED"
    BY <1>3 DEF SubmitCommit, DecideCommit, PublishCommit, AllChecksHold, ChecksHold
  <2> QED  BY <1>3, <2>1 DEF SubmitCommit, DecideCommit, PublishCommit, TypeOK
<1>4. ASSUME \/ \E q \in Periods : CreateRun(q)
             \/ \E s \in Sessions : CalculateRead(s) \/ CalculateClear(s) \/ Rollback(s)
             \/ \E s \in Sessions : \E t : Open(s, t)
             \/ \E s \in Sessions : ReviewCommit(s)
             \/ InputStep
             \/ UNCHANGED vars
      PROVE  /\ line' = line /\ flagged' = flagged
             /\ run[p].status # "PUBLISHED" \/ run'[p] = run[p]
  BY <1>4 DEF CreateRun, CalculateRead, CalculateClear, Rollback, Open, ReviewCommit, InputStep,
              CreateClaim, AssignMembers, ChangeCompensation, vars, runVars, TypeOK
<1> QED
  BY <1>1, <1>2, <1>3, <1>4 DEF Next, RunStep, ClaimStep, CalculateOpen, SubmitOpen, DecideOpen,
     PublishOpen, ReviewOpen, Recalculable

\* A published run is never written again, and the lines a checker looks at are the lines she
\* approves (the status checks of RunsService.calculate, submit, decide and publish).
THEOREM FrozenWhileReviewed == Spec /\ []OneRequestPerRow => FrozenUnderReview
<1>1. TypeOK /\ SerialInv /\ OneRequestPerRow /\ [Next]_vars =>
        [\A p \in Periods :
           /\ run[p].status = "PUBLISHED" =>
                 run'[p] = run[p] /\ line'[p] = line[p] /\ flagged'[p] = flagged[p]
           /\ run[p].status \in {"PENDING_APPROVAL", "APPROVED"} => line'[p] = line[p]]_vars
  BY WritesByStatus DEF SerialInv
<1> QED  BY <1>1, SerialSound, PTL DEF Spec, FrozenUnderReview

\* A claim that is paid or rejected is final: a review finds it pending when it opens and nobody
\* else decides it meanwhile, and publishing touches approved claims only (ClaimsService.decide).
THEOREM ClaimsAreFinal == Spec /\ []OneRequestPerRow => ClaimFinal
<1>1. TypeOK /\ SerialInv /\ [Next]_vars =>
        [\A c \in Claims :
           claim[c].status \in {"PAID", "REJECTED"} => claim'[c] = claim[c]]_vars
  <2> SUFFICES ASSUME TypeOK, SerialInv, [Next]_vars, NEW c \in Claims,
                      claim[c].status \in {"PAID", "REJECTED"}
               PROVE  claim'[c] = claim[c]
    OBVIOUS
  <2>1. ASSUME NEW s \in Sessions, PublishCommit(s)
        PROVE  claim'[c] = claim[c]
    BY <2>1 DEF PublishCommit, Settled
  <2>2. ASSUME NEW s \in Sessions, ReviewCommit(s)
        PROVE  claim'[c] = claim[c]
    <3>1. Reviewable(tx[s].claim)
      BY <2>2 DEF ReviewCommit, SerialInv, AllChecksHold, ChecksHold
    <3>2. c # tx[s].claim
      BY <3>1 DEF Reviewable
    <3> QED  BY <2>2, <3>2 DEF ReviewCommit, TypeOK
  <2>3. ASSUME NEW d \in Claims, CreateClaim(d)
        PROVE  claim'[c] = claim[c]
    BY <2>3 DEF CreateClaim, TypeOK
  <2>4. ASSUME NEW s \in Sessions,
               \/ \E t : Open(s, t)
               \/ CalculateRead(s) \/ CalculateClear(s) \/ CalculateCommit(s)
               \/ SubmitCommit(s) \/ DecideCommit(s) \/ Rollback(s)
        PROVE  claim' = claim
    BY <2>4 DEF Open, CalculateRead, CalculateClear, CalculateCommit, SubmitCommit, DecideCommit,
                Rollback
  <2>5. ASSUME \/ \E p \in Periods : CreateRun(p)
               \/ \E es \in SUBSET Employees, g \in Groups : AssignMembers(es, g)
               \/ \E e \in MayLapse : ChangeCompensation(e)
               \/ UNCHANGED vars
        PROVE  claim' = claim
    BY <2>5 DEF CreateRun, AssignMembers, ChangeCompensation, vars
  <2> QED
    BY <2>1, <2>2, <2>3, <2>4, <2>5 DEF Next, RunStep, ClaimStep, InputStep, CalculateOpen,
       SubmitOpen, DecideOpen, PublishOpen, ReviewOpen
<1> QED  BY <1>1, SerialSound, PTL DEF Spec, ClaimFinal

-----------------------------------------------------------------------------
(* The maker-checker contract. *)

\* A step that rewrites one run at most moves that run's phase only.
LEMMA PhaseMoves ==
    ASSUME NEW r \in Periods, \A p \in Periods : p # r => run'[p] = run[p]
    PROVE  [p \in Periods |-> Phase(p)]' = [[p \in Periods |-> Phase(p)] EXCEPT ![r] = Phase(r)']
<1>1. \A p \in Periods : p # r => Phase(p)' = Phase(p)
  BY DEF Phase
<1> QED  BY <1>1

\* The steps that change nothing the contract knows of.
LEMMA ContractStutters ==
    ASSUME TypeOK, [Next]_vars, line' = line,
           \A p \in Periods : /\ Phase(p)' = Phase(p)
                              /\ run'[p].submittedBy = run[p].submittedBy
    PROVE  UNCHANGED Contract!vars
BY DEF Contract!vars

\* Committing a calculation edits the payslips of an open run.
LEMMA CalculateEdits ==
    ASSUME TypeOK, SerialInv, OneRequestPerRow, NEW s \in Sessions, CalculateCommit(s)
    PROVE  \E r \in Periods : Contract!Edit(r)
<1>1. PICK r \in Periods, S \in SUBSET Line :
        r = tx[s].run /\ S = NewLines(tx[s]) /\ line' = [line EXCEPT ![r] = S]
  <2>1. tx[s] \in Calculation /\ line' = [line EXCEPT ![tx[s].run] = NewLines(tx[s])]
    BY CalculateReplaces DEF SerialInv
  <2>2. tx[s].run \in Periods /\ NewLines(tx[s]) \in SUBSET Line
    BY <2>1 DEF Calculation, NewLines, Line
  <2> QED  BY <2>1, <2>2
<1>2. run[r] \in Header
  BY DEF TypeOK
<1>3. run[r].status \in Recalculable
  BY <1>1 DEF CalculateCommit, SerialInv, AllChecksHold, ChecksHold
<1>4. \A p \in Periods : /\ p # r => run'[p] = run[p]
                         /\ run'[p].submittedBy = run[p].submittedBy
  BY <1>1, <1>2 DEF CalculateCommit, TypeOK, Header
<1>5. run'[r].status = "CALCULATED"
  BY <1>1, <1>2 DEF CalculateCommit, TypeOK, Header
<1>6. Phase(r) = "open" /\ Phase(r)' = "open"
  BY <1>3, <1>5 DEF Phase, Recalculable
<1>7. UNCHANGED [p \in Periods |-> Phase(p)]
  <2>1. \A p \in Periods : Phase(p)' = Phase(p)
    BY <1>4, <1>6 DEF Phase
  <2> QED  BY <2>1
<1>8. UNCHANGED [p \in Periods |-> run[p].submittedBy]
  BY <1>4
<1> QED  BY <1>1, <1>2, <1>6, <1>7, <1>8 DEF Contract!Edit

LEMMA SubmitSubmits ==
    ASSUME TypeOK, SerialInv, NEW s \in Sessions, SubmitCommit(s)
    PROVE  \E r \in Periods, u \in Users : Contract!Submit(r, u)
<1>1. PICK r \in Periods, u \in Users : r = tx[s].run /\ u = tx[s].user /\ run[r] \in Header
  BY TransactionKinds DEF SubmitCommit, TypeOK, Handover, Users
<1>2. /\ run[r].status \in {"CALCULATED", "REJECTED"}
      /\ line[r] # {}
  BY <1>1 DEF SubmitCommit, SerialInv, AllChecksHold, ChecksHold, RunSound, TotalsMatchLines
<1>3. /\ \A p \in Periods : p # r => run'[p] = run[p]
      /\ run'[r].status = "PENDING_APPROVAL"
      /\ run'[r].submittedBy = u
      /\ line' = line
  BY <1>1 DEF SubmitCommit, TypeOK, Header
<1>4. Phase(r) = "open" /\ Phase(r)' = "review"
  BY <1>2, <1>3 DEF Phase
<1>5. [p \in Periods |-> Phase(p)]' = [[p \in Periods |-> Phase(p)] EXCEPT ![r] = "review"]
  BY <1>1, <1>3, <1>4, PhaseMoves
<1>6. [p \in Periods |-> run[p].submittedBy]'
        = [[p \in Periods |-> run[p].submittedBy] EXCEPT ![r] = u]
  BY <1>1, <1>3
<1> QED  BY <1>1, <1>2, <1>3, <1>4, <1>5, <1>6 DEF Contract!Submit

LEMMA DecideDecides ==
    ASSUME TypeOK, SerialInv, NEW s \in Sessions, DecideCommit(s)
    PROVE  \E r \in Periods, u \in Users : Contract!Decide(r, u)
<1>1. PICK r \in Periods, u \in Users : r = tx[s].run /\ u = tx[s].user /\ run[r] \in Header
  BY TransactionKinds DEF DecideCommit, TypeOK, Decision, Users
<1>2. run[r].status = "PENDING_APPROVAL" /\ run[r].submittedBy # u
  BY <1>1 DEF DecideCommit, SerialInv, AllChecksHold, ChecksHold, IsChecker
<1>3. /\ \A p \in Periods : /\ p # r => run'[p] = run[p]
                            /\ run'[p].submittedBy = run[p].submittedBy
      /\ run'[r].status \in {"APPROVED", "REJECTED"}
      /\ line' = line
  BY <1>1 DEF DecideCommit, StatusAfter, TypeOK, Header
<1>4. Phase(r) = "review" /\ Phase(r)' \in {"open", "approved"}
  BY <1>2, <1>3 DEF Phase
<1>5. [p \in Periods |-> Phase(p)]' = [[p \in Periods |-> Phase(p)] EXCEPT ![r] = Phase(r)']
  BY <1>1, <1>3, PhaseMoves
<1>6. UNCHANGED [p \in Periods |-> run[p].submittedBy]
  BY <1>3
<1> QED  BY <1>1, <1>2, <1>3, <1>4, <1>5, <1>6 DEF Contract!Decide

LEMMA PublishPays ==
    ASSUME TypeOK, SerialInv, NEW s \in Sessions, PublishCommit(s)
    PROVE  \E r \in Periods : Contract!Pay(r)
<1>1. PICK r \in Periods, u \in Users : r = tx[s].run /\ u = tx[s].user /\ run[r] \in Header
  BY TransactionKinds DEF PublishCommit, TypeOK, Handover, Users
<1>2. run[r].status = "APPROVED"
  BY <1>1 DEF PublishCommit, SerialInv, AllChecksHold, ChecksHold
<1>3. /\ \A p \in Periods : /\ p # r => run'[p] = run[p]
                            /\ run'[p].submittedBy = run[p].submittedBy
      /\ run'[r].status = "PUBLISHED"
      /\ line' = line
  BY <1>1 DEF PublishCommit, TypeOK, Header
<1>4. Phase(r) = "approved" /\ Phase(r)' = "paid"
  BY <1>2, <1>3 DEF Phase
<1>5. [p \in Periods |-> Phase(p)]' = [[p \in Periods |-> Phase(p)] EXCEPT ![r] = "paid"]
  BY <1>1, <1>3, <1>4, PhaseMoves
<1>6. UNCHANGED [p \in Periods |-> run[p].submittedBy]
  BY <1>3
<1> QED  BY <1>1, <1>2, <1>3, <1>4, <1>5, <1>6 DEF Contract!Pay

LEMMA ContractStep ==
    ASSUME TypeOK, SerialInv, OneRequestPerRow, [Next]_vars
    PROVE  [Contract!Next]_(Contract!vars)
<1>1. ASSUME NEW s \in Sessions,
             CalculateCommit(s) \/ SubmitCommit(s) \/ DecideCommit(s) \/ PublishCommit(s)
      PROVE  Contract!Next
  BY <1>1, CalculateEdits, SubmitSubmits, DecideDecides, PublishPays DEF Contract!Next
<1>2. ASSUME NEW q \in Periods, CreateRun(q)
      PROVE  UNCHANGED Contract!vars
  <2>1. line' = line
    BY <1>2 DEF CreateRun
  <2>2. ASSUME NEW p \in Periods
        PROVE  Phase(p)' = Phase(p) /\ run'[p].submittedBy = run[p].submittedBy
    <3>1. \/ run'[p] = run[p]
          \/ /\ run[p].status = "NONE" /\ run'[p].status = "DRAFT"
             /\ run'[p].submittedBy = run[p].submittedBy
      BY <1>2 DEF CreateRun, TypeOK, Header
    <3> QED  BY <3>1 DEF Phase
  <2> QED  BY <2>1, <2>2, ContractStutters
<1>3. ASSUME \/ \E s \in Sessions : CalculateRead(s) \/ CalculateClear(s) \/ Rollback(s)
             \/ \E s \in Sessions : \E t : Open(s, t)
             \/ \E s \in Sessions : ReviewCommit(s)
             \/ InputStep
             \/ UNCHANGED vars
      PROVE  UNCHANGED Contract!vars
  <2>1. line' = line /\ run' = run
    BY <1>3 DEF CalculateRead, CalculateClear, Rollback, Open, ReviewCommit, InputStep,
                CreateClaim, AssignMembers, ChangeCompensation, vars, runVars
  <2> QED  BY <2>1, ContractStutters DEF Phase
<1> QED
  BY <1>1, <1>2, <1>3 DEF Next, RunStep, ClaimStep, CalculateOpen, SubmitOpen, DecideOpen,
     PublishOpen, ReviewOpen

\* The payroll service implements the maker-checker contract: payslips change only while a run is
\* open, a submitted run is not empty, only somebody else than its maker lets it through, and a
\* paid run is final (RunsService.calculate, submit, decide, publish).
THEOREM ServiceImplementsContract == Spec /\ []OneRequestPerRow => ImplementsContract
<1>1. Init => Contract!Init
  BY DEF Init, Contract!Init, Phase
<1>2. TypeOK /\ SerialInv /\ OneRequestPerRow /\ [Next]_vars => [Contract!Next]_(Contract!vars)
  BY ContractStep
<1> QED  BY <1>1, <1>2, SerialSound, PTL DEF Spec, ImplementsContract, Contract!Spec
-----------------------------------------------------------------------------
(* The files of a published run, for every number of failures: the jobs read *)
(* the lines long after the transaction that published them, so what they    *)
(* write is right only as long as nobody rewrites those lines.               *)

\* A run whose files are being made, or exist.
Done(p) == run[p].status = "PUBLISHED" /\ p \in paid

OutTypeOK ==
    /\ task \subseteq Task
    /\ bank \in [Periods -> SUBSET SUBSET Line]
    /\ slips \in [Periods -> SUBSET Line]

\* What a job carries along are lines of its run, all of them if it is to write the bank file.
TasksShowTheRun ==
    \A k \in task :
        /\ Done(k.run)
        /\ k.do = "saveBank" => k.rows = line[k.run]
        /\ k.do = "saveSlip" => k.rows \subseteq line[k.run]

FilesOfDoneRuns ==
    \A p \in Periods :
        /\ bank[p] # {} => bank[p] = {line[p]} /\ Done(p)
        /\ slips[p] # {} => slips[p] \subseteq line[p] /\ Done(p)

OutInv == OutTypeOK /\ TasksShowTheRun /\ FilesOfDoneRuns

PayrollInv == TypeOK /\ LineInv /\ SerialInv

\* Seen from the payroll run, a step of a job is no step; a crash is not one of its steps, but
\* only rolls back what is in flight.
LEMMA PayrollStep ==
    ASSUME PayrollInv, OneRequestPerRow, [OutNext]_allVars
    PROVE  PayrollInv'
<1>1. CASE [Next]_vars
  BY <1>1, NextTyped, LineStep, SerialStep DEF PayrollInv
<1>2. CASE Crash
  <2>1. /\ UNCHANGED <<run, line, flagged, claim>>
        /\ tx' = [s \in Sessions |-> Idle]
    BY <1>2 DEF Crash, runVars
  <2>2. TypeOK'
    BY <1>2, <2>1 DEF Crash, PayrollInv, TypeOK, Transaction, runVars, hrVars
  <2>3. LineInv'
    BY <2>1 DEF PayrollInv, LineInv, OneLinePerEmployee, LinesPayOwnClaims, ClaimsInWindow, Idle
  <2>4. SerialInv'
    <3>1. RunSound' /\ ClaimSound'
      BY <2>1, RunsUntouched DEF PayrollInv, SerialInv, Due
    <3>2. AllChecksHold'
      BY <2>1 DEF AllChecksHold, ChecksHold, Idle
    <3> QED  BY <3>1, <3>2 DEF SerialInv
  <2> QED  BY <2>2, <2>3, <2>4 DEF PayrollInv
<1>3. [Next]_vars \/ Crash
  BY DEF OutNext, Publish, TaskStep, ReadBank, SaveBank, ReadSlips, SaveSlip, Fail, allVars, Next
<1> QED  BY <1>1, <1>2, <1>3

\* No step takes a run or its lines away from the files that show them.
LEMMA DoneForGood ==
    ASSUME PayrollInv, OneRequestPerRow, [OutNext]_allVars, NEW p \in Periods, Done(p)
    PROVE  Done(p)' /\ line'[p] = line[p]
<1>1. paid \subseteq paid'
  BY DEF OutNext, Publish, PublishCommit, CreateRun, RunStep, ClaimStep, InputStep, TaskStep,
         ReadBank, SaveBank, ReadSlips, SaveSlip, Fail, Crash, CalculateOpen, CalculateRead,
         CalculateClear, CalculateCommit, SubmitOpen, SubmitCommit, DecideOpen, DecideCommit,
         PublishOpen, Rollback, ReviewOpen, ReviewCommit, CreateClaim, AssignMembers,
         ChangeCompensation, Open, vars, runVars, allVars
<1>2. run'[p] = run[p] /\ line'[p] = line[p]
  <2>1. CASE [Next]_vars
    BY <2>1, WritesByStatus DEF PayrollInv, SerialInv, Done
  <2>2. CASE Crash
    BY <2>2 DEF Crash, runVars
  <2>3. [Next]_vars \/ Crash
    BY DEF OutNext, Publish, TaskStep, ReadBank, SaveBank, ReadSlips, SaveSlip, Fail, allVars, Next
  <2> QED  BY <2>1, <2>2, <2>3
<1> QED  BY <1>1, <1>2 DEF Done

\* What is known of a task, or of a file, stays true of it.
LEMMA TaskStaysRight ==
    ASSUME PayrollInv, OutInv, OneRequestPerRow, [OutNext]_allVars, NEW k \in task
    PROVE  /\ k \in Task
           /\ Done(k.run)'
           /\ k.do = "saveBank" => k.rows = line'[k.run]
           /\ k.do = "saveSlip" => k.rows \subseteq line'[k.run]
<1>1. k \in Task /\ k.run \in Periods
  BY DEF OutInv, OutTypeOK, Task
<1>2. PICK p \in Periods : p = k.run
  BY <1>1
<1>3. Done(p)' /\ line'[p] = line[p]
  BY <1>2, DoneForGood DEF OutInv, TasksShowTheRun, Done
<1> QED  BY <1>1, <1>2, <1>3 DEF OutInv, TasksShowTheRun, Done

LEMMA FilesStayRight ==
    ASSUME PayrollInv, OutInv, OneRequestPerRow, [OutNext]_allVars, NEW p \in Periods
    PROVE  /\ bank[p] # {} => bank[p] = {line'[p]} /\ Done(p)'
           /\ slips[p] # {} => slips[p] \subseteq line'[p] /\ Done(p)'
BY DoneForGood DEF OutInv, FilesOfDoneRuns

LEMMA OutStep ==
    ASSUME PayrollInv, OutInv, OneRequestPerRow, [OutNext]_allVars
    PROVE  OutInv'
<1>t. \A k \in task : /\ k \in Task
                      /\ Done(k.run)'
                      /\ k.do = "saveBank" => k.rows = line'[k.run]
                      /\ k.do = "saveSlip" => k.rows \subseteq line'[k.run]
  BY TaskStaysRight
<1>f. \A p \in Periods : /\ bank[p] # {} => bank[p] = {line'[p]} /\ Done(p)'
                         /\ slips[p] # {} => slips[p] \subseteq line'[p] /\ Done(p)'
  BY FilesStayRight
<1>o. OutTypeOK
  BY DEF OutInv
<1>1. CASE task' \subseteq task /\ UNCHANGED <<bank, slips>>
  <2>1. OutTypeOK'
    BY <1>1, <1>o DEF OutTypeOK
  <2>2. TasksShowTheRun'
    BY <1>1, <1>t DEF TasksShowTheRun, Done
  <2>3. FilesOfDoneRuns'
    BY <1>1, <1>f DEF FilesOfDoneRuns
  <2> QED  BY <2>1, <2>2, <2>3 DEF OutInv
<1>2. ASSUME NEW s \in Sessions, Publish(s)
      PROVE  OutInv'
  <2>1. PICK r \in Periods : r = tx[s].run
    BY <1>2, TransactionKinds DEF Publish, PublishCommit, PayrollInv, TypeOK, Handover
  <2>2. Done(r)'
    BY <1>2, <2>1 DEF Publish, PublishCommit, PayrollInv, TypeOK, Header, Done
  <2>3. task' = task \cup {ToDo("readBank", r, {}), ToDo("readSlips", r, {})}
    BY <1>2, <2>1 DEF Publish
  <2>4. OutTypeOK'
    BY <1>2, <1>o, <2>3 DEF Publish, OutTypeOK, Task, ToDo
  <2>5. TasksShowTheRun'
    BY <1>t, <2>2, <2>3 DEF TasksShowTheRun, ToDo, Done
  <2>6. FilesOfDoneRuns'
    BY <1>2, <1>f DEF Publish, FilesOfDoneRuns
  <2> QED  BY <2>4, <2>5, <2>6 DEF OutInv
<1>3. ASSUME NEW k \in task, ReadBank(k) \/ ReadSlips(k)
      PROVE  OutInv'
  <2>1. k.run \in Periods /\ FileRows(k.run) = line'[k.run] /\ line[k.run] = line'[k.run]
    BY <1>3, <1>t DEF ReadBank, ReadSlips, FileRows, vars, runVars, Task
  <2>2. \A j \in task' : \/ j \in task
                         \/ j = ToDo("saveBank", k.run, line[k.run])
                         \/ \E l \in line[k.run] : j = ToDo("saveSlip", k.run, {l})
    BY <1>3 DEF ReadBank, ReadSlips, Continue, FileRows
  <2>3. OutTypeOK'
    <3>1. line[k.run] \subseteq Line
      BY <2>1 DEF PayrollInv, TypeOK
    <3> QED  BY <1>3, <1>o, <2>1, <2>2, <3>1 DEF ReadBank, ReadSlips, OutTypeOK, Task, ToDo
  <2>4. TasksShowTheRun'
    BY <1>t, <2>1, <2>2 DEF TasksShowTheRun, ToDo, Done
  <2>5. FilesOfDoneRuns'
    BY <1>3, <1>f DEF ReadBank, ReadSlips, FilesOfDoneRuns
  <2> QED  BY <2>3, <2>4, <2>5 DEF OutInv
<1>4. ASSUME NEW k \in task, SaveBank(k)
      PROVE  OutInv'
  <2>1. task' \subseteq task /\ bank' = [bank EXCEPT ![k.run] = {k.rows}] /\ slips' = slips
    BY <1>4 DEF SaveBank, Continue
  <2>2. /\ k.run \in Periods /\ k.rows \in SUBSET Line
        /\ k.rows = line'[k.run] /\ Done(k.run)'
    BY <1>4, <1>t DEF SaveBank, Task
  <2>3. OutTypeOK'
    BY <1>o, <2>1, <2>2 DEF OutTypeOK
  <2>4. TasksShowTheRun'
    BY <1>t, <2>1 DEF TasksShowTheRun, Done
  <2>5. FilesOfDoneRuns'
    BY <1>f, <1>o, <2>1, <2>2 DEF FilesOfDoneRuns, OutTypeOK, Done
  <2> QED  BY <2>3, <2>4, <2>5 DEF OutInv
<1>5. ASSUME NEW k \in task, SaveSlip(k)
      PROVE  OutInv'
  <2>1. PICK r \in Periods, rows \in SUBSET Line : r = k.run /\ rows = k.rows
    BY <1>t DEF Task
  <2>2. rows \subseteq line'[r] /\ Done(r)'
    BY <1>5, <1>t, <2>1 DEF SaveSlip, Done
  <2>3. /\ task' \subseteq task /\ bank' = bank
        /\ slips' \in [Periods -> SUBSET Line]
        /\ \A p \in Periods : slips'[p] \subseteq slips[p] \cup (IF p = r THEN rows ELSE {})
    BY <1>5, <1>o, <2>1 DEF SaveSlip, Continue, OutTypeOK
  <2>4. OutTypeOK'
    BY <1>o, <2>3 DEF OutTypeOK
  <2>5. TasksShowTheRun'
    BY <1>t, <2>3 DEF TasksShowTheRun, Done
  <2>6. FilesOfDoneRuns'
    BY <1>f, <2>2, <2>3 DEF FilesOfDoneRuns, Done
  <2> QED  BY <2>4, <2>5, <2>6 DEF OutInv
<1>6. ASSUME \/ \E k \in task : Fail(k)
             \/ Crash
             \/ UNCHANGED outVars
             \/ UNCHANGED allVars
      PROVE  task' \subseteq task /\ UNCHANGED <<bank, slips>>
  BY <1>6 DEF Fail, StopOne, Crash, outVars, allVars
<1> QED  BY <1>1, <1>2, <1>3, <1>4, <1>5, <1>6 DEF OutNext, TaskStep

\* Jobs that fail, jobs that crash and jobs of other runs notwithstanding, a bank file lists
\* exactly the lines of its run and a payslip shows one of them (BankFileService.generate,
\* PayslipService.generateAll), as long as nobody else works on that run.
THEOREM FilesAreRight == OutSpec /\ []OneRequestPerRow => []FilesShowTheRun
<1>1. OutInit => PayrollInv /\ OutInv
  <2>1. Init => PayrollInv
    BY InitTyped DEF Init, PayrollInv, LineInv, OneLinePerEmployee, LinesPayOwnClaims,
       ClaimsInWindow, SerialInv, AllChecksHold, ChecksHold, RunSound, ClaimSound,
       DistinctApprover, TotalsMatchLines, FlaggedNotPaid, LinesDue, ReimbursedIsPaid, Idle
  <2> QED  BY <2>1 DEF OutInit, OutInv, OutTypeOK, TasksShowTheRun, FilesOfDoneRuns
<1>2. PayrollInv /\ OutInv /\ OneRequestPerRow /\ [OutNext]_allVars => (PayrollInv /\ OutInv)'
  BY PayrollStep, OutStep
<1>3. OutInv => FilesShowTheRun
  BY DEF OutInv, FilesOfDoneRuns, FilesShowTheRun, Done
<1> QED  BY <1>1, <1>2, <1>3, PTL DEF OutSpec
===============================================================================
