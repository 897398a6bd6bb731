------------------------- MODULE LeaveBalance_proofs -------------------------
(***************************************************************************)
(* What the rows of leave management guarantee for any employees, requests *)
(* and overlapping handlers: every handler finds its row, and no day is    *)
(* lost.  For one handler at a time, the rows are the sums over the        *)
(* requests, and the service implements the ledger.                        *)
(***************************************************************************)
EXTENDS LeaveBalance, FiniteSums

-----------------------------------------------------------------------------
(* Rows and types. *)

\* Whoever made a request, or is about to settle one, finds a balance row to write to.
RowMade ==
    /\ \A r \in Requests : request[r] # "NONE" => balance[HeldBy[r]] # None
    /\ \A s \in Sessions : tx[s].op \in {"decide", "cancel"} => request[tx[s].request] # "NONE"

IInv == LeaveTypeOK /\ RowMade

-----------------------------------------------------------------------------
(* Open transactions and rows. *)

LEMMA TransactionKinds ==
    ASSUME NEW t \in Transaction
    PROVE  /\ t.op \in {"idle", "apply", "decide", "cancel"}
           /\ t.op # "idle" => t.request \in Requests
           /\ t.op = "decide" => t.verdict \in Verdicts
BY DEF Transaction, Idle

LEMMA CurrentIsRow ==
    ASSUME LeaveTypeOK, NEW b \in Balances
    PROVE  Current(b) \in Row
BY LeaveAssumption DEF LeaveTypeOK, Current, Row

LEMMA Opened ==
    ASSUME IInv, NEW s \in Sessions, NEW t \in Transaction, Open(s, t),
           t.op \in {"decide", "cancel"} => request[t.request] # "NONE"
    PROVE  IInv'
<1>1. /\ UNCHANGED <<balance, request, online>>
      /\ tx' \in [Sessions -> Transaction]
      /\ tx'[s] = t /\ \A u \in Sessions \ {s} : tx'[u] = tx[u]
  BY DEF Open, IInv, LeaveTypeOK
<1> QED  BY <1>1 DEF IInv, LeaveTypeOK, RowMade

\* A commit that writes one row and gives one request a status, or writes nothing.
LEMMA Closed ==
    ASSUME IInv, NEW s \in Sessions, Close(s),
           balance' \in [Balances -> Row \cup {None}], request' \in [Requests -> Status],
           \A b \in Balances : balance[b] # None => balance'[b] # None,
           \A r \in Requests : \/ request'[r] = request[r]
                               \/ request'[r] # "NONE" /\ balance'[HeldBy[r]] # None
    PROVE  IInv'
<1>1. /\ UNCHANGED online /\ tx' \in [Sessions -> Transaction]
      /\ tx'[s] = Idle /\ \A u \in Sessions \ {s} : tx'[u] = tx[u]
  BY DEF Close, IInv, LeaveTypeOK, Transaction
<1>2. \A r \in Requests : request'[r] # "NONE" => balance'[HeldBy[r]] # None
  BY LeaveAssumption DEF IInv, RowMade
<1>3. ASSUME NEW u \in Sessions, tx'[u].op \in {"decide", "cancel"}
      PROVE  request'[tx'[u].request] # "NONE"
  <2>1. tx'[u] = tx[u]
    BY <1>1, <1>3 DEF Idle
  <2>2. tx[u].request \in Requests
    BY <1>3, <2>1, TransactionKinds DEF IInv, LeaveTypeOK
  <2> QED  BY <1>3, <2>1, <2>2 DEF IInv, RowMade
<1> QED  BY <1>1, <1>2, <1>3 DEF IInv, LeaveTypeOK, RowMade

-----------------------------------------------------------------------------
(* The commits. *)

LEMMA ApplyCommitStep ==
    ASSUME IInv, NEW s \in Sessions, ApplyCommit(s)
    PROVE  IInv'
<1>1. PICK r \in Requests : tx[s].op = "apply" /\ tx[s].request = r
  BY TransactionKinds DEF ApplyCommit, IInv, LeaveTypeOK
<1> DEFINE row == [Current(HeldBy[r]) EXCEPT !.pending = @ + DaysOf[r]]
<1>2. /\ Close(s)
      /\ request' = [request EXCEPT ![r] = "PENDING"]
      /\ balance' = [balance EXCEPT ![HeldBy[r]] = row]
  BY <1>1 DEF ApplyCommit
<1>3. HeldBy[r] \in Balances /\ DaysOf[r] \in Nat
  BY LeaveAssumption
<1>4. row \in Row
  BY <1>3, CurrentIsRow DEF IInv, Row
<1>5. row # None
  BY <1>4, NoneIsNoRow
<1> HIDE DEF row
<1>6. /\ balance' \in [Balances -> Row \cup {None}]
      /\ balance'[HeldBy[r]] = row
      /\ \A b \in Balances \ {HeldBy[r]} : balance'[b] = balance[b]
  BY <1>2, <1>3, <1>4 DEF IInv, LeaveTypeOK
<1>7. /\ request' \in [Requests -> Status] /\ request'[r] = "PENDING"
      /\ \A q \in Requests \ {r} : request'[q] = request[q]
  BY <1>2 DEF IInv, LeaveTypeOK, Status
<1> QED  BY <1>2, <1>5, <1>6, <1>7, Closed

\* A decision or a cancellation writes to the row that the application made.
LEMMA Settles ==
    ASSUME IInv, NEW s \in Sessions, Close(s), tx[s].op \in {"decide", "cancel"},
           NEW r \in Requests, tx[s].request = r, NEW row \in Row,
           NEW status \in Status, status # "NONE",
           balance' = [balance EXCEPT ![HeldBy[r]] = row],
           request' = [request EXCEPT ![r] = status]
    PROVE  IInv'
<1>1. HeldBy[r] \in Balances
  BY LeaveAssumption
<1>2. /\ balance' \in [Balances -> Row \cup {None}]
      /\ balance'[HeldBy[r]] = row /\ row # None
      /\ \A b \in Balances \ {HeldBy[r]} : balance'[b] = balance[b]
  BY <1>1, NoneIsNoRow DEF IInv, LeaveTypeOK
<1>3. /\ request' \in [Requests -> Status] /\ request'[r] = status
      /\ \A q \in Requests \ {r} : request'[q] = request[q]
  BY DEF IInv, LeaveTypeOK
<1> QED  BY <1>2, <1>3, Closed

\* Nobody settles a request whose balance has no row.
LEMMA RowFound ==
    ASSUME IInv, NEW s \in Sessions, tx[s].op \in {"decide", "cancel"}
    PROVE  tx[s].request \in Requests /\ balance[HeldBy[tx[s].request]] \in Row
<1>1. tx[s].request \in Requests
  BY TransactionKinds DEF IInv, LeaveTypeOK
<1>2. HeldBy[tx[s].request] \in Balances
  BY <1>1, LeaveAssumption
<1> QED  BY <1>1, <1>2 DEF IInv, LeaveTypeOK, RowMade

LEMMA SettledIsRow ==
    ASSUME NEW row \in Row, NEW days \in Nat, NEW verdict
    PROVE  Settled(row, days, verdict) \in Row
<1> DEFINE used == IF verdict = "APPROVE" THEN row.used + days ELSE row.used
<1>1. /\ row.entitled \in Nat /\ row.pending - days \in Int
      /\ row.used \in Int /\ row.used + days \in Int
  BY DEF Row
<1>2. used \in Int
  BY <1>1
<1>3. Settled(row, days, verdict) = [row EXCEPT !.pending = row.pending - days, !.used = used]
  BY DEF Settled
<1> HIDE DEF used
<1>4. Settled(row, days, verdict) =
        [entitled |-> row.entitled, used |-> used, pending |-> row.pending - days]
  BY <1>3 DEF Row
<1> QED  BY <1>1, <1>2, <1>4 DEF Row

LEMMA DecideCommitStep ==
    ASSUME IInv, NEW s \in Sessions, DecideCommit(s)
    PROVE  IInv'
<1> DEFINE r == tx[s].request
           old == balance[HeldBy[r]]
           row == Settled(old, DaysOf[r], tx[s].verdict)
<1>1. tx[s].op = "decide" /\ r \in Requests /\ old \in Row
  BY RowFound DEF DecideCommit
<1>2. DaysOf[r] \in Nat /\ HeldBy[r] \in Balances
  BY <1>1, LeaveAssumption
<1>3. row \in Row
  BY <1>1, <1>2, SettledIsRow
<1>4. StatusAfter(tx[s].verdict) \in Status \ {"NONE"}
  BY DEF StatusAfter, Status
<1>5. balance' = [balance EXCEPT ![HeldBy[r]] = row]
  BY <1>2 DEF DecideCommit, IInv, LeaveTypeOK
<1>6. request' = [request EXCEPT ![r] = StatusAfter(tx[s].verdict)] /\ Close(s)
  BY DEF DecideCommit
<1> QED  BY <1>1, <1>3, <1>4, <1>5, <1>6, Settles

LEMMA CancelCommitStep ==
    ASSUME IInv, NEW s \in Sessions, CancelCommit(s)
    PROVE  IInv'
<1> DEFINE r == tx[s].request
           old == balance[HeldBy[r]]
           row == [old EXCEPT !.pending = @ - DaysOf[r]]
<1>1. tx[s].op = "cancel" /\ r \in Requests /\ old \in Row
  BY RowFound DEF CancelCommit
<1>2. DaysOf[r] \in Nat /\ HeldBy[r] \in Balances
  BY <1>1, LeaveAssumption
<1>3. row \in Row
  BY <1>1, <1>2 DEF Row
<1>4. balance' = [balance EXCEPT ![HeldBy[r]] = row]
  BY <1>2 DEF CancelCommit, IInv, LeaveTypeOK
<1>5. request' = [request EXCEPT ![r] = "CANCELLED"] /\ Close(s)
  BY DEF CancelCommit
<1> QED  BY <1>1, <1>3, <1>4, <1>5, Settles DEF Status

LEMMA SetBalanceStep ==
    ASSUME IInv, NEW s \in Sessions, NEW b \in Balances, NEW n \in Entitlements,
           SetBalance(s, b, n)
    PROVE  IInv'
<1> DEFINE row == [Current(b) EXCEPT !.entitled = n]
<1>1. row \in Row
  BY CurrentIsRow, LeaveAssumption DEF IInv, Row
<1>2. row # None
  BY <1>1, NoneIsNoRow
<1>3. balance' = [balance EXCEPT ![b] = row] /\ UNCHANGED <<request, tx, online>>
  BY DEF SetBalance
<1> HIDE DEF row
<1>4. /\ balance' \in [Balances -> Row \cup {None}]
      /\ \A c \in Balances : balance[c] # None => balance'[c] # None
  BY <1>1, <1>2, <1>3 DEF IInv, LeaveTypeOK
<1> QED  BY <1>3, <1>4, LeaveAssumption DEF IInv, LeaveTypeOK, RowMade

-----------------------------------------------------------------------------
LEMMA InitIInv == Init => IInv
<1> SUFFICES ASSUME Init PROVE IInv
  OBVIOUS
<1>1. LeaveTypeOK
  BY LeaveAssumption DEF Init, LeaveTypeOK, Status, Transaction
<1>2. \A s \in Sessions : tx[s].op = "idle"
  BY DEF Init, Idle
<1> QED  BY <1>1, <1>2 DEF Init, IInv, RowMade

LEMMA Step == IInv /\ [Next]_vars => IInv'
<1> SUFFICES ASSUME IInv, [Next]_vars PROVE IInv'
  OBVIOUS
<1>1. CASE UNCHANGED vars
  BY <1>1 DEF vars, IInv, LeaveTypeOK, RowMade
<1>2. ASSUME NEW s \in online, NEW r \in Requests, ApplyOpen(s, r) PROVE IInv'
  <2>1. PICK c \in BOOLEAN : Open(s, [op |-> "apply", request |-> r, creates |-> c])
    BY <1>2 DEF ApplyOpen
  <2>2. [op |-> "apply", request |-> r, creates |-> c] \in Transaction
    BY DEF Transaction
  <2> QED  BY <2>1, <2>2, Opened DEF IInv, LeaveTypeOK
<1>3. ASSUME NEW s \in online, NEW r \in Requests, NEW v \in Verdicts, DecideOpen(s, r, v)
      PROVE  IInv'
  <2>1. [op |-> "decide", request |-> r, verdict |-> v] \in Transaction
    BY DEF Transaction
  <2> QED  BY <1>3, <2>1, Opened DEF DecideOpen, IInv, LeaveTypeOK
<1>4. ASSUME NEW s \in online, NEW r \in Requests, CancelOpen(s, r) PROVE IInv'
  <2>1. [op |-> "cancel", request |-> r] \in Transaction
    BY DEF Transaction
  <2> QED  BY <1>4, <2>1, Opened DEF CancelOpen, IInv, LeaveTypeOK
<1>5. ASSUME NEW s \in online, Rollback(s) PROVE IInv'
  BY <1>5, Closed DEF Rollback, IInv, LeaveTypeOK
<1>6. online \subseteq Sessions
  BY DEF IInv, LeaveTypeOK
<1> QED  BY <1>1, <1>2, <1>3, <1>4, <1>5, <1>6, SetBalanceStep, ApplyCommitStep,
            DecideCommitStep, CancelCommitStep DEF Next

\* Every reachable state of leave management is well-typed: what a handler carries from its
\* checks to its commit names requests and verdicts, and every balance is a row or not there yet.
THEOREM LeaveTypeCorrect == Spec => []LeaveTypeOK
<1>1. IInv => LeaveTypeOK
  BY DEF IInv
<1> QED  BY <1>1, InitIInv, Step, PTL DEF Spec

\* getOrCreateBalance ran in the transaction that made a request and nothing deletes a row, so
\* decide and cancel always find the row they add to and subtract from, however they overlap.
THEOREM SettledOnARow == Spec => []RowMade
<1>1. IInv => RowMade
  BY DEF IInv
<1> QED  BY <1>1, InitIInv, Step, PTL DEF Spec
-----------------------------------------------------------------------------
(* Days on a balance. *)

Charged(b, status) == {r \in Requests : HeldBy[r] = b /\ request[r] = status}

\* What a request counts for, if it has the status st, among those of status x on b.
Share(r, b, st, x) == IF HeldBy[r] = b /\ st = x THEN DaysOf[r] ELSE 0

LEMMA SumSplit ==
    ASSUME NEW S \in SUBSET Requests, NEW r \in Requests
    PROVE  /\ Sum(DaysOf, S) = (IF r \in S THEN DaysOf[r] ELSE 0) + Sum(DaysOf, S \ {r})
           /\ Sum(DaysOf, S) \in Nat /\ Sum(DaysOf, S \ {r}) \in Nat
<1>1. /\ IsFiniteSet(S) /\ IsFiniteSet(S \ {r})
      /\ \A x \in S : DaysOf[x] \in Nat
      /\ \A x \in S \ {r} : DaysOf[x] \in Nat
  BY LeaveAssumption, FS_Subset
<1>2. Sum(DaysOf, S) \in Nat /\ Sum(DaysOf, S \ {r}) \in Nat
  BY <1>1, SumNat
<1>3. CASE r \in S
  BY <1>1, <1>2, <1>3, SumRemove
<1>4. CASE r \notin S
  <2>1. S \ {r} = S
    BY <1>4
  <2> QED  BY <1>2, <1>4, <2>1
<1> QED  BY <1>3, <1>4

\* A request that gets another status takes its days along.
LEMMA DaysMoved ==
    ASSUME LeaveTypeOK, NEW r \in Requests, NEW st,
           request' = [request EXCEPT ![r] = st], NEW b, NEW x
    PROVE  /\ DaysIn(b, x)' = DaysIn(b, x) - Share(r, b, request[r], x) + Share(r, b, st, x)
           /\ DaysIn(b, x) \in Nat /\ DaysIn(b, x)' \in Nat
<1> DEFINE S == Charged(b, x)
           R == Charged(b, x)'
<1>1. DaysIn(b, x) = Sum(DaysOf, S) /\ DaysIn(b, x)' = Sum(DaysOf, R)
  BY DEF DaysIn, Sum, Charged, FoldFunctionOnSet, MapThenFoldSet
<1>2. S \in SUBSET Requests /\ R \in SUBSET Requests
  BY DEF Charged
<1>3. request'[r] = st /\ \A q \in Requests \ {r} : request'[q] = request[q]
  BY DEF LeaveTypeOK
<1>4. S \ {r} = R \ {r}
  BY <1>3 DEF Charged
<1>5. /\ r \in S <=> HeldBy[r] = b /\ request[r] = x
      /\ r \in R <=> HeldBy[r] = b /\ st = x
  BY <1>3 DEF Charged
<1>6. /\ Sum(DaysOf, S) = Share(r, b, request[r], x) + Sum(DaysOf, S \ {r})
      /\ Sum(DaysOf, R) = Share(r, b, st, x) + Sum(DaysOf, S \ {r})
      /\ Sum(DaysOf, S) \in Nat /\ Sum(DaysOf, R) \in Nat /\ Sum(DaysOf, S \ {r}) \in Nat
  <2> HIDE DEF S, R
  <2>1. /\ Sum(DaysOf, S) = (IF r \in S THEN DaysOf[r] ELSE 0) + Sum(DaysOf, S \ {r})
        /\ Sum(DaysOf, S) \in Nat /\ Sum(DaysOf, S \ {r}) \in Nat
    BY <1>2, SumSplit
  <2>2. /\ Sum(DaysOf, R) = (IF r \in R THEN DaysOf[r] ELSE 0) + Sum(DaysOf, R \ {r})
        /\ Sum(DaysOf, R) \in Nat
    BY <1>2, SumSplit
  <2> QED  BY <1>4, <1>5, <2>1, <2>2 DEF Share
<1>7. DaysOf[r] \in Nat /\ Share(r, b, request[r], x) \in Nat /\ Share(r, b, st, x) \in Nat
  BY LeaveAssumption DEF Share
<1> HIDE DEF S, R
<1> QED  BY <1>1, <1>6, <1>7

-----------------------------------------------------------------------------
(* However handlers overlap. *)

\* The request an application makes is nobody else's and not there yet.
ApplicantsApart ==
    /\ \A s \in Sessions : tx[s].op = "apply" => request[tx[s].request] = "NONE"
    /\ \A s, u \in Sessions :
          tx[s].op = "apply" /\ tx[u].op = "apply" /\ tx[s].request = tx[u].request => s = u

\* What one commit does to the ledger: request r gets the status st, and its balance the row.
Writes(s, r, st, row) ==
    /\ Close(s) /\ s \in online
    /\ tx[s].op \in {"apply", "decide", "cancel"} /\ tx[s].request = r
    /\ r \in Requests /\ st \in Status \ {"NONE"} /\ row \in Row
    /\ request' = [request EXCEPT ![r] = st]
    /\ balance' = [balance EXCEPT ![HeldBy[r]] = row]

\* Every commit writes one row, which differs from the current one by the request's days.
LEMMA ApplyWrites ==
    ASSUME IInv, ApplicantsApart, NEW s \in online, ApplyCommit(s)
    PROVE  \E r \in Requests, row \in Row :
              /\ Writes(s, r, "PENDING", row)
              /\ tx[s].op = "apply" /\ request[r] = "NONE"
              /\ row.entitled = Current(HeldBy[r]).entitled
              /\ row.used = Current(HeldBy[r]).used
              /\ row.pending = Current(HeldBy[r]).pending + DaysOf[r]
<1>0. s \in Sessions
  BY DEF IInv, LeaveTypeOK
<1>1. PICK r \in Requests : tx[s].op = "apply" /\ tx[s].request = r
  BY <1>0, TransactionKinds DEF ApplyCommit, IInv, LeaveTypeOK
<1> DEFINE old == Current(HeldBy[r])
           row == [old EXCEPT !.pending = @ + DaysOf[r]]
<1>2. HeldBy[r] \in Balances /\ DaysOf[r] \in Nat
  BY LeaveAssumption
<1>3. old \in Row
  BY <1>2, CurrentIsRow DEF IInv
<1>4. /\ Close(s)
      /\ request' = [request EXCEPT ![r] = "PENDING"]
      /\ balance' = [balance EXCEPT ![HeldBy[r]] = row]
  BY <1>1 DEF ApplyCommit
<1>5. request[r] = "NONE"
  BY <1>0, <1>1 DEF ApplicantsApart
<1> HIDE DEF old
<1>6. /\ row \in Row /\ row.entitled = old.entitled /\ row.used = old.used
      /\ row.pending = old.pending + DaysOf[r]
  BY <1>2, <1>3 DEF Row
<1> HIDE DEF row
<1>7. Writes(s, r, "PENDING", row)
  BY <1>0, <1>1, <1>4, <1>6 DEF Writes, Status
<1> QED  BY <1>1, <1>5, <1>6, <1>7 DEF old

LEMMA RowIsCurrent ==
    ASSUME IInv, NEW r \in Requests, request[r] # "NONE"
    PROVE  balance[HeldBy[r]] = Current(HeldBy[r])
BY DEF IInv, RowMade, Current

LEMMA DecideWrites ==
    ASSUME IInv, NEW s \in online, DecideCommit(s)
    PROVE  \E r \in Requests, v \in Verdicts, row \in Row :
              /\ Writes(s, r, StatusAfter(v), row)
              /\ tx[s].op = "decide" /\ request[r] # "NONE"
              /\ row.entitled = Current(HeldBy[r]).entitled
              /\ row.used = Current(HeldBy[r]).used + (IF v = "APPROVE" THEN DaysOf[r] ELSE 0)
              /\ row.pending = Current(HeldBy[r]).pending - DaysOf[r]
<1>0. s \in Sessions /\ tx[s].op = "decide"
  BY DEF IInv, LeaveTypeOK, DecideCommit
<1>1. PICK r \in Requests, v \in Verdicts : tx[s].request = r /\ tx[s].verdict = v
  BY <1>0, TransactionKinds DEF IInv, LeaveTypeOK
<1> DEFINE old == balance[HeldBy[r]]
           row == Settled(old, DaysOf[r], v)
<1>2. HeldBy[r] \in Balances /\ DaysOf[r] \in Nat
  BY LeaveAssumption
<1>3. old \in Row /\ request[r] # "NONE" /\ old = Current(HeldBy[r])
  BY <1>0, <1>1, RowFound, RowIsCurrent DEF IInv, RowMade
<1>4. /\ Close(s)
      /\ request' = [request EXCEPT ![r] = StatusAfter(v)]
      /\ balance' = [balance EXCEPT ![HeldBy[r]] = row]
  BY <1>1, <1>2 DEF DecideCommit, IInv, LeaveTypeOK
<1> HIDE DEF old
<1>5. row \in Row
  BY <1>2, <1>3, SettledIsRow
<1>6. /\ row.entitled = old.entitled
      /\ row.used = old.used + (IF v = "APPROVE" THEN DaysOf[r] ELSE 0)
      /\ row.pending = old.pending - DaysOf[r]
  <2>1. v = "APPROVE" \/ v # "APPROVE"
    OBVIOUS
  <2> QED  BY <1>2, <1>3, <2>1 DEF Row, Settled
<1> HIDE DEF row
<1>7. StatusAfter(v) \in Status \ {"NONE"}
  BY DEF StatusAfter, Status
<1>8. Writes(s, r, StatusAfter(v), row)
  BY <1>0, <1>1, <1>4, <1>5, <1>7 DEF Writes
<1> QED  BY <1>0, <1>3, <1>5, <1>6, <1>8

LEMMA CancelWrites ==
    ASSUME IInv, NEW s \in online, CancelCommit(s)
    PROVE  \E r \in Requests, row \in Row :
              /\ Writes(s, r, "CANCELLED", row)
              /\ tx[s].op = "cancel" /\ request[r] # "NONE"
              /\ row.entitled = Current(HeldBy[r]).entitled
              /\ row.used = Current(HeldBy[r]).used
              /\ row.pending = Current(HeldBy[r]).pending - DaysOf[r]
<1>0. s \in Sessions /\ tx[s].op = "cancel"
  BY DEF IInv, LeaveTypeOK, CancelCommit
<1>1. PICK r \in Requests : tx[s].request = r
  BY <1>0, TransactionKinds DEF IInv, LeaveTypeOK
<1> DEFINE old == balance[HeldBy[r]]
           row == [old EXCEPT !.pending = @ - DaysOf[r]]
<1>2. HeldBy[r] \in Balances /\ DaysOf[r] \in Nat
  BY LeaveAssumption
<1>3. old \in Row /\ request[r] # "NONE" /\ old = Current(HeldBy[r])
  BY <1>0, <1>1, RowFound, RowIsCurrent DEF IInv, RowMade
<1>4. /\ Close(s)
      /\ request' = [request EXCEPT ![r] = "CANCELLED"]
      /\ balance' = [balance EXCEPT ![HeldBy[r]] = row]
  BY <1>1, <1>2 DEF CancelCommit, IInv, LeaveTypeOK
<1> HIDE DEF old
<1>5. /\ row \in Row /\ row.entitled = old.entitled /\ row.used = old.used
      /\ row.pending = old.pending - DaysOf[r]
  BY <1>2, <1>3 DEF Row
<1> HIDE DEF row
<1>6. Writes(s, r, "CANCELLED", row)
  BY <1>0, <1>1, <1>4, <1>5 DEF Writes, Status
<1> QED  BY <1>0, <1>3, <1>5, <1>6

LEMMA WrittenRow ==
    ASSUME IInv, NEW s, NEW r, NEW st, NEW row, Writes(s, r, st, row)
    PROVE  /\ Current(HeldBy[r])' = row
           /\ \A b \in Balances : b # HeldBy[r] => Current(b)' = Current(b)
           /\ HeldBy[r] \in Balances
<1>1. HeldBy[r] \in Balances /\ row # None
  BY LeaveAssumption, NoneIsNoRow DEF Writes
<1> QED  BY <1>1 DEF Writes, Current, IInv, LeaveTypeOK

NoDaysLostOn(b) ==
    /\ Current(b).used >= DaysIn(b, "APPROVED")
    /\ Current(b).pending <= DaysIn(b, "PENDING")

LedgerInv == IInv /\ ApplicantsApart /\ NoDaysLost

\* A commit leaves the applications of the others alone.
LEMMA StillApart ==
    ASSUME LedgerInv, NEW s, NEW r, NEW st, NEW row, Writes(s, r, st, row),
           tx[s].op = "apply" \/ request[r] # "NONE"
    PROVE  ApplicantsApart'
<1>1. /\ s \in Sessions /\ tx'[s] = Idle /\ \A u \in Sessions \ {s} : tx'[u] = tx[u]
  BY DEF Writes, Close, LedgerInv, IInv, LeaveTypeOK
<1>2. \A q \in Requests \ {r} : request'[q] = request[q]
  BY DEF Writes, LedgerInv, IInv, LeaveTypeOK
<1>3. ASSUME NEW u \in Sessions, tx'[u].op = "apply"
      PROVE  /\ u # s /\ tx'[u] = tx[u] /\ tx[u].op = "apply"
             /\ tx[u].request \in Requests /\ tx[u].request # r
  <2>1. u # s /\ tx'[u] = tx[u] /\ tx[u].op = "apply"
    BY <1>1, <1>3 DEF Idle
  <2>2. tx[u].request \in Requests
    BY <2>1, TransactionKinds DEF LedgerInv, IInv, LeaveTypeOK
  <2> QED  BY <1>1, <2>1, <2>2 DEF Writes, LedgerInv, ApplicantsApart
<1> QED  BY <1>2, <1>3 DEF LedgerInv, ApplicantsApart

\* A commit is right if its row is right for its own balance.
LEMMA CommitKeepsDays ==
    ASSUME LedgerInv, NEW s, NEW r, NEW st, NEW row, Writes(s, r, st, row),
           row.used >= Current(HeldBy[r]).used + (IF st = "APPROVED" THEN DaysOf[r] ELSE 0),
           row.pending <= Current(HeldBy[r]).pending
                            + (IF st = "PENDING" THEN DaysOf[r] ELSE 0)
                            - (IF request[r] = "PENDING" THEN DaysOf[r] ELSE 0)
    PROVE  NoDaysLost'
<1> SUFFICES ASSUME NEW b \in Balances PROVE NoDaysLostOn(b)'
  BY DEF NoDaysLost, NoDaysLostOn
<1>0. /\ NoDaysLostOn(b) /\ Current(b) \in Row /\ DaysOf[r] \in Nat /\ row \in Row
      /\ r \in Requests /\ LeaveTypeOK /\ request' = [request EXCEPT ![r] = st]
      /\ st \in Status
  BY LeaveAssumption, CurrentIsRow DEF LedgerInv, IInv, NoDaysLost, NoDaysLostOn, Writes
<1>1. \A x \in {"APPROVED", "PENDING"} :
        /\ DaysIn(b, x)' = DaysIn(b, x) - Share(r, b, request[r], x) + Share(r, b, st, x)
        /\ DaysIn(b, x) \in Nat /\ DaysIn(b, x)' \in Nat
  BY <1>0, DaysMoved
<1>2. CASE b # HeldBy[r]
  <2>1. Current(b)' = Current(b)
    BY <1>2, WrittenRow DEF LedgerInv
  <2>2. \A x : Share(r, b, request[r], x) = 0 /\ Share(r, b, st, x) = 0
    BY <1>2 DEF Share
  <2> QED  BY <1>0, <1>1, <2>1, <2>2 DEF NoDaysLostOn
<1>3. CASE b = HeldBy[r]
  <2>1. Current(b)' = row
    BY <1>3, WrittenRow DEF LedgerInv
  <2>2. row.used \in Int /\ row.pending \in Int /\ Current(b).used \in Int /\ Current(b).pending \in Int
    BY <1>0 DEF Row
  <2>3. row.used >= DaysIn(b, "APPROVED")'
    BY <1>0, <1>1, <1>3, <2>2 DEF NoDaysLostOn, Share
  <2>4. row.pending <= DaysIn(b, "PENDING")'
    BY <1>0, <1>1, <1>3, <2>2 DEF NoDaysLostOn, Share
  <2> QED  BY <2>1, <2>3, <2>4 DEF NoDaysLostOn
<1> QED  BY <1>2, <1>3

\* The columns of a row are integers, so that the bounds above are bounds.
LEMMA RowColumns ==
    ASSUME NEW row \in Row
    PROVE  row.entitled \in Nat /\ row.used \in Int /\ row.pending \in Int
BY DEF Row

LEMMA ApplyKeepsDays ==
    ASSUME LedgerInv, NEW s \in online, ApplyCommit(s)
    PROVE  LedgerInv'
<1>0. IInv'
  BY ApplyCommitStep DEF LedgerInv, IInv, LeaveTypeOK
<1>1. PICK r \in Requests, row \in Row :
        /\ Writes(s, r, "PENDING", row) /\ tx[s].op = "apply" /\ request[r] = "NONE"
        /\ row.used = Current(HeldBy[r]).used
        /\ row.pending = Current(HeldBy[r]).pending + DaysOf[r]
  BY ApplyWrites DEF LedgerInv
<1>2. DaysOf[r] \in Nat /\ HeldBy[r] \in Balances /\ Current(HeldBy[r]) \in Row
  BY LeaveAssumption, CurrentIsRow DEF LedgerInv, IInv
<1>3. NoDaysLost'
  BY <1>1, <1>2, RowColumns, CommitKeepsDays
<1>4. ApplicantsApart'
  BY <1>1, StillApart
<1> QED  BY <1>0, <1>3, <1>4 DEF LedgerInv

LEMMA DecideKeepsDays ==
    ASSUME LedgerInv, NEW s \in online, DecideCommit(s)
    PROVE  LedgerInv'
<1>0. IInv'
  BY DecideCommitStep DEF LedgerInv, IInv, LeaveTypeOK
<1>1. PICK r \in Requests, v \in Verdicts, row \in Row :
        /\ Writes(s, r, StatusAfter(v), row) /\ request[r] # "NONE"
        /\ row.used = Current(HeldBy[r]).used + (IF v = "APPROVE" THEN DaysOf[r] ELSE 0)
        /\ row.pending = Current(HeldBy[r]).pending - DaysOf[r]
  BY DecideWrites DEF LedgerInv
<1>2. DaysOf[r] \in Nat /\ HeldBy[r] \in Balances /\ Current(HeldBy[r]) \in Row
  BY LeaveAssumption, CurrentIsRow DEF LedgerInv, IInv
<1>3. StatusAfter(v) # "PENDING" /\ (StatusAfter(v) = "APPROVED" <=> v = "APPROVE")
  BY DEF StatusAfter
<1>4. NoDaysLost'
  BY <1>1, <1>2, <1>3, RowColumns, CommitKeepsDays
<1>5. ApplicantsApart'
  BY <1>1, StillApart
<1> QED  BY <1>0, <1>4, <1>5 DEF LedgerInv

LEMMA CancelKeepsDays ==
    ASSUME LedgerInv, NEW s \in online, CancelCommit(s)
    PROVE  LedgerInv'
<1>0. IInv'
  BY CancelCommitStep DEF LedgerInv, IInv, LeaveTypeOK
<1>1. PICK r \in Requests, row \in Row :
        /\ Writes(s, r, "CANCELLED", row) /\ request[r] # "NONE"
        /\ row.used = Current(HeldBy[r]).used
        /\ row.pending = Current(HeldBy[r]).pending - DaysOf[r]
  BY CancelWrites DEF LedgerInv
<1>2. DaysOf[r] \in Nat /\ HeldBy[r] \in Balances /\ Current(HeldBy[r]) \in Row
  BY LeaveAssumption, CurrentIsRow DEF LedgerInv, IInv
<1>3. NoDaysLost'
  BY <1>1, <1>2, RowColumns, CommitKeepsDays
<1>4. ApplicantsApart'
  BY <1>1, StillApart
<1> QED  BY <1>0, <1>3, <1>4 DEF LedgerInv

\* What neither writes a request nor the booked columns of a balance.
LEMMA DaysKept ==
    ASSUME LedgerInv, UNCHANGED request,
           \A b \in Balances : Current(b)'.used = Current(b).used
                            /\ Current(b)'.pending = Current(b).pending
    PROVE  NoDaysLost'
<1> SUFFICES ASSUME NEW b \in Balances PROVE NoDaysLostOn(b)'
  BY DEF NoDaysLost, NoDaysLostOn
<1>1. ASSUME NEW x PROVE DaysIn(b, x)' = DaysIn(b, x)
  <2>1. DaysIn(b, x) = Sum(DaysOf, Charged(b, x)) /\ DaysIn(b, x)' = Sum(DaysOf, Charged(b, x)')
    BY DEF DaysIn, Sum, Charged, FoldFunctionOnSet, MapThenFoldSet
  <2>2. Charged(b, x)' = Charged(b, x)
    BY DEF Charged
  <2> QED  BY <2>1, <2>2
<1> QED  BY <1>1 DEF LedgerInv, NoDaysLost, NoDaysLostOn

LEMMA OpenKeepsDays ==
    ASSUME LedgerInv, NEW s \in Sessions, NEW t, Open(s, t), IInv',
           t.op = "apply" => /\ request[t.request] = "NONE"
                             /\ \A u \in Sessions : tx[u].op = "apply" => tx[u].request # t.request
    PROVE  LedgerInv'
<1>1. /\ UNCHANGED <<balance, request, online>>
      /\ tx'[s] = t /\ \A u \in Sessions \ {s} : tx'[u] = tx[u]
  BY DEF Open, LedgerInv, IInv, LeaveTypeOK
<1>2. ApplicantsApart'
  BY <1>1 DEF LedgerInv, ApplicantsApart
<1>3. NoDaysLost'
  BY <1>1, DaysKept DEF Current
<1> QED  BY <1>2, <1>3 DEF LedgerInv

LEMMA RollbackKeepsDays ==
    ASSUME LedgerInv, NEW s \in Sessions, Rollback(s), IInv'
    PROVE  LedgerInv'
<1>1. /\ UNCHANGED <<balance, request, online>>
      /\ tx'[s] = Idle /\ \A u \in Sessions \ {s} : tx'[u] = tx[u]
  BY DEF Rollback, Close, LedgerInv, IInv, LeaveTypeOK
<1>2. ApplicantsApart'
  BY <1>1 DEF LedgerInv, ApplicantsApart, Idle
<1>3. NoDaysLost'
  BY <1>1, DaysKept DEF Current
<1> QED  BY <1>2, <1>3 DEF LedgerInv

\* Setting an entitlement writes the entitlement, of a row that may be new.
LEMMA Entitled ==
    ASSUME IInv, NEW s, NEW b \in Balances, NEW n \in Entitlements, SetBalance(s, b, n)
    PROVE  /\ Current(b)' = [Current(b) EXCEPT !.entitled = n]
           /\ Current(b)'.entitled = n
           /\ Current(b)'.used = Current(b).used /\ Current(b)'.pending = Current(b).pending
           /\ \A c \in Balances \ {b} : Current(c)' = Current(c)
<1> DEFINE row == [Current(b) EXCEPT !.entitled = n]
<1>1. /\ row \in Row /\ row.entitled = n
      /\ row.used = Current(b).used /\ row.pending = Current(b).pending
  BY CurrentIsRow, LeaveAssumption DEF IInv, Row
<1>2. row # None
  BY <1>1, NoneIsNoRow
<1>3. balance' = [balance EXCEPT ![b] = row]
  BY DEF SetBalance
<1> HIDE DEF row
<1>4. balance'[b] = row /\ \A c \in Balances \ {b} : balance'[c] = balance[c]
  BY <1>3 DEF IInv, LeaveTypeOK
<1>5. Current(b)' = row /\ \A c \in Balances \ {b} : Current(c)' = Current(c)
  BY <1>2, <1>4 DEF Current
<1> QED  BY <1>1, <1>5 DEF row

LEMMA SetBalanceKeepsDays ==
    ASSUME LedgerInv, NEW s \in Sessions, NEW b \in Balances, NEW n \in Entitlements,
           SetBalance(s, b, n)
    PROVE  LedgerInv'
<1>1. IInv'
  BY SetBalanceStep DEF LedgerInv
<1>2. UNCHANGED <<request, tx>>
  BY DEF SetBalance
<1>3. ApplicantsApart'
  BY <1>2 DEF LedgerInv, ApplicantsApart
<1>4. ASSUME NEW c \in Balances
      PROVE  Current(c)'.used = Current(c).used /\ Current(c)'.pending = Current(c).pending
  BY Entitled DEF LedgerInv
<1>5. NoDaysLost'
  BY <1>2, <1>4, DaysKept
<1> QED  BY <1>1, <1>3, <1>5 DEF LedgerInv

\* Nobody has asked for a day yet.
LEMMA NothingAsked ==
    ASSUME Init
    PROVE  \A b \in Balances : /\ DaysIn(b, "APPROVED") = 0 /\ DaysIn(b, "PENDING") = 0
                               /\ Current(b).used = 0 /\ Current(b).pending = 0
                               /\ Current(b).entitled = Accrual[b]
<1> SUFFICES ASSUME NEW b \in Balances
             PROVE  /\ DaysIn(b, "APPROVED") = 0 /\ DaysIn(b, "PENDING") = 0
                    /\ Current(b).used = 0 /\ Current(b).pending = 0
                    /\ Current(b).entitled = Accrual[b]
  OBVIOUS
<1>1. Charged(b, "APPROVED") = {} /\ Charged(b, "PENDING") = {}
  BY DEF Charged, Init
<1>2. \A x : DaysIn(b, x) = Sum(DaysOf, Charged(b, x))
  BY DEF DaysIn, Sum, Charged, FoldFunctionOnSet, MapThenFoldSet
<1>3. Sum(DaysOf, {}) = 0
  BY SumStep, FS_EmptySet
<1> QED  BY <1>1, <1>2, <1>3 DEF Current, Init

LEMMA InitLedgerInv == Init => LedgerInv
<1> SUFFICES ASSUME Init PROVE LedgerInv
  OBVIOUS
<1>1. NoDaysLost
  BY NothingAsked DEF NoDaysLost
<1>2. ApplicantsApart
  BY DEF Init, Idle, ApplicantsApart
<1> QED  BY <1>1, <1>2, InitIInv DEF LedgerInv

LEMMA LedgerStep == LedgerInv /\ [Next]_vars => LedgerInv'
<1> SUFFICES ASSUME LedgerInv, [Next]_vars PROVE LedgerInv'
  OBVIOUS
<1>0. IInv' /\ online \subseteq Sessions
  BY Step DEF LedgerInv, IInv, LeaveTypeOK
<1>1. CASE UNCHANGED vars
  <2>1. UNCHANGED <<balance, request, tx, online>>
    BY <1>1 DEF vars
  <2>2. NoDaysLost'
    BY <2>1, DaysKept DEF Current
  <2> QED  BY <1>0, <2>1, <2>2 DEF LedgerInv, ApplicantsApart
<1>2. ASSUME NEW s \in online, NEW r \in Requests, ApplyOpen(s, r) PROVE LedgerInv'
  <2>1. PICK c \in BOOLEAN : Open(s, [op |-> "apply", request |-> r, creates |-> c])
    BY <1>2 DEF ApplyOpen
  <2> DEFINE t == [op |-> "apply", request |-> r, creates |-> c]
  <2>2. t.request = r
    OBVIOUS
  <2>3. request[r] = "NONE" /\ \A u \in Sessions : tx[u].op = "apply" => tx[u].request # r
    BY <1>2 DEF ApplyOpen
  <2> HIDE DEF t
  <2>4. Open(s, t)
    BY <2>1 DEF t
  <2> QED  BY <1>0, <2>2, <2>3, <2>4, OpenKeepsDays
<1>3. ASSUME NEW s \in online, NEW r \in Requests, NEW v \in Verdicts, DecideOpen(s, r, v)
      PROVE  LedgerInv'
  <2>1. [op |-> "decide", request |-> r, verdict |-> v].op # "apply"
    OBVIOUS
  <2> QED  BY <1>0, <1>3, <2>1, OpenKeepsDays DEF DecideOpen
<1>4. ASSUME NEW s \in online, NEW r \in Requests, CancelOpen(s, r) PROVE LedgerInv'
  <2>1. [op |-> "cancel", request |-> r].op # "apply"
    OBVIOUS
  <2> QED  BY <1>0, <1>4, <2>1, OpenKeepsDays DEF CancelOpen
<1> QED  BY <1>0, <1>1, <1>2, <1>3, <1>4, RollbackKeepsDays, SetBalanceKeepsDays,
            ApplyKeepsDays, DecideKeepsDays, CancelKeepsDays DEF Next

\* However applications, decisions and cancellations overlap, approved leave is booked on its
\* balance and no reservation outlives its request (LeaveService.apply, decide and cancel): a
\* second decision may book days twice, and never loses any.
THEOREM NoDaysAreLost == Spec => []NoDaysLost
<1>1. LedgerInv => NoDaysLost
  BY DEF LedgerInv
<1> QED  BY <1>1, InitLedgerInv, LedgerStep, PTL DEF Spec

-----------------------------------------------------------------------------
(* One request at a time. *)

\* A lone handler finds at its commit what it read at its opening.
AloneInv ==
    Serial =>
      /\ \A s \in Sessions \ online : tx[s] = Idle
      /\ \A s \in Sessions :
            tx[s].op \in {"decide", "cancel"} => request[tx[s].request] = "PENDING"
      /\ \A s \in Sessions :
            tx[s].op = "apply" =>
                DaysOf[tx[s].request] <= Free(Current(HeldBy[tx[s].request]))

ExactOn(b) ==
    /\ Current(b).used = DaysIn(b, "APPROVED")
    /\ Current(b).pending = DaysIn(b, "PENDING")

ExactInv == LedgerInv /\ AloneInv /\ LedgerExact

LEMMA OnlyOne ==
    ASSUME IInv, Serial, NEW s \in online
    PROVE  online = {s} /\ s \in Sessions
<1>1. IsFiniteSet(online) /\ s \in Sessions
  BY LeaveAssumption, FS_Subset DEF IInv, LeaveTypeOK
<1> QED  BY <1>1, FS_Singleton DEF Serial

LEMMA StaysSerial == ASSUME [Next]_vars PROVE UNCHANGED online /\ (Serial' <=> Serial)
<1>1. UNCHANGED online
  BY DEF Next, vars, SetBalance, ApplyOpen, ApplyCommit, DecideOpen, DecideCommit, CancelOpen,
         CancelCommit, Rollback, Open, Close
<1> QED  BY <1>1 DEF Serial

LEMMA AllIdle ==
    ASSUME ExactInv, Serial, NEW s \in online, tx'[s] = Idle,
           \A u \in Sessions \ {s} : tx'[u] = tx[u]
    PROVE  AloneInv'
<1>1. online = {s} /\ \A u \in Sessions \ online : tx[u] = Idle
  BY OnlyOne DEF ExactInv, LedgerInv, AloneInv
<1>2. \A u \in Sessions : tx'[u] = Idle
  BY <1>1
<1> QED  BY <1>2 DEF AloneInv, Idle

\* A commit of a lone handler is exact if its row is.
LEMMA CommitIsExact ==
    ASSUME ExactInv, [Next]_vars, NEW s, NEW r, NEW st, NEW row, Writes(s, r, st, row),
           Serial => request[r] \in {"NONE", "PENDING"},
           row.used = Current(HeldBy[r]).used + (IF st = "APPROVED" THEN DaysOf[r] ELSE 0),
           Serial => row.pending = Current(HeldBy[r]).pending
                            + (IF st = "PENDING" THEN DaysOf[r] ELSE 0)
                            - (IF request[r] = "PENDING" THEN DaysOf[r] ELSE 0)
    PROVE  AloneInv' /\ LedgerExact'
<1> SUFFICES ASSUME Serial PROVE AloneInv' /\ LedgerExact'
  BY StaysSerial DEF AloneInv, LedgerExact
<1>1. AloneInv'
  <2>1. s \in online /\ tx'[s] = Idle /\ \A u \in Sessions \ {s} : tx'[u] = tx[u]
    BY DEF Writes, Close, ExactInv, LedgerInv, IInv, LeaveTypeOK
  <2> QED  BY <2>1, AllIdle
<1>2. SUFFICES ASSUME NEW b \in Balances PROVE ExactOn(b)'
  BY <1>1 DEF LedgerExact, ExactOn
<1>3. /\ ExactOn(b) /\ Current(b) \in Row /\ DaysOf[r] \in Nat /\ row \in Row
      /\ r \in Requests /\ LeaveTypeOK /\ request' = [request EXCEPT ![r] = st]
  BY LeaveAssumption, CurrentIsRow DEF ExactInv, LedgerInv, IInv, LedgerExact, ExactOn, Writes
<1>4. \A x \in {"APPROVED", "PENDING"} :
        /\ DaysIn(b, x)' = DaysIn(b, x) - Share(r, b, request[r], x) + Share(r, b, st, x)
        /\ DaysIn(b, x) \in Nat /\ DaysIn(b, x)' \in Nat
  BY <1>3, DaysMoved
<1>5. CASE b # HeldBy[r]
  <2>1. Current(b)' = Current(b)
    BY <1>5, WrittenRow DEF ExactInv, LedgerInv
  <2>2. \A x : Share(r, b, request[r], x) = 0 /\ Share(r, b, st, x) = 0
    BY <1>5 DEF Share
  <2> QED  BY <1>3, <1>4, <2>1, <2>2 DEF ExactOn
<1>6. CASE b = HeldBy[r]
  <2>1. Current(b)' = row
    BY <1>6, WrittenRow DEF ExactInv, LedgerInv
  <2>2. row.used = DaysIn(b, "APPROVED")'
    BY <1>3, <1>4, <1>6, RowColumns DEF ExactOn, Share
  <2>3. row.pending = DaysIn(b, "PENDING")'
    BY <1>3, <1>4, <1>6, RowColumns DEF ExactOn, Share
  <2> QED  BY <2>1, <2>2, <2>3 DEF ExactOn
<1> QED  BY <1>5, <1>6

\* A lone session settles a request that is pending.
LEMMA StillPending ==
    ASSUME ExactInv, Serial, NEW s \in online, tx[s].op \in {"decide", "cancel"}
    PROVE  request[tx[s].request] = "PENDING"
BY DEF ExactInv, LedgerInv, IInv, LeaveTypeOK, AloneInv

LEMMA ApplyIsExact ==
    ASSUME ExactInv, [Next]_vars, NEW s \in online, ApplyCommit(s)
    PROVE  AloneInv' /\ LedgerExact'
<1>1. PICK r \in Requests, row \in Row :
        /\ Writes(s, r, "PENDING", row) /\ tx[s].op = "apply" /\ request[r] = "NONE"
        /\ row.used = Current(HeldBy[r]).used
        /\ row.pending = Current(HeldBy[r]).pending + DaysOf[r]
  BY ApplyWrites DEF ExactInv, LedgerInv
<1>2. DaysOf[r] \in Nat /\ HeldBy[r] \in Balances /\ Current(HeldBy[r]) \in Row
  BY LeaveAssumption, CurrentIsRow DEF ExactInv, LedgerInv, IInv
<1> QED  BY <1>1, <1>2, RowColumns, CommitIsExact

LEMMA DecideIsExact ==
    ASSUME ExactInv, [Next]_vars, NEW s \in online, DecideCommit(s)
    PROVE  AloneInv' /\ LedgerExact'
<1>1. PICK r \in Requests, v \in Verdicts, row \in Row :
        /\ Writes(s, r, StatusAfter(v), row) /\ tx[s].op = "decide"
        /\ row.used = Current(HeldBy[r]).used + (IF v = "APPROVE" THEN DaysOf[r] ELSE 0)
        /\ row.pending = Current(HeldBy[r]).pending - DaysOf[r]
  BY DecideWrites DEF ExactInv, LedgerInv
<1>2. DaysOf[r] \in Nat /\ HeldBy[r] \in Balances /\ Current(HeldBy[r]) \in Row
  BY LeaveAssumption, CurrentIsRow DEF ExactInv, LedgerInv, IInv
<1>3. StatusAfter(v) # "PENDING" /\ (StatusAfter(v) = "APPROVED" <=> v = "APPROVE")
  BY DEF StatusAfter
<1>4. Serial => request[r] = "PENDING"
  BY <1>1, StillPending DEF Writes
<1> QED  BY <1>1, <1>2, <1>3, <1>4, RowColumns, CommitIsExact

LEMMA CancelIsExact ==
    ASSUME ExactInv, [Next]_vars, NEW s \in online, CancelCommit(s)
    PROVE  AloneInv' /\ LedgerExact'
<1>1. PICK r \in Requests, row \in Row :
        /\ Writes(s, r, "CANCELLED", row) /\ tx[s].op = "cancel"
        /\ row.used = Current(HeldBy[r]).used
        /\ row.pending = Current(HeldBy[r]).pending - DaysOf[r]
  BY CancelWrites DEF ExactInv, LedgerInv
<1>2. DaysOf[r] \in Nat /\ HeldBy[r] \in Balances /\ Current(HeldBy[r]) \in Row
  BY LeaveAssumption, CurrentIsRow DEF ExactInv, LedgerInv, IInv
<1>3. Serial => request[r] = "PENDING"
  BY <1>1, StillPending DEF Writes
<1> QED  BY <1>1, <1>2, <1>3, RowColumns, CommitIsExact

\* What writes neither a request nor the booked columns of a balance keeps the sums.
LEMMA ExactKept ==
    ASSUME ExactInv, [Next]_vars, UNCHANGED request,
           \A b \in Balances : Current(b)'.used = Current(b).used
                            /\ Current(b)'.pending = Current(b).pending
    PROVE  LedgerExact'
<1> SUFFICES ASSUME Serial, NEW b \in Balances PROVE ExactOn(b)'
  BY StaysSerial DEF LedgerExact, ExactOn
<1>1. ASSUME NEW x PROVE DaysIn(b, x)' = DaysIn(b, x)
  <2>1. DaysIn(b, x) = Sum(DaysOf, Charged(b, x)) /\ DaysIn(b, x)' = Sum(DaysOf, Charged(b, x)')
    BY DEF DaysIn, Sum, Charged, FoldFunctionOnSet, MapThenFoldSet
  <2>2. Charged(b, x)' = Charged(b, x)
    BY DEF Charged
  <2> QED  BY <2>1, <2>2
<1> QED  BY <1>1 DEF ExactInv, LedgerExact, ExactOn

LEMMA OpenIsExact ==
    ASSUME ExactInv, [Next]_vars, NEW s \in online, NEW t, Open(s, t),
           t.op \in {"decide", "cancel"} => request[t.request] = "PENDING",
           t.op = "apply" => DaysOf[t.request] <= Free(Current(HeldBy[t.request]))
    PROVE  AloneInv' /\ LedgerExact'
<1>0. s \in Sessions
  BY DEF ExactInv, LedgerInv, IInv, LeaveTypeOK
<1>1. /\ UNCHANGED <<balance, request, online>>
      /\ tx'[s] = t /\ \A u \in Sessions \ {s} : tx'[u] = tx[u]
  BY <1>0 DEF Open, ExactInv, LedgerInv, IInv, LeaveTypeOK
<1>2. LedgerExact'
  BY <1>1, ExactKept DEF Current
<1>3. AloneInv'
  <2> SUFFICES ASSUME Serial PROVE AloneInv'
    BY StaysSerial DEF AloneInv
  <2>1. \A b : Free(Current(b))' = Free(Current(b))
    BY <1>1 DEF Free, Current
  <2>2. online' = online
    BY <1>1
  <2>3. \A u \in Sessions \ online' : tx'[u] = Idle
    BY <1>0, <1>1, <2>2 DEF ExactInv, AloneInv
  <2>4. ASSUME NEW u \in Sessions
        PROVE  /\ tx'[u].op \in {"decide", "cancel"} => request'[tx'[u].request] = "PENDING"
               /\ tx'[u].op = "apply" =>
                    DaysOf[tx'[u].request] <= Free(Current(HeldBy[tx'[u].request]))
    <3>1. CASE u = s
      BY <1>1, <3>1
    <3>2. CASE u # s
      BY <1>1, <3>2 DEF ExactInv, AloneInv
    <3> QED  BY <3>1, <3>2
  <2> QED  BY <1>1, <2>1, <2>3, <2>4 DEF AloneInv, Free, Current
<1> QED  BY <1>2, <1>3

LEMMA InitExactInv == Init => ExactInv
<1> SUFFICES ASSUME Init PROVE ExactInv
  OBVIOUS
<1>1. LedgerExact
  BY NothingAsked DEF LedgerExact
<1>2. AloneInv
  BY DEF Init, Idle, AloneInv
<1> QED  BY <1>1, <1>2, InitLedgerInv DEF ExactInv

LEMMA ExactStep == ExactInv /\ [Next]_vars => ExactInv'
<1> SUFFICES ASSUME ExactInv, [Next]_vars PROVE AloneInv' /\ LedgerExact'
  BY LedgerStep DEF ExactInv
<1>0. online \subseteq Sessions
  BY DEF ExactInv, LedgerInv, IInv, LeaveTypeOK
<1>1. CASE UNCHANGED vars
  <2>1. UNCHANGED <<balance, request, tx, online>>
    BY <1>1 DEF vars
  <2>2. LedgerExact'
    BY <2>1, ExactKept DEF Current
  <2> QED  BY <2>1, <2>2 DEF ExactInv, AloneInv, Serial, Free, Current
<1>2. ASSUME NEW s \in online, NEW r \in Requests, ApplyOpen(s, r)
      PROVE  AloneInv' /\ LedgerExact'
  <2>1. PICK c \in BOOLEAN : Open(s, [op |-> "apply", request |-> r, creates |-> c])
    BY <1>2 DEF ApplyOpen
  <2> DEFINE t == [op |-> "apply", request |-> r, creates |-> c]
  <2>2. t.request = r /\ t.op = "apply"
    OBVIOUS
  <2>3. DaysOf[r] <= Free(Current(HeldBy[r]))
    BY <1>2 DEF ApplyOpen
  <2> HIDE DEF t
  <2>4. Open(s, t)
    BY <2>1 DEF t
  <2> QED  BY <2>2, <2>3, <2>4, OpenIsExact
<1>3. ASSUME NEW s \in online, NEW r \in Requests, NEW v \in Verdicts, DecideOpen(s, r, v)
      PROVE  AloneInv' /\ LedgerExact'
  <2> DEFINE t == [op |-> "decide", request |-> r, verdict |-> v]
  <2>1. t.request = r /\ t.op = "decide"
    OBVIOUS
  <2>2. Open(s, t) /\ request[r] = "PENDING"
    BY <1>3 DEF DecideOpen
  <2> HIDE DEF t
  <2> QED  BY <2>1, <2>2, OpenIsExact
<1>4. ASSUME NEW s \in online, NEW r \in Requests, CancelOpen(s, r)
      PROVE  AloneInv' /\ LedgerExact'
  <2> DEFINE t == [op |-> "cancel", request |-> r]
  <2>1. t.request = r /\ t.op = "cancel"
    OBVIOUS
  <2>2. Open(s, t) /\ request[r] = "PENDING"
    BY <1>4 DEF CancelOpen
  <2> HIDE DEF t
  <2> QED  BY <2>1, <2>2, OpenIsExact
<1>5. ASSUME NEW s \in online, Rollback(s)
      PROVE  AloneInv' /\ LedgerExact'
  <2>1. /\ UNCHANGED <<balance, request, online>>
        /\ tx'[s] = Idle /\ \A u \in Sessions \ {s} : tx'[u] = tx[u]
    BY <1>0, <1>5 DEF Rollback, Close, ExactInv, LedgerInv, IInv, LeaveTypeOK
  <2>2. LedgerExact'
    BY <2>1, ExactKept DEF Current
  <2>3. ~Serial => AloneInv'
    BY StaysSerial DEF AloneInv
  <2> QED  BY <2>1, <2>2, <2>3, AllIdle
<1>6. ASSUME NEW s \in online, NEW b \in Balances, NEW n \in Entitlements, SetBalance(s, b, n)
      PROVE  AloneInv' /\ LedgerExact'
  <2>1. ASSUME NEW c \in Balances
        PROVE  Current(c)'.used = Current(c).used /\ Current(c)'.pending = Current(c).pending
    BY <1>6, Entitled DEF ExactInv, LedgerInv
  <2>2. LedgerExact'
    BY <1>6, <2>1, ExactKept DEF SetBalance
  <2>3. ~Serial => AloneInv'
    BY StaysSerial DEF AloneInv
  <2>4. tx'[s] = Idle /\ tx' = tx
    BY <1>6 DEF SetBalance
  <2> QED  BY <2>2, <2>3, <2>4, AllIdle
<1> QED  BY <1>1, <1>2, <1>3, <1>4, <1>5, <1>6, ApplyIsExact, DecideIsExact,
            CancelIsExact DEF Next

\* As long as requests are served one at a time, the used and the pending days of a balance are
\* the sums over its approved and its pending requests (LeaveService.apply, decide and cancel).
THEOREM BalancesAreExact == Spec => []LedgerExact
<1>1. ExactInv => LedgerExact
  BY DEF ExactInv
<1> QED  BY <1>1, InitExactInv, ExactStep, PTL DEF Spec

-----------------------------------------------------------------------------
(* The ledger. *)

\* The ledger's variables under the refinement mapping.
LedgerStatus == IF Serial THEN request ELSE [r \in Requests |-> "NONE"]
LedgerRights == IF Serial THEN [b \in Balances |-> Current(b).entitled] ELSE Accrual

\* One request at a time, the ledger's view of a balance is its pending and its booked days.
LEMMA DaysOnIsBooked ==
    ASSUME ExactInv, Serial, NEW b \in Balances
    PROVE  Ledger!DaysOn(b, {"PENDING", "APPROVED"}) = Current(b).pending + Current(b).used
<1> DEFINE P == Charged(b, "PENDING")
           A == Charged(b, "APPROVED")
           E == {r \in Requests : HeldBy[r] = b /\ request[r] \in {"PENDING", "APPROVED"}}
           M == {r \in Requests : HeldBy[r] = b /\ LedgerStatus[r] \in {"PENDING", "APPROVED"}}
<1>0. Ledger!DaysOn(b, {"PENDING", "APPROVED"}) = Sum(DaysOf, M)
  BY DEF Ledger!DaysOn, Sum, LedgerStatus, FoldFunctionOnSet, MapThenFoldSet,
         Ledger!FoldFunctionOnSet, Ledger!MapThenFoldSet
<1>1. M = E
  BY DEF LedgerStatus
<1>2. DaysIn(b, "PENDING") = Sum(DaysOf, P) /\ DaysIn(b, "APPROVED") = Sum(DaysOf, A)
  BY DEF DaysIn, Sum, Charged, FoldFunctionOnSet, MapThenFoldSet
<1>3. /\ P \in SUBSET Requests /\ A \in SUBSET Requests /\ P \cap A = {}
      /\ E = P \cup A
  BY DEF Charged
<1> HIDE DEF P, A, E, M
<1>4. Sum(DaysOf, E) = Sum(DaysOf, P) + Sum(DaysOf, A)
  <2>1. IsFiniteSet(P) /\ IsFiniteSet(A)
    BY <1>3, LeaveAssumption, FS_Subset
  <2>2. \A r \in P \cup A : DaysOf[r] \in Nat
    BY <1>3, LeaveAssumption
  <2> QED  BY <1>3, <2>1, <2>2, SumUnion
<1> QED  BY <1>0, <1>1, <1>2, <1>4 DEF ExactInv, LedgerExact

LEMMA InitLedger == Init => Ledger!Init
<1> SUFFICES ASSUME Init PROVE Ledger!Init
  OBVIOUS
<1>1. \A b \in Balances : Current(b).entitled = Accrual[b]
  BY NothingAsked
<1>2. LedgerRights = Accrual
  BY <1>1, LeaveAssumption DEF LedgerRights
<1>3. LedgerStatus = [r \in Requests |-> "NONE"]
  BY DEF LedgerStatus, Init
<1> QED  BY <1>2, <1>3 DEF Ledger!Init, LedgerRights, LedgerStatus

\* Commits that write a request and a row, at one request at a time.
LEMMA CommitOfLedger ==
    ASSUME ExactInv, [Next]_vars, Serial, NEW s, NEW r, NEW st, NEW row, Writes(s, r, st, row),
           row.entitled = Current(HeldBy[r]).entitled
    PROVE  /\ LedgerStatus' = [LedgerStatus EXCEPT ![r] = st]
           /\ UNCHANGED LedgerRights
           /\ LedgerStatus[r] = request[r]
<1>1. Serial'
  BY StaysSerial
<1>2. \A b \in Balances : Current(b)'.entitled = Current(b).entitled
  BY WrittenRow DEF ExactInv, LedgerInv
<1>3. LedgerRights' = LedgerRights
  BY <1>1, <1>2 DEF LedgerRights
<1>4. LedgerStatus' = [LedgerStatus EXCEPT ![r] = st]
  BY <1>1 DEF LedgerStatus, Writes
<1> QED  BY <1>3, <1>4 DEF LedgerStatus

LEMMA LedgerStutters ==
    ASSUME [Next]_vars, \/ ~Serial
                        \/ UNCHANGED <<balance, request>>
    PROVE  UNCHANGED Ledger!vars
<1>1. Serial' <=> Serial
  BY StaysSerial
<1>2. UNCHANGED LedgerStatus
  BY <1>1 DEF LedgerStatus
<1>3. UNCHANGED LedgerRights
  BY <1>1 DEF LedgerRights, Current
<1> QED  BY <1>2, <1>3 DEF Ledger!vars, LedgerStatus, LedgerRights

LEMMA NextIsLedger == ExactInv /\ [Next]_vars => [Ledger!Next]_Ledger!vars
<1> SUFFICES ASSUME ExactInv, [Next]_vars PROVE [Ledger!Next]_Ledger!vars
  OBVIOUS
<1>0. CASE ~Serial
  BY <1>0, LedgerStutters
<1> SUFFICES ASSUME Serial PROVE [Ledger!Next]_Ledger!vars
  BY <1>0
<1>1. CASE UNCHANGED vars
  BY <1>1, LedgerStutters DEF vars
<1>2. ASSUME NEW s \in online, NEW b \in Balances, NEW n \in Entitlements, SetBalance(s, b, n)
      PROVE  Ledger!Next
  <2>1. Serial' /\ UNCHANGED LedgerStatus
    BY <1>2, StaysSerial DEF SetBalance, LedgerStatus
  <2>2. Current(b)'.entitled = n /\ \A c \in Balances \ {b} : Current(c)' = Current(c)
    BY <1>2, Entitled DEF ExactInv, LedgerInv
  <2>3. LedgerRights' = [LedgerRights EXCEPT ![b] = n]
    BY <2>1, <2>2 DEF LedgerRights
  <2>4. Ledger!Entitle(b, n)
    BY <2>1, <2>3 DEF Ledger!Entitle, LedgerStatus, LedgerRights
  <2> QED  BY <2>4 DEF Ledger!Next
<1>3. ASSUME NEW s \in online, ApplyCommit(s)
      PROVE  Ledger!Next
  <2>1. PICK r \in Requests, row \in Row :
          /\ Writes(s, r, "PENDING", row) /\ tx[s].op = "apply" /\ request[r] = "NONE"
          /\ row.entitled = Current(HeldBy[r]).entitled
    BY <1>3, ApplyWrites DEF ExactInv, LedgerInv
  <2>2. s \in Sessions /\ tx[s].request = r
    BY <2>1 DEF ExactInv, LedgerInv, IInv, LeaveTypeOK, Writes
  <2>3. DaysOf[r] <= Free(Current(HeldBy[r]))
    BY <2>1, <2>2 DEF ExactInv, AloneInv
  <2>4. HeldBy[r] \in Balances /\ DaysOf[r] \in Nat
    BY LeaveAssumption
  <2>5. Current(HeldBy[r]) \in Row
    BY <2>4, CurrentIsRow DEF ExactInv, LedgerInv, IInv
  <2>6. DaysOf[r] + Ledger!DaysOn(HeldBy[r], {"PENDING", "APPROVED"}) <= LedgerRights[HeldBy[r]]
    BY <2>3, <2>4, <2>5, DaysOnIsBooked, RowColumns DEF Free, LedgerRights
  <2>7. /\ LedgerStatus' = [LedgerStatus EXCEPT ![r] = "PENDING"]
        /\ UNCHANGED LedgerRights /\ LedgerStatus[r] = "NONE"
    BY <2>1, CommitOfLedger
  <2>8. Ledger!Reserve(r)
    BY <2>6, <2>7 DEF Ledger!Reserve, LedgerStatus, LedgerRights
  <2> QED  BY <2>8 DEF Ledger!Next
<1>4. ASSUME NEW s \in online, NEW r \in Requests, NEW st, NEW row, Writes(s, r, st, row),
             st \in {"APPROVED", "REJECTED", "CANCELLED"}, tx[s].op \in {"decide", "cancel"},
             row.entitled = Current(HeldBy[r]).entitled
      PROVE  Ledger!Next
  <2>1. request[r] = "PENDING"
    BY <1>4, StillPending DEF Writes
  <2>2. /\ LedgerStatus' = [LedgerStatus EXCEPT ![r] = st]
        /\ UNCHANGED LedgerRights /\ LedgerStatus[r] = "PENDING"
    BY <1>4, <2>1, CommitOfLedger
  <2>3. Ledger!Settle(r, st)
    BY <2>2 DEF Ledger!Settle, LedgerStatus, LedgerRights
  <2> QED  BY <1>4, <2>3 DEF Ledger!Next
<1>5. ASSUME NEW s \in online, DecideCommit(s)
      PROVE  Ledger!Next
  <2>1. PICK r \in Requests, v \in Verdicts, row \in Row :
          /\ Writes(s, r, StatusAfter(v), row) /\ tx[s].op = "decide"
          /\ row.entitled = Current(HeldBy[r]).entitled
    BY <1>5, DecideWrites DEF ExactInv, LedgerInv
  <2> QED  BY <1>4, <2>1 DEF StatusAfter
<1>6. ASSUME NEW s \in online, CancelCommit(s)
      PROVE  Ledger!Next
  <2>1. PICK r \in Requests, row \in Row :
          /\ Writes(s, r, "CANCELLED", row) /\ tx[s].op = "cancel"
          /\ row.entitled = Current(HeldBy[r]).entitled
    BY <1>6, CancelWrites DEF ExactInv, LedgerInv
  <2> QED  BY <1>4, <2>1
<1>7. ASSUME NEW s \in online, \/ \E r \in Requests : ApplyOpen(s, r)
                               \/ \E r \in Requests, v \in Verdicts : DecideOpen(s, r, v)
                               \/ \E r \in Requests : CancelOpen(s, r)
                               \/ Rollback(s)
      PROVE  UNCHANGED Ledger!vars
  <2>1. UNCHANGED <<balance, request>>
    BY <1>7 DEF ApplyOpen, DecideOpen, CancelOpen, Rollback, Open
  <2> QED  BY <2>1, LedgerStutters
<1> QED  BY <1>1, <1>2, <1>3, <1>5, <1>6, <1>7 DEF Next

\* Served one at a time, LeaveService's handlers behave like a ledger that grants a request only
\* if its days fit beside all that are pending or approved, and settles it once.
THEOREM ServiceKeepsLedger == Spec => ImplementsLedger
<1> QED  BY InitExactInv, ExactStep, InitLedger, NextIsLedger, PTL DEF Spec, ImplementsLedger, Ledger!Spec
=============================================================================
