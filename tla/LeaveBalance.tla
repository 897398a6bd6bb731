----------------------------- MODULE LeaveBalance -----------------------------
(***************************************************************************)
(* Leave requests and the balance rows that account for them.  A balance   *)
(* belongs to an employee, a leave type and a year (the year of a          *)
(* request's first day); applying reserves the days of the request as      *)
(* pending, a decision moves them to used or releases them, a cancellation *)
(* releases them.  As everywhere in the API a handler is a READ COMMITTED  *)
(* transaction: an opening step reads and checks, a commit step writes.    *)
(* Balance columns are written as increments, the status by id.            *)
(***************************************************************************)
EXTENDS Integers, Functions, FiniteSets

CONSTANTS
    Balances,      \* (employee, leave type, year)
    Requests,      \* leave requests that may be made
    Sessions,      \* concurrent request workers of the API
    DaysOf,        \* working days a request asks for
    HeldBy,        \* the balance a request is charged to
    Entitlements,  \* the entitlements HR may set
    Accrual,       \* the leave type's default entitlement, by balance
    None

ASSUME LeaveAssumption ==
    /\ DaysOf \in [Requests -> Nat \ {0}]
    /\ HeldBy \in [Requests -> Balances]
    /\ Entitlements \subseteq Nat
    /\ Accrual \in [Balances -> Nat]
    /\ Sessions # {} /\ IsFiniteSet(Sessions)
    /\ IsFiniteSet(Requests)

VARIABLES
    balance,  \* the balance rows; None where there is no row yet
    request,  \* the status of each request
    tx,       \* the open transaction of each session
    online    \* the sessions that serve requests: one of them, or all

vars == <<balance, request, tx, online>>

Row      == [entitled : Nat, used : Int, pending : Int]

ASSUME NoneIsNoRow == None \notin Row

Status   == {"NONE", "PENDING", "APPROVED", "REJECTED", "CANCELLED"}
Verdicts == {"APPROVE", "REJECT"}
Idle     == [op |-> "idle"]

Transaction ==
    {Idle}
    \cup [op : {"apply"}, request : Requests, creates : BOOLEAN]
    \cup [op : {"decide"}, request : Requests, verdict : Verdicts]
    \cup [op : {"cancel"}, request : Requests]

LeaveTypeOK ==
    /\ online \subseteq Sessions
    /\ balance \in [Balances -> Row \cup {None}]
    /\ request \in [Requests -> Status]
    /\ tx \in [Sessions -> Transaction]

Init ==
    /\ balance = [b \in Balances |-> None]
    /\ request = [r \in Requests |-> "NONE"]
    /\ tx = [s \in Sessions |-> Idle]
    /\ online \in {Sessions, {CHOOSE s \in Sessions : TRUE}}

Serial == Cardinality(online) = 1

Open(s, t) ==
    /\ tx[s] = Idle
    /\ tx' = [tx EXCEPT ![s] = t]
    /\ UNCHANGED <<balance, request, online>>

Close(s) ==
    /\ tx' = [tx EXCEPT ![s] = Idle]
    /\ UNCHANGED online

Rollback(s) ==
    /\ tx[s] # Idle
    /\ Close(s)
    /\ UNCHANGED <<balance, request>>

-----------------------------------------------------------------------------
(* Balance rows. *)

\* The row, or the one getOrCreateBalance inserts in its place.
Current(b) ==
    IF balance[b] = None THEN [entitled |-> Accrual[b], used |-> 0, pending |-> 0]
                         ELSE balance[b]

\* Faulty variant: reservations are not counted.
FreeIfDecided(row) == row.entitled - row.used

Free(row) == row.entitled - row.used - row.pending

\* Faulty variant: a rejection keeps the reservation.
ReleasedIfApproved(row, days, verdict) ==
    IF verdict = "APPROVE" THEN [row EXCEPT !.pending = @ - days, !.used = @ + days] ELSE row

\* Faulty variant: approved days are released but not booked.
ReleasedOnly(row, days, verdict) == [row EXCEPT !.pending = @ - days]

\* The reservation is released either way; approved days become used ones.
Settled(row, days, verdict) ==
    [row EXCEPT !.pending = @ - days,
                !.used = IF verdict = "APPROVE" THEN @ + days ELSE @]

\* HR sets an entitlement: one upsert statement, so a request that takes no
\* other's turn but cannot be interrupted.
SetBalance(s, b, n) ==
    /\ tx[s] = Idle
    /\ balance' = [balance EXCEPT ![b] = [Current(b) EXCEPT !.entitled = n]]
    /\ UNCHANGED <<request, tx, online>>

-----------------------------------------------------------------------------
(* Requests. *)

\* A new request: its id is drawn by whoever makes it, so nobody else is making it.
ApplyOpen(s, r) ==
    /\ request[r] = "NONE"
    /\ \A u \in Sessions : tx[u].op = "apply" => tx[u].request # r
    /\ DaysOf[r] <= Free(Current(HeldBy[r]))
    /\ Open(s, [op |-> "apply", request |-> r, creates |-> balance[HeldBy[r]] = None])

\* The unique index on the balance's key refuses to insert a row twice.
ApplyCommit(s) ==
    LET t == tx[s]
        b == HeldBy[t.request]
    IN  /\ t.op = "apply"
        /\ t.creates => balance[b] = None
        /\ request' = [request EXCEPT ![t.request] = "PENDING"]
        /\ balance' = [balance EXCEPT ![b] =
                         [Current(b) EXCEPT !.pending = @ + DaysOf[t.request]]]
        /\ Close(s)

StatusAfter(verdict) == IF verdict = "APPROVE" THEN "APPROVED" ELSE "REJECTED"

DecideOpen(s, r, verdict) ==
    /\ request[r] = "PENDING"
    /\ Open(s, [op |-> "decide", request |-> r, verdict |-> verdict])

\* A pending request has a balance row: applying made sure, and nothing deletes one.
DecideCommit(s) ==
    LET t == tx[s]
        b == HeldBy[t.request]
    IN  /\ t.op = "decide"
        /\ balance' = [balance EXCEPT ![b] = Settled(@, DaysOf[t.request], t.verdict)]
        /\ request' = [request EXCEPT ![t.request] = StatusAfter(t.verdict)]
        /\ Close(s)

CancelOpen(s, r) ==
    /\ request[r] = "PENDING"
    /\ Open(s, [op |-> "cancel", request |-> r])

CancelCommit(s) ==
    LET t == tx[s]
        b == HeldBy[t.request]
    IN  /\ t.op = "cancel"
        /\ balance' = [balance EXCEPT ![b].pending = @ - DaysOf[t.request]]
        /\ request' = [request EXCEPT ![t.request] = "CANCELLED"]
        /\ Close(s)

-----------------------------------------------------------------------------
Next ==
    \E s \in online :
        \/ \E b \in Balances, n \in Entitlements : SetBalance(s, b, n)
        \/ \E r \in Requests : ApplyOpen(s, r)
        \/ ApplyCommit(s)
        \/ \E r \in Requests, v \in Verdicts : DecideOpen(s, r, v)
        \/ DecideCommit(s)
        \/ \E r \in Requests : CancelOpen(s, r)
        \/ CancelCommit(s)
        \/ Rollback(s)

Spec == Init /\ [][Next]_vars

-----------------------------------------------------------------------------
DaysIn(b, status) ==
    FoldFunctionOnSet(+, 0, DaysOf, {r \in Requests : HeldBy[r] = b /\ request[r] = status})

\* However decisions and cancellations overlap, approved leave is booked (a race may book
\* it twice, never lose it), and no reservation outlives its request (LeaveService.decide
\* and cancel).
NoDaysLost ==
    \A b \in Balances :
        /\ Current(b).used >= DaysIn(b, "APPROVED")
        /\ Current(b).pending <= DaysIn(b, "PENDING")

\* One request at a time, the columns of a balance are the sums over its requests.
LedgerExact ==
    Serial => \A b \in Balances :
                  /\ Current(b).used = DaysIn(b, "APPROVED")
                  /\ Current(b).pending = DaysIn(b, "PENDING")

\* Handlers that overlap are outside the ledger's promise: their instance maps to a
\* ledger in which nothing happens.
Ledger == INSTANCE LeaveLedger
              WITH Accounts <- Balances,
                   status <- IF Serial THEN request ELSE [r \in Requests |-> "NONE"],
                   entitled <- IF Serial THEN [b \in Balances |-> Current(b).entitled]
                                         ELSE Accrual

\* One request at a time, a request is admitted only if its days fit beside all that are
\* pending or approved, and is settled once.
ImplementsLedger == Ledger!Spec

\* "Reserve the days so concurrent requests can't oversubscribe the balance"
\* (leave.service.ts:193), for an entitlement nobody lowers.
NotOversubscribed ==
    \A b \in Balances : Current(b).used + Current(b).pending <= Current(b).entitled
=============================================================================
