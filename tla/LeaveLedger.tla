------------------------------ MODULE LeaveLedger ------------------------------
(***************************************************************************)
(* What leave management promises, said without balance rows or            *)
(* transactions: an account holds an entitlement, and a request is granted *)
(* a reservation only if it fits beside every request that is pending or   *)
(* approved.                                                               *)
(***************************************************************************)
EXTENDS Integers, Functions

CONSTANTS Accounts, Requests, DaysOf, HeldBy, Entitlements, Accrual

VARIABLES
    entitled,  \* days an account is entitled to
    status     \* how far each request has got

vars == <<entitled, status>>

DaysOn(a, kinds) ==
    FoldFunctionOnSet(+, 0, DaysOf, {r \in Requests : HeldBy[r] = a /\ status[r] \in kinds})

Entitle(a, n) ==
    /\ entitled' = [entitled EXCEPT ![a] = n]
    /\ UNCHANGED status

Reserve(r) ==
    /\ status[r] = "NONE"
    /\ DaysOf[r] + DaysOn(HeldBy[r], {"PENDING", "APPROVED"}) <= entitled[HeldBy[r]]
    /\ status' = [status EXCEPT ![r] = "PENDING"]
    /\ UNCHANGED entitled

Settle(r, outcome) ==
    /\ status[r] = "PENDING"
    /\ status' = [status EXCEPT ![r] = outcome]
    /\ UNCHANGED entitled

Next ==
    \/ \E a \in Accounts, n \in Entitlements : Entitle(a, n)
    \/ \E r \in Requests :
          Reserve(r) \/ \E o \in {"APPROVED", "REJECTED", "CANCELLED"} : Settle(r, o)

Init ==
    /\ entitled = Accrual
    /\ status = [r \in Requests |-> "NONE"]

Spec == Init /\ [][Next]_vars
=============================================================================
