----------------------------- MODULE MakerChecker -----------------------------
(***************************************************************************)
(* What the payroll service promises of a run, said without transactions,  *)
(* claims or pay groups: its payslips can be edited while it is open; a    *)
(* maker closes them and hands them to review; only somebody else may let  *)
(* them through; once paid, nothing about the run changes any more.        *)
(***************************************************************************)
CONSTANTS Runs, Users, Payslips, None

VARIABLES
    phase,    \* "open", "review", "approved" or "paid", by run
    slips,    \* the payslips of a run
    maker     \* the user who last submitted the run, or None

vars == <<phase, slips, maker>>

Edit(r) ==
    /\ phase[r] = "open"
    /\ \E S \in SUBSET Payslips : slips' = [slips EXCEPT ![r] = S]
    /\ UNCHANGED <<phase, maker>>

\* An empty run is not worth a review.
Submit(r, u) ==
    /\ phase[r] = "open"
    /\ slips[r] # {}
    /\ phase' = [phase EXCEPT ![r] = "review"]
    /\ maker' = [maker EXCEPT ![r] = u]
    /\ UNCHANGED slips

Decide(r, u) ==
    /\ phase[r] = "review"
    /\ u # maker[r]
    /\ \E next \in {"open", "approved"} : phase' = [phase EXCEPT ![r] = next]
    /\ UNCHANGED <<slips, maker>>

Pay(r) ==
    /\ phase[r] = "approved"
    /\ phase' = [phase EXCEPT ![r] = "paid"]
    /\ UNCHANGED <<slips, maker>>

Next ==
    \E r \in Runs :
        \/ Edit(r)
        \/ \E u \in Users : Submit(r, u) \/ Decide(r, u)
        \/ Pay(r)

Init ==
    /\ phase = [r \in Runs |-> "open"]
    /\ slips = [r \in Runs |-> {}]
    /\ maker = [r \in Runs |-> None]

Spec == Init /\ [][Next]_vars
=============================================================================
