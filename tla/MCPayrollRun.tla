---------------------------- MODULE MCPayrollRun ----------------------------
(***************************************************************************)
(* Small instances of PayrollRun.  Period p1 belongs to group g1, p2 to    *)
(* g2; claim c1 falls in the windows of both, c2 in that of p2 only.       *)
(***************************************************************************)
EXTENDS PayrollRun, TLC

CONSTANTS g1, g2, p2, e1, e2, c2, Movers

MCGroupOf   == [p \in Periods |-> IF p = p2 THEN g2 ELSE g1]
MCOwnerOf   == [c \in Claims |-> IF c = c2 THEN e2 ELSE e1]
MCPeriodsOf == [c \in Claims |-> IF c = c2 THEN Periods \cap {p2} ELSE Periods]
\* Sessions are interchangeable: no action or property tells them apart.
SessionSymmetry == Permutations(Sessions)

MCMayJoin   == [e \in Employees |-> IF e \in Movers THEN Groups
                                    ELSE IF e = e2 THEN Groups \cap {g2} ELSE {g1}]
=============================================================================
