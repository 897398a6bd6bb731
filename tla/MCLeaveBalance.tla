---------------------------- MODULE MCLeaveBalance ----------------------------
(***************************************************************************)
(* Small instances of LeaveBalance: request r3 is charged to balance b2,   *)
(* the others to b1; r1 asks for one day, the others for two.              *)
(***************************************************************************)
EXTENDS LeaveBalance

CONSTANTS b1, b2, r1, r3

MCDaysOf  == [r \in Requests |-> IF r = r1 THEN 1 ELSE 2]
MCHeldBy  == [r \in Requests |-> IF r = r3 THEN b2 ELSE b1]
MCAccrual == [b \in Balances |-> IF b = b1 THEN 3 ELSE 0]
=============================================================================
