---------------------------- MODULE MCDisbursement ----------------------------
(***************************************************************************)
(* Small instances of Disbursement: every period is one of group g1, which *)
(* e1 may leave again; claims are hers and fall in every period's window.  *)
(***************************************************************************)
EXTENDS Disbursement

CONSTANTS g1, e1

MCGroupOf   == [p \in Periods |-> g1]
MCOwnerOf   == [c \in Claims |-> e1]
MCPeriodsOf == [c \in Claims |-> Periods]
MCMayJoin   == [e \in Employees |-> IF e = e1 THEN Groups ELSE {g1}]
=============================================================================
