--------------------------- MODULE MCIntegrationRun ---------------------------
(***************************************************************************)
(* Small instances of IntegrationRun: k1 yields n1, any other key n2.      *)
(***************************************************************************)
EXTENDS IntegrationRun

CONSTANTS k1, n1

MCBatchOf == [k \in Keys |-> IF k = k1 THEN {n1} ELSE Numbers \ {n1}]
=============================================================================
