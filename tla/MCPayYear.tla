------------------------------ MODULE MCPayYear ------------------------------
(***************************************************************************)
(* Units of 25 dollars: salaries of 10 000 and of 20 000 dollars a month,  *)
(* below and above the wage base of 180 000 a year.                        *)
(***************************************************************************)
EXTENDS PayYear, Formula

MCSalaries == {400, 800}
=============================================================================
