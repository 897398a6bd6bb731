------------------------------- MODULE PayYear -------------------------------
(***************************************************************************)
(* One employee paid in the United States through the periods of a year:   *)
(* each run calculates the payslip of its period from the salary of the    *)
(* day, and what the year has withheld so far is nowhere read back.        *)
(***************************************************************************)
EXTENDS Payslip

CONSTANTS
  Salaries,     \* what the employee may earn in a period, in units
  Unit          \* minor units in a unit

VARIABLES
  paid,         \* periods of the year that were paid
  withheld      \* Social Security withheld in them

yearVars == <<paid, withheld>>

YearInit == paid = 0 /\ withheld = 0

AmountOf(slip, code) ==
  slip.lines[CHOOSE i \in DOMAIN slip.lines : slip.lines[i].code = code].amount

\* A monthly run of a pay group with one member, without leave or claims.
PayPeriod(salary) ==
  LET member == [amount |-> salary, frequency |-> "MONTHLY", unpaidDays |-> 0, claims |-> 0]
      slip == MemberPayslip("US", Unit, "MONTHLY", member)
  IN /\ paid < periodsPerYear["MONTHLY"]
     /\ ~slip.failed
     /\ paid' = paid + 1
     /\ withheld' = withheld + AmountOf(slip, "us_ss")

NewYear ==
  /\ paid = periodsPerYear["MONTHLY"]
  /\ paid' = 0 /\ withheld' = 0

YearNext == NewYear \/ \E salary \in Salaries : PayPeriod(salary)

YearSpec == YearInit /\ [][YearNext]_yearVars

-----------------------------------------------------------------------------
\* "Social Security at a flat rate up to an annual wage-base cap (using YTD wages to stop
\* at the cap)" (rules/us.ts:17): a year withholds no more than the rate on the wage base,
\* give or take the rounding of its periods.
AnnualCapHeld == withheld <= Rounded(<<InUnits([unit |-> Unit], SsWageBase) * 62, 1000>>) + paid
=============================================================================
