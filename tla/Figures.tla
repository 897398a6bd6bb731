------------------------------ MODULE Figures ------------------------------
(***************************************************************************)
(* The pure kernels but the formula compiler, asked one question at a      *)
(* time: an employee's payslip to compute, a report to group, an           *)
(* organisation chart to draw.  A kernel keeps no state, so that a         *)
(* question and its answer are a whole behaviour.                          *)
(***************************************************************************)
EXTENDS Payslip, Reports, OrgTree

CONSTANTS
  PayCases,     \* [country, unit, frequency, member]
  Raises,       \* units added to the pay of a period, to compare two payslips
  ReportCases,  \* [spec, table]
  Hierarchies   \* functions from employees to their managers

\* What the calculation of a run reads of a member of its group.
Members == [amount : Nat, frequency : DOMAIN periodsPerYear, unpaidDays : Nat, claims : Nat]
Cases == [country : Countries, unit : Nat \ {0}, frequency : DOMAIN periodsPerYear, member : Members]

\* The highest rates together leave more than 44 per cent of a raise; what unpaid days
\* dock of it must leave more than the roundings of a slip's four lines take.
BeatsRounding(raise, pay) ==
  LET dayPeriods == pay.member.unpaidDays * periodsPerYear[pay.frequency]
  IN raise >= 4 /\ raise * (115 - dayPeriods) >= 676

\* Employees have a status and are told apart by their ids; pay is never negative.
EmployeeTable(table) ==
  /\ IsFiniteSet(table)
  /\ \A row \in table : /\ row.deleted \in BOOLEAN /\ row.status # "none"
                        /\ IsFiniteSet(row.pay) /\ \A p \in row.pay : p[2] \in Nat
  /\ \A row, other \in table : row.id = other.id => row = other

ReportSpecs ==
  [dataset : STRING, dimensions : Seq(STRING), measures : Seq(STRING),
   filters : Seq([field : STRING, op : STRING, values : SUBSET STRING, list : BOOLEAN]),
   sort : Seq([key : STRING, descending : BOOLEAN]), limit : Nat \ {0}]

\* A report that rows of employees can answer, whose columns the database can order.
ReportCase(case) ==
  /\ case.spec \in ReportSpecs /\ case.spec.dataset = "employees" /\ case.spec.measures # <<>>
  /\ EmployeeTable(case.table)
  /\ \A row \in case.table, d \in ToSet(case.spec.dimensions) :
       d \in DOMAIN Catalog["employees"].dimensions => row[d] \in DOMAIN Collation

ASSUME FiguresAssumption ==
  /\ PayCases \subseteq Cases
  /\ \A raise \in Raises, pay \in PayCases : raise \in Nat /\ BeatsRounding(raise, pay)
  /\ \A case \in ReportCases : ReportCase(case)
  /\ \A managers \in Hierarchies : IsFiniteSet(DOMAIN managers) /\ Nobody \notin DOMAIN managers

VARIABLES
  kernel,       \* "payslip", "report" or "org", and whether it has answered
  question,
  result

kernelVars == <<kernel, question, result>>

FiguresInit ==
  /\ \/ kernel = "payslip" /\ question \in PayCases
     \/ kernel = "report" /\ question \in ReportCases
     \/ kernel = "org" /\ question \in Hierarchies
  /\ result = <<>>

\* The same case with a raise: what a period's pay has to grow by, at the frequency of the
\* compensation, to bring at least so many units more.
Raised(pay, raise) ==
  [pay EXCEPT !.member.amount =
     @ + CeilOf(<<raise * periodsPerYear[pay.frequency], periodsPerYear[pay.member.frequency]>>)]

PayslipOf(pay) == MemberPayslip(pay.country, pay.unit, pay.frequency, pay.member)

\* Asked as it stands and with each raise.
ComputePayslip ==
  /\ kernel = "payslip"
  /\ kernel' = "payslip.done"
  /\ result' = [raise \in {0} \cup Raises |-> PayslipOf(Raised(question, raise))]
  /\ UNCHANGED question

RunReport ==
  /\ kernel = "report"
  /\ compileReport(question.spec) = "ok"
  /\ kernel' = "report.done"
  /\ result' \in Pages(question.spec, question.table)
  /\ UNCHANGED question

ShowOrgTree ==
  /\ kernel = "org"
  /\ kernel' = "org.done"
  /\ result' = buildTree(question)
  /\ UNCHANGED question

FiguresNext == ComputePayslip \/ RunReport \/ ShowOrgTree

FiguresSpec == FiguresInit /\ [][FiguresNext]_kernelVars

-----------------------------------------------------------------------------
(* Properties.                                                             *)

\* No tax cliff: at and around every bracket and threshold of the three rule packs, with
\* claims and unpaid leave on the slip, a raise of more than the
\* rounding of its lines can swallow never lowers the net pay.
RaiseNeverCosts ==
  kernel = "payslip.done" =>
    \A raise \in Raises :
      result[0].gross <= result[raise].gross /\ result[0].net <= result[raise].net

\* A payslip reconciles line by line: it is computed at all, no code appears twice, the
\* gross is the prorated salary and the claims, what is withheld and docked is what
\* separates it from the net, and no contribution is negative or exceeds the gross.
PayslipReconciles ==
  kernel = "payslip.done" =>
    LET member == question.member
        slip == result[0]
        withheld == {i \in DOMAIN slip.lines :
                       slip.lines[i].code \notin {"basic", "unpaid_leave", "reimbursement"}}
        docked == IF member.unpaidDays = 0 THEN 0 ELSE UnpaidLeave(member, question.frequency)
    IN /\ ~slip.failed
       /\ Cardinality(Codes(slip.lines)) = Len(slip.lines)
       /\ slip.gross = PeriodGross(member, question.frequency) + member.claims
       /\ slip.net = slip.gross - docked - FoldFunctionOnSet(+, 0, Amounts(slip.lines), withheld)
       /\ \A i \in withheld : slip.lines[i].amount \in 0..slip.gross

\* Reports over one table agree, whatever their dimensions, filters, order and limit.
ReportsReconcile ==
  kernel = "report.done" => ReportsAgree(question.spec, question.table, result)

\* Whatever the managers on record - deleted, themselves, or in a circle - the organisation
\* chart loses nobody whose line of managers ends, and lists nobody twice.
EverybodyOnce == kernel = "org.done" => ShowsEverybodyOnce(question, result)
=============================================================================
