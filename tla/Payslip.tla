------------------------------ MODULE Payslip ------------------------------
(***************************************************************************)
(* One employee's payslip (payroll-core/src/calculate.ts, run.ts and       *)
(* anomalies.ts, and the loop of RunsService.calculate that calls them):   *)
(* pay elements evaluated in order, the statutory lines of the country's   *)
(* rule pack on top, totals, anomalies.                                    *)
(***************************************************************************)
EXTENDS Lexemes, PayMath, FiniteSets

\* What the calculation imports from formula.ts: the compiled form of a source (NoFormula
\* when it is refused), and its value over the names in a context.
CONSTANTS Compiled(_), Evaluated(_, _)

\* A formula that is one name reads the value of that name.
NamesAreRead ==
  \A name, context :
    name \in DOMAIN context =>
      LET formula == Compiled(<<Ident(name)>>)
      IN formula # NoFormula /\ Evaluated(formula, context) = context[name]

Element(code, type, formula) ==
  [code |-> code, type |-> type, formula |-> formula, rounding |-> "HALF_UP"]

RESERVED_NAMES == {"gross", "deductions", "net"}

\* A payslip; "failed" is a PayrollError or FormulaError, which aborts the calculation.
NoPayslip == [failed |-> TRUE, lines |-> <<>>]

-----------------------------------------------------------------------------
(* calculate: elements in order, each seeing the totals and the results of *)
(* those before it.                                                        *)

Codes(elements) == {elements[i].code : i \in DOMAIN elements}

\* compileElements and assertVariablesUsable.
Compiles(variables, elements) ==
  /\ Codes(elements) \cap RESERVED_NAMES = {}
  /\ Cardinality(Codes(elements)) = Len(elements)
  /\ \A i \in DOMAIN elements : Compiled(elements[i].formula) # NoFormula
  /\ DOMAIN variables \cap (RESERVED_NAMES \cup Codes(elements)) = {}

Amounts(lines) == [i \in DOMAIN lines |-> lines[i].amount]
Summed(lines) == FoldFunctionOnSet(+, 0, Amounts(lines), DOMAIN lines)

TotalOf(lines, type) ==
  FoldFunctionOnSet(+, 0, Amounts(lines), {i \in DOMAIN lines : lines[i].type = type})

\* What the formula of the next element may name.
Visible(variables, lines) ==
  LET gross == TotalOf(lines, "EARNING")
      deductions == TotalOf(lines, "DEDUCTION")
      totals == [gross |-> gross, deductions |-> deductions, net |-> gross - deductions]
      AmountOf(code) == lines[CHOOSE i \in DOMAIN lines : lines[i].code = code].amount
  IN [name \in RESERVED_NAMES \cup Codes(lines) \cup DOMAIN variables |->
        CASE name \in RESERVED_NAMES -> Whole(totals[name])
          [] name \in Codes(lines) -> Whole(AmountOf(name))
          [] OTHER -> variables[name]]

EvaluateNext(variables, slip, el) ==
  LET value == Evaluated(Compiled(el.formula), Visible(variables, slip.lines))
  IN IF slip.failed \/ ~Defined(value) THEN NoPayslip
     ELSE [slip EXCEPT !.lines =
             Append(@, Line(el.code, el.type, roundToMinor(value, el.rounding)))]

calculate(variables, elements) ==
  LET slip[i \in 0..Len(elements)] ==
        IF i = 0 THEN [failed |-> FALSE, lines |-> <<>>]
        ELSE EvaluateNext(variables, slip[i - 1], elements[i])
  IN IF Compiles(variables, elements) THEN slip[Len(elements)] ELSE NoPayslip

-----------------------------------------------------------------------------
(* runPayroll: the pack's deductions, then its taxes on what they leave.   *)

\* appendUnique refuses a code that is already on the slip.
AppendUnique(slip, additions) ==
  LET codes == Codes(slip.lines) \cap Codes(additions)
  IN IF slip.failed \/ codes # {} THEN NoPayslip
     ELSE [slip EXCEPT !.lines = @ \o additions]

\* stat: [periods, ytd, preTax, status, unit].
Context(stat, gross, taxable) ==
  [gross |-> gross, taxable |-> taxable, periods |-> stat.periods, ytd |-> stat.ytd,
   status |-> stat.status, unit |-> stat.unit]

WithTotals(slip) ==
  LET gross == TotalOf(slip.lines, "EARNING")
      deductions == TotalOf(slip.lines, "DEDUCTION")
  IN [failed |-> slip.failed, lines |-> slip.lines, gross |-> gross,
      deductions |-> deductions, net |-> gross - deductions]

runPayroll(country, stat, variables, elements) ==
  LET base == calculate(variables, elements)
      gross == TotalOf(base.lines, "EARNING")
      pretax == PackDeductions(country, Context(stat, gross, gross))
      taxable == Greatest(0, gross - (stat.preTax + Summed(pretax)))
      taxes == PackStatutory(country, Context(stat, gross, taxable))
  IN WithTotals(AppendUnique(AppendUnique(base, pretax), taxes))

-----------------------------------------------------------------------------
(* RunsService.calculate, for one member of the pay group.                 *)

periodsPerYear ==
  [ANNUAL |-> 1, MONTHLY |-> 12, SEMI_MONTHLY |-> 24, BIWEEKLY |-> 26, WEEKLY |-> 52]
WORKING_DAYS_PER_YEAR == 260

BasicElement == Element("basic", "EARNING", <<Ident("baseSalary")>>)
UnpaidLeaveElement == Element("unpaid_leave", "DEDUCTION", <<Ident("unpaidLeave")>>)
\* Faulty variant: claims are taken from the pay instead of added to it.
ReimbursementWithheld == Element("reimbursement", "DEDUCTION", <<Ident("reimbursementAmount")>>)

ReimbursementElement == Element("reimbursement", "EARNING", <<Ident("reimbursementAmount")>>)

\* The compensation prorated to the pay group's frequency.
PeriodGross(member, frequency) ==
  Rounded(<<member.amount * periodsPerYear[member.frequency], periodsPerYear[frequency]>>)

\* Faulty variant: the compensation docked as it is on record, per year or per week.
UnpaidLeaveUnprorated(member, frequency) ==
  Rounded(<<member.amount * member.unpaidDays * periodsPerYear[frequency], WORKING_DAYS_PER_YEAR>>)

\* Unpaid days dock the salary by the standard working days of a period.
UnpaidLeave(member, frequency) ==
  Rounded(<<PeriodGross(member, frequency) * member.unpaidDays * periodsPerYear[frequency],
            WORKING_DAYS_PER_YEAR>>)

If(condition, sequence) == IF condition THEN sequence ELSE <<>>

\* The unit is the model's; year-to-date wages are not passed, nor is a filing status.
MemberPayslip(country, unit, frequency, member) ==
  LET variables == [baseSalary |-> Whole(PeriodGross(member, frequency)),
                    unpaidLeave |-> Whole(UnpaidLeave(member, frequency)),
                    reimbursementAmount |-> Whole(member.claims)]
      elements == <<BasicElement>> \o If(member.unpaidDays > 0, <<UnpaidLeaveElement>>)
                                   \o If(member.claims > 0, <<ReimbursementElement>>)
  IN runPayroll(country, [periods |-> periodsPerYear[frequency], ytd |-> 0, preTax |-> 0,
                          status |-> "single", unit |-> unit], variables, elements)

-----------------------------------------------------------------------------
(* detectAnomalies, for one line; prior is the gross of the run before, or *)
(* -1 when there is none.                                                  *)

detectAnomalies(slip, prior) ==
  (IF slip.net < 0 THEN {"NEGATIVE_NET"} ELSE {})
  \cup (IF prior > 0 /\ 5 * Magnitude(Whole(slip.gross - prior))[1] > prior
        THEN {"PAY_VARIANCE"} ELSE {})
=============================================================================
