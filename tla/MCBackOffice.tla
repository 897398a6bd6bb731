---------------------------- MODULE MCBackOffice ----------------------------
(***************************************************************************)
(* The instance of the back office that is checked, and the golden masters *)
(* of the repository's own tests as assumptions that TLC evaluates.        *)
(***************************************************************************)
EXTENDS BackOffice

-----------------------------------------------------------------------------
(* Accounts: a tenant with its owner and one employee, an identity provider *)
(* that provisions just in time and knows either of them.                   *)

MCEmails == {"owner", "ann"}
MCConfig == [p \in {"okta"} |-> [kind |-> "OIDC", enabled |-> TRUE, allowJit |-> TRUE,
                                 defaultRole |-> "employee", domain |-> MCEmails]]
MCSettings == {<<Workers, {<<<<"sub", "s1">>, "ann">>}>>}
              \cup {<<{CHOOSE w \in Workers : TRUE}, {<<<<"sub", "s2">>, "owner">>}>>}
MCInviteRoles == {{"employee"}}

-----------------------------------------------------------------------------
(* Calendars: anchors at month ends and in a leap year; instalments of one   *)
(* period and of just over a year of months.                                 *)

MCAnchors == {DayOf(2026, 1, 31), DayOf(2028, 2, 29), DayOf(2026, 12, 1)}

-----------------------------------------------------------------------------
(* Insights: the last day of a January, at six in the morning; and reports   *)
(* that do not compile, one for its dimension, one for a list of one value.  *)

MCSpecs == {Report("employees", <<"department">>, <<"headcount">>),
            Report("leave", <<"department">>, <<"totalDays">>),
            [Report("leave", <<"leaveType">>, <<"totalDays">>) EXCEPT !.filters =
               <<[field |-> "status", op |-> "eq", values |-> {"APPROVED"}, list |-> TRUE]>>]}
MCStart == 24 * DayOf(2027, 1, 31) + 6
MCChanges == {[cadence |-> "MONTHLY"], [hour |-> 9], [active |-> FALSE],
              [cadence |-> "WEEKLY", hour |-> 6]}

-----------------------------------------------------------------------------
(* Assist: a sensitive question for two tools, one that an article answers at *)
(* the very floor when its tool fails, and one below the floor.              *)

MCQuestions == {{"grievance", "leave", "pending"},
                {"payslip", "remote", "budget", "laptop"},
                {"remote", "parking", "badge", "office", "chair"}}
MCTexts == {[title |-> {"remote"}, tags |-> {"desk"}, body |-> {"visit"}],
            [title |-> {}, tags |-> {"remote"}, body |-> {"budget"}]}
MCRolesOf == [u \in {"ann", "bob"} |-> IF u = "ann" THEN {"employee"} ELSE {"hr_manager"}]

-----------------------------------------------------------------------------
(* Formulas: every operator over every operand of the smaller depths.       *)

Leaves == {<<"num", 1>>, <<"var", "x">>}
Over(signed, operands) ==
  {<<"unary", sign, e>> : sign \in {"-", "+"}, e \in signed}
  \cup {<<"binary", op, e, f>> : op \in {"+", "-", "*", "/"}, e \in operands, f \in operands}
  \cup {<<"call", "max", args>> : args \in {<<e, f>> : e \in operands, f \in operands}
                                          \cup {<<e>> : e \in operands} \cup {<<>>}}
Shallow == Leaves \cup Over(Leaves, Leaves)
MCFormulas == Shallow \cup Over(Shallow, Shallow)

-----------------------------------------------------------------------------
(* Payslips: salaries one unit around every annual threshold of a pack.     *)

Unit(country) == CASE country = "US" -> 2500 [] country = "GB" -> 1000 [] country = "IN" -> 100000
Thresholds(country) ==
  CASE country = "US" -> {b.from + UsStandardDeduction("single") : b \in ToSet(UsBrackets("single"))}
                         \cup {SsWageBase}
    [] country = "GB" -> {b.from : b \in ToSet(PayeBrackets)}
    [] country = "IN" -> {b.from + InStandardDeduction : b \in ToSet(Slabs)} \cup {EpfCeiling}

Salaries(country, frequency) ==
  {Greatest(0, (t \div (Unit(country) * periodsPerYear[frequency])) + d) :
     t \in Thresholds(country), d \in -1..1}

Pays == {<<"MONTHLY", "MONTHLY">>, <<"ANNUAL", "SEMI_MONTHLY">>, <<"WEEKLY", "BIWEEKLY">>}
MCPayCases ==
  {[country |-> c, unit |-> Unit(c), frequency |-> p[2],
    member |-> [amount |-> a, frequency |-> p[1], unpaidDays |-> days, claims |-> claims]] :
     c \in Countries, p \in Pays, a \in UNION {Salaries(k, q[1]) : k \in Countries, q \in Pays},
     days \in {0, 2}, claims \in {0, 7}}
MCRaises == {12, 40}

-----------------------------------------------------------------------------
(* Reports: two employees, one of them perhaps with two open compensations; *)
(* a limit of one cuts off a group.                                        *)

Rows(id, pays) ==
  [id : {id}, department : {"none", "sales"}, status : {"ACTIVE", "TERMINATED"},
   deleted : BOOLEAN, pay : pays]
MCCollation == [v \in {"ACTIVE", "TERMINATED", "sales", "none"} |->
                  CASE v = "ACTIVE" -> 1 [] v = "sales" -> 2 [] v = "TERMINATED" -> 3 [] OTHER -> 4]
Filter(field, op, values, list) == [field |-> field, op |-> op, values |-> values, list |-> list]
MCReportCases ==
  [spec : {[Report("employees", d, m) EXCEPT !.sort = s, !.filters = f, !.limit = n] :
             d \in {<<>>, <<"department">>, <<"status">>, <<"department", "status">>},
             m \in {<<"headcount">>, <<"totalCompensationMinor">>, <<"avgCompensationMinor">>},
             s \in {<<>>, <<[key |-> "department", descending |-> TRUE]>>},
             f \in {<<>>, <<Filter("department", "in", {"sales"}, TRUE)>>,
                    <<Filter("status", "ne", {"ACTIVE"}, FALSE)>>},
             n \in {1, 3}},
   table : {{a, b} : a \in Rows(1, {{<<1, 5>>, <<2, 5>>}}), b \in Rows(2, {{}, {<<3, 10>>}})}]

-----------------------------------------------------------------------------
(* Organisation charts: four employees, 9 a manager who was deleted.        *)

MCHierarchies == [1..4 -> 0..4 \cup {9}]

-----------------------------------------------------------------------------
(* Golden masters.                                                          *)

Ctx(gross, taxable, ytd, status, unit) ==
  [gross |-> gross, taxable |-> taxable, periods |-> 12, ytd |-> ytd, status |-> status,
   unit |-> unit]

ASSUME GoldenUnitedStates ==
  /\ federalIncomeTax(Ctx(600000, 600000, 0, "single", 1)) = 65396
  /\ federalIncomeTax(Ctx(600000, 540000, 0, "single", 1)) = 52196
  /\ federalIncomeTax(Ctx(600000, 600000, 0, "married", 1)) = 38333
  /\ socialSecurity(Ctx(600000, 600000, 0, "single", 1)) = 37200
  /\ socialSecurity(Ctx(600000, 600000, 17900000, "single", 1)) = 6200
  /\ socialSecurity(Ctx(600000, 600000, 18000000, "single", 1)) = 0
  /\ medicare(Ctx(600000, 600000, 0, "single", 1)) = 8700

ASSUME GoldenUnitedKingdom ==
  /\ pension(Ctx(400000, 380000, 0, "single", 1)) = 20000
  /\ paye(Ctx(400000, 380000, 0, "single", 1)) = 55050
  /\ nationalInsurance(Ctx(400000, 380000, 0, "single", 1)) = 23620
  /\ paye(Ctx(500000, 500000, 0, "single", 1)) = 95267
  /\ nationalInsurance(Ctx(600000, 600000, 0, "single", 1)) = 28755

ASSUME GoldenIndia ==
  /\ incomeTax(Ctx(8000, 8000, 0, "single", 1000)) = 403
  /\ providentFund(Ctx(8000, 8000, 0, "single", 1000)) = 180
  /\ incomeTax(Ctx(2000, 2000, 0, "single", 1000)) = 0
  /\ providentFund(Ctx(1000, 1000, 0, "single", 1000)) = 120

GoldenElements ==
  << Element("basic", "EARNING", <<Ident("base")>>),
     Element("bonus", "EARNING", <<Ident("basic"), Op("/"), Num(10)>>),
     Element("pension", "DEDUCTION", <<Ident("gross"), Op("/"), Num(20)>>),
     Element("tax", "DEDUCTION", <<Ident("net"), Op("/"), Num(5)>>) >>
HalfOf(mode) ==
  calculate([base |-> Whole(5)],
    <<[Element("half", "EARNING", <<Ident("base"), Op("/"), Num(2)>>) EXCEPT !.rounding = mode]>>)

\* NamesAreRead, for the variables of a run and some values of theirs.
ASSUME NamesRead ==
  LET names == {"baseSalary", "unpaidLeave", "reimbursementAmount"}
  IN \A name \in names, context \in [names -> {<<n, d>> : n \in -3..3, d \in {1, 2, 100}}] :
       /\ Compiled(<<Ident(name)>>) # NoFormula
       /\ Evaluated(Compiled(<<Ident(name)>>), context) = context[name]

ASSUME GoldenCalendar ==
  LET Dates(frequency, anchor, count, offset) ==
        LET p == generatePayPeriods(frequency, anchor, count, offset)
        IN [i \in DOMAIN p |-> <<p[i].start, p[i].end, p[i].pay>>]
      In2026(m, d) == DayOf(2026, m, d)
  IN /\ Dates("MONTHLY", In2026(1, 31), 1, 0) = <<<<In2026(1, 31), In2026(2, 27), In2026(2, 27)>>>>
     /\ Dates("WEEKLY", In2026(1, 5), 1, 2) = <<<<In2026(1, 5), In2026(1, 11), In2026(1, 13)>>>>
     /\ Dates("SEMI_MONTHLY", In2026(1, 1), 4, 0)[4] = <<In2026(2, 16), In2026(2, 28), In2026(2, 28)>>

ASSUME GoldenSchedule ==
  LET At(m, d, hour) == 24 * DayOf(2026, m, d) + hour
  IN /\ computeNextRun("DAILY", 6, At(6, 27, 3)) = At(6, 27, 6)
     /\ computeNextRun("DAILY", 6, At(6, 27, 6)) = At(6, 28, 6)
     /\ computeNextRun("WEEKLY", 6, At(6, 27, 9)) = At(7, 4, 6)
     /\ computeNextRun("MONTHLY", 6, At(6, 27, 9)) = At(7, 27, 6)

ASSUME GoldenDashboards == \A d \in PREBUILT_DASHBOARDS : compileReport(d) = "ok"

ASSUME GoldenCalculation ==
  /\ LET slip == WithTotals(calculate([base |-> Whole(600000)], GoldenElements))
     IN slip.gross = 660000 /\ slip.deductions = 158400
  /\ HalfOf("HALF_EVEN").lines[1].amount = 2
  /\ HalfOf("HALF_UP").lines[1].amount = 3
=============================================================================
