------------------------------ MODULE PayMath ------------------------------
(***************************************************************************)
(* The country rule packs of payroll-core: bracket tables, statutory       *)
(* contributions, and what they add to a payslip.  Amounts are counted in  *)
(* units of "unit" minor units, so that a year's pay stays within TLC's    *)
(* integers; a deduction is rounded to a whole unit.  Rates are per cent,  *)
(* or per ten thousand where the code has a fraction of a per cent.        *)
(***************************************************************************)
EXTENDS Rationals, Sequences, Functions

\* A context as the packs receive it: what runPayroll knows, and the unit of its amounts.
\* [gross, taxable, periods, ytd, status, unit]
InUnits(ctx, minor) == minor \div ctx.unit

-----------------------------------------------------------------------------
(* Progressive brackets: <<from, rate>>, ascending.                        *)

Band(from, rate) == [from |-> from, rate |-> rate]
BandsInUnits(ctx, brackets) ==
  [i \in DOMAIN brackets |-> [brackets[i] EXCEPT !.from = InUnits(ctx, @)]]

\* The part of the amount that falls into the i-th band.
Slice(amount, brackets, i) ==
  LET upper == IF i < Len(brackets) THEN brackets[i + 1].from ELSE amount
  IN Greatest(0, Least(amount, upper) - brackets[i].from)

\* A hundred times the tax on a whole amount.
bracketTax(amount, brackets) ==
  FoldFunctionOnSet(+, 0, [i \in DOMAIN brackets |-> Slice(amount, brackets, i) * brackets[i].rate],
                    DOMAIN brackets)

Rounded(x) == roundToMinor(x, "HALF_UP")
PerCent(amount, rate) == Rounded(<<amount * rate, 100>>)

\* The annualised method: a year's tax, brought back to the period.
PeriodShare(ctx, hundredfold) == Rounded(<<hundredfold, 100 * ctx.periods>>)

-----------------------------------------------------------------------------
(* United States.                                                          *)

UsBrackets(status) ==
  IF status = "married"
  THEN << Band(0, 10), Band(2200000, 12), Band(8945000, 22), Band(19075000, 24),
          Band(36420000, 32), Band(46250000, 35), Band(69375000, 37) >>
  ELSE << Band(0, 10), Band(1100000, 12), Band(4472500, 22), Band(9537500, 24),
          Band(18210000, 32), Band(23125000, 35), Band(57812500, 37) >>

UsStandardDeduction(status) == IF status = "married" THEN 3000000 ELSE 1500000
SsWageBase == 18000000

federalIncomeTax(ctx) ==
  LET annual == Greatest(0, ctx.taxable * ctx.periods
                              - InUnits(ctx, UsStandardDeduction(ctx.status)))
  IN PeriodShare(ctx, bracketTax(annual, BandsInUnits(ctx, UsBrackets(ctx.status))))

\* 6.2 per cent of what is left below the annual wage base.
socialSecurity(ctx) ==
  LET remainingCap == Greatest(0, InUnits(ctx, SsWageBase) - ctx.ytd)
  IN Rounded(<<Least(ctx.gross, remainingCap) * 62, 1000>>)

medicare(ctx) == Rounded(<<ctx.gross * 145, 10000>>)

-----------------------------------------------------------------------------
(* United Kingdom.                                                         *)

PayeBrackets == << Band(0, 0), Band(1257000, 20), Band(5027000, 40), Band(12514000, 45) >>
NiPrimaryThreshold == 1257000
NiUpperEarningsLimit == 5027000

pension(ctx) == PerCent(ctx.gross, 5)

paye(ctx) ==
  PeriodShare(ctx, bracketTax(ctx.taxable * ctx.periods, BandsInUnits(ctx, PayeBrackets)))

\* Eight per cent between the thresholds and two above, rounded once.
nationalInsurance(ctx) ==
  LET annual == ctx.gross * ctx.periods
      limit == InUnits(ctx, NiUpperEarningsLimit)
      main == Greatest(0, Least(annual, limit) - InUnits(ctx, NiPrimaryThreshold))
      upper == Greatest(0, annual - limit)
  IN PeriodShare(ctx, main * 8 + upper * 2)

-----------------------------------------------------------------------------
(* India.                                                                  *)

Slabs == << Band(0, 0), Band(30000000, 5), Band(60000000, 10), Band(90000000, 15),
            Band(120000000, 20), Band(150000000, 30) >>
InStandardDeduction == 5000000
EpfCeiling == 18000000

\* With the cess of four per cent: 26/25 of the slab tax.
incomeTax(ctx) ==
  LET annual == Greatest(0, ctx.taxable * ctx.periods - InUnits(ctx, InStandardDeduction))
  IN Rounded(<<bracketTax(annual, BandsInUnits(ctx, Slabs)) * 26, 2500 * ctx.periods>>)

providentFund(ctx) ==
  Rounded(<<Least(ctx.gross * ctx.periods, InUnits(ctx, EpfCeiling)) * 12, 100 * ctx.periods>>)

-----------------------------------------------------------------------------
(* The packs.  None of them has earnings of its own.                       *)

Countries == {"US", "GB", "IN"}
PackCurrency(country) ==
  CASE country = "US" -> "USD" [] country = "GB" -> "GBP" [] country = "IN" -> "INR"

Line(code, type, amount) == [code |-> code, type |-> type, amount |-> amount]
Deduction(code, amount) == Line(code, "DEDUCTION", amount)

PackDeductions(country, ctx) ==
  IF country = "GB" THEN << Deduction("uk_pension", pension(ctx)) >> ELSE <<>>

PackStatutory(country, ctx) ==
  CASE country = "US" -> << Deduction("us_fit", federalIncomeTax(ctx)),
                            Deduction("us_ss", socialSecurity(ctx)),
                            Deduction("us_medicare", medicare(ctx)) >>
    [] country = "GB" -> << Deduction("uk_paye", paye(ctx)),
                            Deduction("uk_ni", nationalInsurance(ctx)) >>
    [] country = "IN" -> << Deduction("in_tax", incomeTax(ctx)),
                            Deduction("in_epf", providentFund(ctx)) >>
=============================================================================
