----------------------------- MODULE Rationals -----------------------------
(***************************************************************************)
(* The fractional values that the engine holds between two roundings, as   *)
(* exact rationals <<n, d>> with d > 0.  roundToMinor snaps its argument   *)
(* to six decimals first, so that a float stands for the exact value.      *)
(***************************************************************************)
EXTENDS Integers

Whole(n) == <<n, 1>>

\* What has no value.
Undefined == <<0, 0>>
Defined(x) == x[2] # 0

Least(m, n) == IF n < m THEN n ELSE m
Greatest(m, n) == IF m < n THEN n ELSE m

Negative(x) == x[1] < 0
Negate(x) == <<-x[1], x[2]>>
Magnitude(x) == IF Negative(x) THEN Negate(x) ELSE x
Below(x, y) == x[1] * y[2] < y[1] * x[2]

FloorOf(x) == x[1] \div x[2]
CeilOf(x) == -FloorOf(Negate(x))
Truncated(x) == IF Negative(x) THEN CeilOf(x) ELSE FloorOf(x)

\* Halves away from zero: the sign of x times floor(|x| + 1/2).
HalfUp(x) ==
  LET up == (2 * Magnitude(x)[1] + x[2]) \div (2 * x[2]) IN IF Negative(x) THEN -up ELSE up

\* Halves to the even neighbour.
HalfEven(x) ==
  LET floor == FloorOf(x)
      twice == 2 * (x[1] - floor * x[2])          \* twice the fraction, in d-ths
  IN IF twice < x[2] \/ (twice = x[2] /\ floor % 2 = 0) THEN floor ELSE floor + 1

RoundingModes == {"HALF_UP", "HALF_EVEN", "FLOOR", "CEIL", "TRUNC"}

roundToMinor(x, mode) ==
  CASE mode = "FLOOR" -> FloorOf(x)
    [] mode = "CEIL" -> CeilOf(x)
    [] mode = "TRUNC" -> Truncated(x)
    [] mode = "HALF_EVEN" -> HalfEven(x)
    [] mode = "HALF_UP" -> HalfUp(x)
=============================================================================
