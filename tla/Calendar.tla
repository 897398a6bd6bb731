------------------------------ MODULE Calendar ------------------------------
(***************************************************************************)
(* UTC date arithmetic and the pay calendar (payroll-core/src/calendar.ts).*)
(* A date is its day number, 0 for 1 January 2000; a month is its number,  *)
(* twelve times the year plus 0 for January.                               *)
(***************************************************************************)
EXTENDS Integers

LeapYear(y) == (y % 4 = 0 /\ y % 100 # 0) \/ y % 400 = 0

\* February 29ths before the first of January of year y, counted from 2000.
LeapDaysBefore(y) == ((y - 1) \div 4) - ((y - 1) \div 100) + ((y - 1) \div 400) - 484

DaysBefore == <<0, 31, 59, 90, 120, 151, 181, 212, 243, 273, 304, 334>>

\* The first day of a month.
MonthStart(month) ==
  LET y == month \div 12
      m == (month % 12) + 1
  IN 365 * (y - 2000) + LeapDaysBefore(y) + DaysBefore[m]
     + (IF m > 2 /\ LeapYear(y) THEN 1 ELSE 0)

daysInMonth(month) == MonthStart(month + 1) - MonthStart(month)

\* fmt and parse: a date from its parts, the month and the day of the month of a date.
DayOf(y, m, d) == MonthStart(12 * y + m - 1) + d - 1
MonthOf(day) ==
  CHOOSE month \in (24000 + (day \div 31))..(24000 + (day \div 28)) :
    MonthStart(month) <= day /\ day < MonthStart(month + 1)
DayOfMonth(day) == day - MonthStart(MonthOf(day)) + 1

addDays(day, n) == day + n

\* The day is clamped to the length of the month it lands in.
addMonths(day, n) ==
  LET month == MonthOf(day) + n
      length == daysInMonth(month)
      d == DayOfMonth(day)
  IN MonthStart(month) + (IF d < length THEN d ELSE length) - 1

-----------------------------------------------------------------------------
(* Pay periods: the i-th (from 0) of a frequency anchored at a day.        *)

Frequencies == {"ANNUAL", "MONTHLY", "SEMI_MONTHLY", "BIWEEKLY", "WEEKLY"}

Span(start, end) == [start |-> start, end |-> end]

\* From the 1st to the 15th and from the 16th to the end; the anchor's day is dropped.
semiMonthly(anchor, i) ==
  LET month == MonthOf(addMonths(MonthStart(MonthOf(anchor)), i \div 2))
      first == MonthStart(month)
  IN IF i % 2 = 0 THEN Span(first, first + 14)
     ELSE Span(first + 15, first + daysInMonth(month) - 1)

\* n months per period, each reckoned from the anchor itself.
Months(anchor, n, i) ==
  Span(addMonths(anchor, n * i), addDays(addMonths(anchor, n * (i + 1)), -1))

Days(anchor, n, i) == Span(addDays(anchor, n * i), addDays(addDays(anchor, n * i), n - 1))

boundary(frequency, anchor, i) ==
  CASE frequency = "WEEKLY" -> Days(anchor, 7, i)
    [] frequency = "BIWEEKLY" -> Days(anchor, 14, i)
    [] frequency = "MONTHLY" -> Months(anchor, 1, i)
    [] frequency = "ANNUAL" -> Months(anchor, 12, i)
    [] frequency = "SEMI_MONTHLY" -> semiMonthly(anchor, i)

\* The periods with the sequence numbers 1 to count.
generatePayPeriods(frequency, anchor, count, offset) ==
  [i \in 1..count |->
     LET span == boundary(frequency, anchor, i - 1)
     IN [sequence |-> i, start |-> span.start, end |-> span.end,
         pay |-> addDays(span.end, offset)]]
=============================================================================
