---------------------------- MODULE Calendar_proofs ----------------------------
(***************************************************************************)
(* The calendar for every date since 2000: months and years are as long as *)
(* they are, the month of a day exists and is unique.  From that, the pay  *)
(* periods of a group have no gap for any anchor, frequency and number of  *)
(* instalments, and the next run of a report schedule is on time.          *)
(***************************************************************************)
EXTENDS PayPeriods, Insights, FiniteSums

-----------------------------------------------------------------------------
(* Months of a year. *)

LEMMA YearStep ==
    ASSUME NEW y \in Int
    PROVE  /\ LeapDaysBefore(y) \in Int
           /\ LeapDaysBefore(y + 1) = LeapDaysBefore(y) + (IF LeapYear(y) THEN 1 ELSE 0)
BY DEF LeapDaysBefore, LeapYear

\* Month k of year y, from 0.
MonthIn(y, k) == 12 * y + k

\* A month is one of the twelve of a year.
LEMMA MonthParts ==
    ASSUME NEW m \in Int
    PROVE  \E y \in Int, k \in 0..11 : m = MonthIn(y, k)
<1>1. /\ m \div 12 \in Int /\ m % 12 \in 0..11 /\ m = 12 * (m \div 12) + (m % 12)
  OBVIOUS
<1> QED  BY <1>1 DEF MonthIn

LEMMA StartOfMonth ==
    ASSUME NEW y \in Int, NEW k \in 0..11
    PROVE  MonthStart(MonthIn(y, k)) =
             365 * (y - 2000) + LeapDaysBefore(y) + DaysBefore[k + 1]
               + (IF k > 1 /\ LeapYear(y) THEN 1 ELSE 0)
<1>1. k + 1 > 2 <=> k > 1
  OBVIOUS
<1>2. (12 * y + k) \div 12 = y /\ (12 * y + k) % 12 = k
  OBVIOUS
<1> QED  BY <1>1, <1>2 DEF MonthStart, MonthIn

LEMMA NextMonth ==
    ASSUME NEW y \in Int, NEW k \in 0..11
    PROVE  /\ MonthIn(y, k) \in Int
           /\ MonthIn(y, k) + 1 = IF k = 11 THEN MonthIn(y + 1, 0) ELSE MonthIn(y, k + 1)
BY DEF MonthIn

MonthDays == <<31, 28, 31, 30, 31, 30, 31, 31, 30, 31, 30, 31>>

LEMMA MonthTable ==
    ASSUME NEW k \in 0..10
    PROVE  /\ DaysBefore[k + 1] \in 0..304 /\ DaysBefore[k + 2] = DaysBefore[k + 1] + MonthDays[k + 1]
           /\ MonthDays[k + 1] \in {28, 30, 31} /\ (MonthDays[k + 1] = 28 <=> k = 1)
BY DEF DaysBefore, MonthDays

LEMMA LengthOfMonth ==
    ASSUME NEW y \in Int, NEW k \in 0..11
    PROVE  /\ MonthStart(MonthIn(y, k)) \in Int
           /\ daysInMonth(MonthIn(y, k)) =
                MonthDays[k + 1] + (IF k = 1 /\ LeapYear(y) THEN 1 ELSE 0)
<1>0. LeapDaysBefore(y) \in Int /\ LeapDaysBefore(y + 1) \in Int
  BY YearStep
<1>1. CASE k < 11
  <2>1. PICK j \in 0..11 : j = k + 1
    BY <1>1
  <2>2. k \in 0..10 /\ MonthIn(y, k) + 1 = MonthIn(y, j) /\ j + 1 = k + 2 /\ (j > 1 <=> k > 0)
    <3>1. MonthIn(y, k) + 1 = MonthIn(y, j)
      BY <2>1 DEF MonthIn
    <3> QED  BY <1>1, <2>1, <3>1
  <2>3. MonthStart(MonthIn(y, j)) =
             365 * (y - 2000) + LeapDaysBefore(y) + DaysBefore[j + 1]
               + (IF j > 1 /\ LeapYear(y) THEN 1 ELSE 0)
    BY StartOfMonth
  <2>4. MonthStart(MonthIn(y, k)) =
             365 * (y - 2000) + LeapDaysBefore(y) + DaysBefore[k + 1]
               + (IF k > 1 /\ LeapYear(y) THEN 1 ELSE 0)
    BY StartOfMonth
  <2>5. /\ DaysBefore[k + 1] \in 0..304 /\ DaysBefore[j + 1] = DaysBefore[k + 1] + MonthDays[k + 1]
        /\ MonthDays[k + 1] \in {28, 30, 31}
    BY <2>2, MonthTable
  <2>6. daysInMonth(MonthIn(y, k)) = MonthStart(MonthIn(y, j)) - MonthStart(MonthIn(y, k))
    BY <2>2 DEF daysInMonth
  <2>7. (k > 1 <=> k > 0 /\ k # 1) /\ 365 * (y - 2000) \in Int
    OBVIOUS
  <2> QED  BY <1>0, <2>2, <2>3, <2>4, <2>5, <2>6, <2>7
<1>2. CASE k = 11
  <2>1. MonthIn(y, k) + 1 = MonthIn(y + 1, 0) /\ y + 1 \in Int /\ 0 \in 0..11
    BY <1>2, NextMonth
  <2>2. MonthStart(MonthIn(y + 1, 0)) = 365 * ((y + 1) - 2000) + LeapDaysBefore(y + 1)
    BY <2>1, StartOfMonth, <1>0 DEF DaysBefore
  <2>3. MonthStart(MonthIn(y, k)) =
          365 * (y - 2000) + LeapDaysBefore(y) + 334 + (IF LeapYear(y) THEN 1 ELSE 0)
    BY <1>2, StartOfMonth DEF DaysBefore
  <2>4. MonthDays[12] = 31
    BY DEF MonthDays
  <2> QED  BY <1>0, <1>2, <2>1, <2>2, <2>3, <2>4, YearStep DEF daysInMonth
<1> QED  BY <1>1, <1>2

\* A month has 28 to 31 days, and the same number a year later, but for February.
LEMMA MonthLength ==
    ASSUME NEW m \in Int
    PROVE  MonthStart(m) \in Int /\ daysInMonth(m) \in 28..31 /\ MonthStart(m + 1) = MonthStart(m) + daysInMonth(m)
<1>1. PICK y \in Int, k \in 0..11 : m = MonthIn(y, k)
  BY MonthParts
<1>2. PICK j \in 1..12 : j = k + 1
  OBVIOUS
<1>3. MonthDays[j] \in {28, 30, 31} /\ (MonthDays[j] = 28 <=> j = 2)
  BY DEF MonthDays
<1>4. daysInMonth(m) = MonthDays[j] + (IF k = 1 /\ LeapYear(y) THEN 1 ELSE 0)
  BY <1>1, <1>2, LengthOfMonth
<1>5. daysInMonth(m) \in 28..31
  BY <1>2, <1>3, <1>4
<1>6. MonthStart(m) \in Int /\ MonthStart(m + 1) \in Int
  <2>1. \A n \in Int : MonthStart(n) \in Int
    BY MonthParts, LengthOfMonth
  <2> QED  BY <2>1
<1> QED  BY <1>5, <1>6 DEF daysInMonth

\* Months do not overlap, and none is longer than 31 days.
LEMMA MonthsApart ==
    ASSUME NEW m \in Int, NEW n \in Nat
    PROVE  /\ MonthStart(m) + 28 * n <= MonthStart(m + n)
           /\ MonthStart(m + n) <= MonthStart(m) + 31 * n
<1> DEFINE T == {k \in Nat : ~ /\ MonthStart(m) + 28 * k <= MonthStart(m + k)
                               /\ MonthStart(m + k) <= MonthStart(m) + 31 * k}
<1> SUFFICES ASSUME T # {} PROVE FALSE
  OBVIOUS
<1>1. PICK k \in T : \A j \in T : k <= j
  <2>1. T \subseteq Nat
    OBVIOUS
  <2> HIDE DEF T
  <2> QED  BY <2>1, LeastNatural
<1>2. MonthStart(m) \in Int
  BY MonthLength
<1>3. k # 0
  BY <1>2
<1>4. PICK j \in Nat : k = j + 1 /\ j \notin T
  <2>1. k - 1 \in Nat /\ k = (k - 1) + 1 /\ k - 1 \notin T
    BY <1>1, <1>3
  <2> QED  BY <2>1
<1>5. PICK q \in Int : q = m + j /\ m + k = q + 1
  BY <1>4
<1>6. MonthStart(m) + 28 * j <= MonthStart(q) /\ MonthStart(q) <= MonthStart(m) + 31 * j
  BY <1>4, <1>5
<1>7. MonthStart(q) \in Int /\ daysInMonth(q) \in 28..31 /\ MonthStart(q + 1) = MonthStart(q) + daysInMonth(q)
  BY MonthLength
<1> QED  BY <1>2, <1>4, <1>5, <1>6, <1>7

LEMMA Year2000 == MonthStart(24000) = 0
<1>1. 24000 \div 12 = 2000 /\ 24000 % 12 = 0
  OBVIOUS
<1> QED  BY <1>1 DEF MonthStart, LeapDaysBefore, DaysBefore

\* A day is in one month, and only in one.
InMonth(day, m) == MonthStart(m) <= day /\ day < MonthStart(m + 1)

LEMMA OneMonth ==
    ASSUME NEW day \in Int, NEW m \in Int, NEW n \in Int, InMonth(day, m), InMonth(day, n)
    PROVE  m = n
<1>1. ASSUME NEW a \in Int, NEW b \in Int, InMonth(day, a), InMonth(day, b), a < b
      PROVE  FALSE
  <2>1. PICK j \in Nat, c \in Int : c = a + 1 /\ b = c + j
    <3>1. b - (a + 1) \in Nat /\ a + 1 \in Int /\ b = (a + 1) + (b - (a + 1))
      BY <1>1
    <3> QED  BY <3>1
  <2>2. MonthStart(c) + 28 * j <= MonthStart(c + j)
    BY MonthsApart
  <2>3. MonthStart(c) \in Int /\ MonthStart(b) \in Int
    BY MonthLength
  <2> QED  BY <1>1, <2>1, <2>2, <2>3 DEF InMonth
<1> QED  BY <1>1

LEMMA SomeMonth ==
    ASSUME NEW day \in Nat
    PROVE  \E month \in (24000 + (day \div 31))..(24000 + (day \div 28)) :
              month \in Int /\ month >= 24000 /\ InMonth(day, month)
<1> DEFINE T == {k \in Nat : day < MonthStart(24000 + (k + 1))}
<1>1. day \in T
  <2>1. day + 1 \in Nat
    OBVIOUS
  <2>2. PICK n \in Nat : n = day + 1
    BY <2>1
  <2>3. MonthStart(24000) + 28 * n <= MonthStart(24000 + n) /\ MonthStart(24000 + n) \in Int
    BY MonthsApart, MonthLength
  <2> QED  BY <2>2, <2>3, Year2000
<1>2. PICK k \in T : \A j \in T : k <= j
  <2>1. T \subseteq Nat
    OBVIOUS
  <2> HIDE DEF T
  <2> QED  BY <1>1, <2>1, LeastNatural
<1>3. PICK month \in Int, n \in Nat : month = 24000 + k /\ n = k + 1 /\ month + 1 = 24000 + n
  OBVIOUS
<1>4. /\ MonthStart(24000) + 28 * k <= MonthStart(month)
      /\ MonthStart(24000 + n) <= MonthStart(24000) + 31 * n
      /\ MonthStart(month) \in Int /\ MonthStart(24000 + n) \in Int
  <2>1. MonthStart(24000) + 28 * k <= MonthStart(24000 + k)
    BY MonthsApart
  <2>2. MonthStart(24000 + n) <= MonthStart(24000) + 31 * n
    BY MonthsApart
  <2>3. 24000 + n \in Int /\ \A i \in Int : MonthStart(i) \in Int
    BY MonthLength
  <2> QED  BY <1>3, <2>1, <2>2, <2>3
<1>5. MonthStart(month) <= day
  <2>1. CASE k = 0
    BY <1>3, <2>1, Year2000
  <2>2. CASE k # 0
    <3>1. k - 1 \in Nat /\ k - 1 \notin T /\ 24000 + ((k - 1) + 1) = month
      BY <1>2, <1>3, <2>2
    <3>2. ~(day < MonthStart(month))
      BY <3>1
    <3> QED  BY <1>4, <3>2
  <2> QED  BY <2>1, <2>2
<1>6. day < MonthStart(month + 1)
  BY <1>3
<1>7. 28 * k <= day /\ day < 31 * (k + 1)
  BY <1>3, <1>4, <1>5, <1>6, Year2000
<1>8. k <= day \div 28 /\ day \div 31 <= k /\ day \div 28 \in Int /\ day \div 31 \in Int
  BY <1>7
<1>9. month \in (24000 + (day \div 31))..(24000 + (day \div 28)) /\ month >= 24000
  BY <1>3, <1>8
<1> QED  BY <1>3, <1>5, <1>6, <1>9 DEF InMonth

\* MonthOf finds the month of a day.
LEMMA MonthFound ==
    ASSUME NEW day \in Nat
    PROVE  MonthOf(day) \in Int /\ MonthOf(day) >= 24000 /\ InMonth(day, MonthOf(day))
<1> DEFINE R == (24000 + (day \div 31))..(24000 + (day \div 28))
<1>1. \E month \in R : InMonth(day, month)
  BY SomeMonth
<1>2. MonthOf(day) \in R /\ InMonth(day, MonthOf(day))
  BY <1>1 DEF MonthOf, InMonth
<1>3. \A month \in R : month \in Int /\ month >= 24000
  <2>1. day \div 31 \in Nat /\ day \div 28 \in Nat
    OBVIOUS
  <2> QED  BY <2>1
<1> QED  BY <1>2, <1>3

LEMMA MonthIs ==
    ASSUME NEW day \in Nat, NEW m \in Int, InMonth(day, m)
    PROVE  MonthOf(day) = m
BY MonthFound, OneMonth

LEMMA DayFound ==
    ASSUME NEW day \in Nat
    PROVE  /\ DayOfMonth(day) \in 1..daysInMonth(MonthOf(day))
           /\ day = MonthStart(MonthOf(day)) + DayOfMonth(day) - 1
<1>1. PICK m \in Int : m = MonthOf(day) /\ InMonth(day, m)
  BY MonthFound
<1>2. MonthStart(m) \in Int /\ MonthStart(m + 1) = MonthStart(m) + daysInMonth(m) /\ daysInMonth(m) \in Int
  BY MonthLength
<1> QED  BY <1>1, <1>2 DEF DayOfMonth, InMonth

\* The first of a month since 2000 is in it.
LEMMA FirstOfMonth ==
    ASSUME NEW m \in Int, m >= 24000
    PROVE  MonthStart(m) \in Nat /\ MonthOf(MonthStart(m)) = m /\ DayOfMonth(MonthStart(m)) = 1
<1>1. PICK n \in Nat : m = 24000 + n
  <2>1. m - 24000 \in Nat /\ m = 24000 + (m - 24000)
    OBVIOUS
  <2> QED  BY <2>1
<1>2. MonthStart(24000) + 28 * n <= MonthStart(24000 + n) /\ MonthStart(m) \in Int
  BY MonthsApart, MonthLength
<1>3. MonthStart(m) \in Nat
  BY <1>1, <1>2, Year2000
<1>4. InMonth(MonthStart(m), m)
  BY <1>3, MonthLength DEF InMonth
<1>5. MonthOf(MonthStart(m)) = m
  BY <1>3, <1>4, MonthIs
<1> QED  BY <1>3, <1>5 DEF DayOfMonth

-----------------------------------------------------------------------------
(* Months from an anchor. *)

\* Day d of month m, or its last one.
Clamped(m, d) == MonthStart(m) + (IF d < daysInMonth(m) THEN d ELSE daysInMonth(m)) - 1

LEMMA MonthsFrom ==
    ASSUME NEW day \in Nat
    PROVE  \E m \in Int, d \in 1..31 :
              /\ m = MonthOf(day) /\ m >= 24000 /\ d <= daysInMonth(m) /\ InMonth(day, m)
              /\ day = MonthStart(m) + d - 1
              /\ \A n : addMonths(day, n) = Clamped(m + n, d)
<1>1. PICK m \in Int : m = MonthOf(day) /\ m >= 24000 /\ InMonth(day, m)
  BY MonthFound
<1>2. DayOfMonth(day) \in 1..daysInMonth(m) /\ day = MonthStart(m) + DayOfMonth(day) - 1
  BY <1>1, DayFound
<1>3. daysInMonth(m) \in 28..31
  BY MonthLength
<1>4. DayOfMonth(day) \in 1..31 /\ DayOfMonth(day) <= daysInMonth(m)
  BY <1>2, <1>3
<1>5. \A n : addMonths(day, n) = Clamped(m + n, DayOfMonth(day))
  BY <1>1 DEF addMonths, Clamped
<1> QED  BY <1>1, <1>2, <1>4, <1>5

LEMMA MonthSpan ==
    ASSUME NEW m \in Int, NEW d \in 1..31
    PROVE  /\ Clamped(m, d) \in Int
           /\ Clamped(m + 1, d) - Clamped(m, d) \in 28..31
<1>1. /\ MonthStart(m) \in Int /\ daysInMonth(m) \in 28..31
      /\ MonthStart(m + 1) = MonthStart(m) + daysInMonth(m)
  BY MonthLength
<1>2. daysInMonth(m + 1) \in 28..31
  <2>1. m + 1 \in Int
    OBVIOUS
  <2> QED  BY <2>1, MonthLength
<1> QED  BY <1>1, <1>2 DEF Clamped

\* The 29th of February stays the last of February.
LEMMA YearSpan ==
    ASSUME NEW m \in Int, NEW d \in 1..31, m % 12 = 1 => d <= 29
    PROVE  Clamped(m + 12, d) - Clamped(m, d) \in 365..366
<1>1. PICK y \in Int, k \in 0..11 : m = MonthIn(y, k)
  BY MonthParts
<1>2. PICK z \in Int : z = y + 1 /\ m + 12 = MonthIn(z, k) /\ z - 1 = y
  <2>1. y + 1 \in Int /\ m + 12 = MonthIn(y + 1, k) /\ (y + 1) - 1 = y
    BY <1>1 DEF MonthIn
  <2> QED  BY <2>1
<1>3. /\ LeapDaysBefore(y) \in Int
      /\ LeapDaysBefore(z) = LeapDaysBefore(y) + (IF LeapYear(y) THEN 1 ELSE 0)
  BY <1>2, YearStep
<1> DEFINE thisLeap == IF LeapYear(y) THEN 1 ELSE 0
           nextLeap == IF LeapYear(z) THEN 1 ELSE 0
<1>4. thisLeap \in 0..1 /\ nextLeap \in 0..1
  OBVIOUS
<1>5. /\ MonthStart(m) = 365 * (y - 2000) + LeapDaysBefore(y) + DaysBefore[k + 1]
                           + (IF k > 1 THEN thisLeap ELSE 0)
      /\ MonthStart(m + 12) = 365 * (z - 2000) + LeapDaysBefore(z) + DaysBefore[k + 1]
                           + (IF k > 1 THEN nextLeap ELSE 0)
  BY <1>1, <1>2, StartOfMonth
<1>6. PICK b \in Int, l \in 28..31 : b = DaysBefore[k + 1] /\ l = MonthDays[k + 1] /\ (k = 1 => l = 28)
  <2>1. DaysBefore[k + 1] \in Int
    BY DEF DaysBefore
  <2>2. MonthDays[k + 1] \in 28..31 /\ (k = 1 => MonthDays[k + 1] = 28)
    BY DEF MonthDays
  <2> QED  BY <2>1, <2>2
<1>7. /\ daysInMonth(m) = l + (IF k = 1 THEN thisLeap ELSE 0)
      /\ daysInMonth(m + 12) = l + (IF k = 1 THEN nextLeap ELSE 0)
  BY <1>1, <1>2, <1>6, LengthOfMonth
<1>8. MonthStart(m) \in Int /\ MonthStart(m + 12) =
        MonthStart(m) + 365 + (IF k > 1 THEN nextLeap ELSE thisLeap)
  <2>1. LeapDaysBefore(z) = LeapDaysBefore(y) + thisLeap
    BY <1>3
  <2>2. 365 * (z - 2000) = 365 * (y - 2000) + 365
    BY <1>2
  <2> HIDE DEF thisLeap, nextLeap
  <2> QED  BY <1>3, <1>4, <1>5, <1>6, <2>1, <2>2
<1>9. k = 1 => d <= 29
  BY <1>1 DEF MonthIn
<1> HIDE DEF thisLeap, nextLeap
<1> QED  BY <1>4, <1>6, <1>7, <1>8, <1>9 DEF Clamped

\* The first of a month, as semi-monthly periods reckon it.
LEMMA FirstFrom ==
    ASSUME NEW day \in Nat, NEW n \in Nat
    PROVE  LET m == MonthOf(day) + n
           IN  m \in Int /\ m >= 24000 /\ MonthOf(addMonths(MonthStart(MonthOf(day)), n)) = m
<1>1. PICK a \in Int, m \in Int : a = MonthOf(day) /\ a >= 24000 /\ m = a + n /\ m >= 24000
  <2>1. \A a \in Int : a >= 24000 => a + n \in Int /\ a + n >= 24000
    OBVIOUS
  <2> QED  BY <2>1, MonthFound
<1>2. MonthStart(a) \in Nat /\ MonthOf(MonthStart(a)) = a /\ DayOfMonth(MonthStart(a)) = 1
  BY <1>1, FirstOfMonth
<1>3. MonthStart(m) \in Nat /\ daysInMonth(m) \in 28..31
  BY <1>1, FirstOfMonth, MonthLength
<1>4. addMonths(MonthStart(a), n) = MonthStart(m)
  BY <1>1, <1>2, <1>3 DEF addMonths
<1> QED  BY <1>1, <1>4, FirstOfMonth

-----------------------------------------------------------------------------
(* Periods. *)

LEMMA WeeksTile ==
    ASSUME NEW anchor \in Nat, NEW w \in {7, 14}, NEW i \in Nat
    PROVE  /\ Days(anchor, w, i).end - Days(anchor, w, i).start + 1 = w
           /\ Days(anchor, w, i + 1).start = Days(anchor, w, i).end + 1
           /\ Days(anchor, w, 0).start = anchor
<1>1. /\ w * i \in Int /\ w * (i + 1) = w * i + w /\ w * 0 = 0
  OBVIOUS
<1> QED  BY <1>1 DEF Days, Span, addDays

LEMMA MonthsTile ==
    ASSUME NEW anchor \in Nat, NEW n \in {1, 12}, NEW i \in Nat
    PROVE  /\ Months(anchor, n, i).end - Months(anchor, n, i).start + 1
                \in IF n = 1 THEN 28..31 ELSE 365..366
           /\ Months(anchor, n, i + 1).start = Months(anchor, n, i).end + 1
           /\ Months(anchor, n, 0).start = anchor
<1>1. PICK m \in Int, d \in 1..31 :
         /\ d <= daysInMonth(m) /\ anchor = MonthStart(m) + d - 1
         /\ \A j : addMonths(anchor, j) = Clamped(m + j, d)
  BY MonthsFrom
<1>2. PICK p \in Int : p = m + n * i /\ m + n * (i + 1) = p + n /\ p % 12 = (IF n = 12 THEN m % 12 ELSE p % 12)
  <2>1. m + n * i \in Int /\ m + n * (i + 1) = (m + n * i) + n
    OBVIOUS
  <2>2. n = 12 => (m + n * i) % 12 = m % 12
    OBVIOUS
  <2> QED  BY <2>1, <2>2
<1>3. Clamped(p, d) \in Int /\ Clamped(p + 1, d) - Clamped(p, d) \in 28..31
  BY MonthSpan
<1>4. CASE n = 1
  <2>1. Clamped(p + 1, d) \in Int
    <3>1. p + 1 \in Int
      OBVIOUS
    <3> QED  BY <3>1, MonthSpan
  <2>2. Clamped(m + 0, d) = anchor /\ n * 0 = 0
    BY <1>1, MonthLength DEF Clamped
  <2> QED  BY <1>1, <1>2, <1>3, <1>4, <2>1, <2>2 DEF Months, Span, addDays
<1>5. CASE n = 12
  <2>1. Clamped(p + 12, d) \in Int
    <3>1. p + 12 \in Int
      OBVIOUS
    <3> QED  BY <3>1, MonthSpan
  <2>2. Clamped(m + 0, d) = anchor /\ n * 0 = 0
    BY <1>1, MonthLength DEF Clamped
  <2>3. Clamped(p + 12, d) - Clamped(p, d) \in 365..366
    <3>1. m % 12 = 1 => d <= 29
      <4>1. PICK y \in Int, k \in 0..11 : m = MonthIn(y, k)
        BY MonthParts
      <4>2. m % 12 = k /\ MonthDays[2] = 28
        BY <4>1 DEF MonthIn, MonthDays
      <4>3. daysInMonth(m) = MonthDays[k + 1] + (IF k = 1 /\ LeapYear(y) THEN 1 ELSE 0)
        BY <4>1, LengthOfMonth
      <4>4. k = 1 => daysInMonth(m) <= 29
        BY <4>2, <4>3
      <4>5. daysInMonth(m) \in Int
        BY MonthLength
      <4> HIDE DEF MonthDays
      <4> QED  BY <1>1, <4>2, <4>4, <4>5
    <3> QED  BY <1>2, <1>5, <3>1, YearSpan
  <2> QED  BY <1>1, <1>2, <1>3, <1>5, <2>1, <2>2, <2>3 DEF Months, Span, addDays
<1> QED  BY <1>4, <1>5

LEMMA HalvesTile ==
    ASSUME NEW anchor \in Nat, NEW i \in Nat
    PROVE  /\ semiMonthly(anchor, i).end - semiMonthly(anchor, i).start + 1 \in 13..16
           /\ semiMonthly(anchor, i + 1).start = semiMonthly(anchor, i).end + 1
           /\ semiMonthly(anchor, 0).start <= anchor
           /\ semiMonthly(anchor, 0).start > anchor - 31
<1> DEFINE Nth(n) == MonthOf(addMonths(MonthStart(MonthOf(anchor)), n))
<1>1. PICK a \in Int : /\ a = MonthOf(anchor) /\ InMonth(anchor, a)
                       /\ \A n \in Nat : Nth(n) = a + n
  <2>1. MonthOf(anchor) \in Int /\ InMonth(anchor, MonthOf(anchor))
    BY MonthFound
  <2>2. ASSUME NEW n \in Nat PROVE Nth(n) = MonthOf(anchor) + n
    BY FirstFrom
  <2> HIDE DEF Nth
  <2> QED  BY <2>1, <2>2
<1>2. PICK h \in Nat : /\ h = i \div 2 /\ (i % 2 = 0 \/ i % 2 = 1)
                       /\ (i % 2 = 0 => (i + 1) \div 2 = h /\ (i + 1) % 2 = 1)
                       /\ (i % 2 = 1 => (i + 1) \div 2 = h + 1 /\ (i + 1) % 2 = 0)
  <2>1. i \div 2 \in Nat
    OBVIOUS
  <2> QED  BY <2>1
<1>3. PICK m \in Int : m = a + h /\ a + (h + 1) = m + 1
  OBVIOUS
<1>4. Nth(h) = m /\ Nth(h + 1) = m + 1 /\ Nth(0) = a
  <2>1. h + 1 \in Nat /\ 0 \in Nat
    OBVIOUS
  <2>2. Nth(h) = a + h /\ Nth(h + 1) = a + (h + 1) /\ Nth(0) = a + 0
    BY <1>1, <2>1
  <2> QED  BY <1>3, <2>2
<1>5. /\ MonthStart(m) \in Int /\ daysInMonth(m) \in 28..31
      /\ MonthStart(m + 1) = MonthStart(m) + daysInMonth(m)
  BY MonthLength
<1>6. semiMonthly(anchor, 0).start = MonthStart(a)
  <2>1. 0 \div 2 = 0 /\ 0 % 2 = 0
    OBVIOUS
  <2> QED  BY <1>4, <2>1 DEF semiMonthly, Span
<1>7. MonthStart(a) <= anchor /\ MonthStart(a) > anchor - 31
  BY <1>1, MonthLength DEF InMonth
<1>8. CASE i % 2 = 0
  <2>1. semiMonthly(anchor, i) = Span(MonthStart(m), MonthStart(m) + 14)
    BY <1>2, <1>4, <1>8 DEF semiMonthly
  <2>2. semiMonthly(anchor, i + 1).start = MonthStart(m) + 15
    BY <1>2, <1>4, <1>8 DEF semiMonthly, Span
  <2> QED  BY <1>5, <1>6, <1>7, <2>1, <2>2 DEF Span
<1>9. CASE i % 2 = 1
  <2>1. semiMonthly(anchor, i) = Span(MonthStart(m) + 15, MonthStart(m) + daysInMonth(m) - 1)
    BY <1>2, <1>4, <1>9 DEF semiMonthly
  <2>2. semiMonthly(anchor, i + 1).start = MonthStart(m + 1)
    BY <1>2, <1>4, <1>9 DEF semiMonthly, Span
  <2> QED  BY <1>5, <1>6, <1>7, <2>1, <2>2 DEF Span
<1> QED  BY <1>2, <1>8, <1>9

\* Periods of any frequency follow one another and are as long as they should be.
LEMMA BoundariesTile ==
    ASSUME NEW frequency \in Frequencies, NEW anchor \in Nat, NEW i \in Nat
    PROVE  /\ boundary(frequency, anchor, i).end - boundary(frequency, anchor, i).start + 1
                \in Lengths[frequency]
           /\ boundary(frequency, anchor, i + 1).start = boundary(frequency, anchor, i).end + 1
           /\ boundary(frequency, anchor, 0).start <= anchor
           /\ boundary(frequency, anchor, 0).start > anchor - 31
<1>1. CASE frequency = "WEEKLY"
  BY <1>1, WeeksTile DEF boundary, Lengths
<1>2. CASE frequency = "BIWEEKLY"
  BY <1>2, WeeksTile DEF boundary, Lengths
<1>3. CASE frequency = "MONTHLY"
  BY <1>3, MonthsTile DEF boundary, Lengths
<1>4. CASE frequency = "ANNUAL"
  BY <1>4, MonthsTile DEF boundary, Lengths
<1>5. CASE frequency = "SEMI_MONTHLY"
  BY <1>5, HalvesTile DEF boundary, Lengths
<1> QED  BY <1>1, <1>2, <1>3, <1>4, <1>5 DEF Frequencies

-----------------------------------------------------------------------------
(* The rows of a group. *)

\* The i-th row of the group's calendar, and its rows from one number to another.
PeriodRow(i) ==
  LET span == boundary(group.frequency, group.anchor, i - 1)
  IN [sequence |-> i, start |-> span.start, end |-> span.end,
      pay |-> addDays(span.end, group.offset)]

PeriodRows(first, last) == {PeriodRow(i) : i \in first..last}

\* The rows are the first ones of the calendar, and what a request is about to insert are
\* rows in a row, of which the first is missing or already there.
PeriodsInv ==
  /\ group = NoGroup => periods = {} /\ \A c \in Clerks : reading[c] = IdleClerk
  /\ group # NoGroup => group.frequency \in Frequencies /\ group.anchor \in Anchors
  /\ DOMAIN reading = Clerks
  /\ \E n \in 0..MaxPeriods :
       /\ periods = PeriodRows(1, n)
       /\ \A c \in Clerks : reading[c] # IdleClerk =>
            \E e \in 0..n, last \in 0..MaxPeriods : reading[c] = PeriodRows(e + 1, last)

LEMMA RowFields ==
    ASSUME NEW i
    PROVE  /\ PeriodRow(i).sequence = i
           /\ PeriodRow(i).start = boundary(group.frequency, group.anchor, i - 1).start
           /\ PeriodRow(i).end = boundary(group.frequency, group.anchor, i - 1).end
BY DEF PeriodRow

\* A request inserts rows of the calendar.
LEMMA RowsBeyond ==
    ASSUME NEW existing \in Nat, NEW count \in Nat
    PROVE  PeriodsBeyond(existing, count) = PeriodRows(existing + 1, existing + count)
<1> DEFINE all == generatePayPeriods(group.frequency, group.anchor, existing + count, group.offset)
<1>1. all = [i \in 1..(existing + count) |-> PeriodRow(i)]
  BY DEF generatePayPeriods, PeriodRow
<1>2. ToSet(all) = {PeriodRow(i) : i \in 1..(existing + count)}
  <2> HIDE DEF all
  <2> QED  BY <1>1 DEF ToSet
<1>3. PeriodsBeyond(existing, count) = {p \in ToSet(all) : p.sequence > existing}
  BY DEF PeriodsBeyond
<1> HIDE DEF all
<1>4. ASSUME NEW p \in PeriodsBeyond(existing, count) PROVE p \in PeriodRows(existing + 1, existing + count)
  <2>1. PICK i \in 1..(existing + count) : p = PeriodRow(i)
    BY <1>2, <1>3
  <2>2. i > existing
    BY <1>3, <2>1, RowFields
  <2>3. i \in (existing + 1)..(existing + count)
    BY <2>2
  <2> QED  BY <2>1, <2>3 DEF PeriodRows
<1>5. ASSUME NEW p \in PeriodRows(existing + 1, existing + count) PROVE p \in PeriodsBeyond(existing, count)
  <2>1. PICK i \in (existing + 1)..(existing + count) : p = PeriodRow(i)
    BY DEF PeriodRows
  <2>2. i \in 1..(existing + count) /\ i > existing
    OBVIOUS
  <2>3. p.sequence = i
    BY <2>1, RowFields
  <2> QED  BY <1>2, <1>3, <2>1, <2>2, <2>3
<1> QED  BY <1>4, <1>5

\* As many rows as numbers.
LEMMA RowsCounted ==
    ASSUME NEW n \in Nat
    PROVE  IsFiniteSet(PeriodRows(1, n)) /\ Cardinality(PeriodRows(1, n)) = n
<1> DEFINE f == [i \in 1..n |-> PeriodRow(i)]
<1>1. f \in Bijection(1..n, PeriodRows(1, n))
  <2>1. f \in [1..n -> PeriodRows(1, n)]
    BY DEF PeriodRows
  <2>2. \A i, j \in 1..n : f[i] = f[j] => i = j
    BY RowFields
  <2>3. \A p \in PeriodRows(1, n) : \E i \in 1..n : f[i] = p
    BY DEF PeriodRows
  <2> HIDE DEF f
  <2> QED  BY <2>1, <2>2, <2>3 DEF Bijection, Injection, Surjection, IsInjective
<1>2. ExistsBijection(1..n, PeriodRows(1, n))
  BY <1>1 DEF ExistsBijection
<1>3. IsFiniteSet(1..n) /\ Cardinality(1..n) = n
  BY FS_Interval
<1> QED  BY <1>2, <1>3, FS_Bijection

\* Rows of the calendar, numbered from 1, have neither gaps nor overlaps.
LEMMA RowsTile ==
    ASSUME PeriodsInv
    PROVE  PeriodsTile
<1>1. PICK n \in 0..MaxPeriods : periods = PeriodRows(1, n)
  BY DEF PeriodsInv
<1>2. n \in Nat /\ Cardinality(periods) = n
  BY <1>1, RowsCounted, PayPeriodsAssumption
<1>3. {p.sequence : p \in periods} = 1..n
  <2>1. \A p \in periods : p.sequence \in 1..n
    BY <1>1, RowFields DEF PeriodRows
  <2>2. \A i \in 1..n : \E p \in periods : p.sequence = i
    BY <1>1, RowFields DEF PeriodRows
  <2> QED  BY <2>1, <2>2
<1>4. ASSUME NEW p \in periods
      PROVE  /\ p.end - p.start + 1 \in Lengths[group.frequency]
             /\ p.sequence = 1 => p.start <= group.anchor /\ p.start > group.anchor - 31
             /\ \A q \in periods : q.sequence = p.sequence + 1 => q.start = p.end + 1
  <2>1. group # NoGroup
    BY DEF PeriodsInv
  <2>2. PICK f \in Frequencies, a \in Nat : f = group.frequency /\ a = group.anchor
    BY <2>1, PayPeriodsAssumption DEF PeriodsInv
  <2>3. PICK i \in 1..n : p = PeriodRow(i)
    BY <1>1 DEF PeriodRows
  <2>4. PICK j \in Nat : j = i - 1 /\ (j + 1) = i
    <3>1. i - 1 \in Nat /\ (i - 1) + 1 = i
      BY <1>2
    <3> QED  BY <3>1
  <2>5. /\ p.sequence = i /\ p.start = boundary(f, a, j).start /\ p.end = boundary(f, a, j).end
    BY <2>2, <2>3, <2>4, RowFields
  <2>6. /\ p.end - p.start + 1 \in Lengths[f]
        /\ boundary(f, a, j + 1).start = p.end + 1
        /\ boundary(f, a, 0).start <= a /\ boundary(f, a, 0).start > a - 31
    BY <2>5, BoundariesTile
  <2>7. p.sequence = 1 => p.start <= a /\ p.start > a - 31
    BY <1>2, <2>4, <2>5, <2>6
  <2>8. ASSUME NEW q \in periods, q.sequence = p.sequence + 1
        PROVE  q.start = p.end + 1
    <3>1. PICK k \in 1..n : q = PeriodRow(k)
      BY <1>1 DEF PeriodRows
    <3>2. k = i + 1 /\ k - 1 = j + 1
      BY <1>2, <2>4, <2>5, <2>8, <3>1, RowFields
    <3>3. q.start = boundary(f, a, j + 1).start
      BY <2>2, <3>1, <3>2, RowFields
    <3> QED  BY <2>6, <3>3
  <2> QED  BY <2>2, <2>6, <2>7, <2>8
<1> QED  BY <1>2, <1>3, <1>4 DEF PeriodsTile

LEMMA NoRows == PeriodRows(1, 0) = {}
<1>1. 1..0 = {}
  OBVIOUS
<1> QED  BY <1>1 DEF PeriodRows

LEMMA PeriodsInitInv == PeriodsInit => PeriodsInv
<1> SUFFICES ASSUME PeriodsInit PROVE PeriodsInv
  OBVIOUS
<1>1. 0 \in 0..MaxPeriods
  BY PayPeriodsAssumption
<1> QED  BY <1>1, NoRows DEF PeriodsInit, PeriodsInv, NoGroup, IdleClerk

\* Rows follow from the group alone.
LEMMA SameRows ==
    ASSUME UNCHANGED group, NEW a, NEW b
    PROVE  PeriodRows(a, b)' = PeriodRows(a, b)
BY DEF PeriodRows, PeriodRow

LEMMA CreateGroupStep ==
    ASSUME PeriodsInv, NEW country, NEW currency, NEW frequency \in Frequencies,
           NEW anchor \in Anchors, NEW offset, CreateGroup(country, currency, frequency, anchor, offset)
    PROVE  PeriodsInv'
<1>1. /\ periods = {} /\ periods' = {} /\ reading' = reading
      /\ \A c \in Clerks : reading[c] = IdleClerk
  BY DEF CreateGroup, PeriodsInv
<1> DEFINE g == [country |-> country, currency |-> currency, frequency |-> frequency,
               anchor |-> anchor, offset |-> offset]
<1>2. group' = g
  BY DEF CreateGroup
<1>3. g.frequency = frequency /\ g.anchor = anchor /\ NoGroup.frequency = "none"
  BY DEF NoGroup
<1> HIDE DEF g
<1>4. group'.frequency = frequency /\ group'.anchor = anchor /\ group' # NoGroup
  BY <1>2, <1>3 DEF Frequencies
<1>5. PeriodRows(1, 0)' = {} /\ 0 \in 0..MaxPeriods
  <2>1. 1..0 = {}
    OBVIOUS
  <2> QED  BY <2>1, PayPeriodsAssumption DEF PeriodRows
<1> QED  BY <1>1, <1>4, <1>5 DEF PeriodsInv

LEMMA CountStep ==
    ASSUME PeriodsInv, NEW c \in Clerks, NEW count \in Counts, CountPeriods(c, count)
    PROVE  PeriodsInv'
<1>1. PICK n \in 0..MaxPeriods :
        /\ periods = PeriodRows(1, n)
        /\ \A d \in Clerks : reading[d] # IdleClerk =>
             \E e \in 0..n, last \in 0..MaxPeriods : reading[d] = PeriodRows(e + 1, last)
  BY DEF PeriodsInv
<1>2. n \in Nat /\ Cardinality(periods) = n /\ count \in Nat
  BY <1>1, RowsCounted, PayPeriodsAssumption
<1>3. /\ n + count <= MaxPeriods /\ group # NoGroup
      /\ reading' = [reading EXCEPT ![c] = PeriodRows(n + 1, n + count)]
      /\ UNCHANGED <<group, periods>>
  BY <1>2, RowsBeyond DEF CountPeriods
<1>4. n \in 0..n /\ n + count \in 0..MaxPeriods
  BY <1>2, <1>3, PayPeriodsAssumption
<1>5. ASSUME NEW d \in Clerks, reading'[d] # IdleClerk
      PROVE  \E e \in 0..n, last \in 0..MaxPeriods : reading'[d] = PeriodRows(e + 1, last)
  <2>1. CASE d = c
    BY <1>3, <1>4, <2>1 DEF PeriodsInv
  <2>2. CASE d # c
    BY <1>1, <1>3, <1>5, <2>2
  <2> QED  BY <2>1, <2>2
<1>6. \A a, b : PeriodRows(a, b)' = PeriodRows(a, b)
  BY <1>3, SameRows
<1> QED  BY <1>1, <1>3, <1>5, <1>6 DEF PeriodsInv

\* A request that read the rows before others were inserted finds its first number taken.
LEMMA InsertStep ==
    ASSUME PeriodsInv, NEW c \in Clerks, InsertPeriods(c)
    PROVE  PeriodsInv'
<1>1. PICK n \in 0..MaxPeriods :
        /\ periods = PeriodRows(1, n)
        /\ \A d \in Clerks : reading[d] # IdleClerk =>
             \E e \in 0..n, last \in 0..MaxPeriods : reading[d] = PeriodRows(e + 1, last)
  BY DEF PeriodsInv
<1>2. PICK e \in 0..n, last \in 0..MaxPeriods : reading[c] = PeriodRows(e + 1, last)
  BY <1>1 DEF InsertPeriods
<1>3. /\ reading[c] # {} /\ reading' = [reading EXCEPT ![c] = IdleClerk] /\ UNCHANGED group
      /\ \/ periods' = periods
         \/ /\ periods' = periods \cup reading[c]
            /\ \A p \in reading[c] : p.sequence \notin {q.sequence : q \in periods}
  BY DEF InsertPeriods, IdleClerk
<1>4. n \in Nat /\ e \in Nat /\ last \in Nat /\ MaxPeriods \in Nat
  BY PayPeriodsAssumption
<1>5. e + 1 <= last
  BY <1>2, <1>3, <1>4 DEF PeriodRows
<1>6. \E m \in n..MaxPeriods : periods' = PeriodRows(1, m)
  <2>1. CASE periods' = periods
    <3>1. n \in n..MaxPeriods
      BY <1>4
    <3> QED  BY <1>1, <2>1, <3>1
  <2>2. CASE /\ periods' = periods \cup reading[c]
             /\ \A p \in reading[c] : p.sequence \notin {q.sequence : q \in periods}
    <3>1. PeriodRow(e + 1) \in reading[c] /\ PeriodRow(e + 1).sequence = e + 1
      BY <1>2, <1>4, <1>5, RowFields DEF PeriodRows
    <3>2. \A i \in 1..n : PeriodRow(i) \in periods /\ PeriodRow(i).sequence = i
      BY <1>1, RowFields DEF PeriodRows
    <3>3. e = n
      <4>1. e + 1 \notin 1..n
        BY <2>2, <3>1, <3>2
      <4> QED  BY <1>4, <4>1
    <3>4. 1..last = 1..n \cup (n + 1)..last
      BY <1>4, <1>5, <3>3
    <3>5. PeriodRows(1, last) = PeriodRows(1, n) \cup PeriodRows(n + 1, last)
      BY <3>4 DEF PeriodRows
    <3>6. last \in n..MaxPeriods
      BY <1>4, <1>5, <3>3
    <3> QED  BY <1>1, <1>2, <2>2, <3>3, <3>5, <3>6
  <2> QED  BY <1>3, <2>1, <2>2
<1>7. PICK m \in n..MaxPeriods : periods' = PeriodRows(1, m)
  BY <1>6
<1>8. m \in 0..MaxPeriods /\ 0..n \subseteq 0..m
  BY <1>4
<1>9. ASSUME NEW d \in Clerks, reading'[d] # IdleClerk
      PROVE  \E k \in 0..m, l \in 0..MaxPeriods : reading'[d] = PeriodRows(k + 1, l)
  <2>1. reading'[d] = reading[d]
    BY <1>3, <1>9 DEF PeriodsInv
  <2> QED  BY <1>1, <1>8, <1>9, <2>1
<1>10. \A a, b : PeriodRows(a, b)' = PeriodRows(a, b)
  BY <1>3, SameRows
<1>11. group # NoGroup
  BY DEF PeriodsInv, InsertPeriods
<1>12. group' # NoGroup /\ group'.frequency \in Frequencies /\ group'.anchor \in Anchors
  BY <1>3, <1>11 DEF PeriodsInv
<1>13. DOMAIN reading' = Clerks
  BY <1>3 DEF PeriodsInv
<1> QED  BY <1>7, <1>8, <1>9, <1>10, <1>12, <1>13 DEF PeriodsInv

LEMMA PeriodsStep == PeriodsInv /\ [PeriodsNext]_periodVars => PeriodsInv'
<1> SUFFICES ASSUME PeriodsInv, [PeriodsNext]_periodVars PROVE PeriodsInv'
  OBVIOUS
<1>1. CASE UNCHANGED periodVars
  <2>1. UNCHANGED <<group, periods, reading>>
    BY <1>1 DEF periodVars
  <2>2. \A a, b : PeriodRows(a, b)' = PeriodRows(a, b)
    BY <2>1, SameRows
  <2> QED  BY <2>1, <2>2 DEF PeriodsInv
<1> QED  BY <1>1, CreateGroupStep, CountStep, InsertStep DEF PeriodsNext

\* The calendar of a pay group has no gap and no overlap for any anchor since 2000, any
\* frequency and any instalments, whoever generates them at the same time
\* (PayGroupsService.generatePeriods, which counts the rows before it inserts, and
\* generatePayPeriods): periods follow one another, month ends and leap years included.
THEOREM CalendarHasNoGaps == PeriodsSpec => []PeriodsTile
<1>1. PeriodsInv => PeriodsTile
  BY RowsTile
<1> QED  BY <1>1, PeriodsInitInv, PeriodsStep, PTL DEF PeriodsSpec

-----------------------------------------------------------------------------
(* Report schedules. *)

\* The hour that was asked for, after "from" and no later than the cadence allows.
LEMMA NextRunBounds ==
    ASSUME NEW cadence \in Cadences, NEW hour \in 0..23, NEW from \in Nat
    PROVE  LET next == computeNextRun(cadence, hour, from)
           IN  HourOf(next) = hour /\ from < next /\ next <= from + 24 * LongestWait[cadence]
<1>1. PICK day \in Nat : /\ day = DayOfInstant(from)
                         /\ 24 * day <= from /\ from < 24 * day + 24
  <2>1. from \div 24 \in Nat /\ 24 * (from \div 24) <= from /\ from < 24 * (from \div 24) + 24
    OBVIOUS
  <2> QED  BY <2>1 DEF DayOfInstant
<1> DEFINE today == 24 * day + hour
<1>2. /\ today \in Nat /\ DayOfInstant(today) = day
      /\ \A n \in Int : HourOf(24 * n + hour) = hour
  BY DEF DayOfInstant, HourOf
<1>3. HourOf(today) = hour
  BY <1>2
<1>4. LongestWait[cadence] \in {1, 7, 31}
  BY DEF LongestWait, Cadences
<1>5. CASE today > from
  <2>1. computeNextRun(cadence, hour, from) = today
    BY <1>1, <1>2, <1>5 DEF computeNextRun
  <2> HIDE DEF today
  <2>2. today <= from + 24
    BY <1>1 DEF today
  <2> QED  BY <1>2, <1>3, <1>4, <1>5, <2>1, <2>2
<1>6. CASE today <= from
  <2> DEFINE next == IF cadence = "MONTHLY"
                     THEN MonthStart(MonthOf(day) + 1) + DayOfMonth(day) - 1
                     ELSE day + STEP_DAYS[cadence]
  <2>1. computeNextRun(cadence, hour, from) = 24 * next + hour
    <3> HIDE DEF today
    <3>1. computeNextRun(cadence, hour, from) = Later(cadence, today)
      BY <1>1, <1>6 DEF computeNextRun, today
    <3> QED  BY <1>2, <1>3, <3>1 DEF Later
  <2>2. next \in Int /\ day < next /\ next <= day + LongestWait[cadence]
    <3>1. CASE cadence = "MONTHLY"
      <4>1. PICK m \in Int : m = MonthOf(day)
        BY MonthFound
      <4>2. day = MonthStart(m) + DayOfMonth(day) - 1 /\ DayOfMonth(day) \in 1..daysInMonth(m)
        BY <4>1, DayFound
      <4>3. /\ MonthStart(m) \in Int /\ daysInMonth(m) \in 28..31
            /\ MonthStart(m + 1) = MonthStart(m) + daysInMonth(m)
        BY MonthLength
      <4>4. next = day + daysInMonth(m)
        BY <3>1, <4>1, <4>2, <4>3
      <4> HIDE DEF next
      <4> QED  BY <3>1, <4>3, <4>4 DEF LongestWait
    <3>2. CASE cadence # "MONTHLY"
      BY <3>2 DEF Cadences, STEP_DAYS, LongestWait
    <3> QED  BY <3>1, <3>2
  <2> HIDE DEF next
  <2>3. HourOf(24 * next + hour) = hour
    BY <1>2, <2>2
  <2>4. from < 24 * next + hour /\ 24 * next + hour <= from + 24 * LongestWait[cadence]
    BY <1>1, <1>4, <1>6, <2>2
  <2> QED  BY <2>1, <2>3, <2>4
<1> QED  BY <1>1, <1>2, <1>5, <1>6

OnGrid(s) ==
  s.mixed \/ /\ HourOf(s.next) = s.hour
             /\ s.since < s.next
             /\ s.next <= s.since + 24 * LongestWait[s.cadence]

ScheduleOK(s) ==
  /\ DOMAIN s = {"cadence", "hour", "active", "since", "mixed", "next"}
  /\ s.cadence \in Cadences /\ s.hour \in Hours /\ OnGrid(s)

EditOK(edit) ==
  /\ edit.report \in ReportIds /\ Scheduled(edit.report)
  /\ edit.change \in Changes /\ edit.cadence \in Cadences /\ edit.hour \in Hours

ReportsOK ==
  /\ DOMAIN reports = ReportIds
  /\ \A r \in ReportIds : Stored(r) => DOMAIN reports[r] = {"name", "dataset", "spec"}

\* Schedules belong to reports that are kept and have the values that a schedule may have; and
\* an update that has read its schedule still finds it.
SchedulesInv ==
  /\ now \in Nat
  /\ DOMAIN schedules = ReportIds /\ DOMAIN editing = Editors /\ ReportsOK
  /\ \A r \in ReportIds : Scheduled(r) => Stored(r) /\ ScheduleOK(schedules[r])
  /\ \A e \in Editors : editing[e] # NotEditing => EditOK(editing[e])

LEMMA SchedulesAreOnGrid == SchedulesInv => NextRunOnGrid
BY DEF SchedulesInv, NextRunOnGrid, ScheduleOK, OnGrid

LEMMA InsightsInitInv == InsightsInit => SchedulesInv
BY InsightsAssumption DEF InsightsInit, SchedulesInv, Scheduled, ReportsOK, Stored

\* Reports come and change, the schedules stay as they are.
LEMMA ReportsChange ==
    ASSUME SchedulesInv, UNCHANGED <<schedules, editing>>, now' \in Nat,
           ReportsOK', \A r \in ReportIds : Stored(r) => Stored(r)'
    PROVE  SchedulesInv'
BY DEF SchedulesInv, Scheduled, Stored, EditOK

LEMMA StoredReport ==
    ASSUME SchedulesInv, NEW r \in ReportIds, NEW report,
           DOMAIN report = {"name", "dataset", "spec"},
           reports' = [reports EXCEPT ![r] = report]
    PROVE  ReportsOK' /\ \A q \in ReportIds : Stored(q) => Stored(q)'
<1>1. report # Missing
  BY DEF Missing
<1>2. reports'[r] = report /\ \A q \in ReportIds \ {r} : reports'[q] = reports[q]
  BY DEF SchedulesInv, ReportsOK
<1> QED  BY <1>1, <1>2 DEF SchedulesInv, Stored, ReportsOK

\* A schedule goes, and the updates that have read it with it.
LEMMA ScheduleGoes ==
    ASSUME SchedulesInv, NEW r \in ReportIds, UNCHANGED now,
           schedules' = [schedules EXCEPT ![r] = NoSchedule], editing' = Orphaned(r),
           ReportsOK', \A q \in ReportIds \ {r} : reports'[q] = reports[q]
    PROVE  SchedulesInv'
<1>1. /\ DOMAIN schedules' = ReportIds /\ schedules'[r] = NoSchedule
      /\ \A q \in ReportIds \ {r} : schedules'[q] = schedules[q]
  BY DEF SchedulesInv
<1>2. /\ DOMAIN editing' = Editors
      /\ \A e \in Editors : editing'[e] # NotEditing => editing'[e] = editing[e] /\ editing[e].report # r
  BY DEF Orphaned
<1>3. ASSUME NEW q \in ReportIds, Scheduled(q)'
      PROVE  Stored(q)' /\ ScheduleOK(schedules[q])'
  BY <1>1, <1>3 DEF SchedulesInv, Scheduled, Stored, ScheduleOK, OnGrid
<1>4. ASSUME NEW e \in Editors, editing'[e] # NotEditing
      PROVE  EditOK(editing[e])'
  <2>1. editing'[e] = editing[e] /\ editing[e].report # r /\ EditOK(editing[e])
    BY <1>2, <1>4 DEF SchedulesInv
  <2> QED  BY <1>1, <2>1 DEF EditOK, Scheduled
<1> QED  BY <1>1, <1>2, <1>3, <1>4 DEF SchedulesInv

\* A schedule is written that is right.
LEMMA ScheduleWritten ==
    ASSUME SchedulesInv, NEW r \in ReportIds, Stored(r), NEW s, ScheduleOK(s),
           UNCHANGED <<reports, now>>, schedules' = [schedules EXCEPT ![r] = s],
           DOMAIN editing' = Editors,
           \A e \in Editors : editing'[e] # NotEditing => editing'[e] = editing[e]
    PROVE  SchedulesInv'
<1>1. /\ DOMAIN schedules' = ReportIds /\ schedules'[r] = s
      /\ \A q \in ReportIds \ {r} : schedules'[q] = schedules[q]
  BY DEF SchedulesInv
<1>2. s # NoSchedule
  BY DEF ScheduleOK, NoSchedule, Cadences
<1>3. ASSUME NEW q \in ReportIds, Scheduled(q)'
      PROVE  Stored(q)' /\ ScheduleOK(schedules[q])'
  <2>1. Stored(q)' <=> Stored(q)
    BY DEF Stored
  <2>2. CASE q = r
    BY <1>1, <2>1, <2>2
  <2>3. CASE q # r
    <3>1. schedules'[q] = schedules[q] /\ Scheduled(q)
      BY <1>1, <1>3, <2>3 DEF Scheduled
    <3> QED  BY <2>1, <3>1 DEF SchedulesInv
  <2> QED  BY <2>2, <2>3
<1>4. ASSUME NEW e \in Editors, editing'[e] # NotEditing
      PROVE  EditOK(editing[e])'
  <2>1. editing'[e] = editing[e] /\ EditOK(editing[e])
    BY <1>4 DEF SchedulesInv
  <2> QED  BY <1>1, <1>2, <2>1 DEF EditOK, Scheduled
<1>5. now' \in Nat /\ ReportsOK'
  BY DEF SchedulesInv, ReportsOK, Stored
<1> QED  BY <1>1, <1>3, <1>4, <1>5 DEF SchedulesInv

LEMMA CreateScheduleStep ==
    ASSUME SchedulesInv, NEW r \in ReportIds, NEW cadence \in Cadences, NEW hour \in Hours,
           CreateSchedule(r, cadence, hour)
    PROVE  SchedulesInv'
<1> DEFINE next == computeNextRun(cadence, hour, now)
           s == [cadence |-> cadence, hour |-> hour, active |-> TRUE, since |-> now,
                 mixed |-> FALSE, next |-> next]
<1>1. HourOf(next) = hour /\ now < next /\ next <= now + 24 * LongestWait[cadence]
  BY InsightsAssumption, NextRunBounds DEF SchedulesInv
<1>2. Stored(r) /\ schedules' = [schedules EXCEPT ![r] = s] /\ UNCHANGED <<reports, now, editing>>
  BY DEF CreateSchedule
<1>3. ScheduleOK(s)
  <2> HIDE DEF next
  <2> QED  BY <1>1 DEF ScheduleOK, OnGrid
<1> HIDE DEF s
<1> QED  BY <1>2, <1>3, ScheduleWritten DEF SchedulesInv

LEMMA ChosenFields ==
    ASSUME NEW change \in Changes, NEW row, ScheduleOK(row)
    PROVE  /\ Chosen(change, "cadence", row) \in Cadences
           /\ Chosen(change, "hour", row) \in Hours
BY InsightsAssumption DEF Chosen, ScheduleOK

LEMMA ReadScheduleStep ==
    ASSUME SchedulesInv, NEW e \in Editors, NEW r \in ReportIds, NEW change \in Changes,
           ReadSchedule(e, r, change)
    PROVE  SchedulesInv'
<1> DEFINE edit == [report |-> r, change |-> change,
                    cadence |-> Chosen(change, "cadence", schedules[r]),
                    hour |-> Chosen(change, "hour", schedules[r])]
<1>1. /\ Scheduled(r) /\ editing' = [editing EXCEPT ![e] = edit]
      /\ UNCHANGED <<reports, schedules, now>>
  BY DEF ReadSchedule
<1>2. EditOK(edit)
  <2>1. Chosen(change, "cadence", schedules[r]) \in Cadences /\ Chosen(change, "hour", schedules[r]) \in Hours
    BY <1>1, ChosenFields DEF SchedulesInv
  <2> QED  BY <1>1, <2>1 DEF EditOK
<1> HIDE DEF edit
<1>3. DOMAIN editing' = Editors /\ editing'[e] = edit /\ \A d \in Editors \ {e} : editing'[d] = editing[d]
  BY <1>1 DEF SchedulesInv
<1>4. ASSUME NEW d \in Editors, editing'[d] # NotEditing
      PROVE  EditOK(editing'[d])
  BY <1>2, <1>3, <1>4 DEF SchedulesInv
<1>5. ASSUME NEW d \in Editors, editing'[d] # NotEditing
      PROVE  EditOK(editing[d])'
  BY <1>1, <1>4, <1>5 DEF EditOK, Scheduled
<1> QED  BY <1>1, <1>3, <1>5 DEF SchedulesInv, ReportsOK, Scheduled, Stored

\* What an update writes: with the next run recomputed or with the cadence and the hour kept.
LEMMA UpdateIsOK ==
    ASSUME NEW row, ScheduleOK(row), NEW change \in Changes, now \in Nat,
           NEW cadence \in Cadences, NEW hour \in Hours
    PROVE  LET written == [f \in DOMAIN row |-> Chosen(change, f, row)]
               replaced == written.cadence # cadence \/ written.hour # hour
           IN  ScheduleOK(IF Reschedules(change)
                          THEN [written EXCEPT !.next = computeNextRun(cadence, hour, now),
                                               !.since = now, !.mixed = replaced]
                          ELSE written)
<1> DEFINE written == [f \in DOMAIN row |-> Chosen(change, f, row)]
           replaced == written.cadence # cadence \/ written.hour # hour
           next == computeNextRun(cadence, hour, now)
           moved == [written EXCEPT !.next = next, !.since = now, !.mixed = replaced]
<1>1. HourOf(next) = hour /\ now < next /\ next <= now + 24 * LongestWait[cadence]
  BY InsightsAssumption, NextRunBounds
<1>2. /\ DOMAIN written = {"cadence", "hour", "active", "since", "mixed", "next"}
      /\ written.cadence \in Cadences /\ written.hour \in Hours
      /\ \A f \in {"since", "mixed", "next"} : written[f] = row[f]
  BY ChosenFields, InsightsAssumption DEF ScheduleOK, Chosen
<1>3. ~Reschedules(change) => written.cadence = row.cadence /\ written.hour = row.hour
  BY DEF Reschedules, Chosen, ScheduleOK
<1>4. CASE ~Reschedules(change)
  <2> HIDE DEF written
  <2>1. ScheduleOK(written)
    BY <1>2, <1>3, <1>4 DEF ScheduleOK, OnGrid
  <2> QED  BY <1>4, <2>1 DEF written
<1>5. CASE Reschedules(change)
  <2>1. /\ DOMAIN moved = {"cadence", "hour", "active", "since", "mixed", "next"}
        /\ moved.cadence = written.cadence /\ moved.hour = written.hour
        /\ moved.next = next /\ moved.since = now /\ moved.mixed = replaced
    <3> HIDE DEF written, next, replaced
    <3> QED  BY <1>2
  <2>2. moved.mixed \/ (moved.cadence = cadence /\ moved.hour = hour)
    BY <2>1
  <2> HIDE DEF written, next, replaced, moved
  <2>3. ScheduleOK(moved)
    BY <1>1, <1>2, <2>1, <2>2 DEF ScheduleOK, OnGrid
  <2> QED  BY <1>5, <2>3 DEF moved, written, next, replaced
<1> QED  BY <1>4, <1>5

LEMMA UpdateScheduleStep ==
    ASSUME SchedulesInv, NEW e \in Editors, UpdateSchedule(e)
    PROVE  SchedulesInv'
<1>1. EditOK(editing[e])
  BY DEF UpdateSchedule, SchedulesInv
<1>2. PICK r \in ReportIds, change \in Changes, cadence \in Cadences, hour \in Hours :
         /\ editing[e].report = r /\ editing[e].change = change
         /\ editing[e].cadence = cadence /\ editing[e].hour = hour
  BY <1>1 DEF EditOK
<1>3. Scheduled(r) /\ Stored(r) /\ ScheduleOK(schedules[r])
  BY <1>1, <1>2 DEF EditOK, SchedulesInv
<1> DEFINE row == schedules[r]
           written == [f \in DOMAIN row |-> Chosen(change, f, row)]
           replaced == written.cadence # cadence \/ written.hour # hour
           s == IF Reschedules(change)
                THEN [written EXCEPT !.next = computeNextRun(cadence, hour, now),
                                     !.since = now, !.mixed = replaced]
                ELSE written
<1>4. ScheduleOK(s)
  BY <1>3, UpdateIsOK DEF SchedulesInv
<1>5. /\ schedules' = [schedules EXCEPT ![r] = s] /\ UNCHANGED <<reports, now>>
      /\ editing' = [editing EXCEPT ![e] = NotEditing]
  BY <1>2 DEF UpdateSchedule
<1> HIDE DEF s
<1>6. /\ DOMAIN editing' = Editors
      /\ \A d \in Editors : editing'[d] # NotEditing => editing'[d] = editing[d]
  BY <1>5 DEF SchedulesInv
<1> QED  BY <1>3, <1>4, <1>5, <1>6, ScheduleWritten

LEMMA SchedulesStep == SchedulesInv /\ [InsightsNext]_insightVars => SchedulesInv'
<1> SUFFICES ASSUME SchedulesInv, [InsightsNext]_insightVars PROVE SchedulesInv'
  OBVIOUS
<1>1. CASE UNCHANGED insightVars
  BY <1>1, ReportsChange DEF insightVars, SchedulesInv, ReportsOK, Stored
<1>2. ASSUME NEW r \in ReportIds, NEW name, NEW spec, CreateReport(r, name, spec)
      PROVE  SchedulesInv'
  <2> DEFINE report == [name |-> name, dataset |-> spec.dataset, spec |-> spec]
  <2>1. DOMAIN report = {"name", "dataset", "spec"}
    OBVIOUS
  <2>2. reports' = [reports EXCEPT ![r] = report] /\ UNCHANGED <<schedules, now, editing>>
    BY <1>2 DEF CreateReport
  <2> HIDE DEF report
  <2> QED  BY <2>1, <2>2, StoredReport, ReportsChange DEF SchedulesInv
<1>3. ASSUME NEW r \in ReportIds, NEW name, RenameReport(r, name)
      PROVE  SchedulesInv'
  <2> DEFINE report == [reports[r] EXCEPT !.name = name]
  <2>1. DOMAIN report = {"name", "dataset", "spec"}
    BY <1>3 DEF RenameReport, SchedulesInv, ReportsOK
  <2>2. reports' = [reports EXCEPT ![r] = report] /\ UNCHANGED <<schedules, now, editing>>
    BY <1>3 DEF RenameReport
  <2> HIDE DEF report
  <2> QED  BY <2>1, <2>2, StoredReport, ReportsChange DEF SchedulesInv
<1>4. ASSUME NEW r \in ReportIds, NEW spec, ChangeSpec(r, spec)
      PROVE  SchedulesInv'
  <2> DEFINE report == [reports[r] EXCEPT !.dataset = spec.dataset, !.spec = spec]
  <2>1. DOMAIN report = {"name", "dataset", "spec"}
    BY <1>4 DEF ChangeSpec, SchedulesInv, ReportsOK
  <2>2. reports' = [reports EXCEPT ![r] = report] /\ UNCHANGED <<schedules, now, editing>>
    BY <1>4 DEF ChangeSpec, SchedulesInv, ReportsOK
  <2> HIDE DEF report
  <2> QED  BY <2>1, <2>2, StoredReport, ReportsChange DEF SchedulesInv
<1>5. ASSUME NEW r \in ReportIds, DeleteReport(r) PROVE SchedulesInv'
  <2>1. ReportsOK' /\ \A q \in ReportIds \ {r} : reports'[q] = reports[q]
    BY <1>5 DEF DeleteReport, SchedulesInv, ReportsOK, Stored
  <2> QED  BY <1>5, <2>1, ScheduleGoes DEF DeleteReport
<1>6. ASSUME NEW r \in ReportIds, DeleteSchedule(r) PROVE SchedulesInv'
  <2>1. ReportsOK'
    BY <1>6 DEF DeleteSchedule, SchedulesInv, ReportsOK, Stored
  <2> QED  BY <1>6, <2>1, ScheduleGoes DEF DeleteSchedule
<1>7. ASSUME NEW hours \in Elapsed, TimePasses(hours) PROVE SchedulesInv'
  <2>1. now' \in Nat
    BY <1>7, InsightsAssumption DEF TimePasses
  <2> QED  BY <1>7, <2>1, ReportsChange DEF TimePasses, SchedulesInv, ReportsOK, Stored
<1> QED  BY <1>1, <1>2, <1>3, <1>4, <1>5, <1>6, <1>7, CreateScheduleStep, ReadScheduleStep,
            UpdateScheduleStep DEF InsightsNext

\* The next run of a report's schedule is at its hour, after the moment it was computed and no
\* later than its cadence allows, whichever month or year that is, and however updates overlap
\* (InsightsService.createSchedule and updateSchedule, computeNextRun), unless an update computed
\* it from a cadence or an hour that another one had replaced.
THEOREM NextRunsAreOnTime == InsightsSpec => []NextRunOnGrid
<1> QED  BY InsightsInitInv, SchedulesStep, SchedulesAreOnGrid, PTL DEF InsightsSpec
=============================================================================
