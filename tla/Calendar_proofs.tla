-------------------------- MODULE Calendar_proofs --------------------------
(***************************************************************************)
(* The host is told the date it is, and a chip keeps the year it cannot count, *)
(* for any dates of the century and any number of days: the arithmetic of     *)
(* softrtc.cpp and of BCD first, then what the three kinds of clock keep of    *)
(* the date.                                                               *)
(***************************************************************************)
EXTENDS Calendar, TLAPS

Leap(leap) == IF leap THEN 1 ELSE 0

(* The days from January 1, 1970 to a date.                                  *)
DayNumber(t) == DaysTo(t.y) + MonthStart(t.m - 1, is_leap(t.y)) + t.d - 1

(* Ranges are written as bounds: a range of literals is enumerated by the provers. *)
Between(n, a, b) == n \in Int /\ a <= n /\ n <= b
USE DEF Between
Century(tim) == tim \in Int /\ DaysTo(2001) <= tim /\ tim < DaysTo(2100)

(* Every fourth year of the century is leap, asked of the year or, but for the  *)
(* first of them, of the years since 1900 as softrtc.cpp does.                *)
LEMMA LeapYears ==
  ASSUME NEW y, Between(y, 2000, 2099)
  PROVE  /\ is_leap(y) <=> y % 4 = 0
         /\ y # 2000 => (is_leap(y - 1900) <=> y % 4 = 0)
<1>1. y \in Int /\ 2000 <= y /\ y <= 2099
  OBVIOUS
<1>2. is_leap(y) <=> y % 4 = 0
  <2>1. y % 100 = 0 => y = 2000
    BY <1>1
  <2>2. QED
    BY <2>1, <1>1 DEF is_leap
<1>3. ASSUME y # 2000 PROVE is_leap(y - 1900) <=> y % 4 = 0
  <2>1. (y - 1900) % 100 # 0
    BY <1>1, <1>3
  <2>2. (y - 1900) % 4 = y % 4
    BY <1>1
  <2>3. QED
    BY <2>1, <2>2 DEF is_leap
<1>4. QED
  BY <1>2, <1>3

LEMMA DaysToClosed ==
  ASSUME NEW y, Between(y, 2000, 2100)
  PROVE  DaysTo(y) = 365 * (y - 1970) + ((y - 1969) \div 4)
<1>1. y \in Int /\ 2000 <= y /\ y <= 2100
  OBVIOUS
<1>2. ((y - 1) \div 4) - 492 = (y - 1969) \div 4
  BY <1>1
<1>3. ((y - 1) \div 400) - ((y - 1) \div 100) = -15
  <2>1. CASE y = 2000
    BY <2>1
  <2>2. CASE y > 2000
    <3>1. (y - 1) \div 100 = 20
      BY <2>2, <1>1
    <3>2. (y - 1) \div 400 = 5
      BY <2>2, <1>1
    <3>3. QED
      BY <3>1, <3>2
  <2>3. QED
    BY <2>1, <2>2, <1>1
<1>4. QED
  BY <1>1, <1>2, <1>3 DEF DaysTo

LEMMA YearLength ==
  ASSUME NEW y, Between(y, 2000, 2099)
  PROVE  DaysTo(y + 1) = DaysTo(y) + 365 + Leap(is_leap(y))
<1>1. Between(y, 2000, 2100) /\ Between(y + 1, 2000, 2100) /\ y \in Int
  OBVIOUS
<1>2. (y + 1 - 1969) \div 4 = ((y - 1969) \div 4) + (IF y % 4 = 0 THEN 1 ELSE 0)
  BY <1>1
<1>3. QED
  BY <1>1, <1>2, DaysToClosed, LeapYears DEF Leap

(* Later years start later, so a day is in one year.                          *)
LEMMA YearsInOrder ==
  ASSUME NEW i \in Nat, NEW j \in Nat, i < j, i >= 1970
  PROVE  DaysTo(i + 1) <= DaysTo(j)
<1> DEFINE k == j - i - 1
<1>1. k \in Nat
  OBVIOUS
<1>2. i \div 4 <= (j - 1) \div 4 /\ i \div 400 <= (j - 1) \div 400
  OBVIOUS
<1>3. (j - 1) \div 100 <= (i \div 100) + k
  OBVIOUS
<1>4. /\ i \div 4 \in Int /\ (j - 1) \div 4 \in Int /\ i \div 400 \in Int
      /\ (j - 1) \div 400 \in Int /\ i \div 100 \in Int /\ (j - 1) \div 100 \in Int
  OBVIOUS
<1>5. i + 1 - 1 = i
  OBVIOUS
<1>6. QED
  BY <1>1, <1>2, <1>3, <1>4, <1>5 DEF DaysTo

LEMMA OneYear ==
  ASSUME NEW tim \in Nat, NEW i \in Nat, NEW j \in Nat, i >= 1970, j >= 1970,
         DaysTo(i) <= tim, tim < DaysTo(i + 1), DaysTo(j) <= tim, tim < DaysTo(j + 1)
  PROVE  i = j
<1>1. DaysTo(i) \in Int /\ DaysTo(j) \in Int /\ DaysTo(i + 1) \in Int /\ DaysTo(j + 1) \in Int
  BY DEF DaysTo
<1>2. ~(i < j) /\ ~(j < i)
  BY <1>1, YearsInOrder
<1>3. QED
  BY <1>2

(* Every day of the century is in a year of it.                               *)
LEMMA YearOf ==
  ASSUME NEW tim, Century(tim)
  PROVE  \E y : Between(y, 2001, 2099) /\ DaysTo(y) <= tim /\ tim < DaysTo(y + 1)
<1> DEFINE k == (4 * tim + 2) \div 1461
<1>1. DaysTo(2001) = 11323 /\ DaysTo(2100) = 47482
  BY DEF DaysTo
<1>2. tim \in Int /\ 11323 <= tim /\ tim < 47482
  BY <1>1 DEF Century
<1>3. k \in Int /\ 1461 * k <= 4 * tim + 2 /\ 4 * tim + 2 < 1461 * k + 1461
  BY <1>2
<1>4. 31 <= k /\ k <= 129
  BY <1>2, <1>3
<1> HIDE DEF k
<1>5. Between(k + 1970, 2001, 2099) /\ Between(k + 1970, 2000, 2100) /\ Between(k + 1971, 2000, 2100)
  BY <1>3, <1>4
<1>6. DaysTo(k + 1970) = 365 * k + ((k + 1) \div 4)
  BY <1>5, <1>3, DaysToClosed
<1>7. DaysTo(k + 1971) = 365 * (k + 1) + ((k + 2) \div 4)
  BY <1>5, <1>3, DaysToClosed
<1>8. 365 * k + ((k + 1) \div 4) <= tim
  BY <1>2, <1>3
<1>9. tim < 365 * (k + 1) + ((k + 2) \div 4)
  BY <1>2, <1>3
<1>10. k + 1970 + 1 = k + 1971
  BY <1>3
<1> QED
  BY <1>5, <1>6, <1>7, <1>8, <1>9, <1>10

-----------------------------------------------------------------------------
(* Months. *)
LEMMA MonthTable ==
  ASSUME NEW leap
  PROVE  /\ month_days[1] = 31 /\ month_days[2] = 28 /\ month_days[3] = 31
         /\ month_days[4] = 30 /\ month_days[5] = 31 /\ month_days[6] = 30
         /\ month_days[7] = 31 /\ month_days[8] = 31 /\ month_days[9] = 30
         /\ month_days[10] = 31 /\ month_days[11] = 30 /\ month_days[12] = 31
         /\ MonthStart(0, leap) = 0 /\ MonthStart(1, leap) = 31
         /\ MonthStart(2, leap) = 59 + Leap(leap) /\ MonthStart(3, leap) = 90 + Leap(leap)
         /\ MonthStart(4, leap) = 120 + Leap(leap) /\ MonthStart(5, leap) = 151 + Leap(leap)
         /\ MonthStart(6, leap) = 181 + Leap(leap) /\ MonthStart(7, leap) = 212 + Leap(leap)
         /\ MonthStart(8, leap) = 243 + Leap(leap) /\ MonthStart(9, leap) = 273 + Leap(leap)
         /\ MonthStart(10, leap) = 304 + Leap(leap) /\ MonthStart(11, leap) = 334 + Leap(leap)
BY DEF month_days, MonthStart, Leap

LEMMA MonthIndex ==
  ASSUME NEW i, Between(i, 0, 11)
  PROVE  i \in {0, 1, 2, 3, 4, 5, 6, 7, 8, 9, 10, 11}
OBVIOUS

(* A month begins where the one before it ends, but the last day of a leap       *)
(* February is in none.                                                    *)
LEMMA MonthLength ==
  ASSUME NEW leap, NEW m, Between(m, 1, 12)
  PROVE  /\ Between(month_days[m], 28, 31) /\ Between(LastDay(m, leap), 28, 31)
         /\ Between(MonthStart(m - 1, leap), 0, 335)
         /\ m < 12 => MonthStart(m, leap) = MonthStart(m - 1, leap) + LastDay(m, leap)
         /\ MonthStart(m - 1, leap) + LastDay(m, leap) <= 365 + Leap(leap)
<1>1. m - 1 \in {0, 1, 2, 3, 4, 5, 6, 7, 8, 9, 10, 11}
  BY MonthIndex
<1>2. Leap(leap) \in {0, 1} /\ (leap <=> Leap(leap) = 1)
  BY DEF Leap
<1>3. LastDay(m, leap) = month_days[m] + (IF m = 2 THEN Leap(leap) ELSE 0)
  <2>1. CASE m = 2
    BY <2>1, <1>2 DEF LastDay, Leap
  <2>2. CASE m # 2
    BY <2>2 DEF LastDay
  <2>3. QED
    BY <2>1, <2>2
<1>4. QED
  BY <1>1, <1>2, <1>3, MonthTable

LEMMA LeapDay ==
  ASSUME NEW leap
  PROVE  Leap(leap) \in {0, 1}
BY DEF Leap

LEMMA MonthNumbers ==
  ASSUME NEW leap, NEW i, Between(i, 0, 11)
  PROVE  Between(MonthStart(i, leap), 0, 335) /\ Between(month_days[i + 1], 28, 31)
<1>1. i \in {0, 1, 2, 3, 4, 5, 6, 7, 8, 9, 10, 11}
  BY MonthIndex
<1>2. Leap(leap) \in {0, 1}
  BY DEF Leap
<1>3. QED
  BY <1>1, <1>2, MonthTable

LEMMA MonthsInOrder ==
  ASSUME NEW leap, NEW i, Between(i, 0, 11), NEW j, Between(j, 0, 11), i < j
  PROVE  MonthStart(i, leap) + month_days[i + 1] <= MonthStart(j, leap)
<1>1. /\ i \in {0, 1, 2, 3, 4, 5, 6, 7, 8, 9, 10, 11}
      /\ j \in {0, 1, 2, 3, 4, 5, 6, 7, 8, 9, 10, 11}
  BY MonthIndex
<1>2. Leap(leap) \in {0, 1}
  BY DEF Leap
<1>3. QED
  BY <1>1, <1>2, MonthTable

LEMMA OneMonth ==
  ASSUME NEW leap, NEW tim \in Int, NEW i, Between(i, 0, 11), NEW j, Between(j, 0, 11),
         InMonth(tim, i, leap), InMonth(tim, j, leap)
  PROVE  i = j
<1>1. /\ MonthStart(i, leap) \in Int /\ MonthStart(j, leap) \in Int
      /\ month_days[i + 1] \in Int /\ month_days[j + 1] \in Int
  <2>1. \A k : Between(k, 0, 11) => MonthStart(k, leap) \in Int /\ month_days[k + 1] \in Int
    BY MonthNumbers
  <2>2. QED
    BY <2>1
<1>2. ~(i < j) /\ ~(j < i)
  BY <1>1, MonthsInOrder DEF InMonth
<1>3. QED
  BY <1>2

(* The day of the year finds its month, or none.                              *)
LEMMA MonthFinds ==
  ASSUME NEW tim \in Int, NEW year \in Int, NEW i, Between(i, 0, 11), InMonth(tim, i, is_leap(year))
  PROVE  Month(tim, year) = Tm(year, i, tim - MonthStart(i, is_leap(year)) + 1)
<1> DEFINE found == {j \in 0 .. 11 : InMonth(tim, j, is_leap(year))}
<1>1. i \in found /\ \A j \in found : j = i
  BY OneMonth
<1>2. (CHOOSE j \in found : TRUE) = i
  BY <1>1
<1>3. QED
  BY <1>1, <1>2 DEF Month

LEMMA MonthNone ==
  ASSUME NEW tim \in Int, NEW year \in Int,
         \A i : Between(i, 0, 11) => ~InMonth(tim, i, is_leap(year))
  PROVE  Month(tim, year) = Lost
BY DEF Month

-----------------------------------------------------------------------------
(* Dates. *)
LEMMA DateParts ==
  ASSUME NEW t, RealDate(t)
  PROVE  /\ Between(t.y, 2000, 2099) /\ Between(t.m, 1, 12) /\ Between(t.d, 1, 31)
         /\ t.d <= LastDay(t.m, is_leap(t.y)) /\ Between(t.m - 1, 0, 11) /\ t.m - 1 + 1 = t.m
         /\ DaysTo(t.y) \in Int /\ DayNumber(t) \in Int
<1>1. Between(t.y, 2000, 2099) /\ Between(t.m, 1, 12)
  BY DEF RealDate
<1>2. t.d \in 1 .. LastDay(t.m, is_leap(t.y))
  BY DEF RealDate
<1>3. Between(LastDay(t.m, is_leap(t.y)), 28, 31) /\ Between(MonthStart(t.m - 1, is_leap(t.y)), 0, 335)
  BY <1>1, MonthLength
<1>4. DaysTo(t.y) \in Int
  BY <1>1 DEF DaysTo
<1>5. Between(t.d, 1, 31) /\ t.d <= LastDay(t.m, is_leap(t.y))
  BY <1>2, <1>3
<1>6. DayNumber(t) \in Int
  BY <1>3, <1>4, <1>5 DEF DayNumber
<1>7. QED
  BY <1>1, <1>4, <1>5, <1>6

LEMMA DateOfParts ==
  ASSUME NEW t, Between(t.y, 2000, 2099), Between(t.m, 1, 12), t.d \in Int, t.d >= 1,
         t.d <= LastDay(t.m, is_leap(t.y))
  PROVE  RealDate(t)
<1>1. Between(LastDay(t.m, is_leap(t.y)), 28, 31)
  BY MonthLength
<1>2. t.d \in 1 .. LastDay(t.m, is_leap(t.y))
  BY <1>1
<1>3. QED
  BY <1>2 DEF RealDate

(* The day after is a day on.                                               *)
LEMMA NextNumber ==
  ASSUME NEW t, RealDate(t), t \in [y : Int, m : Int, d : Int]
  PROVE  LET n == NextDay(t, is_leap(t.y)) IN
         /\ n \in [y : Int, m : Int, d : Int] /\ n.y \in {t.y, t.y + 1}
         /\ n.y <= 2099 => RealDate(n) /\ DayNumber(n) = DayNumber(t) + 1
<1> DEFINE leap == is_leap(t.y)
           n == NextDay(t, leap)
<1>1. /\ Between(t.y, 2000, 2099) /\ Between(t.m, 1, 12) /\ Between(t.d, 1, 31)
      /\ t.d <= LastDay(t.m, leap) /\ DaysTo(t.y) \in Int
  BY DateParts
<1>2. /\ Between(LastDay(t.m, leap), 28, 31) /\ Between(MonthStart(t.m - 1, leap), 0, 335)
      /\ t.m < 12 => MonthStart(t.m, leap) = MonthStart(t.m - 1, leap) + LastDay(t.m, leap)
  BY <1>1, MonthLength
<1>3. CASE t.d < LastDay(t.m, leap)
  <2>1. n = [t EXCEPT !.d = t.d + 1]
    BY <1>3 DEF NextDay
  <2>2. /\ n \in [y : Int, m : Int, d : Int]
        /\ n.y = t.y /\ n.m = t.m /\ n.d = t.d + 1
    BY <1>1, <2>1
  <2>3. RealDate(n)
    BY <2>2, <1>1, <1>2, <1>3, DateOfParts
  <2>4. QED
    BY <2>2, <2>3, <1>1, <1>2 DEF DayNumber
<1>4. CASE ~(t.d < LastDay(t.m, leap)) /\ t.m < 12
  <2>1. n = Date(t.y, t.m + 1, 1) /\ t.d = LastDay(t.m, leap)
    BY <1>1, <1>2, <1>4 DEF NextDay
  <2>2. /\ n \in [y : Int, m : Int, d : Int]
        /\ n.y = t.y /\ n.m = t.m + 1 /\ n.d = 1
    BY <1>1, <2>1 DEF Date
  <2>3. Between(t.m + 1, 1, 12) /\ t.m + 1 - 1 = t.m
    BY <1>1, <1>4
  <2>4. Between(LastDay(t.m + 1, leap), 28, 31)
    BY <2>3, MonthLength
  <2>5. RealDate(n)
    BY <2>2, <2>3, <2>4, <1>1, DateOfParts
  <2>6. DayNumber(n) = DaysTo(t.y) + MonthStart(t.m, leap) + 1 - 1
    BY <2>2, <2>3 DEF DayNumber
  <2>7. QED
    BY <2>1, <2>2, <2>5, <2>6, <1>1, <1>2, <1>4 DEF DayNumber
<1>5. CASE ~(t.d < LastDay(t.m, leap)) /\ ~(t.m < 12)
  <2>1. n = Date(t.y + 1, 1, 1) /\ t.d = LastDay(t.m, leap) /\ t.m = 12
    BY <1>1, <1>2, <1>5 DEF NextDay
  <2>2. /\ n \in [y : Int, m : Int, d : Int]
        /\ n.y = t.y + 1 /\ n.m = 1 /\ n.d = 1
    BY <1>1, <2>1 DEF Date
  <2>3. ASSUME n.y <= 2099 PROVE RealDate(n)
    <3>1. Between(LastDay(1, is_leap(n.y)), 28, 31)
      BY MonthLength
    <3>2. QED
      BY <3>1, <2>2, <2>3, <1>1, DateOfParts
  <2>4. LastDay(12, leap) = 31 /\ MonthStart(11, leap) = 334 + Leap(leap) /\ Leap(leap) \in Int
    BY MonthTable DEF LastDay, Leap
  <2>5. DaysTo(t.y + 1) = DaysTo(t.y) + 365 + Leap(leap)
    BY <1>1, YearLength
  <2>6. DayNumber(n) = DaysTo(t.y + 1) + 0 + 1 - 1
    BY <2>2, MonthTable DEF DayNumber
  <2>7. DayNumber(t) = DaysTo(t.y) + MonthStart(11, leap) + 31 - 1
    BY <2>1, <2>4 DEF DayNumber
  <2>8. QED
    BY <2>2, <2>3, <2>4, <2>5, <2>6, <2>7, <1>1
<1>6. QED
  BY <1>3, <1>4, <1>5

-----------------------------------------------------------------------------
(* The software clock. *)

(* mktime() counts the days, but in January.                                 *)
LEMMA MktimeDay ==
  ASSUME NEW t, RealDate(t), t.y \in Int, t.m \in Int, t.d \in Int, t.m # 1
  PROVE  mktime(TmOf(t)) = DayNumber(t)
<1> DEFINE leap == is_leap(t.y)
           tm == TmOf(t)
           m == (t.m - 2) % 256
           year == t.y - (IF m = 0 THEN 1 ELSE 0)
           mon == IF m = 0 THEN 12 ELSE m
<1>1. Between(t.m, 2, 12) /\ Between(t.y, 2000, 2099) /\ Between(t.y, 2000, 2100)
  BY DateParts
<1>2. tm.year = t.y - 1900 /\ tm.mon = t.m - 1 /\ tm.mday = t.d
  BY <1>1 DEF TmOf, Tm
<1>3. /\ (tm.mon + 1 - 2) % 256 = m
      /\ tm.year + 1900 - (IF m = 0 THEN 1 ELSE 0) = year
  BY <1>1, <1>2
<1>4. mktime(tm) = (year \div 4) - (year \div 100) + (year \div 400)
                     + (Int16(367 * mon) \div 12) + t.d + year * 365 - 719499
  BY <1>2, <1>3 DEF mktime
<1>5. Leap(leap) = IF t.y % 4 = 0 THEN 1 ELSE 0
  BY <1>1, LeapYears DEF Leap
<1>6. DaysTo(t.y) = 365 * (t.y - 1970) + ((t.y - 1969) \div 4)
  BY <1>1, DaysToClosed
<1>7. CASE t.m = 2
  <2>1. m = 0 /\ mon = 12 /\ year = t.y - 1
    BY <1>7, <1>1
  <2>2. Int16(367 * 12) = 4404
    BY DEF Int16
  <2>3. DaysTo(t.y) = 365 * (t.y - 1970) + (year \div 4) - (year \div 100) + (year \div 400) - 477
    BY <2>1 DEF DaysTo
  <2>4. DayNumber(t) = DaysTo(t.y) + 31 + t.d - 1
    BY <1>7, MonthTable DEF DayNumber
  <2>5. 4404 \div 12 = 367
    OBVIOUS
  <2>6. /\ (year \div 4) \in Int /\ (year \div 100) \in Int /\ (year \div 400) \in Int
        /\ year \in Int
    BY <2>1, <1>1
  <2>7. QED
    BY <1>1, <1>4, <2>1, <2>2, <2>3, <2>4, <2>5, <2>6
<1>8. CASE Between(t.m, 3, 12)
  <2>1. m = t.m - 2 /\ mon = m /\ year = t.y
    BY <1>8
  <2>2. Int16(367 * mon) = 367 * (t.m - 2)
    BY <1>8, <2>1 DEF Int16
  <2>3. (367 * (t.m - 2)) \div 12 + 29 = MonthStart(t.m - 1, leap) - Leap(leap)
    <3>1. t.m \in {3, 4, 5, 6, 7, 8, 9, 10, 11, 12}
      BY <1>8
    <3>2. Leap(leap) \in Int
      BY DEF Leap
    <3>3. QED
      BY <3>1, <3>2, MonthTable
  <2>4. (t.y \div 100) = 20 /\ (t.y \div 400) = 5
    BY <1>1
  <2>5. (t.y \div 4) = ((t.y - 1969) \div 4) + 492 + Leap(leap)
    BY <1>1, <1>5
  <2>6. QED
    <3>1. /\ (t.y - 1969) \div 4 \in Int /\ Leap(leap) \in Int /\ MonthStart(t.m - 1, leap) \in Int
          /\ (367 * (t.m - 2)) \div 12 \in Int
      <4>1. Between(MonthStart(t.m - 1, leap), 0, 335) /\ t.y \in Int /\ t.m \in Int
        BY <1>1, MonthLength
      <4>2. QED
        BY <4>1, LeapDay
    <3>2. mktime(tm) = (t.y \div 4) - 20 + 5 + ((367 * (t.m - 2)) \div 12) + t.d + t.y * 365 - 719499
      BY <1>4, <2>1, <2>2, <2>4
    <3>3. DayNumber(t) = 365 * (t.y - 1970) + ((t.y - 1969) \div 4) + MonthStart(t.m - 1, leap) + t.d - 1
      BY <1>6 DEF DayNumber
    <3>4. QED
      BY ONLY <2>3, <2>5, <3>1, <3>2, <3>3, t.y \in Int, t.m \in Int, t.d \in Int, SMT
<1>9. QED
  BY <1>1, <1>7, <1>8

(* gmtime() finds the year, and looks for the month in it.                     *)
LEMMA GmtimeYear ==
  ASSUME NEW tim \in Nat, NEW y, Between(y, 2001, 2099), DaysTo(y) <= tim, tim < DaysTo(y + 1)
  PROVE  gmtime(tim) = Month(tim - DaysTo(y), y - 1900)
<1> DEFINE years == 1970 .. 1970 + (tim \div 365)
           i == CHOOSE j \in years : DaysTo(j) <= tim /\ tim < DaysTo(j + 1)
<1>1. y \in years
  <2>1. DaysTo(y) = 365 * (y - 1970) + ((y - 1969) \div 4)
    BY DaysToClosed
  <2>2. 365 * (y - 1970) <= tim
    BY <2>1
  <2>3. QED
    BY <2>2
<1>2. \A j \in years : DaysTo(j) <= tim /\ tim < DaysTo(j + 1) => j = y
  BY OneYear
<1>3. i = y
  BY <1>1, <1>2
<1>4. gmtime(tim) = Month(tim - DaysTo(i), i - 1900)
  BY DEF gmtime
<1> HIDE DEF i
<1>5. QED
  BY <1>3, <1>4

(* The date the software clock tells is a date of the century, if it tells one.  *)
TmOk(tm) == /\ tm = Tm(tm.year, tm.mon, tm.mday)
            /\ Between(tm.year, 100, 199) /\ Between(tm.mon, 0, 11) /\ Between(tm.mday, 1, 31)

LEMMA GmtimeOk ==
  ASSUME NEW tim, Century(tim), gmtime(tim) # Lost
  PROVE  TmOk(gmtime(tim))
<1>1. PICK y : Between(y, 2001, 2099) /\ DaysTo(y) <= tim /\ tim < DaysTo(y + 1)
  BY YearOf
<1>2. DaysTo(2001) = 11323 /\ DaysTo(2100) \in Int
  BY DEF DaysTo
<1>3. tim \in Nat /\ DaysTo(y) \in Int
  <2>1. tim \in Nat
    BY <1>2 DEF Century
  <2>2. DaysTo(y) \in Int
    BY <1>1 DEF DaysTo
  <2>3. QED
    BY <2>1, <2>2
<1>4. gmtime(tim) = Month(tim - DaysTo(y), y - 1900)
  BY <1>1, <1>3, GmtimeYear
<1> DEFINE day == tim - DaysTo(y)
           leap == is_leap(y - 1900)
<1>5. PICK i : Between(i, 0, 11) /\ InMonth(day, i, leap)
  BY <1>1, <1>3, <1>4, MonthNone
<1>6. Month(day, y - 1900) = Tm(y - 1900, i, day - MonthStart(i, leap) + 1)
  <2>1. day \in Int /\ y - 1900 \in Int
    BY <1>1, <1>3
  <2>2. QED
    BY <1>5, <2>1, MonthFinds
<1>7. Between(day - MonthStart(i, leap) + 1, 1, 31)
  <2>1. Between(MonthStart(i, leap), 0, 335) /\ Between(month_days[i + 1], 28, 31)
    BY <1>5, MonthNumbers
  <2>2. day \in Int
    BY <1>3
  <2>3. MonthStart(i, leap) <= day /\ day < MonthStart(i, leap) + month_days[i + 1]
    BY <1>5 DEF InMonth
  <2> HIDE DEF day, leap
  <2>4. QED
    BY ONLY <2>1, <2>2, <2>3, SMT
<1> DEFINE mday == day - MonthStart(i, leap) + 1
<1>8. (y - 1900) % 256 = y - 1900 /\ Between(y - 1900, 100, 199)
  BY <1>1
<1>9. gmtime(tim) = [year |-> y - 1900, mon |-> i, mday |-> mday]
  BY <1>4, <1>6, <1>8 DEF Tm
<1> HIDE DEF mday
<1>10. Between(mday, 1, 31)
  BY <1>7 DEF mday
<1>11. QED
  BY ONLY <1>5, <1>8, <1>9, <1>10 DEF TmOk, Tm

LEMMA GmtimeDate ==
  ASSUME NEW t, RealDate(t), t.y \in Int, t.m \in Int, t.d \in Int,
         Century(DayNumber(t)), gmtime(DayNumber(t)) # Lost
  PROVE  gmtime(DayNumber(t)) = TmOf(t)
<1> DEFINE tim == DayNumber(t)
           y == t.y
           i == t.m - 1
           leap == is_leap(y)
           day == tim - DaysTo(y)
<1>1. /\ Between(y, 2000, 2099) /\ Between(t.m, 1, 12) /\ Between(t.d, 1, 31)
      /\ t.d <= LastDay(t.m, leap) /\ Between(i, 0, 11) /\ DaysTo(y) \in Int
  BY DateParts
<1>2. /\ Between(MonthStart(i, leap), 0, 335) /\ Between(LastDay(t.m, leap), 28, 31)
      /\ MonthStart(i, leap) + LastDay(t.m, leap) <= 365 + Leap(leap)
      /\ Leap(leap) \in {0, 1}
  BY <1>1, MonthLength, LeapDay
<1>3. DaysTo(2001) = 11323 /\ DaysTo(2100) = 47482 /\ DaysTo(2000) = 10957
  BY DEF DaysTo
<1>4. DaysTo(y + 1) = DaysTo(y) + 365 + Leap(leap)
  BY <1>1, YearLength
<1>5. day = MonthStart(i, leap) + t.d - 1
  BY <1>1, <1>2 DEF DayNumber
<1>6. DaysTo(y) <= tim /\ tim < DaysTo(y + 1)
  <2> HIDE DEF day
  <2>1. tim = DaysTo(y) + day /\ t.d \in Int /\ day \in Int
    <3>1. tim \in Int
      BY DateParts
    <3>2. QED
      BY <1>1, <3>1 DEF day
  <2>2. QED
    BY <1>1, <1>2, <1>4, <1>5, <2>1
<1>7. tim \in Nat /\ tim >= 11323
  BY <1>3 DEF Century
<1>8. Between(y, 2001, 2099)
  <2>1. y # 2000
    BY <1>3, <1>6, <1>7
  <2>2. QED
    BY <2>1, <1>1
<1>9. gmtime(tim) = Month(day, y - 1900) /\ is_leap(y - 1900) = leap
  BY <1>1, <1>6, <1>7, <1>8, GmtimeYear, LeapYears DEF is_leap
<1>10. day \in Int /\ y - 1900 \in Int
  BY <1>1, <1>7
<1>11. CASE t.d <= month_days[t.m]
  <2>1. month_days[t.m] \in Int /\ i + 1 = t.m
    BY <1>1, MonthLength
  <2>2. InMonth(day, i, leap)
    <3>1. t.d \in Int /\ t.d >= 1 /\ t.d <= month_days[i + 1]
      BY <1>1, <1>11, <2>1
    <3>2. MonthStart(i, leap) <= day /\ day < MonthStart(i, leap) + month_days[i + 1]
      BY ONLY <1>2, <1>5, <2>1, <3>1, SMT
    <3>3. QED
      BY <3>2 DEF InMonth
  <2>3. Month(day, y - 1900) = Tm(y - 1900, i, day - MonthStart(i, leap) + 1)
    BY <1>1, <1>9, <1>10, <2>2, MonthFinds
  <2>4. day - MonthStart(i, leap) + 1 = t.d
    BY <1>1, <1>2, <1>5
  <2>5. QED
    BY <1>9, <2>3, <2>4 DEF TmOf
<1>12. CASE ~(t.d <= month_days[t.m])
  <2> DEFINE short == month_days[t.m]
  <2>0. short \in Int /\ t.d \in Int /\ ~(t.d <= short) /\ t.d <= LastDay(t.m, leap)
    BY <1>1, <1>12, MonthLength
  <2> HIDE DEF short
  <2>1. t.m = 2 /\ leap
    <3>1. LastDay(t.m, leap) = short + (IF t.m = 2 /\ leap THEN 1 ELSE 0)
      BY DEF LastDay, short
    <3> HIDE DEF leap
    <3>2. QED
      BY ONLY <2>0, <3>1
  <2>2. t.d = 29
    <3>1. month_days[2] = 28
      BY MonthTable
    <3>2. LastDay(2, leap) = 29
      BY <2>1, <3>1 DEF LastDay
    <3>3. ~(t.d <= 28) /\ t.d <= 29
      BY <2>0, <2>1, <3>1, <3>2, Zenon DEF short
    <3>4. QED
      BY ONLY <3>3, t.d \in Int
  <2>3. day = 59 /\ Leap(leap) = 1
    <3>1. MonthStart(1, leap) = 31 /\ i = 1
      <4>1. i = 1
        BY <2>1
      <4>2. QED
        BY <4>1, MonthTable
    <3>2. Leap(leap) = 1
      BY <2>1 DEF Leap
    <3> HIDE DEF i, day, leap
    <3>3. MonthStart(i, leap) = 31
      BY <3>1
    <3>4. day = 59
      BY ONLY <1>5, <2>2, <3>3
    <3>5. QED
      BY <3>2, <3>4
  <2>4. \A j : Between(j, 0, 11) => ~InMonth(59, j, leap)
    <3>1. ASSUME NEW j, Between(j, 0, 11) PROVE ~InMonth(59, j, leap)
      <4>1. j \in {0, 1, 2, 3, 4, 5, 6, 7, 8, 9, 10, 11}
        BY <3>1, MonthIndex
      <4>2. QED
        BY <4>1, <2>3, MonthTable DEF InMonth
    <3>2. QED
      BY <3>1
  <2>5. Month(day, y - 1900) = Lost
    BY <1>9, <1>10, <2>3, <2>4, MonthNone
  <2>6. QED
    BY <1>9, <2>5
<1>13. QED
  BY <1>11, <1>12

-----------------------------------------------------------------------------
(* What a clock keeps of a date. *)
DateSet == [y : Int, m : Int, d : Int]
RegSet == [day : Int, month : Int, yy : Int, year : Int, comp : Int, stopped : BOOLEAN]

(* A chip that is set has the date; the year beside the PCF8583 is up to k behind.  *)
Holds(r, t, k) ==
  IF IsDs
  THEN /\ ~r.stopped /\ r.day = int2bcd(t.d)
       /\ r.month = int2bcd(t.m) /\ r.yy = int2bcd(t.y - 2000)
  ELSE /\ r.comp = 65535 - r.year /\ r.year \in t.y - k .. t.y
       /\ r.day = int2bcd(t.d) + 64 * (t.y % 4) /\ r.month = int2bcd(t.m)

(* One that is not says so, also after a set that was cut.                     *)
Unset(r) == IF IsDs THEN r.stopped ELSE r.comp = 0 /\ Between(r.year, 0, 2099)

TodayOk == today = Unknown \/ (today \in DateSet /\ RealDate(today))
SoftOk == rtc_state = "OK" /\ today # Unknown /\ days = DayNumber(today)
ChipOk == /\ reg \in RegSet
          /\ IF today = Unknown THEN rtc_state = "INVALID" /\ Unset(reg) /\ said = NothingSaid
             ELSE rtc_state = "OK" /\ Holds(reg, today, 1)

(* The inductive invariant: a clock that is set has the date it is; a chip that   *)
(* is not set is not taken for one that is, also after a set that was cut, and     *)
(* has said nothing yet; what was last said is right.                          *)
CalInv == /\ chip \in {"soft", "ds1307", "ds3231", "pcf8583"} /\ TodayOk
          /\ (chip = "soft" => SoftOk) /\ (chip # "soft" => ChipOk)
          /\ DatesRight

(* What is asked of the years.  The host is told two digits of them, and the      *)
(* software clock, which looks for leap years among the years since 1900, is a    *)
(* day ahead after February 28, 2000.                                        *)
InCentury == IF chip = "soft" THEN Century(days) ELSE today # Unknown => Between(today.y, 2000, 2099)

(* The PCF8583 counts to four years: with the power on, somebody asks for the    *)
(* date in between two New Years.                                            *)
Asked == chip = "pcf8583" /\ Midnight /\ today # Unknown /\ today'.y # today.y => reg.year = today.y
AskedYearly == [][Asked]_calendarVars

-----------------------------------------------------------------------------
(* BCD, and the chips. *)
LEMMA Bcd ==
  ASSUME NEW n, Between(n, 0, 99)
  PROVE  /\ bcd2int(int2bcd(n)) = n /\ Between(int2bcd(n), 0, 153)
         /\ n <= 31 => Between(int2bcd(n), 0, 49)
         /\ n <= 12 => Between(int2bcd(n), 0, 18)
<1> DEFINE q == n \div 10
           r == n % 10
<1>1. Between(q, 0, 9) /\ Between(r, 0, 9) /\ n = 10 * q + r
  OBVIOUS
<1>2. int2bcd(n) = r + 16 * q
  BY DEF int2bcd
<1> HIDE DEF q, r
<1>3. (r + 16 * q) % 16 = r /\ (r + 16 * q) \div 16 = q
  BY <1>1
<1>4. QED
  BY <1>1, <1>2, <1>3 DEF bcd2int

LEMMA DateBcd ==
  ASSUME NEW t \in DateSet, RealDate(t)
  PROVE  /\ Between(t.y, 2000, 2099) /\ Between(t.m, 1, 12) /\ Between(t.d, 1, 31) /\ Between(t.y - 2000, 0, 99)
         /\ t = Date(t.y, t.m, t.d)
         /\ Between(int2bcd(t.d), 0, 49) /\ bcd2int(int2bcd(t.d)) = t.d
         /\ Between(int2bcd(t.m), 0, 18) /\ bcd2int(int2bcd(t.m)) = t.m
         /\ Between(int2bcd(t.y - 2000), 0, 153) /\ bcd2int(int2bcd(t.y - 2000)) = t.y - 2000
<1>1. Between(t.y, 2000, 2099) /\ Between(t.m, 1, 12) /\ Between(t.d, 1, 31)
  BY DateParts
<1>2. Between(t.y - 2000, 0, 99) /\ Between(t.m, 0, 99) /\ Between(t.d, 0, 99)
  BY <1>1
<1>3. t = Date(t.y, t.m, t.d)
  BY DEF DateSet, Date
<1>4. Between(int2bcd(t.d), 0, 49) /\ bcd2int(int2bcd(t.d)) = t.d
  BY <1>1, <1>2, Bcd
<1>5. Between(int2bcd(t.m), 0, 18) /\ bcd2int(int2bcd(t.m)) = t.m
  BY <1>1, <1>2, Bcd
<1>6. Between(int2bcd(t.y - 2000), 0, 153) /\ bcd2int(int2bcd(t.y - 2000)) = t.y - 2000
  BY <1>2, Bcd
<1>7. QED
  BY <1>1, <1>2, <1>3, <1>4, <1>5, <1>6

LEMMA TmOfDate ==
  ASSUME NEW t \in DateSet, RealDate(t)
  PROVE  /\ TmOf(t).year = t.y - 1900 /\ TmOf(t).mon = t.m - 1 /\ TmOf(t).mday = t.d
         /\ TmOk(TmOf(t)) /\ Date(2000 + (TmOf(t).year % 100), TmOf(t).mon + 1, TmOf(t).mday) = t
<1>1. Between(t.y, 2000, 2099) /\ Between(t.m, 1, 12) /\ Between(t.d, 1, 31) /\ t = Date(t.y, t.m, t.d)
  BY DateBcd
<1>2. (t.y - 1900) % 256 = t.y - 1900 /\ (t.y - 1900) % 100 = t.y - 2000
  BY <1>1
<1>3. TmOf(t) = [year |-> t.y - 1900, mon |-> t.m - 1, mday |-> t.d]
  BY <1>2 DEF TmOf, Tm
<1>4. TmOk(TmOf(t))
  BY <1>1, <1>2, <1>3 DEF TmOk, Tm
<1>5. 2000 + (t.y - 2000) = t.y /\ t.m - 1 + 1 = t.m
  BY <1>1
<1>6. QED
  BY <1>1, <1>2, <1>3, <1>4, <1>5

(* The host reads back what FatFS would write.                                 *)
LEMMA StampOfTm ==
  ASSUME NEW tm, TmOk(tm)
  PROVE  LET stamp == get_fattime(tm) IN
         Date(2000 + (tm.year % 100), tm.mon + 1, tm.mday)
           = Date(1980 + (stamp \div 512), (stamp \div 32) % 16, stamp % 32)
<1> DEFINE y == tm.year
           m == tm.mon + 1
           d == tm.mday
           stamp == (y - 80) * 512 + m * 32 + d
<1>1. Between(y, 100, 199) /\ Between(m, 1, 12) /\ Between(d, 1, 31)
  BY DEF TmOk
<1>2. (y - 80) % 128 = y - 80 /\ y % 100 = y - 100
  BY <1>1
<1>3. get_fattime(tm) = stamp
  BY <1>2 DEF get_fattime
<1> HIDE DEF y, m, d
<1>4. stamp \div 512 = y - 80 /\ stamp \div 32 = (y - 80) * 16 + m /\ stamp % 32 = d
  BY <1>1
<1>5. ((y - 80) * 16 + m) % 16 = m
  BY <1>1
<1>6. QED
  BY <1>1, <1>2, <1>3, <1>4, <1>5 DEF y, m, d

LEMMA DefaultDate ==
  /\ TmOk(rtc_default_date)
  /\ Date(2000 + (rtc_default_date.year % 100), rtc_default_date.mon + 1, rtc_default_date.mday)
       = Date(2020, 1, 1)
BY DEF TmOk, rtc_default_date, Tm, Date

(* The day and two bits of the year in a byte.                                 *)
LEMMA DayAndYear ==
  ASSUME NEW day \in Int, NEW bits \in Int, 0 <= day, day < 64
  PROVE  (day + 64 * bits) % 64 = day /\ (day + 64 * bits) \div 64 = bits
OBVIOUS

LEMMA PcfBytes ==
  ASSUME ~IsDs, NEW r, NEW t \in DateSet, RealDate(t), NEW k, Holds(r, t, k)
  PROVE  YearBits(r) = t.y % 4 /\ r.day % 64 = int2bcd(t.d) /\ r.month % 32 = int2bcd(t.m)
<1> DEFINE day == int2bcd(t.d)
           bits == t.y % 4
<1>1. /\ Between(day, 0, 49) /\ t.y \in Int /\ Between(int2bcd(t.m), 0, 18)
      /\ int2bcd(t.m) % 32 = int2bcd(t.m)
  BY DateBcd
<1>2. day \in Int /\ bits \in Int /\ 0 <= day /\ day < 64
  BY <1>1
<1> HIDE DEF day, bits
<1>3. (day + 64 * bits) % 64 = day /\ (day + 64 * bits) \div 64 = bits
  BY <1>2, DayAndYear
<1>4. r.day = day + 64 * bits /\ r.month = int2bcd(t.m)
  BY DEF Holds, day, bits
<1>5. QED
  BY <1>1, <1>3, <1>4 DEF YearBits, day, bits

LEMMA InsideHolds ==
  ASSUME NEW r \in RegSet, NEW t \in DateSet, RealDate(t), NEW k, Holds(r, t, k)
  PROVE  Inside(r) = Date(IF IsDs THEN t.y - 2000 ELSE t.y % 4, t.m, t.d)
<1>1. /\ Between(t.y, 2000, 2099)
      /\ Between(int2bcd(t.d), 0, 49) /\ bcd2int(int2bcd(t.d)) = t.d
      /\ Between(int2bcd(t.m), 0, 18) /\ bcd2int(int2bcd(t.m)) = t.m
      /\ bcd2int(int2bcd(t.y - 2000)) = t.y - 2000
  BY DateBcd
<1>2. int2bcd(t.m) % 32 = int2bcd(t.m) /\ int2bcd(t.d) % 64 = int2bcd(t.d)
  BY <1>1
<1>3. CASE IsDs
  BY <1>1, <1>2, <1>3 DEF Inside, Holds
<1>4. CASE ~IsDs
  BY <1>1, <1>4, PcfBytes DEF Inside
<1>5. QED
  BY <1>3, <1>4

(* The year kept beside the chip is moved on until it agrees with its two bits.  *)
LEMMA RollsTo ==
  ASSUME NEW y \in Int, NEW ram \in Int, y - 3 <= ram, ram <= y
  PROVE  ram + (((y % 4) - ram) % 4) = y
<1> DEFINE q == y \div 4
           b == y % 4
           j == y - ram
<1>1. y = 4 * q + b /\ q \in Int /\ b \in Int /\ j \in Int /\ 0 <= j /\ j < 4
  OBVIOUS
<1>2. b - ram = j - 4 * q
  BY <1>1
<1> HIDE DEF q, b, j
<1>3. (j - 4 * q) % 4 = j
  BY <1>1
<1>4. QED
  BY <1>1, <1>2, <1>3 DEF b, j

(* Registers that are written have what was written, the others what they had.    *)
Reg(day, month, yy, year, comp, stopped) ==
  [day |-> day, month |-> month, yy |-> yy, year |-> year, comp |-> comp, stopped |-> stopped]

LEMMA Registers ==
  ASSUME NEW day \in Int, NEW month \in Int, NEW yy \in Int, NEW year \in Int, NEW comp \in Int,
         NEW stopped \in BOOLEAN
  PROVE  LET r == Reg(day, month, yy, year, comp, stopped) IN
         /\ r \in RegSet /\ r.day = day /\ r.month = month /\ r.yy = yy
         /\ r.year = year /\ r.comp = comp /\ r.stopped = stopped
BY DEF RegSet, Reg

LEMMA RegTypes ==
  ASSUME NEW r \in RegSet
  PROVE  /\ r.day \in Int /\ r.month \in Int /\ r.yy \in Int /\ r.year \in Int /\ r.comp \in Int
         /\ r.stopped \in BOOLEAN
BY DEF RegSet

LEMMA PutDs ==
  ASSUME NEW r \in RegSet, NEW day \in Int, NEW month \in Int, NEW yy \in Int
  PROVE  [r EXCEPT !.day = day, !.yy = yy, !.month = month]
           = Reg(day, month, yy, r.year, r.comp, r.stopped)
<1> DEFINE p == [r EXCEPT !.day = day]
           q == [p EXCEPT !.yy = yy]
           s == [q EXCEPT !.month = month]
<1>1. /\ p \in RegSet /\ p.day = day /\ p.month = r.month /\ p.yy = r.yy
      /\ p.year = r.year /\ p.comp = r.comp /\ p.stopped = r.stopped
  BY DEF RegSet
<1> HIDE DEF p
<1>2. /\ q \in RegSet /\ q.day = p.day /\ q.month = p.month /\ q.yy = yy
      /\ q.year = p.year /\ q.comp = p.comp /\ q.stopped = p.stopped
  BY <1>1 DEF RegSet
<1> HIDE DEF q
<1>3. s = Reg(q.day, month, q.yy, q.year, q.comp, q.stopped)
  BY <1>2 DEF RegSet, Reg
<1>4. s = Reg(day, month, yy, r.year, r.comp, r.stopped)
  BY <1>1, <1>2, <1>3, Zenon DEF s
<1>5. QED
  BY <1>4, Zenon DEF p, q, s

LEMMA PutPcf ==
  ASSUME NEW r \in RegSet, NEW day \in Int, NEW month \in Int
  PROVE  [r EXCEPT !.day = day, !.month = month]
           = Reg(day, month, r.yy, r.year, r.comp, r.stopped)
<1> DEFINE p == [r EXCEPT !.day = day]
<1>1. /\ p \in RegSet /\ p.day = day /\ p.yy = r.yy /\ p.year = r.year
      /\ p.comp = r.comp /\ p.stopped = r.stopped
  BY DEF RegSet
<1> HIDE DEF p
<1>2. [p EXCEPT !.month = month] = Reg(p.day, month, p.yy, p.year, p.comp, p.stopped)
  BY <1>1 DEF RegSet, Reg
<1>3. QED
  BY <1>1, <1>2, Zenon DEF p

LEMMA PutYear ==
  ASSUME NEW r \in RegSet, NEW year \in Int, NEW comp \in Int
  PROVE  [r EXCEPT !.year = year, !.comp = comp]
           = Reg(r.day, r.month, r.yy, year, comp, r.stopped)
<1> DEFINE p == [r EXCEPT !.year = year]
<1>1. /\ p \in RegSet /\ p.day = r.day /\ p.month = r.month /\ p.yy = r.yy
      /\ p.year = year /\ p.stopped = r.stopped
  BY DEF RegSet
<1> HIDE DEF p
<1>2. [p EXCEPT !.comp = comp] = Reg(p.day, p.month, p.yy, p.year, comp, p.stopped)
  BY <1>1 DEF RegSet, Reg
<1>3. QED
  BY <1>1, <1>2, Zenon DEF p

LEMMA BcdInt ==
  ASSUME NEW n \in Int
  PROVE  int2bcd(n) \in Int
BY DEF int2bcd

LEMMA DsAt ==
  ASSUME IsDs, NEW r \in RegSet, NEW y \in Int, NEW m \in Int, NEW d \in Int
  PROVE  ChipAt(r, Date(y, m, d))
           = Reg(int2bcd(d), int2bcd(m) + (IF (r.month >= 128) # (y > 99) THEN 128 ELSE 0),
                 int2bcd(y % 100), r.year, r.comp, r.stopped)
<1> DEFINE t == Date(y, m, d)
           high == IF (r.month >= 128) # (t.y > 99) THEN 128 ELSE 0
           month == int2bcd(t.m) + high
           day == int2bcd(t.d)
           yy == int2bcd(t.y % 100)
<1>1. t.y = y /\ t.m = m /\ t.d = d /\ y % 100 \in Int /\ high \in Int
  BY DEF Date
<1>2. ChipAt(r, t) = [r EXCEPT !.day = day, !.yy = yy, !.month = month]
  BY DEF ChipAt
<1> HIDE DEF high, t
<1>3. day \in Int /\ yy \in Int /\ month \in Int
  BY <1>1, BcdInt
<1>4. /\ day = int2bcd(d) /\ yy = int2bcd(y % 100)
      /\ month = int2bcd(m) + (IF (r.month >= 128) # (y > 99) THEN 128 ELSE 0)
  BY <1>1, Zenon DEF high
<1> HIDE DEF month, day, yy
<1>5. [r EXCEPT !.day = day, !.yy = yy, !.month = month]
        = Reg(day, month, yy, r.year, r.comp, r.stopped)
  BY ONLY r \in RegSet, <1>3, PutDs, Zenon
<1>6. QED
  BY <1>2, <1>4, <1>5, Zenon DEF t

LEMMA PcfAt ==
  ASSUME ~IsDs, NEW r \in RegSet, NEW y \in Int, NEW m \in Int, NEW d \in Int
  PROVE  ChipAt(r, Date(y, m, d))
           = Reg(int2bcd(d) + 64 * (y % 4), int2bcd(m), r.yy, r.year, r.comp, r.stopped)
<1> DEFINE t == Date(y, m, d)
           month == int2bcd(t.m)
           day == int2bcd(t.d) + 64 * (t.y % 4)
<1>1. t.y = y /\ t.m = m /\ t.d = d /\ y % 4 \in Int
  BY DEF Date
<1>2. ChipAt(r, t) = [r EXCEPT !.day = day, !.month = month]
  BY DEF ChipAt
<1> HIDE DEF t
<1>3. day \in Int /\ month \in Int
  BY <1>1, BcdInt
<1>4. day = int2bcd(d) + 64 * (y % 4) /\ month = int2bcd(m)
  BY <1>1, Zenon
<1> HIDE DEF month, day
<1>5. [r EXCEPT !.day = day, !.month = month]
        = Reg(day, month, r.yy, r.year, r.comp, r.stopped)
  BY ONLY r \in RegSet, <1>3, PutPcf, Zenon
<1>6. QED
  BY <1>2, <1>4, <1>5, Zenon DEF t

(* The chip counts on to a date, of which it knows some of the year.            *)
LEMMA CountsTo ==
  ASSUME NEW r \in RegSet, NEW t \in DateSet, RealDate(t), NEW k, NEW year \in Int,
         IF IsDs THEN year = t.y - 2000 /\ ~r.stopped /\ r.month < 128
         ELSE year % 4 = t.y % 4 /\ r.comp = 65535 - r.year /\ r.year \in t.y - k .. t.y
  PROVE  ChipAt(r, Date(year, t.m, t.d)) \in RegSet /\ Holds(ChipAt(r, Date(year, t.m, t.d)), t, k)
<1> DEFINE day == int2bcd(t.d)
           month == int2bcd(t.m)
           yy == int2bcd(year % 100)
           dy == day + 64 * (year % 4)
           at == ChipAt(r, Date(year, t.m, t.d))
<1>1. Between(t.y, 2000, 2099) /\ t.m \in Int /\ t.d \in Int
  BY DateBcd
<1>2. day \in Int /\ month \in Int /\ yy \in Int
  BY <1>1, BcdInt
<1>3. dy \in Int
  BY <1>2
<1>4. /\ r.year \in Int /\ r.comp \in Int /\ r.stopped \in BOOLEAN /\ r.month \in Int /\ r.yy \in Int
  BY RegTypes
<1>5. CASE IsDs
  <2>1. ~(r.month >= 128) /\ ~(year > 99) /\ year % 100 = t.y - 2000 /\ ~r.stopped
    BY <1>1, <1>4, <1>5
  <2> DEFINE high == IF (r.month >= 128) # (year > 99) THEN 128 ELSE 0
  <2>2. at = Reg(day, month + high, yy, r.year, r.comp, r.stopped)
    BY <1>1, <1>5, DsAt
  <2>3. month + high = month
    BY <1>2, <2>1
  <2> HIDE DEF high, at, day, month, yy
  <2>4. at = Reg(day, month, yy, r.year, r.comp, r.stopped)
    BY ONLY <2>2, <2>3
  <2>5. at \in RegSet /\ at.day = day /\ at.month = month /\ at.yy = yy /\ at.stopped = r.stopped
    BY ONLY <1>2, <1>4, <2>4, Registers
  <2>6. yy = int2bcd(t.y - 2000)
    BY <2>1 DEF yy
  <2>7. Holds(at, t, k)
    BY <1>5, <2>1, <2>5, <2>6 DEF Holds, day, month
  <2>8. QED
    BY <2>5, <2>7 DEF at
<1>6. CASE ~IsDs
  <2>1. year % 4 = t.y % 4 /\ r.comp = 65535 - r.year /\ r.year \in t.y - k .. t.y
    BY <1>6
  <2>2. at = Reg(dy, month, r.yy, r.year, r.comp, r.stopped)
    BY <1>1, <1>6, PcfAt
  <2> HIDE DEF at, dy, month
  <2>3. /\ at \in RegSet /\ at.day = dy /\ at.month = month
        /\ at.year = r.year /\ at.comp = r.comp
    BY ONLY <1>2, <1>3, <1>4, <2>2, Registers
  <2>4. dy = int2bcd(t.d) + 64 * (t.y % 4)
    BY <2>1 DEF dy
  <2>5. Holds(at, t, k)
    BY <1>6, <2>1, <2>3, <2>4 DEF Holds, month
  <2>6. QED
    BY <2>3, <2>5 DEF at
<1>7. QED
  BY <1>5, <1>6

LEMMA ChipNextDay ==
  ASSUME NEW r \in RegSet, NEW t \in DateSet, RealDate(t), Holds(r, t, 1),
         NEW n \in DateSet, RealDate(n), n = NextDay(t, is_leap(t.y)),
         ~IsDs => r.year = t.y \/ n.y = t.y
  PROVE  ChipMidnight(r) \in RegSet /\ Holds(ChipMidnight(r), n, 1)
<1> DEFINE y == IF IsDs THEN t.y - 2000 ELSE t.y % 4
           leap == is_leap(t.y)
           next == y + (n.y - t.y)
<1>1. /\ Between(t.y, 2000, 2099) /\ t.m \in Int /\ t.d \in Int
      /\ Between(int2bcd(t.m), 0, 18) /\ n.y \in Int
  BY DateBcd DEF DateSet
<1>2. Inside(r) = Date(y, t.m, t.d)
  BY InsideHolds
<1>3. y \in Int /\ y % 4 = t.y % 4
  BY <1>1
<1>4. (y % 4 = 0) = leap
  BY <1>1, <1>3, LeapYears DEF is_leap
<1>5. n.y \in t.y .. t.y + 1 /\ NextDay(Date(y, t.m, t.d), leap) = Date(next, n.m, n.d)
  <2> DEFINE u == Date(y, t.m, t.d)
  <2>1. u = [y |-> y, m |-> t.m, d |-> t.d] /\ t = [y |-> t.y, m |-> t.m, d |-> t.d]
    BY DEF Date, DateSet
  <2>2. CASE t.d < LastDay(t.m, leap)
    <3>1. n = [t EXCEPT !.d = t.d + 1] /\ NextDay(u, leap) = [u EXCEPT !.d = t.d + 1]
      BY <2>1, <2>2 DEF NextDay
    <3>2. n.y = t.y /\ n.m = t.m /\ n.d = t.d + 1 /\ next = y
      BY <3>1, <1>1, <1>3 DEF DateSet
    <3>3. NextDay(u, leap) = [y |-> y, m |-> t.m, d |-> t.d + 1]
      BY <3>1, <2>1
    <3>4. QED
      BY <3>2, <3>3, <1>1 DEF Date
  <2>3. CASE ~(t.d < LastDay(t.m, leap)) /\ t.m < 12
    <3>1. n = Date(t.y, t.m + 1, 1) /\ NextDay(u, leap) = Date(y, t.m + 1, 1)
      BY <2>1, <2>3 DEF NextDay
    <3>2. n.y = t.y /\ n.m = t.m + 1 /\ n.d = 1 /\ next = y
      BY <3>1, <1>1, <1>3 DEF Date
    <3>3. QED
      BY <3>1, <3>2, <1>1
  <2>4. CASE ~(t.d < LastDay(t.m, leap)) /\ ~(t.m < 12)
    <3>1. n = Date(t.y + 1, 1, 1) /\ NextDay(u, leap) = Date(y + 1, 1, 1)
      BY <2>1, <2>4 DEF NextDay
    <3>2. n.y = t.y + 1 /\ n.m = 1 /\ n.d = 1 /\ next = y + 1
      BY <3>1, <1>1, <1>3 DEF Date
    <3>3. QED
      BY <3>1, <3>2, <1>1
  <2>5. QED
    BY <2>2, <2>3, <2>4
<1>6. ChipMidnight(r) = ChipAt(r, Date(next, n.m, n.d))
  <2>1. Inside(r).y = y
    BY <1>2 DEF Date
  <2>2. QED
    BY <1>2, <1>4, <1>5, <2>1 DEF ChipMidnight
<1>7. next \in Int /\ next % 4 = n.y % 4
  BY <1>1, <1>3, <1>5
<1>8. CASE IsDs
  <2>1. next = n.y - 2000 /\ ~r.stopped /\ r.month < 128
    BY <1>1, <1>8 DEF Holds
  <2>2. QED
    BY <1>6, <1>7, <1>8, <2>1, CountsTo
<1>9. CASE ~IsDs
  <2>1. r.comp = 65535 - r.year /\ r.year \in n.y - 1 .. n.y
    BY <1>1, <1>5, <1>9 DEF Holds
  <2>2. QED
    BY <1>6, <1>7, <1>9, <2>1, CountsTo
<1>10. QED
  BY <1>8, <1>9

LEMMA ChipYearsOn ==
  ASSUME NEW r \in RegSet, NEW t \in DateSet, RealDate(t), Holds(r, t, 1), NEW n, Between(n, 0, 2),
         NEW u \in DateSet, u = [t EXCEPT !.y = t.y + n], RealDate(u)
  PROVE  ChipYears(r, n) \in RegSet /\ Holds(ChipYears(r, n), u, 3)
<1> DEFINE y == IF IsDs THEN t.y - 2000 ELSE t.y % 4
<1>1. /\ Between(t.y, 2000, 2099) /\ t.m \in Int /\ t.d \in Int /\ Between(int2bcd(t.m), 0, 18)
      /\ u.y = t.y + n /\ u.m = t.m /\ u.d = t.d
  BY DateBcd DEF DateSet
<1>2. Inside(r) = Date(y, t.m, t.d)
  BY InsideHolds
<1>3. ChipYears(r, n) = ChipAt(r, Date(y + n, u.m, u.d))
  BY <1>1, <1>2 DEF ChipYears, Date
<1>4. y \in Int /\ y + n \in Int /\ (y + n) % 4 = u.y % 4
  <2>1. (t.y - 2000 + n) % 4 = (t.y + n) % 4
    BY <1>1
  <2>2. ((t.y % 4) + n) % 4 = (t.y + n) % 4
    BY <1>1
  <2>3. t.y - 2000 \in Int /\ t.y % 4 \in Int /\ n \in Int
    BY <1>1
  <2>4. CASE IsDs
    BY ONLY <1>1, <2>1, <2>3, <2>4
  <2>5. CASE ~IsDs
    BY ONLY <1>1, <2>2, <2>3, <2>5
  <2>6. QED
    BY <2>4, <2>5
<1> HIDE DEF y
<1>5. CASE IsDs
  <2>1. y + n = u.y - 2000 /\ ~r.stopped /\ r.month < 128
    BY <1>1, <1>5 DEF Holds, y
  <2>2. QED
    BY ONLY <1>3, <1>4, <1>5, <2>1, CountsTo, r \in RegSet, u \in DateSet, RealDate(u)
<1>6. CASE ~IsDs
  <2>1. r.comp = 65535 - r.year /\ r.year \in u.y - 3 .. u.y
    BY <1>1, <1>6 DEF Holds
  <2>2. QED
    BY ONLY <1>3, <1>4, <1>6, <2>1, CountsTo, r \in RegSet, u \in DateSet, RealDate(u)
<1>7. QED
  BY <1>5, <1>6

(* The driver reads the date the chip holds, and catches up with the year.       *)
LEMMA DsReads ==
  ASSUME IsDs, NEW r \in RegSet, NEW t \in DateSet, RealDate(t), NEW k, Holds(r, t, k)
  PROVE  DsRead(r).tm = TmOf(t) /\ DsRead(r).reg = r
<1>1. /\ Between(t.y, 2000, 2099) /\ Between(int2bcd(t.m), 0, 18) /\ bcd2int(int2bcd(t.d)) = t.d
      /\ bcd2int(int2bcd(t.m)) = t.m /\ bcd2int(int2bcd(t.y - 2000)) = t.y - 2000
  BY DateBcd
<1>2. r.day = int2bcd(t.d) /\ r.month = int2bcd(t.m) /\ r.yy = int2bcd(t.y - 2000)
  BY DEF Holds
<1>3. ~(r.month >= 128) /\ r.month % 128 = r.month
  BY <1>1, <1>2
<1>4. t.y - 2000 + 100 + 0 = t.y - 1900
  BY <1>1
<1>5. QED
  BY <1>1, <1>2, <1>3, <1>4 DEF DsRead, TmOf

LEMMA PcfReads ==
  ASSUME ~IsDs, NEW r \in RegSet, NEW t \in DateSet, RealDate(t), Holds(r, t, 3)
  PROVE  /\ PcfRead(r, r.year).tm = TmOf(t)
         /\ PcfRead(r, r.year).reg \in RegSet /\ Holds(PcfRead(r, r.year).reg, t, 0)
<1>1. /\ Between(t.y, 2000, 2099) /\ Between(int2bcd(t.d), 0, 49) /\ bcd2int(int2bcd(t.d)) = t.d
      /\ Between(int2bcd(t.m), 0, 18) /\ bcd2int(int2bcd(t.m)) = t.m
  BY DateBcd
<1>2. /\ r.comp = 65535 - r.year /\ r.year \in t.y - 3 .. t.y
      /\ r.day = int2bcd(t.d) + 64 * (t.y % 4) /\ r.month = int2bcd(t.m)
  BY DEF Holds
<1>3. r.year \in Int /\ t.y - 3 <= r.year /\ r.year <= t.y /\ t.y \in Int
  BY <1>1, <1>2, RegTypes
<1>4. YearBits(r) = t.y % 4 /\ r.day % 64 = int2bcd(t.d) /\ r.month % 32 = int2bcd(t.m)
  BY PcfBytes
<1>5. RollYear(r.year, t.y % 4) = t.y
  <2>1. r.year + (((t.y % 4) - r.year) % 4) = t.y
    BY <1>3, RollsTo
  <2>2. t.y % 65536 = t.y
    BY <1>1
  <2>3. QED
    BY <2>1, <2>2 DEF RollYear
<1>6. PcfRead(r, r.year).tm = TmOf(t)
  BY <1>1, <1>4, <1>5 DEF PcfRead, TmOf
<1>7. CASE t.y = r.year
  <2>1. PcfRead(r, r.year).reg = r
    BY <1>4, <1>5, <1>7 DEF PcfRead
  <2>2. QED
    BY <1>1, <1>2, <1>6, <1>7, <2>1 DEF Holds
<1>8. CASE t.y # r.year
  <2> DEFINE comp == 65535 - t.y
             got == PcfRead(r, r.year).reg
  <2>1. comp \in Int /\ t.y \in Int
    BY <1>1
  <2> DEFINE year == RollYear(r.year, YearBits(r))
  <2>2. year = t.y
    BY <1>4, <1>5
  <2> HIDE DEF year
  <2>3. got = IF year = r.year THEN r ELSE [r EXCEPT !.year = year, !.comp = 65535 - year]
    BY DEF PcfRead, year
  <2>4. got = [r EXCEPT !.year = t.y, !.comp = comp]
    BY <1>8, <2>2, <2>3
  <2> HIDE DEF got, comp
  <2>5. got = Reg(r.day, r.month, r.yy, t.y, comp, r.stopped)
    BY ONLY <2>1, <2>4, PutYear, r \in RegSet, Zenon
  <2>6. got \in RegSet /\ got.day = r.day /\ got.month = r.month /\ got.year = t.y /\ got.comp = comp
    BY ONLY r \in RegSet, <2>1, <2>5, Registers, RegTypes
  <2>7. Holds(got, t, 0)
    BY <1>1, <1>2, <2>6 DEF Holds, comp
  <2>8. QED
    BY <1>6, <2>6, <2>7 DEF got
<1>9. QED
  BY <1>7, <1>8

(* One register is written at a time.                                          *)
WithDay(r, x) == [r EXCEPT !.day = x]
WithMonth(r, x) == [r EXCEPT !.month = x]
WithYy(r, x) == [r EXCEPT !.yy = x]
WithYear(r, x) == [r EXCEPT !.year = x]
WithComp(r, x) == [r EXCEPT !.comp = x]
Running(r) == [r EXCEPT !.stopped = FALSE]

LEMMA DayWritten ==
  ASSUME NEW r \in RegSet, NEW x \in Int
  PROVE  LET w == WithDay(r, x) IN
         /\ w \in RegSet /\ w.day = x /\ w.month = r.month /\ w.yy = r.yy
         /\ w.year = r.year /\ w.comp = r.comp /\ w.stopped = r.stopped
BY DEF RegSet, WithDay

LEMMA MonthWritten ==
  ASSUME NEW r \in RegSet, NEW x \in Int
  PROVE  LET w == WithMonth(r, x) IN
         /\ w \in RegSet /\ w.day = r.day /\ w.month = x /\ w.yy = r.yy
         /\ w.year = r.year /\ w.comp = r.comp /\ w.stopped = r.stopped
BY DEF RegSet, WithMonth

LEMMA YyWritten ==
  ASSUME NEW r \in RegSet, NEW x \in Int
  PROVE  LET w == WithYy(r, x) IN
         /\ w \in RegSet /\ w.day = r.day /\ w.month = r.month /\ w.yy = x
         /\ w.year = r.year /\ w.comp = r.comp /\ w.stopped = r.stopped
BY DEF RegSet, WithYy

LEMMA YearWritten ==
  ASSUME NEW r \in RegSet, NEW x \in Int
  PROVE  LET w == WithYear(r, x) IN
         /\ w \in RegSet /\ w.day = r.day /\ w.month = r.month /\ w.yy = r.yy
         /\ w.year = x /\ w.comp = r.comp /\ w.stopped = r.stopped
BY DEF RegSet, WithYear

LEMMA CompWritten ==
  ASSUME NEW r \in RegSet, NEW x \in Int
  PROVE  LET w == WithComp(r, x) IN
         /\ w \in RegSet /\ w.day = r.day /\ w.month = r.month /\ w.yy = r.yy
         /\ w.year = r.year /\ w.comp = x /\ w.stopped = r.stopped
BY DEF RegSet, WithComp

LEMMA Runs ==
  ASSUME NEW r \in RegSet
  PROVE  LET w == Running(r) IN
         w \in RegSet /\ w.day = r.day /\ w.month = r.month /\ w.yy = r.yy /\ ~w.stopped
BY DEF RegSet, Running

(* What is written of a date of the century.                                  *)
LEMMA TmBytes ==
  ASSUME NEW t \in DateSet, RealDate(t)
  PROVE  LET tm == TmOf(t) IN
         /\ tm.year + 1900 = t.y /\ tm.mon + 1 = t.m /\ tm.mday = t.d
         /\ tm.year % 100 = t.y - 2000 /\ tm.year % 4 = t.y % 4 /\ ~(tm.year >= 200)
         /\ 65535 - tm.year - 1900 = 65535 - t.y
         /\ Between(t.y, 2000, 2099) /\ int2bcd(t.d) \in Int /\ int2bcd(t.m) \in Int
         /\ int2bcd(t.y - 2000) \in Int /\ t.y % 4 \in Int
<1> DEFINE tm == TmOf(t)
<1>1. tm.year = t.y - 1900 /\ tm.mon = t.m - 1 /\ tm.mday = t.d
  BY TmOfDate
<1>2. /\ Between(t.y, 2000, 2099) /\ t.m \in Int /\ int2bcd(t.d) \in Int /\ int2bcd(t.m) \in Int
      /\ int2bcd(t.y - 2000) \in Int
  BY DateBcd
<1> HIDE DEF tm
<1>3. /\ tm.year + 1900 = t.y /\ tm.year % 100 = t.y - 2000 /\ tm.year % 4 = t.y % 4
      /\ ~(tm.year >= 200) /\ 65535 - tm.year - 1900 = 65535 - t.y /\ t.y % 4 \in Int
  BY <1>1, <1>2
<1>4. tm.mon + 1 = t.m
  BY <1>1, <1>2
<1>5. QED
  BY <1>1, <1>2, <1>3, <1>4 DEF tm

(* The registers as a set goes on, for the chips whose clock runs as soon as it    *)
(* is written and for those it has to be started in the end.                     *)
LEMMA DsSets ==
  ASSUME NEW r \in RegSet, NEW t \in DateSet, RealDate(t)
  PROVE  LET a == WithDay(r, int2bcd(t.d))
             b == WithMonth(a, int2bcd(t.m))
             c == WithYy(b, int2bcd(t.y - 2000))
             steps == SetSteps(r, TmOf(t))
         IN /\ chip = "ds3231" => steps = <<r, a, b, c, Running(c)>>
            /\ chip = "ds1307" => Len(steps) = 4 /\ steps[4] = Running(c)
<1> DEFINE tm == TmOf(t)
           day == int2bcd(tm.mday)
           month == int2bcd(tm.mon + 1) + (IF tm.year >= 200 THEN 128 ELSE 0)
           yy == int2bcd(tm.year % 100)
           a == WithDay(r, day)
           b == WithMonth(a, month)
           c == WithYy(b, yy)
<1>1. day = int2bcd(t.d) /\ month = int2bcd(t.m) /\ yy = int2bcd(t.y - 2000)
  BY TmBytes
<1> HIDE DEF tm, day, month, yy
<1>2. CASE chip = "ds3231"
  <2>1. SetSteps(r, tm) = <<r, a, b, c, Running(c)>>
    BY <1>2 DEF SetSteps, WithDay, WithMonth, WithYy, Running, day, month, yy
  <2> HIDE DEF a, b, c
  <2>2. QED
    BY <1>1, <1>2, <2>1 DEF tm, a, b, c
<1>3. CASE chip = "ds1307"
  <2>1. SetSteps(r, tm) = [i \in 1 .. 4 |-> Running(<<a, b, c, c>>[i])]
    BY <1>3 DEF SetSteps, WithDay, WithMonth, WithYy, Running, day, month, yy
  <2> HIDE DEF a, b, c
  <2>2. Len(SetSteps(r, tm)) = 4 /\ SetSteps(r, tm)[4] = Running(c)
    BY <2>1
  <2>3. QED
    BY <1>1, <1>3, <2>2 DEF tm, a, b, c
<1>4. QED
  BY <1>2, <1>3

LEMMA PcfSets ==
  ASSUME NEW r \in RegSet, NEW t \in DateSet, RealDate(t), chip = "pcf8583"
  PROVE  LET p == WithDay(r, int2bcd(t.d) + 64 * (t.y % 4))
             q == WithMonth(p, int2bcd(t.m))
             u == WithYear(q, t.y)
         IN SetSteps(r, TmOf(t)) = <<r, p, q, u, WithComp(u, 65535 - t.y)>>
<1> DEFINE tm == TmOf(t)
           day == int2bcd(tm.mday) + 64 * (tm.year % 4)
           month == int2bcd(tm.mon + 1)
           year == tm.year + 1900
           comp == 65535 - tm.year - 1900
           p == WithDay(r, day)
           q == WithMonth(p, month)
           u == WithYear(q, year)
<1>1. /\ day = int2bcd(t.d) + 64 * (t.y % 4) /\ month = int2bcd(t.m) /\ year = t.y
      /\ comp = 65535 - t.y
  BY TmBytes
<1> HIDE DEF tm, day, month, year, comp
<1>2. SetSteps(r, tm) = <<r, p, q, u, WithComp(u, comp)>>
  BY DEF SetSteps, WithDay, WithMonth, WithYear, WithComp, day, month, year, comp
<1> HIDE DEF p, q, u
<1>3. QED
  BY <1>1, <1>2 DEF tm, p, q, u

(* All of a set leaves the chip with the date, a part of one leaves it unset.    *)
LEMMA SetAll ==
  ASSUME chip \in {"ds1307", "ds3231", "pcf8583"}, NEW r \in RegSet, NEW t \in DateSet, RealDate(t)
  PROVE  LET steps == SetSteps(r, TmOf(t)) IN
         steps[Len(steps)] \in RegSet /\ Holds(steps[Len(steps)], t, 0)
<1> DEFINE steps == SetSteps(r, TmOf(t))
           last == steps[Len(steps)]
           day == int2bcd(t.d)
           month == int2bcd(t.m)
           yy == int2bcd(t.y - 2000)
           dy == day + 64 * (t.y % 4)
           comp == 65535 - t.y
<1>1. /\ day \in Int /\ month \in Int /\ yy \in Int /\ t.y \in Int /\ comp \in Int /\ dy \in Int
  BY TmBytes
<1> HIDE DEF day, month, yy, dy, comp
<1>2. CASE IsDs
  <2> DEFINE a == WithDay(r, day)
             b == WithMonth(a, month)
             c == WithYy(b, yy)
  <2>1. last = Running(c)
    <3> HIDE DEF a, b, c
    <3>1. CASE chip = "ds3231"
      <4>1. steps = <<r, a, b, c, Running(c)>>
        BY <3>1, DsSets DEF a, b, c, day, month, yy
      <4>2. QED
        BY <4>1
    <3>2. CASE chip = "ds1307"
      <4>1. Len(steps) = 4 /\ steps[4] = Running(c)
        BY <3>2, DsSets DEF a, b, c, day, month, yy
      <4>2. QED
        BY <4>1
    <3>3. QED
      BY <1>2, <3>1, <3>2 DEF IsDs
  <2> HIDE DEF last
  <2>2. a \in RegSet /\ a.day = day
    BY ONLY <1>1, r \in RegSet, DayWritten
  <2> HIDE DEF a
  <2>3. b \in RegSet /\ b.day = day /\ b.month = month
    BY ONLY <1>1, <2>2, MonthWritten
  <2> HIDE DEF b
  <2>4. c \in RegSet /\ c.day = day /\ c.month = month /\ c.yy = yy
    BY ONLY <1>1, <2>3, YyWritten
  <2> HIDE DEF c
  <2>5. last \in RegSet /\ last.day = day /\ last.month = month /\ last.yy = yy /\ ~last.stopped
    BY <2>1, <2>4, Runs
  <2>6. QED
    BY <1>2, <2>5 DEF Holds, last, day, month, yy
<1>3. CASE ~IsDs
  <2> DEFINE p == WithDay(r, dy)
             q == WithMonth(p, month)
             u == WithYear(q, t.y)
  <2>1. last = WithComp(u, comp)
    <3>1. chip = "pcf8583"
      BY <1>3 DEF IsDs
    <3> HIDE DEF p, q, u
    <3>2. steps = <<r, p, q, u, WithComp(u, comp)>>
      BY <3>1, PcfSets DEF p, q, u, day, month, dy, comp
    <3>3. QED
      BY <3>2
  <2> HIDE DEF last
  <2>2. p \in RegSet /\ p.day = dy
    BY ONLY <1>1, r \in RegSet, DayWritten
  <2> HIDE DEF p
  <2>3. q \in RegSet /\ q.day = dy /\ q.month = month
    BY ONLY <1>1, <2>2, MonthWritten
  <2> HIDE DEF q
  <2>4. u \in RegSet /\ u.day = dy /\ u.month = month /\ u.year = t.y
    BY ONLY <1>1, <2>3, YearWritten
  <2> HIDE DEF u
  <2>5. /\ last \in RegSet /\ last.day = dy /\ last.month = month
        /\ last.year = t.y /\ last.comp = comp
    BY ONLY <1>1, <2>1, <2>4, CompWritten
  <2>6. t.y \in t.y - 0 .. t.y
    BY <1>1
  <2>7. QED
    BY <1>3, <2>5, <2>6 DEF Holds, last, day, month, dy, comp
<1>4. QED
  BY <1>2, <1>3

LEMMA SetPart ==
  ASSUME chip \in {"ds3231", "pcf8583"}, NEW r \in RegSet, NEW t \in DateSet, RealDate(t), Unset(r),
         NEW i, i \in 1 .. Len(SetSteps(r, TmOf(t))) - 1
  PROVE  SetSteps(r, TmOf(t))[i] \in RegSet /\ Unset(SetSteps(r, TmOf(t))[i])
<1> DEFINE steps == SetSteps(r, TmOf(t))
           day == int2bcd(t.d)
           month == int2bcd(t.m)
           yy == int2bcd(t.y - 2000)
           dy == day + 64 * (t.y % 4)
<1>1. /\ day \in Int /\ month \in Int /\ yy \in Int /\ t.y \in Int /\ dy \in Int /\ Between(t.y, 0, 2099)
  BY TmBytes
<1> HIDE DEF day, month, yy, dy
<1>2. CASE chip = "ds3231"
  <2> DEFINE a == WithDay(r, day)
             b == WithMonth(a, month)
             c == WithYy(b, yy)
             e == Running(c)
  <2>1. steps = <<r, a, b, c, e>>
    BY <1>2, DsSets DEF day, month, yy
  <2>2. r.stopped = TRUE
    BY <1>2, RegTypes DEF IsDs, Unset
  <2>3. a \in RegSet /\ a.stopped = r.stopped
    BY ONLY <1>1, r \in RegSet, DayWritten
  <2> HIDE DEF a, e
  <2>4. b \in RegSet /\ b.stopped = a.stopped
    BY ONLY <1>1, <2>3, MonthWritten
  <2> HIDE DEF b
  <2>5. c \in RegSet /\ c.stopped = b.stopped
    BY ONLY <1>1, <2>4, YyWritten
  <2> HIDE DEF c
  <2>6. steps[i] \in {r, a, b, c}
    BY <2>1
  <2> HIDE DEF steps
  <2>7. steps[i] \in RegSet /\ steps[i].stopped = TRUE
    BY ONLY r \in RegSet, <2>2, <2>3, <2>4, <2>5, <2>6
  <2>8. QED
    BY <1>2, <2>7 DEF Unset, IsDs, steps
<1>3. CASE chip = "pcf8583"
  <2> DEFINE p == WithDay(r, dy)
             q == WithMonth(p, month)
             u == WithYear(q, t.y)
             e == WithComp(u, 65535 - t.y)
  <2>1. steps = <<r, p, q, u, e>>
    BY <1>3, PcfSets DEF day, month, dy
  <2>2. r.comp = 0 /\ Between(r.year, 0, 2099)
    BY <1>3 DEF IsDs, Unset
  <2>3. p \in RegSet /\ p.comp = r.comp /\ p.year = r.year
    BY ONLY <1>1, r \in RegSet, DayWritten
  <2> HIDE DEF p, e
  <2>4. q \in RegSet /\ q.comp = p.comp /\ q.year = p.year
    BY ONLY <1>1, <2>3, MonthWritten
  <2> HIDE DEF q
  <2>5. u \in RegSet /\ u.comp = q.comp /\ u.year = t.y
    BY ONLY <1>1, <2>4, YearWritten
  <2> HIDE DEF u
  <2>6. steps[i] \in {r, p, q, u}
    BY <2>1
  <2> HIDE DEF steps
  <2>7. steps[i] \in RegSet /\ steps[i].comp = 0 /\ Between(steps[i].year, 0, 2099)
    BY ONLY r \in RegSet, <1>1, <2>2, <2>3, <2>4, <2>5, <2>6
  <2>8. QED
    BY <1>3, <2>7 DEF Unset, IsDs, steps
<1>4. QED
  BY <1>2, <1>3

-----------------------------------------------------------------------------
(* The steps. *)

(* Switched on, a chip that holds a date is taken to be set and has its year     *)
(* caught up, and one that does not is not.                                  *)
LEMMA RestartSet ==
  ASSUME chip \in {"ds1307", "ds3231", "pcf8583"}, NEW r \in RegSet,
         NEW t \in DateSet, RealDate(t), Holds(r, t, 3), Restart(r, t)
  PROVE  rtc_state' = "OK" /\ reg' \in RegSet /\ Holds(reg', t, 1) /\ today' = t
<1>1. Valid(r)
  BY DEF Holds, Valid
<1>2. CASE chip = "pcf8583"
  <2>1. ~IsDs /\ t.y \in Int
    BY <1>2 DEF IsDs, DateSet
  <2>2. reg' = PcfRead(r, r.year).reg
    BY <1>1, <1>2 DEF Restart
  <2>3. reg' \in RegSet /\ Holds(reg', t, 0)
    BY <2>1, <2>2, PcfReads
  <2>4. QED
    BY <1>1, <2>1, <2>3 DEF Restart, Holds
<1>3. CASE chip # "pcf8583"
  <2>1. IsDs
    BY <1>3 DEF IsDs
  <2>2. QED
    BY <1>1, <1>3, <2>1 DEF Restart, Holds
<1>4. QED
  BY <1>2, <1>3

LEMMA RestartUnset ==
  ASSUME chip \in {"ds1307", "ds3231", "pcf8583"}, NEW r \in RegSet, Unset(r), NEW t, Restart(r, t)
  PROVE  rtc_state' = "INVALID" /\ reg' = r /\ today' = Unknown
<1>1. ~Valid(r)
  BY DEF Unset, Valid
<1>2. QED
  BY <1>1 DEF Restart

(* What is not said is not wrong.                                            *)
LEMMA Silence ==
  ASSUME said = NothingSaid
  PROVE  DatesRight
BY DEF DatesRight, TellsDate, StampsDate

(* A date of the century is not the one that stands for none.                  *)
LEMMA Known ==
  ASSUME NEW t \in DateSet, RealDate(t)
  PROVE  t # Unknown
<1>1. Between(t.y, 2000, 2099)
  BY DateBcd
<1>2. QED
  BY <1>1 DEF Unknown, Date

(* The software clock is started with a date.                                  *)
LEMMA SoftStarts ==
  /\ SoftStart \in DateSet /\ RealDate(SoftStart) /\ SoftStart # Unknown
  /\ mktime(TmOf(SoftStart)) = DayNumber(SoftStart)
<1>1. SoftStart.y = 2008 /\ SoftStart.m = 8 /\ SoftStart.d = 2 /\ SoftStart \in DateSet
  BY DEF SoftStart, Date, DateSet
<1>2. LastDay(8, is_leap(2008)) = 31
  BY MonthTable DEF LastDay
<1>3. RealDate(SoftStart)
  BY <1>1, <1>2 DEF RealDate
<1>4. QED
  BY <1>1, <1>3, MktimeDay, Known

(* rtc_set() of a date, by the host, or by clk_init() of a chip that is not set.   *)
LEMMA SetStep ==
  ASSUME CalendarHabits = {}, CalInv, NEW t \in DateSet, RealDate(t), rtc_set(t, TmOf(t)),
         chip' = chip, chip = "soft" => t.m # 1,
         said' = NothingSaid
  PROVE  CalInv'
<1>1. DatesRight' /\ chip' = chip /\ chip \in {"soft", "ds1307", "ds3231", "pcf8583"}
  BY Silence DEF CalInv, DatesRight, TellsDate, StampsDate
<1>2. t # Unknown
  BY Known
<1>3. CASE chip = "soft"
  <2>1. rtc_state' = "OK" /\ today' = t /\ days' = mktime(TmOf(t))
    BY <1>3 DEF rtc_set
  <2>2. days' = DayNumber(t)
    BY <1>3, <2>1, MktimeDay DEF DateSet
  <2>3. SoftOk' /\ TodayOk'
    BY <1>2, <2>1, <2>2 DEF SoftOk, TodayOk
  <2>4. QED
    BY <1>1, <1>3, <2>3 DEF CalInv
<1>4. CASE chip # "soft"
  <2> DEFINE steps == SetSteps(reg, TmOf(t))
  <2>1. ChipOk /\ reg \in RegSet
    BY <1>4 DEF CalInv, ChipOk
  <2>2. CASE reg' = steps[Len(steps)] /\ rtc_state' = "OK" /\ today' = t
    <3>1. reg' \in RegSet /\ Holds(reg', t, 0)
      BY <1>1, <1>4, <2>1, <2>2, SetAll
    <3>2. Holds(reg', t, 1)
      <4>1. Between(t.y, 2000, 2099)
        BY DateBcd
      <4>2. QED
        BY <3>1, <4>1 DEF Holds
    <3>3. ChipOk' /\ TodayOk'
      BY <1>1, <1>2, <2>2, <3>1, <3>2 DEF ChipOk, TodayOk, Holds, IsDs
    <3>4. QED
      BY <1>1, <1>4, <3>3 DEF CalInv
  <2>3. CASE /\ rtc_state = "INVALID" /\ chip # "ds1307"
             /\ \E i \in 1 .. Len(steps) - 1 : Restart(steps[i], today)
    <3>1. Unset(reg)
      BY <2>1, <2>3 DEF ChipOk
    <3>2. PICK i \in 1 .. Len(steps) - 1 : Restart(steps[i], today)
      BY <2>3
    <3>3. steps[i] \in RegSet /\ Unset(steps[i])
      BY <1>1, <1>4, <2>1, <2>3, <3>1, SetPart
    <3>4. rtc_state' = "INVALID" /\ reg' = steps[i] /\ today' = Unknown
      BY <1>1, <1>4, <3>2, <3>3, RestartUnset
    <3>5. ChipOk' /\ TodayOk'
      BY <1>1, <3>3, <3>4 DEF ChipOk, TodayOk, Unset, IsDs
    <3>6. QED
      BY <1>1, <1>4, <3>5 DEF CalInv
  <2>4. QED
    BY <1>4, <2>2, <2>3 DEF rtc_set
<1>5. QED
  BY <1>3, <1>4

(* What clk_init() stores is the date the firmware was built.                   *)
LEMMA BuildStep ==
  ASSUME CalendarHabits = {}, CalInv, clk_init
  PROVE  CalInv'
<1> DEFINE t == DateOf(Build)
<1>1. Build \in Int /\ RealDate(t)
  BY DatesAssumption
<1>2. t \in DateSet /\ t.d \in Int
  BY <1>1 DEF DateOf, Date, DateSet
<1>3. chip # "soft"
  BY DEF clk_init, CalInv, SoftOk
<1>4. ~(t.d < 10)
  BY DEF clk_init
<1>5. BuildTm = TmOf(t)
  BY <1>4 DEF BuildTm, TmOf
<1>6. ChipOk /\ rtc_state = "INVALID"
  BY <1>3 DEF CalInv, clk_init
<1>7. said' = NothingSaid
  BY <1>6 DEF ChipOk, clk_init
<1> HIDE DEF t
<1>8. rtc_set(t, TmOf(t)) /\ chip' = chip
  BY <1>5 DEF clk_init, t
<1>9. QED
  BY <1>1, <1>2, <1>3, <1>7, <1>8, SetStep

(* What rtc_get() returns is the date it is, if the clock was set and answers.   *)
LEMMA GetRight ==
  ASSUME CalInv, InCentury, NEW nack \in {"no", "date"}, chip = "soft" => nack = "no",
         chip = "soft" => gmtime(days) # Lost, rtc_state = "OK"
  PROVE  LET got == rtc_get(nack) IN
         /\ TmOk(got.tm) /\ today # Unknown
         /\ nack = "date" => got.tm = rtc_default_date
         /\ nack = "no" => got.tm = TmOf(today)
         /\ chip # "soft" => got.reg \in RegSet /\ Holds(got.reg, today, 1)
<1> DEFINE got == rtc_get(nack)
<1>1. chip \in {"soft", "ds1307", "ds3231", "pcf8583"} /\ TodayOk
  BY DEF CalInv
<1>2. CASE chip = "soft"
  <2>1. got = [tm |-> gmtime(days), reg |-> reg] /\ Century(days) /\ SoftOk
    BY <1>2 DEF rtc_get, InCentury, CalInv
  <2>2. TmOk(gmtime(days))
    BY <1>2, <2>1, GmtimeOk
  <2>3. gmtime(days) = TmOf(today) /\ today # Unknown
    <3>1. /\ today \in DateSet /\ RealDate(today) /\ days = DayNumber(today)
          /\ today # Unknown
      BY <1>1, <2>1 DEF TodayOk, SoftOk
    <3>2. QED
      BY <1>2, <2>1, <3>1, GmtimeDate DEF DateSet
  <2>4. QED
    BY <1>2, <2>1, <2>2, <2>3
<1>3. CASE chip # "soft"
  <2>1. ChipOk /\ reg \in RegSet
    BY <1>3 DEF CalInv, ChipOk
  <2>2. today # Unknown
    BY <2>1 DEF ChipOk
  <2>3. CASE today # Unknown
    <3>1. /\ today \in DateSet /\ RealDate(today) /\ rtc_state = "OK" /\ Holds(reg, today, 1)
          /\ TmOk(TmOf(today)) /\ today.y \in Int
      BY <1>1, <2>1, <2>3, TmOfDate DEF TodayOk, ChipOk, DateSet
    <3>2. CASE nack = "date"
      <4>1. got = [tm |-> rtc_default_date, reg |-> reg]
        BY <1>3, <3>2 DEF rtc_get
      <4>2. QED
        BY <2>1, <2>3, <3>1, <3>2, <4>1, DefaultDate
    <3>3. CASE nack = "no" /\ IsDs
      <4>1. got = DsRead(reg)
        BY <1>3, <3>1, <3>3 DEF rtc_get
      <4>2. got.tm = TmOf(today) /\ got.reg = reg
        BY <2>1, <3>1, <3>3, <4>1, DsReads
      <4>3. QED
        BY <2>1, <2>3, <3>1, <3>3, <4>2
    <3>4. CASE nack = "no" /\ ~IsDs
      <4>1. got = PcfRead(reg, reg.year)
        BY <1>3, <3>1, <3>4 DEF rtc_get
      <4>2. Holds(reg, today, 3)
        BY <2>1, <3>1, <3>4 DEF Holds, RegSet
      <4>3. got.tm = TmOf(today) /\ got.reg \in RegSet /\ Holds(got.reg, today, 0)
        BY <2>1, <3>1, <3>4, <4>1, <4>2, PcfReads
      <4>4. Holds(got.reg, today, 1)
        BY <3>1, <3>4, <4>3 DEF Holds, RegSet
      <4>5. QED
        BY ONLY <1>3, <2>3, <3>1, <3>4, <4>3, <4>4
    <3>5. QED
      BY <3>2, <3>3, <3>4
  <2>4. QED
    BY <2>2, <2>3
<1>4. QED
  BY <1>2, <1>3

LEMMA TellStep ==
  ASSUME CalendarHabits = {}, CalInv, InCentury, Tell
  PROVE  CalInv'
<1>1. /\ chip \in {"soft", "ds1307", "ds3231", "pcf8583"} /\ TodayOk
      /\ UNCHANGED <<chip, rtc_state, days, today>>
  BY DEF CalInv, Tell
<1>2. rtc_state = "OK" /\ (chip = "soft" => gmtime(days) # Lost)
  BY DEF Tell
<1>3. PICK nack \in Nacks :
        LET r == rtc_get(nack) IN
        /\ reg' = r.reg
        /\ said' = [date |-> Date(2000 + (r.tm.year % 100), r.tm.mon + 1, r.tm.mday),
                    stamp |-> get_fattime(r.tm), nack |-> nack = "date"]
  BY DEF Tell
<1>4. nack \in {"no", "date"} /\ (chip = "soft" => nack = "no")
  BY <1>1 DEF Nacks
<1> DEFINE got == rtc_get(nack)
           tm == got.tm
           date == Date(2000 + (tm.year % 100), tm.mon + 1, tm.mday)
<1>5. /\ TmOk(tm) /\ today # Unknown
      /\ nack = "date" => tm = rtc_default_date
      /\ nack = "no" => tm = TmOf(today)
      /\ chip # "soft" => reg' \in RegSet /\ Holds(reg', today, 1)
  BY <1>2, <1>3, <1>4, GetRight
<1>6. /\ said'.date = date /\ said'.stamp = get_fattime(tm)
      /\ nack = "date" => said'.nack
      /\ nack = "no" => ~said'.nack
  <2> DEFINE stamp == get_fattime(tm)
  <2>1. said' = [date |-> date, stamp |-> stamp, nack |-> nack = "date"]
    BY <1>3
  <2> HIDE DEF date, stamp, tm
  <2>2. said'.date = date /\ said'.stamp = stamp
    BY ONLY <2>1
  <2>3. said'.nack <=> nack = "date"
    BY ONLY <2>1
  <2>4. QED
    BY <2>2, <2>3 DEF stamp
<1> HIDE DEF got, date
<1>7. StampsDate'
  BY <1>5, <1>6, StampOfTm DEF StampsDate, date
<1>8. TellsDate'
  <2>1. CASE nack = "date"
    <3>1. said'.nack
      BY <1>6, <2>1
    <3>2. said'.date = Date(2020, 1, 1)
      BY <1>5, <1>6, <2>1, DefaultDate DEF date
    <3>3. QED
      BY ONLY <3>1, <3>2 DEF TellsDate
  <2>2. CASE nack = "no"
    <3>1. ~said'.nack
      BY <1>6, <2>2
    <3>2. said'.date = today
      <4>1. today \in DateSet /\ RealDate(today)
        BY <1>1, <1>5 DEF TodayOk
      <4>2. QED
        BY <1>5, <1>6, <2>2, <4>1, TmOfDate DEF date
    <3>3. today' = today
      BY <1>1
    <3>4. QED
      BY ONLY <3>1, <3>2, <3>3 DEF TellsDate
  <2>3. QED
    BY <1>4, <2>1, <2>2
<1>9. TodayOk' /\ (chip = "soft" => SoftOk')
  BY <1>1 DEF CalInv, TodayOk, SoftOk
<1>10. ASSUME chip # "soft" PROVE ChipOk'
  <2>1. ChipOk
    BY <1>10 DEF CalInv
  <2>2. QED
    BY <1>1, <1>5, <1>10, <2>1 DEF ChipOk, Holds, IsDs
<1>11. QED
  BY <1>1, <1>7, <1>8, <1>9, <1>10 DEF CalInv, DatesRight

LEMMA MidnightStep ==
  ASSUME CalInv, InCentury, InCentury', Midnight,
         chip = "pcf8583" /\ today # Unknown /\ today'.y # today.y => reg.year = today.y
  PROVE  CalInv'
<1>1. /\ chip' = chip /\ chip \in {"soft", "ds1307", "ds3231", "pcf8583"} /\ rtc_state' = rtc_state
      /\ DatesRight'
  BY Silence DEF CalInv, Midnight, DatesRight, TellsDate, StampsDate
<1>2. CASE today = Unknown
  <2>1. today' = Unknown /\ reg' = reg
    BY <1>2 DEF Midnight
  <2>2. said' = NothingSaid
    BY DEF Midnight
  <2>3. QED
    BY <1>1, <1>2, <2>1, <2>2 DEF CalInv, TodayOk, SoftOk, ChipOk, Unset, IsDs
<1>3. CASE today # Unknown
  <2> DEFINE n == NextDay(today, is_leap(today.y))
  <2>1. today \in DateSet /\ RealDate(today) /\ today' = n
    BY <1>3 DEF CalInv, TodayOk, Midnight
  <2>2. /\ n \in DateSet /\ n.y \in {today.y, today.y + 1}
        /\ n.y <= 2099 => RealDate(n) /\ DayNumber(n) = DayNumber(today) + 1
    BY <2>1, NextNumber DEF DateSet
  <2>3. Between(today.y, 2000, 2099) /\ n # Unknown
    <3>1. Between(today.y, 2000, 2099)
      BY <2>1, DateBcd
    <3>2. Unknown.y = 0
      BY DEF Unknown, Date
    <3>3. QED
      BY <3>1, <3>2, <2>2
  <2>4. CASE chip = "soft"
    <3>1. days = DayNumber(today) /\ days' = days + 1 /\ rtc_state = "OK"
      BY <1>3, <2>4 DEF CalInv, SoftOk, Midnight
    <3>2. n.y <= 2099
      <4>1. CASE today.y = 2099 /\ n.y = 2100
        <5>1. n = Date(2100, 1, 1) /\ today.m = 12 /\ today.d >= LastDay(12, is_leap(today.y))
          <6>1. Between(today.m, 1, 12) /\ today.d \in Int /\ LastDay(today.m, is_leap(today.y)) \in Int
            BY <2>1, DateParts, MonthLength DEF DateSet
          <6>2. ~(today.d < LastDay(today.m, is_leap(today.y))) /\ ~(today.m < 12)
            BY <4>1, <2>1 DEF NextDay, Date, DateSet
          <6>3. QED
            BY <4>1, <6>1, <6>2 DEF NextDay
        <5>2. LastDay(12, is_leap(today.y)) = 31 /\ Leap(is_leap(today.y)) \in Int
          BY MonthTable DEF LastDay, Leap
        <5>3. DayNumber(today) = DaysTo(2099) + 334 + Leap(is_leap(2099)) + today.d - 1
          <6>1. today.m - 1 = 11
            BY <5>1
          <6>2. MonthStart(11, is_leap(today.y)) = 334 + Leap(is_leap(today.y))
            BY MonthTable
          <6>3. DayNumber(today) = DaysTo(today.y) + MonthStart(today.m - 1, is_leap(today.y)) + today.d - 1
            BY DEF DayNumber
          <6>4. MonthStart(today.m - 1, is_leap(today.y)) = 334 + Leap(is_leap(today.y))
            BY ONLY <6>1, <6>2
          <6>5. today.y = 2099
            BY <4>1
          <6>6. DaysTo(2099) \in Int /\ today.d \in Int
            BY <2>1 DEF DaysTo, DateSet
          <6>7. QED
            BY ONLY <6>3, <6>4, <6>5, <5>2, <6>6, SMT
        <5>4. DaysTo(2100) = DaysTo(2099) + 365 + Leap(is_leap(2099))
          BY YearLength
        <5>5. days' >= DaysTo(2100)
          <6>1. DaysTo(2099) \in Int /\ today.d \in Int /\ today.d >= 31
            BY <2>1, <4>1, <5>1, <5>2 DEF DaysTo, DateSet
          <6>2. QED
            BY <3>1, <4>1, <5>2, <5>3, <5>4, <6>1
        <5>6. Century(days') /\ DaysTo(2100) \in Int
          BY <1>1, <2>4 DEF InCentury, DaysTo
        <5>7. QED
          BY <5>5, <5>6 DEF Century
      <4>2. QED
        BY <2>2, <2>3, <4>1
    <3>3. QED
      BY <1>1, <2>1, <2>2, <2>3, <2>4, <3>1, <3>2 DEF CalInv, TodayOk, SoftOk
  <2>5. CASE chip # "soft"
    <3>1. Between(n.y, 2000, 2099)
      BY <1>1, <2>1, <2>3, <2>5 DEF InCentury
    <3>2. RealDate(n)
      BY <2>2, <3>1
    <3>3. reg \in RegSet /\ Holds(reg, today, 1) /\ rtc_state = "OK" /\ reg' = ChipMidnight(reg)
      BY <1>3, <2>5 DEF CalInv, ChipOk, Midnight
    <3>4. ~IsDs => reg.year = today.y \/ n.y = today.y
      BY <1>1, <1>3, <2>1, <2>5 DEF IsDs
    <3>5. reg' \in RegSet /\ Holds(reg', n, 1)
      BY <2>1, <2>2, <3>2, <3>3, <3>4, ChipNextDay
    <3>6. ChipOk'
      BY <1>1, <2>1, <2>3, <3>3, <3>5 DEF ChipOk, Holds, IsDs
    <3>7. QED
      BY <1>1, <2>1, <2>2, <2>5, <3>2, <3>6 DEF CalInv, TodayOk
  <2>6. QED
    BY <2>4, <2>5
<1>4. QED
  BY <1>2, <1>3

(* Years that pass do not unset a chip.                                       *)
LEMMA ChipYearsValid ==
  ASSUME NEW r \in RegSet, NEW n, NEW t, Holds(r, t, 1)
  PROVE  Valid(ChipYears(r, n))
<1>1. ChipYears(r, n).stopped = r.stopped /\ ChipYears(r, n).comp = r.comp
      /\ ChipYears(r, n).year = r.year
  BY DEF ChipYears, ChipAt, RegSet
<1>2. QED
  BY <1>1 DEF Holds, Valid

LEMMA AwayStep ==
  ASSUME MaxAway <= 2, CalInv, InCentury', NEW n \in 0 .. MaxAway, Away(n)
  PROVE  CalInv'
<1>1. /\ chip' = chip /\ chip \in {"soft", "ds1307", "ds3231", "pcf8583"} /\ DatesRight'
      /\ Between(n, 0, 2)
  BY Silence, CalendarAssumption DEF CalInv, Away, DatesRight, TellsDate, StampsDate
<1>2. CASE chip = "soft"
  <2>1. Restart(reg, today)
    BY <1>2 DEF Away
  <2>2. SoftOk' /\ TodayOk'
    BY <1>2, <2>1, SoftStarts DEF Restart, SoftOk, TodayOk
  <2>3. QED
    BY <1>1, <1>2, <2>2 DEF CalInv
<1>3. CASE chip # "soft" /\ today = Unknown
  <2>1. ChipOk /\ Restart(reg, today) /\ said' = NothingSaid
    BY <1>3 DEF CalInv, Away
  <2>2. rtc_state' = "INVALID" /\ reg' = reg /\ today' = Unknown
    BY <1>1, <1>3, <2>1, RestartUnset DEF ChipOk
  <2>3. QED
    BY <1>1, <1>3, <2>1, <2>2 DEF CalInv, TodayOk, ChipOk, Unset, IsDs
<1>4. CASE chip # "soft" /\ today # Unknown
  <2> DEFINE u == [today EXCEPT !.y = today.y + n]
  <2>1. /\ today \in DateSet /\ RealDate(today) /\ reg \in RegSet /\ Holds(reg, today, 1)
        /\ Restart(ChipYears(reg, n), u)
        /\ n > 0 => today.m # 2 /\ today.d < 29
    BY <1>4 DEF CalInv, TodayOk, ChipOk, Away
  <2>2. u \in DateSet /\ u.y = today.y + n /\ u.m = today.m /\ u.d = today.d
    BY <1>1, <2>1 DEF DateSet
  <2>3. u # Unknown
    <3>1. Between(today.y, 2000, 2099)
      BY <2>1, DateBcd
    <3>2. Unknown.y = 0
      BY DEF Unknown, Date
    <3>3. u.y # Unknown.y
      BY <1>1, <2>2, <3>1, <3>2
    <3>4. QED
      BY <3>3, Zenon
  <2>4. Between(u.y, 2000, 2099)
    <3>1. Valid(ChipYears(reg, n))
      BY <1>1, <1>4, <2>1, ChipYearsValid DEF IsDs
    <3>2. today' = u
      BY <1>4, <2>1, <3>1 DEF Restart
    <3>3. QED
      BY <1>1, <1>4, <2>3, <3>2 DEF InCentury
  <2>5. RealDate(u)
    <3>1. /\ Between(today.m, 1, 12) /\ today.d \in 1 .. LastDay(today.m, is_leap(today.y))
          /\ today.d \in Int /\ today.y \in Int
      BY <2>1 DEF RealDate, DateSet
    <3>2. CASE n = 0
      BY <2>1, <2>2, <2>4, <3>1, <3>2 DEF RealDate
    <3>3. CASE n > 0
      <4>1. Between(LastDay(today.m, is_leap(u.y)), 28, 31)
        BY <3>1, MonthLength
      <4>2. today.d \in 1 .. LastDay(today.m, is_leap(u.y))
        BY <2>1, <3>1, <3>3, <4>1
      <4>3. QED
        BY <2>2, <2>4, <3>1, <4>2 DEF RealDate
    <3>4. QED
      BY <1>1, <3>2, <3>3
  <2>6. ChipYears(reg, n) \in RegSet /\ Holds(ChipYears(reg, n), u, 3)
    BY <1>1, <2>1, <2>2, <2>5, ChipYearsOn
  <2>7. rtc_state' = "OK" /\ reg' \in RegSet /\ Holds(reg', u, 1) /\ today' = u
    BY <1>1, <1>4, <2>1, <2>2, <2>5, <2>6, RestartSet
  <2>8. ChipOk'
    BY <1>1, <2>1, <2>3, <2>7 DEF ChipOk, Holds, IsDs
  <2>9. QED
    BY <1>1, <1>4, <2>2, <2>5, <2>7, <2>8 DEF CalInv, TodayOk
<1>5. QED
  BY <1>2, <1>3, <1>4

(* Nothing changes but the hour.                                             *)
LEMMA SameDay ==
  ASSUME CalInv, UNCHANGED <<chip, rtc_state, days, reg, today, said>>
  PROVE  CalInv'
<1>1. DatesRight'
  BY DEF CalInv, DatesRight, TellsDate, StampsDate
<1>2. TodayOk' /\ (chip' = "soft" => SoftOk')
  BY DEF CalInv, TodayOk, SoftOk
<1>3. chip' # "soft" => ChipOk'
  <2>1. ASSUME chip # "soft" PROVE ChipOk'
    <3>1. ChipOk
      BY <2>1 DEF CalInv
    <3>2. QED
      BY <3>1 DEF ChipOk, Unset, Holds, IsDs
  <2>2. QED
    BY <2>1
<1>4. QED
  BY <1>1, <1>2, <1>3 DEF CalInv

LEMMA CalStart ==
  ASSUME CalendarInit
  PROVE  CalInv
<1>1. /\ chip \in {"soft", "ds1307", "ds3231", "pcf8583"} /\ reg = NewChip
      /\ today = (IF chip = "soft" THEN SoftStart ELSE Unknown)
      /\ rtc_state = (IF chip = "soft" THEN "OK" ELSE "INVALID") /\ said = NothingSaid
      /\ days = mktime(TmOf(SoftStart))
  BY CalendarAssumption DEF CalendarInit
<1>2. DatesRight
  BY <1>1, Silence
<1>3. NewChip \in RegSet /\ Unset(NewChip)
  BY DEF NewChip, RegSet, Unset
<1>4. chip # "soft" => ChipOk
  BY <1>1, <1>3 DEF ChipOk
<1>5. TodayOk /\ (chip = "soft" => SoftOk)
  BY <1>1, SoftStarts DEF TodayOk, SoftOk
<1>6. QED
  BY <1>1, <1>2, <1>4, <1>5 DEF CalInv

(* A date the host may set is a date.                                        *)
LEMMA HostDate ==
  ASSUME NEW n \in Dates
  PROVE  DateOf(n) \in DateSet /\ RealDate(DateOf(n))
<1>1. n \in Int
  BY CalendarAssumption
<1>2. DateOf(n) \in DateSet
  BY <1>1 DEF DateOf, Date, DateSet
<1>3. QED
  BY <1>2, DatesAssumption

LEMMA CalStep ==
  ASSUME CalendarHabits = {}, MaxAway <= 2, CalInv, InCentury, InCentury',
         [CalendarNext]_calendarVars, [Asked]_calendarVars
  PROVE  CalInv'
<1>1. ASSUME NEW n \in Dates, SetTo(DateOf(n)) PROVE CalInv'
  BY <1>1, HostDate, SetStep DEF SetTo
<1>8. CASE clk_init
  BY <1>8, BuildStep
<1>2. CASE Tell
  BY <1>2, TellStep
<1>3. CASE Evening
  BY <1>3, SameDay DEF Evening
<1>4. CASE Midnight
  <2>1. chip = "pcf8583" /\ today # Unknown /\ today'.y # today.y => reg.year = today.y
    BY <1>4 DEF Asked, calendarVars
  <2>2. QED
    BY <1>4, <2>1, MidnightStep
<1>5. ASSUME NEW n \in 0 .. MaxAway, Away(n) PROVE CalInv'
  BY <1>5, AwayStep
<1>6. CASE UNCHANGED calendarVars
  BY <1>6, SameDay DEF calendarVars
<1>7. QED
  BY <1>1, <1>2, <1>3, <1>4, <1>5, <1>6, <1>8 DEF CalendarNext

LEMMA ClockInv ==
  ASSUME CalInv
  PROVE  YearFollows
<1>1. ASSUME chip = "pcf8583", rtc_state = "OK"
      PROVE  today # Unknown /\ Valid(reg) /\ reg.year \in today.y - 3 .. today.y
  <2>1. ChipOk /\ ~IsDs
    BY <1>1 DEF CalInv, IsDs
  <2>2. today # Unknown /\ Holds(reg, today, 1) /\ reg \in RegSet
    BY <1>1, <2>1 DEF ChipOk
  <2>3. today.y \in Int
    BY <2>2 DEF CalInv, TodayOk, DateSet
  <2>4. reg.comp = 65535 - reg.year /\ reg.year \in today.y - 1 .. today.y
    BY <2>1, <2>2 DEF Holds
  <2>5. QED
    BY <2>1, <2>2, <2>3, <2>4 DEF Valid
<1>2. QED
  BY <1>1 DEF YearFollows

-----------------------------------------------------------------------------
(* With a unit that is asked for the date every year, and whose chip answers,     *)
(* the host and the card's directories are given the date it is, whatever the     *)
(* host sets or, at a first start, the firmware, however long the unit runs, when  *)
(* it is switched off for up to two years at a time and when the power is cut      *)
(* while a new chip is set (clk_init(), rtc_get(), gmtime(), mktime(),          *)
(* get_fattime()).                                                          *)
THEOREM DatesHold ==
  ASSUME CalendarHabits = {}, MaxAway <= 2
  PROVE  CalendarSpec /\ []InCentury /\ AskedYearly => []DatesRight
<1>1. CalendarInit => CalInv
  BY CalStart
<1>2. /\ CalInv /\ InCentury /\ InCentury'
      /\ [CalendarNext]_calendarVars /\ [Asked]_calendarVars
      => CalInv'
  BY CalStep
<1>3. CalInv => DatesRight
  BY DEF CalInv
<1>4. QED
  BY <1>1, <1>2, <1>3, PTL DEF CalendarSpec, AskedYearly

(* And once a PCF8583 is taken to be set the year beside it is whole, and near     *)
(* enough for the next read to tell (pcf8583_init(), pcf8583_get()).             *)
THEOREM YearHolds ==
  ASSUME CalendarHabits = {}, MaxAway <= 2
  PROVE  CalendarSpec /\ []InCentury /\ AskedYearly => []YearFollows
<1>1. CalendarInit => CalInv
  BY CalStart
<1>2. /\ CalInv /\ InCentury /\ InCentury'
      /\ [CalendarNext]_calendarVars /\ [Asked]_calendarVars
      => CalInv'
  BY CalStep
<1>3. CalInv => YearFollows
  BY ClockInv
<1>4. QED
  BY <1>1, <1>2, <1>3, PTL DEF CalendarSpec, AskedYearly
=============================================================================
