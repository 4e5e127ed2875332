---------------------------- MODULE CalendarProofs ----------------------------
(***************************************************************************)
(* Proofs about Calendar and TimeCorrection, for every day from 1972 on.   *)
(* tai_time gives a day a number, and the number gives the day back        *)
(* (DayOfNumber); so the days with a leap second are those before a day of *)
(* the table (EndsWith), and the seconds tai__leapsec_add adds are those   *)
(* that have passed (AddIs).  Big numbers are for SMT alone, as Zenon      *)
(* counts up to them.                                                      *)
(***************************************************************************)
EXTENDS TimeCorrection, SequenceLemmas, FiniteSetTheorems

-----------------------------------------------------------------------------
\* Days and dates

Leap(y) == IF y % 4 = 0 /\ (y % 100 # 0 \/ y % 400 = 0) THEN 1 ELSE 0
LengthOf(y, m) == CASE m = 2 -> 28 + Leap(y) [] m \in {4, 6, 9, 11} -> 30 [] OTHER -> 31
IsDay(y, m, d) == y \in Int /\ m \in 1 .. 12 /\ d \in 1 .. LengthOf(y, m)

\* The day, counted as tai_time does it: the year begins in March.
YearOf(y, m) == y + (m - 3) \div 12
MonthOf(m) == (m - 3) % 12
Elapsed(m, d) == d - 1 + (MonthOf(m) * 153 + 2) \div 5
Number(y, m, d) ==
  LET n == YearOf(y, m) - 2000
  IN  d + 59 + (MonthOf(m) * 153 + 2) \div 5 + n * 365 + n \div 4 - n \div 100 + n \div 400

LEMMA LeapIs ==
  ASSUME NEW y \in Int
  PROVE  /\ Leap(y) \in 0 .. 1
         /\ leapyear(y) <=> Leap(y) = 1
BY DEF Leap, leapyear

LEMMA Months ==
  ASSUME NEW m \in 1 .. 12, NEW y \in Int
  PROVE  /\ MonthOf(m) \in 0 .. 11 /\ (m - 3) \div 12 \in -1 .. 0
         /\ m < 3 => MonthOf(m) = m + 9 /\ YearOf(y, m) = y - 1
         /\ m >= 3 => MonthOf(m) = m - 3 /\ YearOf(y, m) = y
BY DEF MonthOf, YearOf

LEMMA Lengths ==
  ASSUME NEW m \in 1 .. 12, NEW y \in Int
  PROVE  LengthOf(y, m) \in 28 .. 31 /\ (m = 2 => LengthOf(y, m) = 28 + Leap(y))
BY LeapIs DEF LengthOf

\* The number, with the years from 0 on.
LEMMA NumberIs ==
  ASSUME NEW y \in Int, NEW m \in 1 .. 12, NEW d \in Int
  PROVE  LET n == YearOf(y, m)
         IN  Number(y, m, d) + 730425
               = Elapsed(m, d) + n * 365 + n \div 4 - n \div 100 + n \div 400
<1>1. PICK n \in Int : n = YearOf(y, m)  BY Months DEF YearOf
<1>2. /\ (n - 2000) \div 4 = n \div 4 - 500 /\ (n - 2000) \div 100 = n \div 100 - 20
      /\ (n - 2000) \div 400 = n \div 400 - 5
  OBVIOUS
<1>3. PICK k \in Int : k = (MonthOf(m) * 153 + 2) \div 5  BY Months
<1> QED  BY <1>1, <1>2, <1>3 DEF Number, Elapsed

\* A year in its four hundred years: century, four years, year.
InCycle(n, q, c, f, o) ==
  /\ q \in Int /\ c \in 0 .. 3 /\ f \in 0 .. 24 /\ o \in 0 .. 3
  /\ n = 400 * q + 100 * c + 4 * f + o

LEMMA YearSplits ==
  ASSUME NEW n \in Int
  PROVE  \E q, c, f, o : InCycle(n, q, c, f, o)
<1>1. PICK q \in Int : q = n \div 400  OBVIOUS
<1>2. PICK r \in 0 .. 399 : n = 400 * q + r  BY <1>1
<1>3. PICK c \in 0 .. 3 : c = r \div 100  BY <1>2
<1>4. PICK s \in 0 .. 99 : r = 100 * c + s  BY <1>2, <1>3
<1>5. PICK f \in 0 .. 24 : f = s \div 4  BY <1>4
<1>6. PICK o \in 0 .. 3 : s = 4 * f + o  BY <1>4, <1>5
<1>7. n = 400 * q + 100 * c + 4 * f + o  BY <1>2, <1>4, <1>6
<1>8. InCycle(n, q, c, f, o)  BY <1>1, <1>3, <1>5, <1>6, <1>7 DEF InCycle
<1> QED  BY <1>8

LEMMA YearIs ==
  ASSUME NEW n \in Int, NEW q, NEW c, NEW f, NEW o, InCycle(n, q, c, f, o)
  PROVE  /\ n \div 4 = 100 * q + 25 * c + f
         /\ n \div 100 = 4 * q + c
         /\ n \div 400 = q
         /\ Leap(n + 1) = 1 <=> o = 3 /\ (f # 24 \/ c = 3)
         /\ Leap(n) = 1 <=> o = 0 /\ (f # 0 \/ c = 0)
<1>1. q \in Int /\ c \in 0 .. 3 /\ f \in 0 .. 24 /\ o \in 0 .. 3
      /\ n = 400 * q + 100 * c + 4 * f + o
  BY DEF InCycle
<1>2. n \div 4 = 100 * q + 25 * c + f  BY <1>1
<1>3. n \div 100 = 4 * q + c  BY <1>1
<1>4. n \div 400 = q  BY <1>1
<1>5. n % 4 = o /\ ((n + 1) % 4 = 0 <=> o = 3)  BY <1>1
<1>6. (n % 100 = 0 <=> f = 0 /\ o = 0) /\ ((n + 1) % 100 = 0 <=> f = 24 /\ o = 3)
  BY <1>1
<1>7. /\ n % 400 = 0 <=> c = 0 /\ f = 0 /\ o = 0
      /\ (n + 1) % 400 = 0 <=> c = 3 /\ f = 24 /\ o = 3
  BY <1>1
<1> QED  BY <1>1, <1>2, <1>3, <1>4, <1>5, <1>6, <1>7 DEF Leap

\* The days of a year that begins in March, and the way back to month and day.
LEMMA ElapsedIs ==
  ASSUME NEW y, NEW m, NEW d, IsDay(y, m, d)
  PROVE  LET e == Elapsed(m, d)
         IN  /\ e \in 0 .. 365 /\ (e = 365 => Leap(y) = 1 /\ m < 3)
             /\ (10 * e + 5) \div 306 = MonthOf(m)
             /\ ((10 * e + 5) % 306) \div 10 + 1 = d
<1>1. /\ y \in Int /\ m \in 1 .. 12 /\ d \in 1 .. LengthOf(y, m)
      /\ LengthOf(y, m) \in 28 .. 31 /\ d \in 1 .. 31
  BY Lengths DEF IsDay
<1>2. m = 1 \/ m = 2 \/ m = 3 \/ m = 4 \/ m = 5 \/ m = 6 \/ m = 7 \/ m = 8 \/ m = 9
      \/ m = 10 \/ m = 11 \/ m = 12
  BY <1>1
<1>3. Leap(y) \in 0 .. 1  BY <1>1, LeapIs
<1>4. d <= LengthOf(y, m)  BY <1>1
<1>5. CASE m = 2
  <2>1. MonthOf(m) = 11 /\ d <= 28 + Leap(y)  BY <1>1, <1>4, <1>5, Months, Lengths
  <2>2. Elapsed(m, d) = d + 336  BY <1>1, <2>1 DEF Elapsed
  <2> QED  BY <1>1, <1>3, <1>5, <2>1, <2>2
<1>6. CASE m \in {4, 6, 9, 11}
  <2>1. d <= 30  BY <1>1, <1>4, <1>6 DEF LengthOf
  <2> QED  BY <1>1, <1>6, <2>1 DEF Elapsed, MonthOf
<1>7. CASE m \in {1, 3, 5, 7, 8, 10, 12}
  BY <1>1, <1>7 DEF Elapsed, MonthOf
<1> QED  BY <1>2, <1>5, <1>6, <1>7

\* Days in the cycle of four hundred years, in the century, in the four years.
InYears(c, f, o, e, inFour, inCentury, cycle) ==
  /\ c \in 0 .. 3 /\ f \in 0 .. 24 /\ o \in 0 .. 3 /\ e \in 0 .. 365
  /\ e = 365 => o = 3 /\ (f # 24 \/ c = 3)
  /\ inFour \in Int /\ inFour = 365 * o + e
  /\ inCentury \in Int /\ inCentury = 1461 * f + inFour
  /\ cycle \in Int /\ cycle = 36524 * c + inCentury

LEMMA CycleSplits ==
  ASSUME NEW c, NEW f, NEW o, NEW e, NEW inFour, NEW inCentury, NEW cycle,
         InYears(c, f, o, e, inFour, inCentury, cycle)
  PROVE  /\ 0 <= cycle /\ cycle <= 146096 /\ Split(cycle, 36524, 4) = c
         /\ inCentury \div 1461 = f
         /\ Split(inFour, 365, 4) = o
<1> USE DEF InYears
<1>1. c \in Int /\ 0 <= c /\ c <= 3 /\ f \in Int /\ 0 <= f /\ f <= 24
      /\ o \in Int /\ 0 <= o /\ o <= 3 /\ e \in Int /\ 0 <= e /\ e <= 365
  OBVIOUS
<1>2. 0 <= inFour /\ inFour <= 1460 /\ (inFour = 1460 => e = 365)  BY <1>1
<1>3. Split(inFour, 365, 4) = o
  <2>1. CASE e = 365  BY <1>1, <2>1 DEF Split
  <2>2. CASE e # 365  BY <1>1, <1>2, <2>2 DEF Split
  <2> QED  BY <2>1, <2>2
<1>4. 0 <= inCentury /\ inCentury <= 36524
      /\ (inCentury = 36524 => f = 24 /\ inFour = 1460)
  BY <1>1, <1>2
<1>5. inCentury = 36524 => c = 3  BY <1>2, <1>4
<1>6. inCentury \div 1461 = f  BY <1>1, <1>2
<1>7. 0 <= cycle /\ cycle <= 146096  BY <1>1, <1>4
<1>8. Split(cycle, 36524, 4) = c
  <2>1. CASE cycle = 146096  BY <1>1, <1>4, <2>1 DEF Split
  <2>2. CASE cycle # 146096  BY <1>1, <1>4, <1>5, <2>2 DEF Split
  <2> QED  BY <2>1, <2>2
<1> QED  BY <1>3, <1>6, <1>7, <1>8

\* In a year that ends a century without a leap day tai_date counts one, from
\* March on (line 183).
CenturyDay(y, m) == IF m >= 3 /\ y % 100 = 0 /\ y % 400 # 0 THEN 1 ELSE 0

\* tai_date finds the date that tai_time counted; and the day of the week and,
\* but for CenturyDay, of the year.
LEMMA DayOfNumber ==
  ASSUME NEW y, NEW m, NEW d, IsDay(y, m, d)
  PROVE  LET n == Number(y, m, d)
             date == DayOf(n)
         IN  /\ n \in Int
             /\ date.year = y /\ date.month = m /\ date.day = d
             /\ WeekdayOf(n) = (n + 6) % 7
             /\ date.yday \in Int
             /\ date.yday + 1 = MiniseedYday(y, m, d) + CenturyDay(y, m)
<1>1. y \in Int /\ m \in 1 .. 12 /\ d \in Int
  BY Lengths DEF IsDay
<1>2. PICK n \in Int : n = YearOf(y, m) /\ (m < 3 => n = y - 1) /\ (m >= 3 => n = y)
  BY <1>1, Months
<1>3. PICK q, c, f, o : InCycle(n, q, c, f, o)  BY YearSplits
<1>4. /\ q \in Int /\ c \in 0 .. 3 /\ f \in 0 .. 24 /\ o \in 0 .. 3
      /\ n = 400 * q + 100 * c + 4 * f + o
  BY <1>3 DEF InCycle
<1>5. PICK e \in 0 .. 365 : e = Elapsed(m, d)  BY ElapsedIs
<1>6. e = 365 => o = 3 /\ (f # 24 \/ c = 3)
  <2> SUFFICES ASSUME e = 365 PROVE o = 3 /\ (f # 24 \/ c = 3)
    OBVIOUS
  <2>1. Leap(y) = 1 /\ m < 3  BY <1>5, ElapsedIs
  <2>2. y = n + 1  BY <1>1, <1>2, <2>1
  <2> QED  BY <1>3, <2>1, <2>2, YearIs
<1>7. PICK i \in Int : i = 365 * o + e  BY <1>4
<1>8. PICK h \in Int : h = 1461 * f + i  BY <1>4, <1>7
<1>9. PICK k \in Int : k = 36524 * c + h  BY <1>4, <1>8
<1>10. /\ 0 <= k /\ k <= 146096 /\ Split(k, 36524, 4) = c
       /\ h \div 1461 = f /\ Split(i, 365, 4) = o
  <2>1. InYears(c, f, o, e, i, h, k)  BY <1>4, <1>5, <1>6, <1>7, <1>8, <1>9 DEF InYears
  <2> QED  BY <2>1, CycleSplits
<1>11. PICK x \in Int : x = Number(y, m, d) /\ x + 730425 = 146097 * q + k
  <2>1. Number(y, m, d) + 730425 = e + n * 365 + n \div 4 - n \div 100 + n \div 400
    BY <1>1, <1>2, <1>5, NumberIs
  <2>2. n \div 4 = 100 * q + 25 * c + f /\ n \div 100 = 4 * q + c /\ n \div 400 = q
    BY <1>3, YearIs
  <2>3. Number(y, m, d) + 730425 = 146097 * q + k
    BY <1>4, <1>7, <1>8, <1>9, <2>1, <2>2
  <2>4. Number(y, m, d) \in Int
    <3>1. MonthOf(m) \in 0 .. 11  BY <1>1, Months
    <3> QED  BY <1>1, <1>2, <3>1 DEF Number
  <2> QED  BY <2>3, <2>4
<1>12. (x + 730425) % 146097 = k /\ (x + 730425) \div 146097 = q
  BY <1>4, <1>9, <1>10, <1>11
<1>13. /\ k - c * 36524 = h /\ h - f * 1461 = i
       /\ i - o * 365 = e
  BY <1>4, <1>5, <1>7, <1>8, <1>9
<1>14. PICK w \in 0 .. 11 :
         /\ w = MonthOf(m) /\ (10 * e + 5) \div 306 = w
         /\ ((10 * e + 5) % 306) \div 10 + 1 = d
         /\ (m < 3 => w = m + 9) /\ (m >= 3 => w = m - 3)
  BY <1>1, <1>5, ElapsedIs, Months
<1>15. DayOf(x) =
         [year |-> IF w >= 10 THEN q * 400 + c * 100 + f * 4 + o + 1
                   ELSE q * 400 + c * 100 + f * 4 + o,
          month |-> IF w >= 10 THEN w - 9 ELSE w + 3,
          day |-> ((10 * e + 5) % 306) \div 10 + 1,
          yday |-> LeapDay(i) + e + (IF w >= 10 THEN -306 ELSE 59)]
  <2>1. h = k - c * 36524 /\ i = h - f * 1461  BY <1>13
  <2>2. c = Split(k, 36524, 4) /\ f = h \div 1461  BY <1>10
  <2>3. o = Split(i, 365, 4) /\ e = i - o * 365 /\ w = (10 * e + 5) \div 306
    BY <1>10, <1>13, <1>14
  <2>4. k = (x + 730425) % 146097 /\ q = (x + 730425) \div 146097  BY <1>12
  <2>5. DayOf(x) = DateInCycle(q * 400, k)  BY <2>4, SMT DEF DayOf
  <2>6. DateInCycle(q * 400, k) = DateInFour(q * 400 + c * 100 + f * 4, i)
    BY <2>1, <2>2, SMT DEF DateInCycle
  <2>7. DateInFour(q * 400 + c * 100 + f * 4, i) =
          [year |-> IF w >= 10 THEN q * 400 + c * 100 + f * 4 + o + 1
                    ELSE q * 400 + c * 100 + f * 4 + o,
           month |-> IF w >= 10 THEN w - 9 ELSE w + 3,
           day |-> ((10 * e + 5) % 306) \div 10 + 1,
           yday |-> LeapDay(i) + e + (IF w >= 10 THEN -306 ELSE 59)]
    BY <2>3, SMT DEF DateInFour
  <2>8. ((10 * e + 5) % 306) \div 10 + 1 = d  BY <1>14
  <2> QED  BY <2>5, <2>6, <2>7, <2>8, SMT
<1>16. DayOf(x).year = y /\ DayOf(x).month = m /\ DayOf(x).day = d
  BY <1>1, <1>2, <1>4, <1>14, <1>15
<1>17. WeekdayOf(x) = (x + 6) % 7
  <2>1. WeekdayOf(x) = (k + 3) % 7  BY <1>12 DEF WeekdayOf
  <2>2. x + 6 = 7 * (20871 * q - 104346) + (k + 3)  BY <1>4, <1>9, <1>11
  <2> QED  BY <1>4, <1>9, <2>1, <2>2
<1>18. DayOf(x).yday \in Int
  <2>1. LeapDay(i) \in Int  BY DEF LeapDay
  <2> QED  BY <1>5, <1>15, <2>1
<1>19. DayOf(x).yday + 1 = MiniseedYday(y, m, d) + CenturyDay(y, m)
  <2>1. DayOf(x).yday = LeapDay(i) + e + (IF w >= 10 THEN -306 ELSE 59)  BY <1>15
  <2>2. LeapDay(i) = IF o = 0 /\ e < 306 THEN 1 ELSE 0  BY <1>4, <1>5, <1>7 DEF LeapDay
  <2>3. e = d - 1 + (w * 153 + 2) \div 5  BY <1>5, <1>14 DEF Elapsed
  <2>4. CASE m < 3
    <3>1. w = m + 9  BY <1>14, <2>4
    <3>2. e = IF m < 2 THEN d + 305 ELSE d + 336  BY <1>1, <2>3, <2>4, <3>1
    <3>3. d >= 1  BY DEF IsDay
    <3>4. DayOf(x).yday = e - 306  BY <1>1, <2>1, <2>2, <2>4, <3>1, <3>2, <3>3
    <3> QED  BY <1>1, <2>4, <3>2, <3>4 DEF MiniseedYday, CenturyDay
  <2>5. CASE m >= 3
    <3>1. w = m - 3 /\ y = n  BY <1>1, <1>2, <1>14, <2>5
    <3>2. e < 306
      <4>1. (10 * e + 5) \div 306 <= 9  BY <1>1, <1>14, <3>1
      <4> QED  BY <1>5, <4>1
    <3>3. o = 0 <=> y % 4 = 0  BY <1>4, <3>1
    <3>4. DayOf(x).yday = e + 59 + (IF y % 4 = 0 THEN 1 ELSE 0)
      BY <1>1, <1>5, <2>1, <2>2, <2>5, <3>1, <3>2, <3>3
    <3>5. (IF leapyear(y) THEN 1 ELSE 0) + CenturyDay(y, m) = IF y % 4 = 0 THEN 1 ELSE 0
      <4>1. (y % 100 = 0 => y % 4 = 0) /\ (y % 400 = 0 => y % 100 = 0)  BY <1>1
      <4> QED  BY <1>1, <2>5, <4>1 DEF leapyear, CenturyDay
    <3>6. CenturyDay(y, m) \in 0 .. 1  BY DEF CenturyDay
    <3>7. PICK v \in Int : v = ((m - 3) * 153 + 2) \div 5  BY <1>1
    <3>8. e = d - 1 + v  BY <2>3, <3>1, <3>7
    <3>9. MiniseedYday(y, m, d) = d + 59 + (IF leapyear(y) THEN 1 ELSE 0) + v
      BY <1>1, <2>5, <3>7 DEF MiniseedYday
    <3> QED  BY <1>1, <3>4, <3>5, <3>6, <3>7, <3>8, <3>9
  <2> QED  BY <1>1, <2>4, <2>5
<1> QED  BY <1>11, <1>16, <1>17, <1>18, <1>19

-----------------------------------------------------------------------------
\* Leap seconds

\* The days that follow the leap seconds.
After ==
  <<-10045, -9861, -9496, -9131, -8766, -8400, -8035, -7670, -7305, -6758, -6393, -6028,
    -5297, -4383, -3652, -3287, -2740, -2375, -2010, -1461, -914, -365, 2192, 3288, 4565,
    5660, 6210>>

LEMMA Cases27 ==
  ASSUME NEW i \in 1 .. 27
  PROVE  \/ i = 1 \/ i = 2 \/ i = 3 \/ i = 4 \/ i = 5 \/ i = 6 \/ i = 7 \/ i = 8 \/ i = 9
         \/ i = 10 \/ i = 11 \/ i = 12 \/ i = 13 \/ i = 14 \/ i = 15 \/ i = 16 \/ i = 17
         \/ i = 18 \/ i = 19 \/ i = 20 \/ i = 21 \/ i = 22 \/ i = 23 \/ i = 24 \/ i = 25
         \/ i = 26 \/ i = 27
OBVIOUS

LEMMA LeapTable ==
  /\ Len(leapsecs) = 27 /\ Len(After) = 27
  /\ DOMAIN leapsecs = 1 .. 27
  /\ \A i \in 1 .. 27 : After[i] \in Int /\ leapsecs[i] = 86400 * After[i] + 9 + i
<1>1. Len(leapsecs) = 27 /\ Len(After) = 27  BY DEF leapsecs, After
<1>2. DOMAIN leapsecs = 1 .. 27  BY DEF leapsecs
<1>3. ASSUME NEW i \in 1 .. 27
      PROVE  After[i] \in Int /\ leapsecs[i] = 86400 * After[i] + 9 + i
  BY Cases27 DEF leapsecs, After
<1> QED  BY <1>1, <1>2, <1>3

LEMMA AfterGrows ==
  ASSUME NEW i \in 1 .. 27, NEW j \in 1 .. 27, i < j
  PROVE  After[i] < After[j]
<1>1. /\ After[i] \in Int /\ After[j] \in Int
      /\ \A k \in 1 .. 26 : After[k] < After[k + 1]
  BY LeapTable DEF After
<1> QED  BY <1>1, Cases27 DEF After

\* The months that end with them, in their order.
EndYear ==
  <<1972, 1972, 1973, 1974, 1975, 1976, 1977, 1978, 1979, 1981, 1982, 1983, 1985, 1987,
    1989, 1990, 1992, 1993, 1994, 1995, 1997, 1998, 2005, 2008, 2012, 2015, 2016>>
EndMonth ==
  <<6, 12, 12, 12, 12, 12, 12, 12, 12, 6, 6, 6, 6, 12, 12, 12, 6, 6, 6, 12, 6, 12, 12,
    12, 6, 6, 12>>

LEMMA EndTyped ==
  ASSUME NEW i \in 1 .. 27
  PROVE  EndYear[i] \in Int /\ EndMonth[i] \in {6, 12}
BY Cases27 DEF EndYear, EndMonth

LEMMA EndsListed ==
  ASSUME NEW y \in Int, NEW m \in 1 .. 12
  PROVE  <<y, m>> \in LeapSecondMonths <=> \E i \in 1 .. 27 : EndYear[i] = y /\ EndMonth[i] = m
<1>1. ASSUME NEW i \in 1 .. 27
      PROVE  <<EndYear[i], EndMonth[i]>> \in LeapSecondMonths
  BY Cases27 DEF EndYear, EndMonth, LeapSecondMonths
<1>2. ASSUME <<y, m>> \in LeapSecondMonths
      PROVE  \E i \in 1 .. 27 : EndYear[i] = y /\ EndMonth[i] = m
  <2>1. \/ m = 6 /\ y \in {1972, 1981, 1982, 1983, 1985, 1992, 1993, 1994, 1997, 2012, 2015}
        \/ m = 12 /\ y \in {1972, 1973, 1974, 1975, 1976, 1977, 1978, 1979, 1987, 1989, 1990,
                            1995, 1998, 2005, 2008, 2016}
    BY <1>2 DEF LeapSecondMonths
  <2> QED  BY <2>1 DEF EndYear, EndMonth
<1> QED  BY <1>1, <1>2

LEMMA EndsNumbered ==
  ASSUME NEW i \in 1 .. 27
  PROVE  LET y == EndYear[i]
             m == EndMonth[i]
         IN  /\ IsDay(y, m, LengthOf(y, m))
             /\ Number(y, m, LengthOf(y, m)) + 1 = After[i]
<1>1. EndMonth[i] = 6 => LengthOf(EndYear[i], EndMonth[i]) = 30  BY DEF LengthOf
<1>2. EndMonth[i] = 12 => LengthOf(EndYear[i], EndMonth[i]) = 31  BY DEF LengthOf
<1>3. IsDay(EndYear[i], EndMonth[i], LengthOf(EndYear[i], EndMonth[i]))
  BY <1>1, <1>2, EndTyped DEF IsDay
<1>4. EndMonth[i] = 6 => Number(EndYear[i], 6, 30) + 1 = After[i]
  BY Cases27 DEF EndYear, EndMonth, After, Number, MonthOf, YearOf
<1>5. EndMonth[i] = 12 => Number(EndYear[i], 12, 31) + 1 = After[i]
  BY Cases27 DEF EndYear, EndMonth, After, Number, MonthOf, YearOf
<1> QED  BY <1>1, <1>2, <1>3, <1>4, <1>5, EndTyped

\* A day ends with a leap second if one is before the day that follows it.
LEMMA EndsWith ==
  ASSUME NEW y, NEW m, NEW d, IsDay(y, m, d)
  PROVE  d = LengthOf(y, m) /\ <<y, m>> \in LeapSecondMonths
           <=> \E i \in 1 .. 27 : After[i] = Number(y, m, d) + 1
<1>1. y \in Int /\ m \in 1 .. 12 /\ Number(y, m, d) \in Int  BY DayOfNumber DEF IsDay
<1>2. ASSUME d = LengthOf(y, m), <<y, m>> \in LeapSecondMonths
      PROVE  \E i \in 1 .. 27 : After[i] = Number(y, m, d) + 1
  <2>1. PICK i \in 1 .. 27 : EndYear[i] = y /\ EndMonth[i] = m  BY <1>1, <1>2, EndsListed
  <2> QED  BY <1>2, <2>1, EndsNumbered
<1>3. ASSUME NEW i \in 1 .. 27, After[i] = Number(y, m, d) + 1
      PROVE  d = LengthOf(y, m) /\ <<y, m>> \in LeapSecondMonths
  <2> DEFINE ey == EndYear[i]
             em == EndMonth[i]
             ed == LengthOf(ey, em)
  <2>1. ey \in Int /\ em \in 1 .. 12  BY EndTyped
  <2>2. IsDay(ey, em, ed) /\ Number(ey, em, ed) + 1 = After[i]  BY EndsNumbered
  <2>3. Number(ey, em, ed) \in Int  BY <2>2, DayOfNumber
  <2> HIDE DEF ey, em, ed
  <2>4. Number(ey, em, ed) = Number(y, m, d)  BY <1>1, <1>3, <2>2, <2>3
  <2>5. /\ DayOf(Number(y, m, d)).year = y /\ DayOf(Number(y, m, d)).month = m
        /\ DayOf(Number(y, m, d)).day = d
    BY DayOfNumber, SMT
  <2>6. /\ DayOf(Number(ey, em, ed)).year = ey /\ DayOf(Number(ey, em, ed)).month = em
        /\ DayOf(Number(ey, em, ed)).day = ed
    BY <2>2, DayOfNumber, SMT
  <2>7. ey = y /\ em = m /\ ed = d  BY <2>4, <2>5, <2>6, SMT
  <2> QED  BY <1>1, <2>7, EndsListed DEF ey, em, ed
<1> QED  BY <1>2, <1>3

\* The day counted d has l leap seconds before it.
Before(d, l) ==
  /\ d \in Int /\ l \in 0 .. 27
  /\ \A i \in 1 .. 27 : i <= l <=> After[i] <= d

\* The leap seconds before a day, as times.
LEMMA BeforeAsTimes ==
  ASSUME NEW d, NEW l, Before(d, l), NEW r \in Int, -1 <= r, r <= 86399
  PROVE  \A i \in 1 .. 27 : i <= l <=> leapsecs[i] <= 86400 * d + 10 + l + r
<1> SUFFICES ASSUME NEW i \in 1 .. 27
             PROVE  i <= l <=> leapsecs[i] <= 86400 * d + 10 + l + r
  OBVIOUS
<1>1. After[i] \in Int /\ leapsecs[i] = 86400 * After[i] + 9 + i  BY LeapTable
<1>2. d \in Int /\ l \in Int /\ i \in Int /\ (i <= l <=> After[i] <= d)  BY DEF Before
<1> QED  BY <1>1, <1>2

LEMMA DiffIs ==
  ASSUME NEW d, NEW l, Before(d, l), NEW r \in Int, -1 <= r, r <= 86399
  PROVE  tai_utc_diff(86400 * d + 10 + l + r) = 10 + l
<1> DEFINE t == 86400 * d + 10 + l + r
           S == {i \in DOMAIN leapsecs : leapsecs[i] <= t}
<1>1. l \in 0 .. 27  BY DEF Before
<1>2. \A i \in 1 .. 27 : i <= l <=> leapsecs[i] <= t  BY BeforeAsTimes
<1>3. DOMAIN leapsecs = 1 .. 27  BY LeapTable
<1> HIDE DEF t
<1>4. S = 1 .. l  BY <1>1, <1>2, <1>3
<1>5. Cardinality(1 .. l) = IF 1 > l THEN 0 ELSE l - 1 + 1
  <2>1. 1 \in Int /\ l \in Int  BY <1>1
  <2> QED  BY ONLY <2>1, FS_Interval, Zenon
<1>6. Cardinality(1 .. l) = l  BY <1>1, <1>5
<1>7. tai_utc_diff(t) = 10 + Cardinality(S)  BY ONLY Zenon DEF tai_utc_diff
<1> HIDE DEF S
<1>8. tai_utc_diff(t) = 10 + l  BY <1>4, <1>6, <1>7
<1> QED  BY <1>8 DEF t

\* tai__leapsec_add adds the leap seconds before the day, up to the end of its
\* last second or, when hit, leap second.
LEMMA AddIs ==
  ASSUME NEW d, NEW l, Before(d, l), NEW s \in Int, 0 <= s, NEW hit \in BOOLEAN,
         IF hit THEN s = 86400 ELSE s <= 86399
  PROVE  LeapsecAdd(86400 * d + s, hit) = 86400 * d + s + 10 + l
<1> DEFINE t == 86400 * d + s
           Body(f) == [i \in 0 .. Len(leapsecs) |->
                         IF i = 0 THEN t + 10 ELSE Passing(f[i - 1], leapsecs[i], hit)]
           Upto(i) == IF i <= l THEN i ELSE l
           g == [i \in 0 .. Len(leapsecs) |-> t + 10 + Upto(i)]
           added == CHOOSE f : f = Body(f)
<1>1. d \in Int /\ l \in 0 .. 27 /\ t \in Int  BY DEF Before
<1>2. Len(leapsecs) = 27  BY LeapTable
<1>3. ASSUME NEW i \in 1 .. 27
      PROVE  Passing(t + 10 + Upto(i - 1), leapsecs[i], hit) = t + 10 + Upto(i)
  <2>1. After[i] \in Int /\ leapsecs[i] = 86400 * After[i] + 9 + i  BY LeapTable
  <2>2. i <= l <=> After[i] <= d  BY DEF Before
  <2>3. CASE i <= l
    <3>1. Upto(i - 1) = i - 1 /\ Upto(i) = i  BY <1>1, <2>3
    <3> QED  BY <1>1, <2>1, <2>2, <2>3, <3>1 DEF Passing
  <2>4. CASE i > l
    <3>1. Upto(i - 1) = l /\ Upto(i) = l  BY <1>1, <2>4
    <3>2. d + 1 <= After[i]  BY <1>1, <2>1, <2>2, <2>4
    <3> QED  BY <1>1, <2>1, <2>4, <3>1, <3>2 DEF Passing
  <2> QED  BY <1>1, <2>3, <2>4
<1>4. g = Body(g)
  <2>1. \A i \in 0 .. 27 : i # 0 => i \in 1 .. 27 /\ i - 1 \in 0 .. 27  OBVIOUS
  <2>2. Upto(0) = 0  BY <1>1
  <2> HIDE DEF t, Upto
  <2>3. t + 10 + 0 = t + 10  BY <1>1
  <2> QED  BY <1>2, <1>3, <2>1, <2>2, <2>3
<1>5. added = Body(added)  BY <1>4
<1>6. LeapsecAdd(t, hit) = added[27]  BY <1>2 DEF LeapsecAdd
<1> HIDE DEF added, t
<1> DEFINE T == {i \in Nat : i <= 27 => added[i] = t + 10 + Upto(i)}
<1>7. 0 \in T  BY <1>1, <1>2, <1>5
<1>8. ASSUME NEW i \in Nat, i \in T PROVE i + 1 \in T
  <2> SUFFICES ASSUME i + 1 <= 27 PROVE added[i + 1] = t + 10 + Upto(i + 1)  OBVIOUS
  <2>1. i + 1 \in 1 .. 27 /\ i + 1 \in 0 .. 27 /\ i + 1 - 1 = i /\ i + 1 # 0  OBVIOUS
  <2>2. added[i] = t + 10 + Upto(i)  BY <1>8, <2>1
  <2>3. added[i + 1] = Passing(added[i], leapsecs[i + 1], hit)  BY <1>2, <1>5, <2>1
  <2>4. Passing(t + 10 + Upto(i), leapsecs[i + 1], hit) = t + 10 + Upto(i + 1)
    <3> HIDE DEF Upto
    <3> QED  BY <1>3, <2>1
  <2> QED  BY <2>2, <2>3, <2>4
<1>9. Nat \subseteq T
  <2> HIDE DEF T
  <2> QED  BY <1>7, <1>8, SetInduction
<1>10. added[27] = t + 10 + l  BY <1>1, <1>9
<1> QED  BY <1>6, <1>10 DEF t

-----------------------------------------------------------------------------
\* The walk

\* The inductive invariant: the day is one there is, it has the number that
\* tai_time counts to, and the leap seconds of the list up to it have passed.
WalkInv ==
  /\ year \in Nat /\ 1972 <= year /\ IsDay(year, month, day)
  /\ days = Number(year, month, day)
  /\ yday \in Nat /\ yday + 1 = MiniseedYday(year, month, day)
  /\ wday = (days + 6) % 7
  /\ Before(days, leaps)

LEMMA MonthLengthIs ==
  ASSUME year \in Int, month \in 1 .. 12
  PROVE  MonthLength = LengthOf(year, month)
BY DEF MonthLength, LengthOf, Leap

\* The next day has the next number.
LEMMA NumberNextMonth ==
  ASSUME NEW y \in Int, NEW m \in 1 .. 11
  PROVE  Number(y, m + 1, 1) = Number(y, m, LengthOf(y, m)) + 1
<1>1. m = 1 \/ m = 2 \/ m = 3 \/ m = 4 \/ m = 5 \/ m = 6 \/ m = 7 \/ m = 8 \/ m = 9
      \/ m = 10 \/ m = 11
  OBVIOUS
<1>2. CASE m = 2
  <2>1. /\ MonthOf(2) = 11 /\ YearOf(y, 2) = y - 1 /\ LengthOf(y, 2) = 28 + Leap(y)
        /\ MonthOf(3) = 0 /\ YearOf(y, 3) = y
    BY Months DEF LengthOf
  <2>2. PICK n \in Int : n = y - 2000  OBVIOUS
  <2>3. /\ n % 4 = y % 4 /\ (n % 100 = 0 <=> y % 100 = 0) /\ (n % 400 = 0 <=> y % 400 = 0)
    BY <2>2
  <2>4. n \div 4 - (n - 1) \div 4 = IF n % 4 = 0 THEN 1 ELSE 0  BY <2>2
  <2>5. n \div 100 - (n - 1) \div 100 = IF n % 100 = 0 THEN 1 ELSE 0  BY <2>2
  <2>6. n \div 400 - (n - 1) \div 400 = IF n % 400 = 0 THEN 1 ELSE 0  BY <2>2
  <2>7. (n % 400 = 0 => n % 100 = 0) /\ (n % 100 = 0 => n % 4 = 0)  BY <2>2
  <2>8. Leap(y) = IF n % 4 = 0 /\ (n % 100 # 0 \/ n % 400 = 0) THEN 1 ELSE 0
    BY <2>3 DEF Leap
  <2>9. Leap(y) = (n \div 4 - (n - 1) \div 4) - (n \div 100 - (n - 1) \div 100)
                    + (n \div 400 - (n - 1) \div 400)
    BY <2>4, <2>5, <2>6, <2>7, <2>8
  <2>10. Number(y, 3, 1) = 60 + n * 365 + n \div 4 - n \div 100 + n \div 400
    BY <2>1, <2>2 DEF Number
  <2>11. y - 1 - 2000 = n - 1  BY <2>2
  <2>12. Number(y, 2, 28 + Leap(y))
           = 28 + Leap(y) + 59 + 337 + (n - 1) * 365 + (n - 1) \div 4 - (n - 1) \div 100
               + (n - 1) \div 400
    BY <2>1, <2>2, <2>11, LeapIs DEF Number
  <2> QED  BY <1>2, <2>1, <2>2, <2>9, <2>10, <2>12
<1>3. CASE m = 1
  <2>1. MonthOf(1) = 10 /\ MonthOf(2) = 11 /\ YearOf(y, 1) = y - 1 /\ YearOf(y, 2) = y - 1
    BY Months
  <2>2. LengthOf(y, 1) = 31  BY DEF LengthOf
  <2>3. PICK n \in Int : n = y - 1 - 2000  OBVIOUS
  <2> QED  BY <1>3, <2>1, <2>2, <2>3 DEF Number
<1>4. CASE m >= 3
  <2>1. YearOf(y, m) = y /\ YearOf(y, m + 1) = y  BY <1>4 DEF YearOf
  <2>2. m \in {4, 6, 9, 11} => LengthOf(y, m) = 30  BY DEF LengthOf
  <2>3. m \in {3, 5, 7, 8, 10} => LengthOf(y, m) = 31  BY DEF LengthOf
  <2>4. LengthOf(y, m) = (153 * (m - 2) + 2) \div 5 - (153 * (m - 3) + 2) \div 5
    BY <1>1, <1>4, <2>2, <2>3
  <2>5. MonthOf(m) = m - 3 /\ MonthOf(m + 1) = m - 2  BY <1>4 DEF MonthOf
  <2>6. PICK n \in Int : n = y - 2000  OBVIOUS
  <2> QED  BY <2>1, <2>4, <2>5, <2>6 DEF Number
<1> QED  BY <1>1, <1>2, <1>3, <1>4

LEMMA NumberNextYear ==
  ASSUME NEW y \in Int
  PROVE  Number(y + 1, 1, 1) = Number(y, 12, 31) + 1
<1>1. YearOf(y + 1, 1) = y /\ YearOf(y, 12) = y  BY Months
<1>2. MonthOf(1) = 10 /\ MonthOf(12) = 9  BY Months
<1>3. PICK n \in Int : n = y - 2000  OBVIOUS
<1> QED  BY <1>1, <1>2, <1>3 DEF Number

LEMMA NumberNextDay ==
  ASSUME NEW y \in Int, NEW m \in 1 .. 12, NEW d \in Int
  PROVE  Number(y, m, d + 1) = Number(y, m, d) + 1 /\ Number(y, m, d) \in Int
<1>1. YearOf(y, m) - 2000 \in Int /\ MonthOf(m) \in Int  BY DEF YearOf, MonthOf
<1> QED  BY <1>1 DEF Number

\* The day of the year goes on at the end of a month.
LEMMA YdayNextMonth ==
  ASSUME NEW y \in Int, NEW m \in 1 .. 11
  PROVE  MiniseedYday(y, m + 1, 1) = MiniseedYday(y, m, LengthOf(y, m)) + 1
<1>1. m = 1 \/ m = 2 \/ m = 3 \/ m = 4 \/ m = 5 \/ m = 6 \/ m = 7 \/ m = 8 \/ m = 9
      \/ m = 10 \/ m = 11
  OBVIOUS
<1>2. CASE m < 3
  <2>1. Leap(y) = IF leapyear(y) THEN 1 ELSE 0  BY LeapIs
  <2> QED  BY <1>1, <1>2, <2>1 DEF MiniseedYday, LengthOf
<1>3. CASE m >= 3
  <2>1. m \in {4, 6, 9, 11} => LengthOf(y, m) = 30  BY DEF LengthOf
  <2>2. m \in {3, 5, 7, 8, 10} => LengthOf(y, m) = 31  BY DEF LengthOf
  <2>3. LengthOf(y, m) = (153 * (m - 2) + 2) \div 5 - (153 * (m - 3) + 2) \div 5
    BY <1>1, <1>3, <2>1, <2>2
  <2> QED  BY <1>3, <2>3 DEF MiniseedYday
<1> QED  BY <1>2, <1>3

LEMMA YdayTyped ==
  ASSUME NEW y, NEW m, NEW d, IsDay(y, m, d)
  PROVE  /\ MiniseedYday(y, m, d) \in Nat /\ MiniseedYday(y, m, d) >= 1
         /\ MiniseedYday(y, m, d + 1) = MiniseedYday(y, m, d) + 1
<1>1. y \in Int /\ m \in 1 .. 12 /\ d \in Int /\ 1 <= d  BY Lengths DEF IsDay
<1>2. m >= 3 => (153 * (m - 3) + 2) \div 5 \in Nat  BY <1>1
<1> QED  BY <1>1, <1>2 DEF MiniseedYday

\* One day on, the leap second of this day has passed.
LEMMA BeforeNext ==
  ASSUME NEW d, NEW l, Before(d, l), NEW s,
         s = IF \E i \in 1 .. 27 : After[i] = d + 1 THEN 1 ELSE 0
  PROVE  Before(d + 1, l + s)
<1>1. d \in Int /\ l \in 0 .. 27 /\ \A i \in 1 .. 27 : i <= l <=> After[i] <= d
  BY DEF Before
<1>2. \A i \in 1 .. 27 : After[i] \in Int  BY LeapTable
<1>3. CASE \E i \in 1 .. 27 : After[i] = d + 1
  <2>1. PICK i \in 1 .. 27 : After[i] = d + 1  BY <1>3
  <2>2. l < i  BY <1>1, <2>1
  <2>3. \A j \in 1 .. 27 : j < i => After[j] <= d  BY <1>1, <1>2, <2>1, AfterGrows
  <2>4. l = i - 1
    <3>1. ~(l < i - 1)
      <4> SUFFICES ASSUME l < i - 1 PROVE FALSE  OBVIOUS
      <4>1. i - 1 \in 1 .. 27 /\ i - 1 < i  BY <1>1
      <4> QED  BY <1>1, <2>3, <4>1
    <3> QED  BY <1>1, <2>2, <3>1
  <2>5. \A j \in 1 .. 27 : i < j => After[j] > d + 1  BY <1>1, <1>2, <2>1, AfterGrows
  <2>6. s = 1 /\ l + 1 = i  BY <1>1, <1>3, <2>4
  <2>7. ASSUME NEW j \in 1 .. 27 PROVE j <= i <=> After[j] <= d + 1
    BY <1>1, <1>2, <2>1, <2>3, <2>5
  <2> QED  BY <1>1, <2>6, <2>7 DEF Before
<1>4. CASE ~\E i \in 1 .. 27 : After[i] = d + 1
  BY <1>1, <1>2, <1>4 DEF Before
<1> QED  BY <1>3, <1>4

LEMMA Ends ==
  ASSUME WalkInv
  PROVE  /\ MonthLength = LengthOf(year, month)
         /\ LeapSeconds = IF \E i \in 1 .. 27 : After[i] = days + 1 THEN 1 ELSE 0
<1>1. IsDay(year, month, day) /\ days = Number(year, month, day)  BY DEF WalkInv
<1>2. MonthLength = LengthOf(year, month)  BY <1>1, MonthLengthIs DEF IsDay
<1>3. EndsWithLeapSecond <=> \E i \in 1 .. 27 : After[i] = days + 1
  BY <1>1, <1>2, EndsWith DEF EndsWithLeapSecond
<1> QED  BY <1>2, <1>3 DEF LeapSeconds

LEMMA WalkInit ==
  ASSUME Init
  PROVE  WalkInv
<1>1. year = 1972 /\ month = 1 /\ day = 1 /\ yday = 0 /\ wday = 6 /\ days = -10227
      /\ leaps = 0
  BY DEF Init
<1>2. IsDay(1972, 1, 1)  BY DEF IsDay, LengthOf
<1>3. Number(1972, 1, 1) = -10227  BY DEF Number, YearOf, MonthOf
<1>4. MiniseedYday(1972, 1, 1) = 1  BY DEF MiniseedYday
<1>5. (-10227 + 6) % 7 = 6
  <2>1. PICK z \in Int : z + 10221 = 0  OBVIOUS
  <2>2. z % 7 = 6  BY <2>1
  <2>3. z = -10227 + 6  BY <2>1
  <2> QED  BY <2>2, <2>3
<1>6. Before(-10227, 0)
  <2>1. \A i \in 1 .. 27 : -10045 <= After[i]  BY Cases27 DEF After
  <2> QED  BY <2>1, LeapTable DEF Before
<1> QED  BY <1>1, <1>2, <1>3, <1>4, <1>5, <1>6 DEF WalkInv

LEMMA WalkStep ==
  ASSUME WalkInv, [Next]_vars
  PROVE  WalkInv'
<1>1. year \in Nat /\ 1972 <= year /\ IsDay(year, month, day)
      /\ days = Number(year, month, day)
      /\ yday \in Nat /\ yday + 1 = MiniseedYday(year, month, day)
      /\ wday = (days + 6) % 7 /\ Before(days, leaps)
  BY DEF WalkInv
<1>2. month \in 1 .. 12 /\ day \in Int /\ 1 <= day /\ days \in Int
      /\ MonthLength = LengthOf(year, month) /\ LengthOf(year, month) \in 28 .. 31
      /\ day <= LengthOf(year, month)
  BY <1>1, Ends, Lengths DEF IsDay, Before
<1>3. ASSUME Count
      PROVE  /\ days' = days + 1 /\ wday' = (days' + 6) % 7 /\ Before(days', leaps')
  <2>1. days' = days + 1 /\ wday' = (wday + 1) % 7 /\ leaps' = leaps + LeapSeconds
    BY <1>3 DEF Count
  <2>2. Before(days + 1, leaps + LeapSeconds)  BY <1>1, Ends, BeforeNext
  <2>3. (((days + 6) % 7) + 1) % 7 = (days + 7) % 7  BY <1>2
  <2> QED  BY <1>1, <1>2, <2>1, <2>2, <2>3
<1>4. ASSUME NextDay PROVE WalkInv'
  <2>1. day' = day + 1 /\ yday' = yday + 1 /\ year' = year /\ month' = month /\ Count
        /\ day < LengthOf(year, month)
    BY <1>2, <1>4 DEF NextDay
  <2>2. IsDay(year, month, day + 1)  BY <1>1, <1>2, <2>1 DEF IsDay
  <2>3. Number(year, month, day + 1) = days + 1
    <3>1. year \in Int  BY <1>1
    <3>2. Number(year, month, day + 1) = Number(year, month, day) + 1
      BY ONLY <1>2, <3>1, NumberNextDay
    <3> QED  BY <1>1, <3>2
  <2>4. MiniseedYday(year, month, day + 1) = yday + 1 + 1  BY <1>1, YdayTyped
  <2> QED  BY <1>1, <1>3, <2>1, <2>2, <2>3, <2>4 DEF WalkInv
<1>5. ASSUME NextMonth PROVE WalkInv'
  <2>1. day' = 1 /\ yday' = yday + 1 /\ year' = year /\ month' = month + 1 /\ Count
        /\ day = LengthOf(year, month) /\ month \in 1 .. 11
    BY <1>2, <1>5 DEF NextMonth
  <2>2. IsDay(year, month + 1, 1)
    <3>1. month + 1 \in 1 .. 12 /\ year \in Int  BY <1>1, <2>1
    <3> QED  BY <3>1, Lengths DEF IsDay
  <2>3. Number(year, month + 1, 1) = days + 1  BY <1>1, <2>1, NumberNextMonth
  <2>4. MiniseedYday(year, month + 1, 1) = yday + 1 + 1  BY <1>1, <2>1, YdayNextMonth
  <2> QED  BY <1>1, <1>3, <2>1, <2>2, <2>3, <2>4 DEF WalkInv
<1>6. ASSUME NextYear PROVE WalkInv'
  <2>1. day' = 1 /\ yday' = 0 /\ year' = year + 1 /\ month' = 1 /\ Count
        /\ day = LengthOf(year, month) /\ month = 12
    BY <1>2, <1>6 DEF NextYear
  <2>2. IsDay(year + 1, 1, 1)  BY <1>1 DEF IsDay, LengthOf
  <2>3. day = 31  BY <2>1 DEF LengthOf
  <2>4. Number(year + 1, 1, 1) = days + 1  BY <1>1, <2>1, <2>3, NumberNextYear
  <2>5. MiniseedYday(year + 1, 1, 1) = 0 + 1  BY DEF MiniseedYday
  <2>6. year + 1 \in Nat /\ 1972 <= year + 1 /\ 0 \in Nat  BY <1>1
  <2> QED  BY <1>3, <2>1, <2>2, <2>4, <2>5, <2>6 DEF WalkInv
<1>7. ASSUME UNCHANGED vars PROVE WalkInv'
  BY <1>7 DEF vars, WalkInv, Before
<1> QED  BY <1>4, <1>5, <1>6, <1>7 DEF Next, Over

\* The day, its number, the day of the year and of the week and the leap seconds
\* stay what the calendar and the list of leap seconds say, on every day from 1972.
THEOREM Walk == Spec => []WalkInv
<1>1. Init => WalkInv  BY WalkInit
<1>2. WalkInv /\ [Next]_vars => WalkInv'  BY WalkStep
<1> QED  BY <1>1, <1>2, PTL DEF Spec

-----------------------------------------------------------------------------
\* Dates and times

\* What the properties of a day need of the invariant.
LEMMA DayIs ==
  ASSUME WalkInv
  PROVE  /\ year \in Int /\ month \in 1 .. 12 /\ day \in Int
         /\ days \in Int /\ leaps \in 0 .. 27 /\ Before(days, leaps)
         /\ midnight = 86400 * days + 10 + leaps /\ midnight \in Int
         /\ LeapSeconds \in 0 .. 1 /\ Before(days + 1, leaps + LeapSeconds)
         /\ EndsWithLeapSecond <=> LeapSeconds = 1
         /\ DayLength = 86400 + LeapSeconds
<1>1. year \in Int /\ month \in 1 .. 12 /\ day \in Int  BY Lengths DEF WalkInv, IsDay
<1>2. days \in Int /\ leaps \in 0 .. 27 /\ Before(days, leaps)  BY DEF WalkInv, Before
<1>3. midnight = 86400 * days + 10 + leaps  BY <1>2 DEF midnight
<1>4. Before(days + 1, leaps + LeapSeconds)  BY <1>2, Ends, BeforeNext
<1> QED  BY <1>1, <1>2, <1>3, <1>4 DEF LeapSeconds, DayLength

\* The times of the day as seconds from midnight.
TodayIs(now, r, hh, mm, ss) ==
  /\ now = <<midnight + r, Date(year, month, day, hh, mm, ss)>>
  /\ \/ r = 0 /\ hh = 0 /\ mm = 0 /\ ss = 0
     \/ r = 45296 /\ hh = 12 /\ mm = 34 /\ ss = 56
     \/ r = 86399 /\ hh = 23 /\ mm = 59 /\ ss = 59
     \/ r = 86400 /\ hh = 23 /\ mm = 59 /\ ss = 60 /\ EndsWithLeapSecond

LEMMA TodaySplits ==
  ASSUME WalkInv, NEW now \in Today
  PROVE  \E r, hh, mm, ss : TodayIs(now, r, hh, mm, ss)
<1>1. \/ now = <<midnight, Date(year, month, day, 0, 0, 0)>>
      \/ now = <<midnight + 45296, Date(year, month, day, 12, 34, 56)>>
      \/ now = <<midnight + 86399, Date(year, month, day, 23, 59, 59)>>
      \/ now = <<midnight + 86400, Date(year, month, day, 23, 59, 60)>> /\ EndsWithLeapSecond
  BY SMT DEF Today
<1>2. midnight = midnight + 0  BY DayIs
<1>3. \/ TodayIs(now, 0, 0, 0, 0) \/ TodayIs(now, 45296, 12, 34, 56)
      \/ TodayIs(now, 86399, 23, 59, 59) \/ TodayIs(now, 86400, 23, 59, 60)
  BY <1>1, <1>2, SMT DEF TodayIs
<1> QED  BY <1>3, SMT

LEMMA TimeIs ==
  ASSUME WalkInv, NEW hh \in Int, NEW mm \in Int, NEW ss \in Int
  PROVE  tai_time(Date(year, month, day, hh, mm, ss))
           = LeapsecAdd(86400 * days + (3600 * hh + 60 * mm + ss), ss = 60)
<1> DEFINE date == Date(year, month, day, hh, mm, ss)
           m == (month - 3) % 12
           y == year - 2000 + (month - 3) \div 12
           d == day + 59 + (m * 153 + 2) \div 5 + y * 365 + y \div 4 - y \div 100 + y \div 400
<1>1. date.year = year /\ date.month = month /\ date.day = day /\ date.hour = hh
      /\ date.min = mm /\ date.sec = ss
  BY DEF Date
<1>2. days = d
  <2>1. y = YearOf(year, month) - 2000  BY DayIs DEF YearOf
  <2>2. days = Number(year, month, day)  BY DEF WalkInv
  <2> QED  BY <2>1, <2>2 DEF Number, MonthOf
<1>3. days \in Int  BY DayIs
<1> HIDE DEF date
<1>4. tai_time(date) = LeapsecAdd(ss + 60 * (mm + 60 * (hh + d * 24)), ss = 60)
  BY <1>1 DEF tai_time
<1>5. tai_time(date) = LeapsecAdd(ss + 60 * (mm + 60 * (hh + days * 24)), ss = 60)
  <2> HIDE DEF d
  <2> QED  BY <1>2, <1>4
<1>6. ss + 60 * (mm + 60 * (hh + days * 24)) = 86400 * days + (3600 * hh + 60 * mm + ss)
  BY <1>3
<1> QED  BY <1>5, <1>6 DEF date

LEMMA TimeOfToday ==
  ASSUME WalkInv
  PROVE  TimeOfDate
<1> SUFFICES ASSUME NEW now \in Today PROVE tai_time(now[2]) = now[1]
  BY DEF TimeOfDate
<1>1. PICK r, hh, mm, ss : TodayIs(now, r, hh, mm, ss)  BY TodaySplits
<1>2. /\ r \in Int /\ hh \in Int /\ mm \in Int /\ ss \in Int /\ 0 <= r
      /\ r = 3600 * hh + 60 * mm + ss
      /\ IF ss = 60 THEN r = 86400 ELSE r <= 86399
  BY <1>1, SMT DEF TodayIs
<1>3. now[1] = midnight + r /\ now[2] = Date(year, month, day, hh, mm, ss)
  BY <1>1, SMT DEF TodayIs
<1>4. tai_time(now[2]) = LeapsecAdd(86400 * days + r, ss = 60)  BY <1>2, <1>3, TimeIs, SMT
<1> DEFINE hit == ss = 60
<1>5. hit \in BOOLEAN  OBVIOUS
<1>6. IF hit THEN r = 86400 ELSE r <= 86399  BY <1>2
<1>7. tai_time(now[2]) = LeapsecAdd(86400 * days + r, hit)  BY <1>4
<1> HIDE DEF hit
<1>8. LeapsecAdd(86400 * days + r, hit) = 86400 * days + r + 10 + leaps
  BY <1>2, <1>5, <1>6, DayIs, AddIs, SMT
<1>9. tai_time(now[2]) = 86400 * days + r + 10 + leaps  BY <1>7, <1>8, SMT
<1> QED  BY <1>2, <1>3, <1>9, DayIs, SMT

\* Times that differ by the offset.
LEMMA DateIs ==
  ASSUME WalkInv, NEW t \in Int, NEW s \in Int, 0 <= s, s <= 86399,
         t - tai_utc_diff(t) = 86400 * days + s
  PROVE  /\ ~LeapsecHit(t) => tai_date(t).date =
              Date(year, month, day, s \div 3600, (s \div 60) % 60, s % 60)
         /\ LeapsecHit(t) => tai_date(t).date =
              Date(year, month, day, s \div 3600, (s \div 60) % 60, (s % 60) + 1)
         /\ tai_date(t).yday = DayOf(days).yday
         /\ tai_date(t).wday = WeekdayOf(days)
<1>1. days \in Int /\ IsDay(year, month, day) /\ days = Number(year, month, day)
  BY DayIs DEF WalkInv
<1>2. LeapsecSub(t) = 86400 * days + s  BY SMT DEF LeapsecSub
<1>3. (86400 * days + s) % 86400 = s /\ (86400 * days + s) \div 86400 = days  BY <1>1, SMT
<1>4. LeapsecSub(t) % 86400 = s /\ LeapsecSub(t) \div 86400 = days  BY <1>2, <1>3, SMT
<1>5. DayOf(days).year = year /\ DayOf(days).month = month /\ DayOf(days).day = day
  BY <1>1, DayOfNumber, SMT
<1>6. tai_date(t) =
        [date |-> Date(DayOf(days).year, DayOf(days).month, DayOf(days).day,
                       s \div 3600, (s \div 60) % 60,
                       (s % 60) + (IF LeapsecHit(t) THEN 1 ELSE 0)),
         yday |-> DayOf(days).yday, wday |-> WeekdayOf(days)]
  BY <1>4, SMT DEF tai_date
<1>7. (s % 60) + 0 = s % 60  BY SMT
<1> QED  BY <1>5, <1>6, <1>7, SMT

LEMMA DateOfToday ==
  ASSUME WalkInv
  PROVE  DateOfTime
<1> SUFFICES ASSUME NEW now \in Today PROVE tai_date(now[1]).date = now[2]
  BY DEF DateOfTime
<1>1. PICK r, hh, mm, ss : TodayIs(now, r, hh, mm, ss)  BY TodaySplits
<1>2. now[1] = midnight + r /\ now[2] = Date(year, month, day, hh, mm, ss)
  BY <1>1, SMT DEF TodayIs
<1>3. CASE r # 86400
  <2>1. /\ r \in Int /\ 0 <= r /\ r <= 86399
        /\ hh = r \div 3600 /\ mm = (r \div 60) % 60 /\ ss = r % 60
    BY <1>1, <1>3, SMT DEF TodayIs
  <2>2. PICK t \in Int : t = midnight + r  BY <2>1, DayIs
  <2>3. t - tai_utc_diff(t) = 86400 * days + r
    <3>1. tai_utc_diff(86400 * days + 10 + leaps + r) = 10 + leaps
      BY <2>1, DayIs, DiffIs, SMT
    <3>2. 86400 * days + 10 + leaps + r = t  BY <2>1, <2>2, DayIs, SMT
    <3>3. tai_utc_diff(t) = 10 + leaps  BY <3>1, <3>2
    <3> QED  BY <2>1, <3>2, <3>3, DayIs, SMT
  <2>4. ~LeapsecHit(t)
    <3>1. \A i \in 1 .. 27 : i <= leaps <=> leapsecs[i] <= midnight - 1
      BY DayIs, BeforeAsTimes, SMT
    <3>2. \A i \in 1 .. 27 : i <= leaps <=> leapsecs[i] <= midnight + 86399
      BY DayIs, BeforeAsTimes, SMT
    <3>3. \A i \in 1 .. 27 : leapsecs[i] \in Int  BY LeapTable, SMT
    <3>4. \A i \in 1 .. 27 : leapsecs[i] # t
      BY <2>1, <2>2, <3>1, <3>2, <3>3, DayIs, SMT
    <3>5. DOMAIN leapsecs = 1 .. 27  BY LeapTable
    <3> QED  BY <3>4, <3>5, SMT DEF LeapsecHit, Range
  <2>5. tai_date(t).date
          = Date(year, month, day, r \div 3600, (r \div 60) % 60, r % 60)
    BY <2>1, <2>3, <2>4, DateIs, SMT
  <2> QED  BY <1>2, <2>1, <2>2, <2>5, SMT
<1>4. CASE r = 86400
  <2>1. hh = 23 /\ mm = 59 /\ ss = 60 /\ EndsWithLeapSecond  BY <1>1, <1>4, SMT DEF TodayIs
  <2>2. LeapSeconds = 1 /\ Before(days + 1, leaps + 1) /\ leaps + 1 \in 1 .. 27
    BY <2>1, DayIs, SMT DEF Before
  <2>3. PICK t \in Int : t = midnight + 86400  BY DayIs
  <2>4. PICK s \in Int : s = 86399 /\ s \div 3600 = 23 /\ (s \div 60) % 60 = 59
                         /\ (s % 60) + 1 = 60
    BY SMT
  <2>5. t - tai_utc_diff(t) = 86400 * days + s
    <3>1. tai_utc_diff(86400 * (days + 1) + 10 + (leaps + 1) + (-1)) = 10 + (leaps + 1)
      BY <2>2, DiffIs, SMT
    <3>2. 86400 * (days + 1) + 10 + (leaps + 1) + (-1) = t  BY <2>3, DayIs, SMT
    <3>3. tai_utc_diff(t) = 11 + leaps  BY <3>1, <3>2, DayIs, SMT
    <3> QED  BY <2>3, <2>4, <3>3, DayIs, SMT
  <2>6. LeapsecHit(t)
    <3>1. After[leaps + 1] <= days + 1 /\ ~(After[leaps + 1] <= days)
      BY <2>2, DayIs, SMT DEF Before
    <3>2. After[leaps + 1] \in Int
          /\ leapsecs[leaps + 1] = 86400 * After[leaps + 1] + 9 + (leaps + 1)
      BY <2>2, LeapTable, SMT
    <3>3. leapsecs[leaps + 1] = t  BY <2>3, <3>1, <3>2, DayIs, SMT
    <3>4. DOMAIN leapsecs = 1 .. 27  BY LeapTable
    <3> QED  BY <2>2, <3>3, <3>4, SMT DEF LeapsecHit, Range
  <2>7. tai_date(t).date
          = Date(year, month, day, s \div 3600, (s \div 60) % 60, (s % 60) + 1)
    BY <2>4, <2>5, <2>6, DateIs, SMT
  <2> QED  BY <1>2, <1>4, <2>1, <2>3, <2>4, <2>7, SMT
<1> QED  BY <1>3, <1>4

LEMMA OffsetToday ==
  ASSUME WalkInv
  PROVE  OffsetSteps
<1>1. tai_utc_diff(midnight) = 10 + leaps
  <2>1. tai_utc_diff(86400 * days + 10 + leaps + 0) = 10 + leaps  BY DayIs, DiffIs, SMT
  <2>2. 86400 * days + 10 + leaps + 0 = midnight  BY DayIs, SMT
  <2> QED  BY <2>1, <2>2
<1>2. tai_utc_diff(midnight + DayLength - 1) = 10 + (leaps + LeapSeconds)
  <2>1. tai_utc_diff(86400 * (days + 1) + 10 + (leaps + LeapSeconds) + (-1))
          = 10 + (leaps + LeapSeconds)
    BY DayIs, DiffIs, SMT
  <2>2. 86400 * (days + 1) + 10 + (leaps + LeapSeconds) + (-1) = midnight + DayLength - 1
    BY DayIs, SMT
  <2> QED  BY <2>1, <2>2
<1> QED  BY <1>1, <1>2, DayIs, SMT DEF OffsetSteps

LEMMA DayOfYearToday ==
  ASSUME WalkInv
  PROVE  /\ tai_date(midnight).wday = wday /\ MiniseedYday(year, month, day) = yday + 1
         /\ tai_date(midnight).yday = yday + CenturyDay(year, month)
         /\ CenturyDay(year, month) = 0 => DayOfYear
<1>1. midnight - tai_utc_diff(midnight) = 86400 * days + 0
  BY OffsetToday, DayIs, SMT DEF OffsetSteps
<1>2. tai_date(midnight).yday = DayOf(days).yday /\ tai_date(midnight).wday = WeekdayOf(days)
  BY <1>1, DayIs, DateIs, SMT
<1>3. /\ DayOf(days).yday + 1 = MiniseedYday(year, month, day) + CenturyDay(year, month)
      /\ WeekdayOf(days) = wday /\ MiniseedYday(year, month, day) = yday + 1 /\ yday \in Nat
      /\ DayOf(days).yday \in Int
  BY DayOfNumber, SMT DEF WalkInv
<1>4. CenturyDay(year, month) \in 0 .. 1  BY SMT DEF CenturyDay
<1> QED  BY <1>2, <1>3, <1>4, SMT DEF DayOfYear

\* The days of the BCD conversions, from the year 2000 to 2099.
LEMMA MjdIs ==
  ASSUME NEW y \in Int, NEW m \in 1 .. 12, NEW d \in Int, NEW hh, NEW mm, NEW ss,
         2000 <= y, y <= 2099
  PROVE  bcd_mjd(Date(y, m, d, hh, mm, ss)) = Number(y, m, d)
<1>1. PICK k \in 0 .. 11 : k = (m - 3) % 12 /\ k = MonthOf(m)  BY Months DEF MonthOf
<1>2. montab[k + 1] = (k * 153 + 2) \div 5
  <2>1. k = 0 \/ k = 1 \/ k = 2 \/ k = 3 \/ k = 4 \/ k = 5 \/ k = 6 \/ k = 7 \/ k = 8 \/ k = 9
        \/ k = 10 \/ k = 11
    OBVIOUS
  <2> QED  BY <2>1, SMT DEF montab
<1>3. PICK n \in Int : /\ n = y - 2000 - (IF m < 3 THEN 1 ELSE 0)
                       /\ n = YearOf(y, m) - 2000 /\ -1 <= n /\ n <= 99
  BY Months
<1>4. 365 * (n % 4) + 1461 * (n \div 4) = n * 365 + n \div 4
  <2>1. n = 4 * (n \div 4) + (n % 4)  BY SMT
  <2>2. n \div 4 \in Int /\ n % 4 \in Int  BY SMT
  <2> QED  BY <2>1, <2>2, SMT
<1>5. n \div 100 = n \div 400  BY <1>3, SMT
<1> DEFINE date == Date(y, m, d, hh, mm, ss)
<1>6. date.year = y /\ date.month = m /\ date.day = d  BY DEF Date
<1> HIDE DEF date
<1>7. bcd_mjd(date) = d + montab[k + 1] + 365 * (n % 4) + 1461 * (n \div 4) + 59
  BY <1>1, <1>3, <1>6, SMT DEF bcd_mjd
<1>8. Number(y, m, d) = d + 59 + (k * 153 + 2) \div 5 + n * 365 + n \div 4 - n \div 100
                          + n \div 400
  <2>1. (MonthOf(m) * 153 + 2) \div 5 = (k * 153 + 2) \div 5  BY <1>1
  <2>2. PICK v \in Int : v = (k * 153 + 2) \div 5  BY SMT
  <2>3. PICK z \in Int : z = YearOf(y, m)  BY Months DEF YearOf
  <2>4. n = z - 2000  BY <1>3, <2>3
  <2> QED  BY <2>1, <2>2, <2>3, <2>4, SMT DEF Number
<1>9. (k * 153 + 2) \div 5 \in Int  BY SMT
<1>10. bcd_mjd(date) = Number(y, m, d)  BY <1>2, <1>4, <1>5, <1>7, <1>8, <1>9, SMT
<1> QED  BY <1>10 DEF date

LEMMA DayValidIs ==
  ASSUME NEW y \in Int, NEW m \in 1 .. 12, NEW d \in Int
  PROVE  DayValid(d, m, y - 2000) <=> 1 <= d /\ d <= LengthOf(y, m)
<1>1. leapyear(y - 2000) <=> Leap(y) = 1
  <2>1. (y - 2000) % 4 = y % 4 /\ ((y - 2000) % 100 = 0 <=> y % 100 = 0)
        /\ ((y - 2000) % 400 = 0 <=> y % 400 = 0) /\ (y % 400 = 0 => y % 4 = 0)
    BY SMT
  <2> QED  BY <2>1, LeapIs, SMT DEF leapyear
<1>2. longmonth(m) <=> m \in {1, 3, 5, 7, 8, 10, 12}
  <2>1. m = 1 \/ m = 2 \/ m = 3 \/ m = 4 \/ m = 5 \/ m = 6 \/ m = 7 \/ m = 8 \/ m = 9
        \/ m = 10 \/ m = 11 \/ m = 12
    OBVIOUS
  <2> QED  BY <2>1, SMT DEF longmonth
<1>3. Leap(y) \in 0 .. 1  BY LeapIs
<1> QED  BY <1>1, <1>2, <1>3, SMT DEF DayValid, LengthOf

LEMMA BcdToday ==
  ASSUME WalkInv
  PROVE  BcdDays
<1> SUFFICES ASSUME year \in 2000 .. 2099
             PROVE  LET date == Date(year, month, day, 0, 0, 0)
                    IN  /\ bcd_mjd(date) = days
                        /\ bcd_weekday(date) = wday + 1
                        /\ bcd_diff(Date(2000, 1, 1, 0, 0, 0),
                                    Date(year, month, day, 12, 34, 56))
                             = days * 86400 + 45296
                        /\ DayValid(day, month, year - 2000)
                        /\ day = MonthLength
                             => \A d \in day + 1 .. 99 : ~DayValid(d, month, year - 2000)
  BY DEF BcdDays
<1> DEFINE date == Date(year, month, day, 0, 0, 0)
           noon == Date(year, month, day, 12, 34, 56)
           first == Date(2000, 1, 1, 0, 0, 0)
<1>1. /\ 2000 <= year /\ year <= 2099 /\ days = Number(year, month, day)
      /\ day \in 1 .. LengthOf(year, month) /\ wday = (days + 6) % 7
      /\ MonthLength = LengthOf(year, month)
  BY DayIs, Ends DEF WalkInv, IsDay
<1>2. bcd_mjd(date) = days  BY <1>1, DayIs, MjdIs, SMT
<1>3. bcd_mjd(noon) = days  BY <1>1, DayIs, MjdIs, SMT
<1>4. bcd_mjd(first) = 0
  <2>1. bcd_mjd(first) = Number(2000, 1, 1)  BY MjdIs, SMT
  <2>2. YearOf(2000, 1) = 1999 /\ MonthOf(1) = 10  BY Months, SMT
  <2>3. PICK n \in Int : n = -1 /\ n = 1999 - 2000  OBVIOUS
  <2>4. Number(2000, 1, 1) = 0  BY <2>2, <2>3, SMT DEF Number
  <2> QED  BY <2>1, <2>4
<1>5. bcd_weekday(date) = wday + 1
  <2>1. (days - 1) % 7 = (days + 6) % 7  BY DayIs, SMT
  <2> QED  BY <1>1, <1>2, <2>1, SMT DEF bcd_weekday
<1>6. /\ noon.hour = 12 /\ noon.min = 34 /\ noon.sec = 56
      /\ first.hour = 0 /\ first.min = 0 /\ first.sec = 0
  BY SMT DEF Date
<1>7. bcd_diff(first, noon) = days * 86400 + 45296
  <2> HIDE DEF noon, first
  <2> QED  BY <1>3, <1>4, <1>6, DayIs, SMT DEF bcd_diff
<1>8. \A d \in Int : DayValid(d, month, year - 2000) <=> 1 <= d /\ d <= LengthOf(year, month)
  <2>1. year \in Int /\ month \in 1 .. 12  BY DayIs, SMT
  <2> QED  BY ONLY <2>1, DayValidIs, SMT
<1>9. DayValid(day, month, year - 2000)  BY <1>1, <1>8, DayIs, SMT
<1>10. ASSUME day = MonthLength, NEW d \in day + 1 .. 99
      PROVE  ~DayValid(d, month, year - 2000)
  <2>1. d \in Int /\ ~(d <= LengthOf(year, month))  BY <1>1, <1>10, DayIs, Lengths, SMT
  <2> QED  BY <1>8, <2>1, SMT
<1> QED  BY <1>2, <1>5, <1>7, <1>9, <1>10

\* The clock of the recorder, from one synchronisation to the next.
LEMMA RoundedUp ==
  ASSUME NEW a \in Nat, NEW b \in Nat \ {0}
  PROVE  \E q \in Int : /\ q = (2 * a + b) \div (2 * b)
                        /\ -b <= 2 * (b * q) - 2 * a /\ 2 * (b * q) - 2 * a <= b
<1>1. PICK n \in Nat \ {0}, x \in Nat : n = 2 * b /\ x = 2 * a + b  BY SMT
<1>2. PICK q \in Int : q = x \div n /\ n * q <= x /\ x < n * q + n  BY <1>1, SMT
<1>3. PICK m \in Int : m = b * q  BY SMT
<1>4. n * q = 2 * m  BY <1>1, <1>3, SMT
<1>5. -b <= 2 * m - 2 * a /\ 2 * m - 2 * a <= b  BY <1>1, <1>2, <1>4, SMT
<1> QED  BY <1>1, <1>2, <1>3, <1>5

\* Rounding changes a quotient by a half at most.
LEMMA RoundedNear ==
  ASSUME NEW a \in Int, NEW b \in Nat \ {0}
  PROVE  /\ Rounded(a, b) \in Int
         /\ -b <= 2 * (b * Rounded(a, b)) - 2 * a /\ 2 * (b * Rounded(a, b)) - 2 * a <= b
<1>1. CASE a >= 0
  <2>1. PICK q \in Int : /\ q = (2 * a + b) \div (2 * b)
                         /\ -b <= 2 * (b * q) - 2 * a /\ 2 * (b * q) - 2 * a <= b
    <3>1. a \in Nat  BY <1>1, SMT
    <3> QED  BY ONLY <3>1, b \in Nat \ {0}, RoundedUp
  <2>2. Rounded(a, b) = q  BY <1>1, <2>1, SMT DEF Rounded
  <2> QED  BY <2>1, <2>2
<1>2. CASE a < 0
  <2>1. PICK c \in Nat : c = -a  BY <1>2, SMT
  <2>2. PICK q \in Int : /\ q = (2 * c + b) \div (2 * b)
                         /\ -b <= 2 * (b * q) - 2 * c /\ 2 * (b * q) - 2 * c <= b
    BY ONLY c \in Nat, b \in Nat \ {0}, RoundedUp
  <2>3. Rounded(a, b) = -q  BY <1>2, <2>1, <2>2, SMT DEF Rounded
  <2>4. PICK m \in Int : m = b * q /\ b * (-q) = -m  BY SMT
  <2>5. -b <= 2 * m - 2 * c /\ 2 * m - 2 * c <= b  BY <2>2, <2>4
  <2>6. -b <= 2 * (-m) - 2 * a /\ 2 * (-m) - 2 * a <= b  BY <2>1, <2>5, SMT
  <2>7. b * Rounded(a, b) = -m /\ Rounded(a, b) \in Int  BY <2>3, <2>4, SMT
  <2> QED  BY <2>6, <2>7
<1> QED  BY <1>1, <1>2, SMT

LEMMA AbsIs ==
  ASSUME NEW x \in Int
  PROVE  Abs(x) \in Nat /\ -x <= Abs(x) /\ x <= Abs(x) /\ (Abs(x) = x \/ Abs(x) = -x)
BY SMT DEF Abs

\* What is left when the correction, which is to even out how far the clock has
\* fallen behind, is found from the clock's own time: n is the interval, x the
\* time, d the drift, f and b how far the clock was and is behind.
LEMMA ErrorIs ==
  ASSUME NEW n \in Nat \ {0}, NEW x \in Int, NEW d \in Int, NEW f \in Int, NEW b \in Int,
         2 * Abs(n * (b - f) - x * d) <= n, NEW r \in Int, r = Rounded((x - b) * d, n)
  PROVE  n * Abs(f - b + r) <= Abs(b * d) + n
<1>1. PICK a \in Int : a = (x - b) * d  BY SMT
<1>2. -n <= 2 * (n * r) - 2 * a /\ 2 * (n * r) - 2 * a <= n  BY <1>1, RoundedNear
<1>3. PICK xd \in Int, bd \in Int, nb \in Int, nf \in Int, nr \in Int :
        xd = x * d /\ bd = b * d /\ nb = n * b /\ nf = n * f /\ nr = n * r
  BY SMT
<1>4. a = xd - bd  BY <1>1, <1>3, SMT
<1>5. n * (b - f) - x * d = nb - nf - xd  BY <1>3, SMT
<1>6. /\ Abs(nb - nf - xd) \in Int
      /\ -(nb - nf - xd) <= Abs(nb - nf - xd) /\ nb - nf - xd <= Abs(nb - nf - xd)
  BY AbsIs, SMT
<1>7. 2 * Abs(nb - nf - xd) <= n  BY <1>5
<1>8. -n <= 2 * (nb - nf - xd) /\ 2 * (nb - nf - xd) <= n  BY <1>6, <1>7, SMT
<1>9. -n <= 2 * nr - 2 * (xd - bd) /\ 2 * nr - 2 * (xd - bd) <= n  BY <1>2, <1>3, <1>4
<1>10. Abs(bd) \in Nat /\ -bd <= Abs(bd) /\ bd <= Abs(bd)  BY AbsIs
<1>11. nf - nb + nr <= Abs(bd) + n /\ -(nf - nb + nr) <= Abs(bd) + n
  BY <1>8, <1>9, <1>10, SMT
<1>12. PICK e \in Int : e = f - b + r  BY SMT
<1>13. n * e = nf - nb + nr /\ n * (-e) = -(nf - nb + nr)  BY <1>3, <1>12, SMT
<1>14. n * Abs(e) <= Abs(bd) + n
  <2>1. Abs(e) = e \/ Abs(e) = -e  BY AbsIs
  <2>2. CASE Abs(e) = e  BY <1>11, <1>13, <2>2
  <2>3. CASE Abs(e) = -e  BY <1>11, <1>13, <2>3
  <2> QED  BY <2>1, <2>2, <2>3
<1> QED  BY <1>3, <1>12, <1>14

LEMMA ConvertedIs ==
  ASSUME NEW h, NEW sec, NEW usec, NEW t, StartTime(h) + sec = t,
         NEW e, Second * (t - h.sync_time) + usec = e,
         NEW n, Second * (h.skew_time - h.sync_time) = n,
         NEW g, Growth(h) = g, NEW f, h.first_skew = f
  PROVE  Converted(h, sec, usec) = <<t, usec + f + Rounded(e * g, n)>>
BY DEF Converted

LEMMA CorrectedToday ==
  ASSUME WalkInv, NEW first \in Int, NEW drift \in Int, NEW elapsed \in Int,
         NEW behind \in Int, IsBehind(first, drift, elapsed, behind)
  PROVE  Corrected(first, drift, elapsed, behind)
<1>1. PICK s \in Nat \ {0} : s = Second  BY TimeAssumption
<1>2. midnight \in Int /\ LeapSeconds \in 0 .. 1 /\ DayLength = 86400 + LeapSeconds
  BY DayIs, SMT
<1>3. PICK noon \in Int : noon = midnight + DayLength + 43200  BY DayIs, SMT
<1>4. PICK second \in Int : second = first + drift - s * (DayLength - 86400)
  BY <1>2, SMT
<1> DEFINE h == Headers(midnight, first, midnight + 60, noon, second)
<1>5. /\ tai_utc_diff(midnight) = 10 + leaps /\ tai_utc_diff(midnight + 60) = 10 + leaps
      /\ tai_utc_diff(noon) = 10 + leaps + LeapSeconds
  <2>1. /\ tai_utc_diff(86400 * days + 10 + leaps + 0) = 10 + leaps
        /\ tai_utc_diff(86400 * days + 10 + leaps + 60) = 10 + leaps
    BY DayIs, DiffIs, SMT
  <2>2. tai_utc_diff(86400 * (days + 1) + 10 + (leaps + LeapSeconds) + 43200)
          = 10 + (leaps + LeapSeconds)
    BY DayIs, DiffIs, SMT
  <2>3. /\ 86400 * days + 10 + leaps + 0 = midnight
        /\ 86400 * days + 10 + leaps + 60 = midnight + 60
        /\ 86400 * (days + 1) + 10 + (leaps + LeapSeconds) + 43200 = noon
    BY <1>3, DayIs, SMT
  <2>4. 10 + (leaps + LeapSeconds) = 10 + leaps + LeapSeconds  BY DayIs, SMT
  <2> QED  BY <2>1, <2>2, <2>3, <2>4
<1>6. /\ h.sync_time = midnight /\ h.first_skew = first /\ h.start_time = midnight + 60
      /\ h.skew_time = noon /\ h.second_skew = second
  BY SMT DEF Headers
<1> HIDE DEF h
<1>7. StartTime(h) = midnight + 60  BY <1>5, <1>6, DayIs, SMT DEF StartTime
<1>8. Growth(h) = drift
  <2>1. PICK l \in Int : l = LeapSeconds  BY <1>2
  <2>2. tai_utc_diff(noon) - tai_utc_diff(midnight) = l  BY <1>5, <2>1, DayIs, SMT
  <2>3. PICK z \in Int : z = s * l  BY SMT
  <2>4. second = first + drift - z
    <3>1. DayLength - 86400 = l  BY <1>2, <2>1, SMT
    <3> QED  BY <1>4, <2>3, <3>1
  <2>5. Growth(h) = second + z - first  BY <1>1, <1>6, <2>2, <2>3 DEF Growth
  <2> QED  BY <2>4, <2>5, SMT
<1>9. PICK n \in Nat \ {0} : n = Interval /\ n = s * (noon - midnight)
  <2>1. PICK k \in Nat \ {0} : k = DayLength + 43200 /\ k = noon - midnight
    BY <1>2, <1>3, SMT
  <2>2. s * k \in Nat \ {0}  BY SMT
  <2> QED  BY <1>1, <2>1, <2>2 DEF Interval
<1>10. PICK c \in Int : c = elapsed - Second * 60 - behind
  BY <1>1, SMT
<1>11. PICK q \in Int, u \in Int : q = c \div Second /\ u = c % Second /\ c = s * q + u
  BY <1>1, SMT
<1>12. PICK t \in Int : t = midnight + 60 + q /\ s * (t - midnight) + u = elapsed - behind
  <2>1. PICK t \in Int : t = midnight + 60 + q /\ t - midnight = 60 + q  BY <1>2, SMT
  <2>2. PICK z \in Int : z = s * q  BY SMT
  <2>3. s * (t - midnight) = s * 60 + z
    <3>1. s * (60 + q) = s * 60 + z  BY <2>2, SMT
    <3> QED  BY <2>1, <3>1
  <2>4. c = z + u /\ c = elapsed - s * 60 - behind  BY <1>1, <1>10, <1>11, <2>2
  <2>5. s * 60 + z + u = elapsed - behind  BY <2>4, SMT
  <2> QED  BY <2>1, <2>3, <2>5
<1>13. PICK r \in Int : r = Rounded((elapsed - behind) * drift, n)
  <2>1. (elapsed - behind) * drift \in Int  BY SMT
  <2> QED  BY <2>1, RoundedNear
<1>14. Converted(h, q, u) = <<t, u + first + r>>
  <2>1. StartTime(h) + q = t  BY <1>7, <1>12
  <2>2. PICK g \in Int, e \in Int : g = drift /\ e = elapsed - behind  BY SMT
  <2>3. Second * (t - h.sync_time) + u = e  BY <1>1, <1>6, <1>12, <2>2
  <2>4. Second * (h.skew_time - h.sync_time) = n  BY <1>1, <1>6, <1>9
  <2>5. Growth(h) = g /\ h.first_skew = first  BY <1>6, <1>8, <2>2
  <2>6. r = Rounded(e * g, n)  BY <1>13, <2>2
  <2> QED  BY <2>1, <2>3, <2>4, <2>5, <2>6, ConvertedIs
<1> DEFINE time == Converted(h, q, u)
           error == Second * (time[1] - midnight) + time[2] - elapsed
<1>15. error = first - behind + r
  <2>1. PICK y \in Int : y = u + first + r  BY SMT
  <2>2. time[1] = t /\ time[2] = y  BY <1>14, <2>1
  <2> HIDE DEF time
  <2>3. error = s * (t - midnight) + y - elapsed  BY <1>1, <2>2
  <2>4. PICK z \in Int : z = s * (t - midnight)  BY <1>2, SMT
  <2>5. z + y - elapsed = first - behind + r  BY <1>12, <2>1, <2>4, SMT
  <2> QED  BY <2>3, <2>4, <2>5
<1>16. n * Abs(first - behind + r) <= Abs(behind * drift) + n
  <2>1. 2 * Abs(n * (behind - first) - elapsed * drift) <= n  BY <1>9 DEF IsBehind
  <2> QED  BY <1>13, <2>1, ErrorIs
<1>17. Interval * Abs(error) <= Abs(behind * drift) + Interval
  <2> HIDE DEF error
  <2> QED  BY <1>9, <1>15, <1>16
<1>18. h = Headers(midnight, first, midnight + 60, midnight + DayLength + 43200,
                   first + drift - Second * (DayLength - 86400))
  BY <1>1, <1>3, <1>4 DEF h
<1>19. Interval * Abs(Second * (Converted(h, c \div Second, c % Second)[1] - midnight)
                      + Converted(h, c \div Second, c % Second)[2] - elapsed)
         <= Abs(behind * drift) + Interval
  BY <1>11, <1>17
<1> HIDE DEF time, error
<1> QED  BY <1>10, <1>18, <1>19, SMT DEF Corrected

LEMMA ClockToday ==
  ASSUME WalkInv
  PROVE  ClockCorrected
<1> SUFFICES ASSUME NEW clock \in Clocks, NEW elapsed \in Moments,
                    NEW behind \in {clock[1] + (elapsed * clock[2]) \div Interval,
                                    clock[1] + (elapsed * clock[2]) \div Interval + 1},
                    IsBehind(clock[1], clock[2], elapsed, behind)
             PROVE  Corrected(clock[1], clock[2], elapsed, behind)
  BY DEF ClockCorrected
<1>1. PICK f \in Int, d \in Int : clock[1] = f /\ clock[2] = d  BY SMT DEF Clocks
<1>2. PICK k \in {86400, 86401} : k = DayLength  BY DayIs, SMT
<1>3. PICK s \in Nat \ {0} : s = Second  BY TimeAssumption
<1>4. PICK n \in Nat \ {0} : n = Interval
  <2>1. s * (k + 43200) \in Nat \ {0}  BY <1>2, SMT
  <2> QED  BY <1>2, <1>3, <2>1 DEF Interval
<1>5. elapsed \in Int
  <2>1. s * 120 \in Int /\ s * 43200 + 1 \in Int /\ s * k \in Int  BY <1>2, SMT
  <2> QED  BY <1>2, <1>3, <1>4, <2>1 DEF Moments
<1>6. PICK least \in Int : least = clock[1] + (elapsed * clock[2]) \div Interval
  <2>1. PICK x \in Int : x = elapsed * d  BY <1>5, SMT
  <2>2. PICK y \in Int : y = x \div n  BY SMT
  <2>3. f + y \in Int  BY SMT
  <2> QED  BY <1>1, <1>4, <2>1, <2>2, <2>3
<1>7. behind \in Int
  <2>1. least + 1 \in Int  BY SMT
  <2> QED  BY <1>6, <2>1
<1> QED  BY <1>1, <1>5, <1>7, CorrectedToday

-----------------------------------------------------------------------------

\* tai_time gives every second of a day its time, leap seconds among them.
THEOREM TimeOfDateHolds == Spec => []TimeOfDate
<1>1. WalkInv => TimeOfDate  BY TimeOfToday
<1> QED  BY <1>1, Walk, PTL

\* tai_date takes it back to its date, also in a leap second and on the 29th of
\* February.
THEOREM DateOfTimeHolds == Spec => []DateOfTime
<1>1. WalkInv => DateOfTime  BY DateOfToday
<1> QED  BY <1>1, Walk, PTL

\* The day of the week and the day of the year in the record are right on every
\* day.  The day of the year in the file name is right but in a year that ends a
\* century without a leap day, 2100 first: from March on it is one too many.
THEOREM DayOfYearHolds ==
  Spec => [](/\ tai_date(midnight).wday = wday /\ MiniseedYday(year, month, day) = yday + 1
             /\ tai_date(midnight).yday = yday + CenturyDay(year, month)
             /\ CenturyDay(year, month) = 0 => DayOfYear)
<1>1. WalkInv => /\ tai_date(midnight).wday = wday
                 /\ MiniseedYday(year, month, day) = yday + 1
                 /\ tai_date(midnight).yday = yday + CenturyDay(year, month)
                 /\ CenturyDay(year, month) = 0 => DayOfYear
  BY DayOfYearToday
<1> QED  BY <1>1, Walk, PTL

\* From 2000 to 2099 the BCD conversions count the days of tai_time, and accept
\* the days there are.
THEOREM BcdDaysHold == Spec => []BcdDays
<1>1. WalkInv => BcdDays  BY BcdToday
<1> QED  BY <1>1, Walk, PTL

\* The offset to UTC changes with the first tick of a leap second, and only then.
THEOREM OffsetStepsHold == Spec => []OffsetSteps
<1>1. WalkInv => OffsetSteps  BY OffsetToday
<1> QED  BY <1>1, Walk, PTL

\* 6d6mseed gives a frame the time at which it was written, for every skew and
\* drift of the clock and at every time, also when a leap second lies between the
\* two synchronisations: but for one tick and for what the clock drifted in the
\* time it was behind.
THEOREM ClockCorrectedHolds ==
  Spec => [](/\ ClockCorrected
             /\ \A first, drift, elapsed, behind \in Int :
                  IsBehind(first, drift, elapsed, behind)
                    => Corrected(first, drift, elapsed, behind))
<1>1. WalkInv => ClockCorrected  BY ClockToday
<1>2. WalkInv => \A first, drift, elapsed, behind \in Int :
                   IsBehind(first, drift, elapsed, behind)
                     => Corrected(first, drift, elapsed, behind)
  BY CorrectedToday
<1> QED  BY <1>1, <1>2, Walk, PTL

=============================================================================
