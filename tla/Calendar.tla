------------------------------- MODULE Calendar -------------------------------
(***************************************************************************)
(* src/tai/tai.h, src/bcd and the start time of a MiniSEED record: the     *)
(* conversions between dates and times that all programs rely on.  Time is *)
(* in seconds here (microseconds in the code; the fraction goes through    *)
(* unchanged) since 2000-01-01 00:00:00 TAI.                               *)
(*                                                                         *)
(* The behaviour walks through the calendar day by day, by its rules and   *)
(* by the list of leap seconds; the properties compare the formulas of the *)
(* code with it on every day.                                              *)
(***************************************************************************)
EXTENDS Integers, Sequences, FiniteSets, Functions

CONSTANT LastYear  \* bound: the walk ends after it

ASSUME CalendarAssumption == LastYear \in Nat

VARIABLES year, month, day,   \* the day
          yday, wday,         \* days since January 1st, day of the week, 0 for a Sunday
          days,               \* days from 2000-01-01
          leaps               \* leap seconds there were before the day

vars == <<year, month, day, yday, wday, days, leaps>>

-----------------------------------------------------------------------------
\* tai.h

\* Lines 47-75.
leapsecs ==
  <<-867887990, -851990389, -820454388, -788918387, -757382386, -725759985,
    -694223984, -662687983, -631151982, -583891181, -552355180, -520819179,
    -457660778, -378691177, -315532776, -283996775, -236735974, -205199973,
    -173663972, -126230371, -78969570, -31535969, 189388832, 284083233,
    394416034, 489024035, 536544036>>

\* A leap second counts only after its first tick.
UtcDiffLate(t) == 10 + Cardinality({i \in DOMAIN leapsecs : leapsecs[i] < t})
tai_utc_diff(t) == 10 + Cardinality({i \in DOMAIN leapsecs : leapsecs[i] <= t})

\* Every leap second counts from its first tick.
PassingAll(t, l, hit) == IF t >= l THEN t + 1 ELSE t
\* Lines 104-105: hit is TRUE for a date in the leap second itself.
Passing(t, l, hit) == IF t >= l /\ (~hit \/ t >= l + 1) THEN t + 1 ELSE t
\* tai__leapsec_add: one leap second after the other.
LeapsecAdd(t, hit) ==
  LET added[i \in 0 .. Len(leapsecs)] ==
        IF i = 0 THEN t + 10 ELSE Passing(added[i - 1], leapsecs[i], hit)
  IN  added[Len(leapsecs)]

LeapsecMissed(t) == FALSE
\* tai__leapsec_sub.
LeapsecHit(t) == t \in Range(leapsecs)
LeapsecSub(t) == t - tai_utc_diff(t)

Date(y, m, d, hh, mm, ss) ==
  [year |-> y, month |-> m, day |-> d, hour |-> hh, min |-> mm, sec |-> ss]

tai_time(date) ==
  LET m == (date.month - 3) % 12
      y == date.year - 2000 + (date.month - 3) \div 12
      d == date.day + 59 + (m * 153 + 2) \div 5
           + y * 365 + y \div 4 - y \div 100 + y \div 400
  IN  LeapsecAdd(date.sec + 60 * (date.min + 60 * (date.hour + d * 24)), date.sec = 60)

\* Lines 170-201 begin the year in March and split off centuries, four years
\* and years; the last ones of these may have a day more.
Split(d, length, count) == IF d = length * count THEN count - 1 ELSE d \div length

\* Line 183: the first year of four has a February 29th before it.
NoLeapDay(d) == 0
LeapDay(d) == IF d < 306 THEN 1 ELSE 0

\* Lines 183-210: year, month, day and, from 0, day of the year, in the four
\* years that begin in March of year y.
DateInFour(y, inFour) ==
  LET one == Split(inFour, 365, 4)
      d0 == inFour - one * 365
      m0 == (10 * d0 + 5) \div 306
  IN  [year |-> IF m0 >= 10 THEN y + one + 1 ELSE y + one,
       month |-> IF m0 >= 10 THEN m0 - 9 ELSE m0 + 3,
       day |-> ((10 * d0 + 5) % 306) \div 10 + 1,
       yday |-> LeapDay(inFour) + d0 + (IF m0 >= 10 THEN -306 ELSE 59)]

\* Lines 170-181.
DateInCycle(y, cycle) ==
  LET century == Split(cycle, 36524, 4)
      inCentury == cycle - century * 36524
      four == inCentury \div 1461
  IN  DateInFour(y + century * 100 + four * 4, inCentury - four * 1461)

\* Lines 160-168, for a day counted from 2000-01-01.
DayOf(n) == DateInCycle(((n + 730425) \div 146097) * 400, (n + 730425) % 146097)
WeekdayOf(n) == (((n + 730425) % 146097) + 3) % 7

tai_date(t) ==
  LET utc == LeapsecSub(t)
      s == utc % 86400
      d == DayOf(utc \div 86400)
  IN  [date |-> Date(d.year, d.month, d.day, s \div 3600, (s \div 60) % 60,
                     (s % 60) + (IF LeapsecHit(t) THEN 1 ELSE 0)),
       yday |-> d.yday, wday |-> WeekdayOf(utc \div 86400)]

-----------------------------------------------------------------------------
\* bcd, for dates from 2000 to 2099

montab == <<0, 31, 61, 92, 122, 153, 184, 214, 245, 275, 306, 337>>

\* The year begins in January.
MjdFromJanuary(date) ==
  LET y == date.year - 2000
      m == date.month - 1
  IN  date.day + montab[m + 1] + 365 * (y % 4) + 1461 * (y \div 4) + 59
bcd_mjd(date) ==
  LET m == (date.month - 3) % 12
      y == date.year - 2000 - (IF date.month < 3 THEN 1 ELSE 0)
  IN  date.day + montab[m + 1] + 365 * (y % 4) + 1461 * (y \div 4) + 59

bcd_diff(d1, d2) ==
  (((bcd_mjd(d2) - bcd_mjd(d1)) * 24 + d2.hour - d1.hour) * 60
    + d2.min - d1.min) * 60 + d2.sec - d1.sec

bcd_weekday(date) == ((bcd_mjd(date) - 1) % 7) + 1

\* bcd.h uses the same names in bcd_valid.c and bcd_parse.c.
leapyear(y) == y % 400 = 0 \/ (y % 4 = 0 /\ y % 100 # 0)
longmonth(m) == (m \div 8 + m) % 2 = 1

\* Lines 15-21 of bcd_valid.c: c is the year in two digits.
DayValid(a, b, c) ==
  /\ b \in 1 .. 12
  /\ 1 <= a
  /\ \/ a <= 28 \/ (leapyear(c) /\ a <= 29)
     \/ (b # 2 /\ a <= 30) \/ (longmonth(b) /\ a <= 31)
DayValidLoosely(a, b, c) == b \in 1 .. 12 /\ 1 <= a /\ a <= 31

\* miniseed.h, lines 100-108: the day of the year counts from 1 there.
MiniseedYday(y, m, d) ==
  CASE m < 2 -> d
    [] m = 2 -> d + 31
    [] OTHER -> d + 59 + (IF leapyear(y) THEN 1 ELSE 0) + ((m - 3) * 153 + 2) \div 5

-----------------------------------------------------------------------------
\* The calendar

\* Days that end with a leap second (IERS Bulletin C), as <<year, month>>.
LeapSecondMonths ==
  {<<1972, 6>>, <<1981, 6>>, <<1982, 6>>, <<1983, 6>>, <<1985, 6>>, <<1992, 6>>,
   <<1993, 6>>, <<1994, 6>>, <<1997, 6>>, <<2012, 6>>, <<2015, 6>>}
  \cup {<<y, 12>> : y \in (1972 .. 1979)
                           \cup {1987, 1989, 1990, 1995, 1998, 2005, 2008, 2016}}

MonthLength ==
  CASE month = 2 -> IF year % 4 = 0 /\ (year % 100 # 0 \/ year % 400 = 0) THEN 29 ELSE 28
    [] month \in {4, 6, 9, 11} -> 30
    [] OTHER -> 31

EndsWithLeapSecond == day = MonthLength /\ <<year, month>> \in LeapSecondMonths
LeapSeconds == IF EndsWithLeapSecond THEN 1 ELSE 0

\* The time at which the day begins, and how long it is.
midnight == days * 86400 + 10 + leaps
DayLength == 86400 + LeapSeconds

\* UTC has leap seconds from 1972 on.  January 1st of it was a Saturday, and
\* TAI was 10 seconds ahead.
Init ==
  /\ year = 1972 /\ month = 1 /\ day = 1 /\ yday = 0 /\ wday = 6
  /\ days = -10227 /\ leaps = 0

Count ==
  /\ wday' = (wday + 1) % 7 /\ days' = days + 1
  /\ leaps' = leaps + LeapSeconds

NextDay ==
  /\ day < MonthLength
  /\ day' = day + 1 /\ yday' = yday + 1
  /\ Count /\ UNCHANGED <<year, month>>
NextMonth ==
  /\ day = MonthLength /\ month < 12
  /\ day' = 1 /\ month' = month + 1 /\ yday' = yday + 1
  /\ Count /\ UNCHANGED year
NextYear ==
  /\ day = MonthLength /\ month = 12 /\ year < LastYear
  /\ day' = 1 /\ month' = 1 /\ year' = year + 1 /\ yday' = 0
  /\ Count
Over == day = MonthLength /\ month = 12 /\ year = LastYear /\ UNCHANGED vars

Next == NextDay \/ NextMonth \/ NextYear \/ Over

Spec == Init /\ [][Next]_vars

-----------------------------------------------------------------------------

\* Times of the day with their dates; the leap second is 23:59:60.
Today ==
  {<<midnight, Date(year, month, day, 0, 0, 0)>>,
   <<midnight + 45296, Date(year, month, day, 12, 34, 56)>>,
   <<midnight + 86399, Date(year, month, day, 23, 59, 59)>>}
  \cup IF EndsWithLeapSecond
       THEN {<<midnight + 86400, Date(year, month, day, 23, 59, 60)>>} ELSE {}

\* tai_time counts every second there was, leap seconds among them.
TimeOfDate == \A now \in Today : tai_time(now[2]) = now[1]

\* tai_date is its inverse, also in a leap second and on February 29th.
DateOfTime == \A now \in Today : tai_date(now[1]).date = now[2]

\* The day of the year, in the file name (%j) and, computed by another formula,
\* in the MiniSEED record, and the day of the week.
DayOfYear ==
  LET t == tai_date(midnight)
  IN  /\ t.yday = yday /\ t.wday = wday
      /\ MiniseedYday(year, month, day) = yday + 1

\* The BCD conversions count the same days, for all years of two digits, and
\* accept exactly the days there are.
BcdDays ==
  year \in 2000 .. 2099 =>
    LET date == Date(year, month, day, 0, 0, 0)
    IN  /\ bcd_mjd(date) = days
        /\ bcd_weekday(date) = wday + 1
        /\ bcd_diff(Date(2000, 1, 1, 0, 0, 0), Date(year, month, day, 12, 34, 56))
             = days * 86400 + 45296
        /\ DayValid(day, month, year - 2000)
        /\ day = MonthLength => \A d \in day + 1 .. 99 : ~DayValid(d, month, year - 2000)

\* The offset to UTC grows with the first tick of a leap second.
OffsetSteps ==
  /\ tai_utc_diff(midnight) = midnight - days * 86400
  /\ tai_utc_diff(midnight + DayLength - 1)
       = tai_utc_diff(midnight) + DayLength - 86400

=============================================================================
