---------------------------- MODULE TimeCorrection ----------------------------
(***************************************************************************)
(* The time correction of src/6d6mseed.c: from the clock of the recorder,  *)
(* which was compared with UTC before and after the recording, to TAI.     *)
(* The times of the headers are in seconds, as in Calendar; those of the   *)
(* frames and the skews count in ticks, microseconds in the code.  The     *)
(* products with the skew, of type double there, are exact.                *)
(***************************************************************************)
EXTENDS Calendar

CONSTANT Second  \* ticks of a second, 1000000 in the code

ASSUME TimeAssumption == Second \in Nat \ {0}

\* The headers: sync_time and skew of both (skew is in ticks, UTC minus
\* clock), and start_time, all converted with tai_time.
Headers(sync_time, first_skew, start_time, skew_time, second_skew) ==
  [sync_time |-> sync_time, first_skew |-> first_skew, start_time |-> start_time,
   skew_time |-> skew_time, second_skew |-> second_skew]

\* Line 342.
StartTime(h) ==
  h.start_time + (tai_utc_diff(h.start_time) - tai_utc_diff(h.sync_time))

\* The second difference as it stands in the header.
PlainGrowth(h) == h.second_skew - h.first_skew
\* Lines 345-346: UTC has leap seconds, the clock has not.
Growth(h) ==
  h.second_skew + Second * (tai_utc_diff(h.skew_time) - tai_utc_diff(h.sync_time))
    - h.first_skew

\* round(a / b), away from zero at a half.
Rounded(a, b) ==
  IF a >= 0 THEN (2 * a + b) \div (2 * b) ELSE -((2 * (-a) + b) \div (2 * b))

\* Lines 435-438: the TAI of a time frame with seconds and microseconds sec,
\* usec; the product has both of them.
Converted(h, sec, usec) ==
  LET t == StartTime(h) + sec
      since == Second * (t - h.sync_time) + usec
  IN  <<t, usec + h.first_skew
             + Rounded(since * Growth(h), Second * (h.skew_time - h.sync_time))>>

\* ---- property -------------------------------------------------------------

Abs(x) == IF x < 0 THEN -x ELSE x

\* From the first synchronisation, at midnight, to the second one, at noon of
\* the following day, in ticks.
Interval == Second * (DayLength + 43200)

\* A clock that was behind UTC by first at midnight and then falls further
\* behind, evenly, by drift until noon, is behind by this number of ticks (there
\* are two when the drift so far lies between them) elapsed ticks after midnight.
IsBehind(first, drift, elapsed, behind) ==
  2 * Abs(Interval * (behind - first) - elapsed * drift) <= Interval

\* The frame it then writes gets the time, but for the drift while it was behind
\* and for one tick, as the clock and the correction are rounded.  The recording
\* starts a minute after the first synchronisation.
Corrected(first, drift, elapsed, behind) ==
  LET noon == midnight + DayLength + 43200
      h == Headers(midnight, first, midnight + 60, noon,
                   first + drift - Second * (DayLength - 86400))
      clock == elapsed - Second * 60 - behind
      time == Converted(h, clock \div Second, clock % Second)
      error == Second * (time[1] - midnight) + time[2] - elapsed
  IN  Interval * Abs(error) <= Abs(behind * drift) + Interval

\* Ahead by more than a second, right and behind; of any drift.
Clocks == {-70, 0, 7} \X {-40, 0, 1}

\* Behind the start, in the middle of a second, at the midnights and at noon.
Moments == {Second * 120, Second * 43200 + 1, Second * DayLength, Interval}

\* 6d6mseed (main) gives a frame the time at which it was written, for a clock
\* that drifts evenly and knows no leap seconds: from the start to the second
\* synchronisation, also when a leap second ends the day between them.
ClockCorrected ==
  \A clock \in Clocks : \A elapsed \in Moments :
    LET least == clock[1] + (elapsed * clock[2]) \div Interval
    IN  \A behind \in {least, least + 1} :
          IsBehind(clock[1], clock[2], elapsed, behind)
            => Corrected(clock[1], clock[2], elapsed, behind)

=============================================================================
