------------------------------- MODULE S2xRead -------------------------------
(***************************************************************************)
(* src/6d6read.c: what 6d6read makes of the frames of a recording.  A      *)
(* sample tracker smooths the timestamps, samples are collected in a       *)
(* buffer for each channel, and the s2x output gets them in data packets,  *)
(* with a time packet before the first sample of every second.             *)
(*                                                                         *)
(* Frames are put together as in Mseed.  A sample is the number of its     *)
(* frame, counted from the first timestamp on; every channel has one in    *)
(* each frame.  Time is counted from the start of the recording in ticks   *)
(* (microseconds in the code), and in 1 / Scale of it in the tracker.      *)
(***************************************************************************)
EXTENDS Integers, Sequences, SequencesExt

CONSTANTS
  Channels,            \* channel_count of the header
  Capacity,            \* samples in the buffer of a channel, 1000
  Second,              \* ticks in a second, 1000000
  SampleTicks,         \* nominal ticks from sample to sample
  RealTicks,           \* ticks from sample to sample the recorder really takes
  Scale,               \* 1 << SAMPLE_TRACKER_RESOLUTION, 256
  ErrorGain, Proportional, SteerGain,  \* of the tracker: 16, 64, 65536
  StartTime, EndTime,  \* limits (options --start-time, --end-time)
  TimestampEvery,      \* bound: samples from timestamp to timestamp
  Jitter,              \* bound: ticks a timestamp is off the real time
  MaxSamples           \* bound: sample frames after the first timestamp

ASSUME ReaderAssumption ==
  /\ {Channels, Capacity, Second, SampleTicks, RealTicks, Scale, ErrorGain,
      Proportional, SteerGain, TimestampEvery} \subseteq Nat \ {0}
  /\ {StartTime, EndTime, Jitter, MaxSamples} \subseteq Nat

VARIABLES
  sample_number, time, error, error_integral, sample_time,  \* SampleTracker
  have_time,   \* 0, 1 (a timestamp was seen) or 2 (a time packet was written)
  last_t,      \* time of the last sample between the limits, or -1
  buffer,      \* channel -> samples that wait for their packet
  output,      \* packets of the file
  pc,          \* "data", "done" or "failed" (exit with an error)
  times,       \* history: time the tracker gave each sample
  timed        \* history: samples there were at the last timestamp, or -1

tracker == <<sample_number, time, error, error_integral, sample_time>>
vars == <<tracker, have_time, last_t, buffer, output, pc, times, timed>>

Channel == 1 .. Channels

\* ---- packets ------------------------------------------------------------

Header(c) == [type |-> "header", channel |-> c]
Data(c, samples) == [type |-> "data", channel |-> c, samples |-> samples]
Time(second) == [type |-> "time", second |-> second]
Terminate == [type |-> "terminate"]

\* s2x_channel_flush for the channels in set, in the order of the channels.
Flushed(buffers, set) ==
  FlattenSeq([c \in Channel |->
    IF c \in set /\ buffers[c] # <<>> THEN <<Data(c, buffers[c])>> ELSE <<>>])

\* s2x_channel_push flushes a buffer that is full.
FullInLate(buffers) == {c \in Channel : Len(buffers[c]) > Capacity}
FullIn(buffers) == {c \in Channel : Len(buffers[c]) >= Capacity}
\* The sample that finds the buffer full is lost.
PushedDropping(buffers, k) ==
  [c \in Channel |-> IF c \in FullIn(buffers) THEN buffers[c]
                     ELSE Append(buffers[c], k)]
\* Lines 329-331: a sample for every channel.
Pushed(buffers, k) ==
  [c \in Channel |-> IF c \in FullIn(buffers) THEN <<k>>
                     ELSE Append(buffers[c], k)]

\* ---- sample tracker -----------------------------------------------------

\* The error with the wrong sign.
SetTimeAway(t) ==
  IF sample_number = 0
  THEN time' = t * Scale /\ UNCHANGED <<error, error_integral, sample_time>>
  ELSE LET e == time - t * Scale
           steer == (Proportional * error' + error_integral') \div SteerGain
       IN  /\ error' = error + (e - error) \div ErrorGain
           /\ error_integral' = error_integral + error'
           /\ sample_time' = SampleTicks * Scale + steer
           /\ UNCHANGED time
\* sample_tracker_time; shifts to the right round down.
SetTime(t) ==
  IF sample_number = 0
  THEN time' = t * Scale /\ UNCHANGED <<error, error_integral, sample_time>>
  ELSE LET e == t * Scale - time
           steer == (Proportional * error' + error_integral') \div SteerGain
       IN  /\ error' = error + (e - error) \div ErrorGain
           /\ error_integral' = error_integral + error'
           /\ sample_time' = SampleTicks * Scale + steer
           /\ UNCHANGED time

\* sample_tracker_sample: the time it returns is that of the sample.
NextTime == time \div Scale
TrackSample ==
  /\ time' = time + sample_time
  /\ sample_number' = sample_number + 1
  /\ times' = Append(times, NextTime)
  /\ UNCHANGED <<error, error_integral, sample_time>>

\* ---- frames -------------------------------------------------------------

\* Lines 285-289.
TimeFrame(t) ==
  /\ pc = "data"
  /\ SetTime(t)
  /\ timed' = sample_number
  /\ have_time' = IF have_time = 0 THEN 1 ELSE have_time
  /\ UNCHANGED <<sample_number, last_t, buffer, output, pc, times>>

\* C divides towards zero.
SecondOf(t) == IF t >= 0 THEN t \div Second ELSE -((-t) \div Second)

BeforeEnd(t) == t < EndTime
\* Line 310.
InWindow(t) == StartTime <= t /\ t < EndTime
\* Line 311: the sample is the first of a second.
NewSecond(t) == InWindow(t) /\ last_t >= 0 /\ SecondOf(t) # SecondOf(last_t)

SampleComes == pc = "data" /\ have_time > 0 /\ sample_number < MaxSamples

\* Lines 307-332 with the old second left in the buffers.
StampUnflushed ==
  /\ SampleComes /\ NewSecond(NextTime)
  /\ output' = output \o <<Time(SecondOf(NextTime))>> \o Flushed(buffer, FullIn(buffer))
  /\ buffer' = Pushed(buffer, sample_number + 1)
  /\ have_time' = 2 /\ last_t' = NextTime
  /\ TrackSample /\ UNCHANGED <<pc, timed>>
\* Lines 307-332: a second begins.  The buffers go to the old one.
Stamp ==
  /\ SampleComes /\ NewSecond(NextTime)
  /\ output' = output \o Flushed(buffer, Channel) \o <<Time(SecondOf(NextTime))>>
  /\ buffer' = [c \in Channel |-> <<sample_number + 1>>]
  /\ have_time' = 2 /\ last_t' = NextTime
  /\ TrackSample /\ UNCHANGED <<pc, timed>>

\* Lines 307-332: a sample inside a second or outside the limits.  Nothing is
\* kept before the first time packet.
Collect ==
  /\ SampleComes /\ ~NewSecond(NextTime)
  /\ last_t' = IF InWindow(NextTime) THEN NextTime ELSE last_t
  /\ IF have_time = 2
     THEN /\ output' = output \o Flushed(buffer, FullIn(buffer))
          /\ buffer' = Pushed(buffer, sample_number + 1)
     ELSE UNCHANGED <<output, buffer>>
  /\ TrackSample /\ UNCHANGED <<have_time, pc, timed>>

\* Lines 300-301 or 268, and 348-358: the end frame or the end of the data.
Finish ==
  /\ pc = "data"
  /\ output' = output \o Flushed(buffer, Channel) \o <<Terminate>>
  /\ buffer' = [c \in Channel |-> <<>>]
  /\ pc' = "done"
  /\ UNCHANGED <<tracker, have_time, last_t, times, timed>>

\* read_block: a file that ends early ends the program, the buffers are lost.
ReadFails ==
  /\ pc = "data" /\ pc' = "failed"
  /\ UNCHANGED <<tracker, have_time, last_t, buffer, output, times, timed>>

\* fwrite fails at one of the packets of a step.
WriteFails ==
  /\ pc = "data"
  /\ LET all == Flushed(buffer, Channel)
         full == Flushed(buffer, FullIn(buffer))
     IN  \E n \in 0 .. Len(all) :
           \/ output' = output \o SubSeq(all, 1, n)
           \/ /\ SampleComes /\ ~NewSecond(NextTime) /\ n < Len(full)
              /\ output' = output \o SubSeq(full, 1, n)
  /\ pc' = "failed"
  /\ UNCHANGED <<tracker, have_time, last_t, buffer, times, timed>>

Over == pc \in {"done", "failed"} /\ UNCHANGED vars

\* ---- specification ------------------------------------------------------

\* sample_tracker_init and s2x_channel_new, which writes the header packets.
Init ==
  /\ sample_number = 0 /\ time = 0 /\ error = 0 /\ error_integral = 0
  /\ sample_time = SampleTicks * Scale
  /\ have_time = 0 /\ last_t = -1
  /\ buffer = [c \in Channel |-> <<>>]
  /\ output = [c \in Channel |-> Header(c)]
  /\ pc = "data" /\ times = <<>> /\ timed = -1

\* One timestamp at most for a sample, not for every one, and nearly right.
Timestamps ==
  IF timed = sample_number \/ sample_number % TimestampEvery # 0 THEN {}
  ELSE (sample_number * RealTicks - Jitter .. sample_number * RealTicks + Jitter)
         \cap Nat

Next == \/ \E t \in Timestamps : TimeFrame(t)
        \/ Stamp \/ Collect \/ Finish \/ ReadFails \/ WriteFails \/ Over

Spec == Init /\ [][Next]_vars

\* ---- properties ---------------------------------------------------------

\* Packets of the file and those that are still to come from the buffers.
Packets == output \o (IF pc = "data" THEN Flushed(buffer, Channel) ELSE <<>>)

\* The samples of a channel in the packets given.
SamplesOf(c, packets) ==
  FlattenSeq([n \in 1 .. Len(packets) |->
    IF packets[n].type = "data" /\ packets[n].channel = c
    THEN packets[n].samples ELSE <<>>])

\* Every variable has its type, buffers and packets are not larger than the
\* buffer of a channel.
TypeOK ==
  /\ sample_number \in Nat
  /\ {time, error, error_integral, sample_time, last_t, timed} \subseteq Int
  /\ have_time \in 0 .. 2
  /\ buffer \in [Channel -> Seq(Nat)]
  /\ \A c \in Channel : Len(buffer[c]) <= Capacity
  /\ \A n \in 1 .. Len(output) :
       \/ \E c \in Channel : output[n] = Header(c)
       \/ output[n].type = "data" /\ output[n].channel \in Channel
          /\ Len(output[n].samples) \in 1 .. Capacity
       \/ output[n].type = "time" /\ output[n] = Time(output[n].second)
       \/ output[n] = Terminate /\ n = Len(output) /\ pc = "done"
  /\ pc \in {"data", "done", "failed"}

\* The first second is dropped, its beginning is not in the data: the sample a
\* second begins with is the first that is not in the second of an earlier one.
Opens(k) ==
  /\ InWindow(times[k])
  /\ \E m \in 1 .. k - 1 : InWindow(times[m]) /\ SecondOf(times[m]) # SecondOf(times[k])
Expected ==
  LET opening == {k \in 1 .. sample_number : Opens(k)}
      first == Min(opening)
  IN  IF opening = {} THEN <<>>
      ELSE [n \in 1 .. sample_number - first + 1 |-> first + n - 1]

\* From the first time packet on, every channel has each sample once and in
\* order, whatever the sizes of the packets; a program that fails leaves a
\* beginning of that.
EverySampleOnce ==
  \A c \in Channel :
    IF pc = "failed" THEN IsPrefix(SamplesOf(c, Packets), Expected)
                     ELSE SamplesOf(c, Packets) = Expected

\* A sample between the limits stands behind the time packet of its second: a
\* reader that counts samples from the last time packet finds its time.
SamplesInTheirSecond ==
  \A n \in 1 .. Len(Packets) : Packets[n].type = "data" =>
    LET stamps == {m \in 1 .. n - 1 : Packets[m].type = "time"}
    IN  /\ stamps # {}
        /\ \A i \in 1 .. Len(Packets[n].samples) :
             LET t == times[Packets[n].samples[i]]
             IN  InWindow(t) => Packets[Max(stamps)].second = SecondOf(t)

\* The clock of the tracker does not go back.  How far the steering could slow
\* it down depends on the errors it has seen; the limits of the steering are
\* commented out (sample-tracker.h lines 101-105).
ClockAdvances == sample_time >= 0

\* Time does not run backwards from one time packet to the next.
StampsAscend ==
  \A m, n \in 1 .. Len(output) :
    m < n /\ output[m].type = "time" /\ output[n].type = "time"
      => output[m].second < output[n].second

\* --start-time: no sample before the limit is in the file.
NothingBeforeStart ==
  \A c \in Channel : \A k \in ToSet(SamplesOf(c, Packets)) : times[k] >= StartTime

\* CHANGELOG.md: "6d6read now also supports --start-time and --end-time."
\* --end-time: no sample after the limit is in the file.
NothingAfterEnd ==
  \A c \in Channel : \A k \in ToSet(SamplesOf(c, Packets)) : times[k] < EndTime

=============================================================================
