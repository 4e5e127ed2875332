-------------------------------- MODULE WMSeed --------------------------------
(***************************************************************************)
(* src/wmseed.h: the writer of one channel's MiniSEED files.  Samples wait *)
(* in a queue until a second usable timestamp says when they were taken;   *)
(* then the loop of wmseed__time gives each one an interpolated time and   *)
(* writes it to a record of a file, starting records and files as needed.  *)
(*                                                                         *)
(* Time is counted in ticks (microseconds in the code).  A sample is its   *)
(* number; its value only says whether it is the marker of a lost sample.  *)
(* The program is sequential: the steps of the loop are actions of their   *)
(* own, and no call comes in between (pc).  Without a resampler.           *)
(***************************************************************************)
EXTENDS Integers, Sequences, FiniteSets

CONSTANTS
  MinDelta,       \* samples between timestamps that are used, 1008 * 20
  MaxDelta,       \* samples after which a deviating timestamp is used, 200000
  Tolerance,      \* 1 / rate error that is accepted, 2000000 (0.5 ppm)
  SampleTicks,    \* nominal ticks from sample to sample
  RecordCapacity, \* samples in a record, 1000
  Second,         \* ticks in a second, 1000000
  LeapSecond,     \* the tick at which a leap second begins
  Cut,            \* seconds in a file, or 0 for one file (option --cut)
  NameUnit,       \* seconds the file name tells apart (option --template)
  StartTime, EndTime,            \* limits (options --start-time, --end-time)
  MaxSamples, MaxTime, MaxLost,  \* bounds: samples, times, samples lost at once
  NULL

ASSUME WriterAssumption ==
  /\ {MinDelta, MaxDelta, Tolerance, SampleTicks, RecordCapacity, Second, NameUnit}
       \subseteq Nat \ {0}
  /\ {LeapSecond, Cut, StartTime, EndTime, MaxSamples, MaxTime, MaxLost} \subseteq Nat
  /\ NULL \notin [unit : Int, sixty : BOOLEAN]

VARIABLES
  \* fields of WMSeed
  sample_number,       \* number of the next sample pushed
  sb, sb_number,       \* sample buffer: its samples, the number of the first
  measured_rate,       \* <<samples, ticks>> of the last interval used
  last_t, last_sn,     \* last timestamp used and the sample it is for
  record_number, record, record_valid, data_pending,
  output,              \* name of the open file, or NULL
  first_file_created, cut_section,
  \* the file system
  files,               \* name -> records in the file
  \* control
  pc,                  \* "idle", "drain" (in the loop of wmseed__time),
                       \* "destroyed" or "failed" (the program has exited)
  new_t,               \* argument of wmseed__time
  \* history
  due                  \* numbers of the samples that belong into a file

queueVars  == <<sample_number, sb, sb_number>>
clockVars  == <<measured_rate, last_t, last_sn>>
recordVars == <<record_number, record, record_valid, data_pending>>
fileVars   == <<output, first_file_created, cut_section, files>>
vars == <<queueVars, clockVars, recordVars, fileVars, pc, new_t, due>>

\* ---- time ---------------------------------------------------------------

\* tai.h, lines 89-97: leap seconds so far; one counts from its first tick.
tai_utc_diff(t) == IF t >= LeapSecond THEN 1 ELSE 0
Utc(t) == t - Second * tai_utc_diff(t)

\* The section by the time that includes leap seconds.
TaiCutSection(t) == IF Cut = 0 THEN 0 ELSE t \div (Second * Cut)
\* Lines 348 and 397-400.  UTC repeats a second when a leap second is inserted.
CutSection(t) == IF Cut = 0 THEN 0 ELSE Utc(t) \div (Second * Cut)

\* Lines 128-184: the part of the file name that depends on the time, written
\* with the digits of tai_date, which names the leap second 60.
FileName(t) ==
  [unit |-> Utc(t) \div (Second * NameUnit),
   sixty |-> NameUnit = 1 /\ t \in LeapSecond .. LeapSecond + Second - 1]

\* Line 396: linear interpolation between the timestamps.
SampleTime(k) ==
  last_t + ((k - last_sn) * (new_t - last_t)) \div (sample_number - last_sn)

\* ---- calls that push samples --------------------------------------------

Push(values) ==
  /\ pc = "idle" /\ last_sn >= 0
  /\ sample_number + Len(values) <= MaxSamples
  /\ sb' = sb \o values
  /\ sample_number' = sample_number + Len(values)
  /\ UNCHANGED <<sb_number, clockVars, recordVars, fileVars, pc, new_t, due>>

\* wmseed_sample, lines 437-445 and 259-265.  Before the first timestamp the
\* sample is refused.
Sample == Push(<<"data">>)

\* wmseed_lost_samples, lines 457-464.
LostSamples == \E n \in 1 .. MaxLost : Push([i \in 1 .. n |-> "lost"])

\* ---- wmseed__time, lines 350-387 ----------------------------------------

\* Lines 357-361.
FirstTime(t) ==
  /\ pc = "idle" /\ last_sn = -1 /\ sample_number = 0
  /\ last_t' = t /\ last_sn' = 0
  /\ UNCHANGED <<queueVars, measured_rate, recordVars, fileVars, pc, new_t, due>>

\* Lines 374-376, for a positive number of ticks.
RateError(samples, ticks) ==
  LET off == samples * measured_rate[2] - measured_rate[1] * ticks
  IN  (IF off < 0 THEN -off ELSE off) * Tolerance > measured_rate[1] * ticks

\* A timestamp that does not go on from the last one.
UsableBackwards(t) ==
  LET samples == sample_number - last_sn
  IN  /\ last_sn >= 0 /\ samples >= MinDelta /\ t # last_t
      /\ samples >= MaxDelta \/ ~RateError(samples, t - last_t)
\* Lines 362-382.  Any other timestamp is ignored: the call changes nothing.
Usable(t) ==
  LET samples == sample_number - last_sn
  IN  /\ last_sn >= 0 /\ samples >= MinDelta /\ t > last_t
      /\ samples >= MaxDelta \/ ~RateError(samples, t - last_t)

\* Lines 384-387: the loop is entered.
UseTime(t) ==
  /\ pc = "idle" /\ Usable(t)
  /\ measured_rate' = <<sample_number - last_sn, t - last_t>>
  /\ new_t' = t /\ pc' = "drain"
  /\ UNCHANGED <<queueVars, last_t, last_sn, recordVars, fileVars, due>>

\* ---- records and files --------------------------------------------------

\* Lines 267-281: what the files are once a pending record is written.
Flushed(leap) ==
  IF data_pending
  THEN [files EXCEPT ![output] = Append(@, [record EXCEPT !.leap = leap])]
  ELSE files

\* Lines 309-311, for a record that ends where one with time t starts.
LeapFlag(t) == tai_utc_diff(record.time) # tai_utc_diff(t)

\* Lines 314-322 and miniseed_record_init: an empty record.
NewRecord(number, t) == [number |-> number, time |-> t, leap |-> FALSE, samples |-> <<>>]

\* miniseed_record_push_sample.
Stored(rec, k, t) == [rec EXCEPT !.samples = Append(@, [k |-> k, t |-> t])]

\* ---- the loop of wmseed__time, lines 389-418 ----------------------------

\* The last sample stays.
MoreThanOne == pc = "drain" /\ Len(sb) > 1 /\ sb_number <= sample_number
\* Lines 389-390: the head of the queue is taken.
More == pc = "drain" /\ sb # <<>> /\ sb_number <= sample_number
Take ==
  /\ sb' = Tail(sb) /\ sb_number' = sb_number + 1
  /\ UNCHANGED <<sample_number, clockVars, pc, new_t>>

InWindow(t) == StartTime <= t /\ t < EndTime
Due(k) == due' = IF InWindow(SampleTime(k)) THEN due \cup {k} ELSE due

\* The record goes on after the lost sample.
SkipLostSample ==
  /\ More /\ Head(sb) = "lost"
  /\ Take
  /\ UNCHANGED <<recordVars, fileVars, due>>
\* The record is given up, and not marked as written.
AbandonAtLostSample ==
  /\ More /\ Head(sb) = "lost"
  /\ Take
  /\ record_valid' = FALSE
  /\ UNCHANGED <<record_number, record, data_pending, fileVars, due>>
\* Lines 391-395: a lost sample ends the record.
TakeLostSample ==
  /\ More /\ Head(sb) = "lost"
  /\ Take
  /\ files' = Flushed(FALSE)
  /\ data_pending' = FALSE
  /\ record_valid' = (record_valid /\ ~data_pending)
  /\ UNCHANGED <<record_number, record, output, first_file_created, cut_section, due>>

\* The limit itself left out.
StartsFileAfterLimit(t) ==
  /\ t > StartTime
  /\ first_file_created => cut_section # CutSection(t)
\* Lines 404-405.
StartsFile(t) ==
  /\ t >= StartTime
  /\ first_file_created => cut_section # CutSection(t)

\* Lines 402-412: no file takes this sample.
TakeOutsideWindow ==
  /\ More /\ Head(sb) = "data"
  /\ LET t == SampleTime(sb_number)
     IN  t >= EndTime \/ (~first_file_created /\ ~StartsFile(t))
  /\ Take /\ Due(sb_number)
  /\ UNCHANGED <<recordVars, fileVars>>

\* Lines 406-415 and wmseed__create_file: the pending record goes to the old
\* file, and an existing file of the new name is truncated.
TakeIntoNewFile ==
  /\ More /\ Head(sb) = "data"
  /\ LET t == SampleTime(sb_number)
         name == FileName(t)
         old == Flushed(LeapFlag(t))
     IN  /\ t < EndTime /\ StartsFile(t)
         /\ files' = [n \in DOMAIN old \cup {name} |->
                        IF n = name THEN <<>> ELSE old[n]]
         /\ output' = name
         /\ first_file_created' = TRUE /\ cut_section' = CutSection(t)
         /\ record_number' = 1
         /\ record' = Stored(NewRecord(1, t), sb_number, t)
         /\ record_valid' = TRUE /\ data_pending' = TRUE
  /\ Take /\ Due(sb_number)

\* Lines 412 and miniseed_record_push_sample: the record can take a sample.
HasRoom == record_valid /\ Len(record.samples) < RecordCapacity

\* Lines 411-415: the record takes the sample.
TakeIntoRecord ==
  /\ More /\ Head(sb) = "data"
  /\ LET t == SampleTime(sb_number)
     IN  /\ t < EndTime /\ first_file_created /\ ~StartsFile(t)
         /\ HasRoom
         /\ record' = Stored(record, sb_number, t)
  /\ data_pending' = TRUE
  /\ Take /\ Due(sb_number)
  /\ UNCHANGED <<record_number, record_valid, fileVars>>

\* Lines 411-415 and wmseed__new_record: the record is full or was ended, the
\* next one of the same file takes the sample.
TakeIntoNewRecord ==
  /\ More /\ Head(sb) = "data"
  /\ LET t == SampleTime(sb_number)
     IN  /\ t < EndTime /\ first_file_created /\ ~StartsFile(t)
         /\ ~HasRoom
         /\ files' = Flushed(LeapFlag(t))
         /\ record_number' = record_number + 1
         /\ record' = Stored(NewRecord(record_number + 1, t), sb_number, t)
  /\ record_valid' = TRUE /\ data_pending' = TRUE
  /\ Take /\ Due(sb_number)
  /\ UNCHANGED <<output, first_file_created, cut_section>>

\* Lines 420-424: the loop is over.
UpdateState ==
  /\ pc = "drain" /\ ~More
  /\ last_t' = new_t /\ last_sn' = sample_number /\ pc' = "idle"
  /\ UNCHANGED <<queueVars, measured_rate, recordVars, fileVars, new_t, due>>

\* wmseed_destroy, lines 283-293.  Samples that wait for a time are dropped.
Destroy ==
  /\ pc = "idle"
  /\ files' = Flushed(FALSE)
  /\ data_pending' = FALSE
  /\ record_valid' = (record_valid /\ ~data_pending)
  /\ output' = NULL /\ pc' = "destroyed"
  /\ UNCHANGED <<queueVars, clockVars, record_number, record, first_file_created,
                 cut_section, new_t, due>>

\* Lines 270-277: fwrite fails where a pending record is to be written, and the
\* program exits.
FlushFails ==
  /\ data_pending
  /\ \/ pc = "idle"
     \/ More /\ Head(sb) = "lost"
     \/ /\ More /\ SampleTime(sb_number) < EndTime
        /\ StartsFile(SampleTime(sb_number)) \/ ~HasRoom
  /\ pc' = "failed"
  /\ UNCHANGED <<queueVars, clockVars, recordVars, fileVars, new_t, due>>

\* Lines 328-340: the old file is complete, the new one cannot be created.
CreateFails ==
  /\ More /\ Head(sb) = "data"
  /\ LET t == SampleTime(sb_number)
     IN  t < EndTime /\ StartsFile(t) /\ files' = Flushed(LeapFlag(t))
  /\ data_pending' = FALSE /\ output' = NULL /\ pc' = "failed"
  /\ UNCHANGED <<queueVars, clockVars, record_number, record, record_valid,
                 first_file_created, cut_section, new_t, due>>

Over == pc \in {"destroyed", "failed"} /\ UNCHANGED vars

\* ---- specification ------------------------------------------------------

\* wmseed_new, lines 466-500, and the limits set after it.  record_valid and
\* cut_section are not set there and hold whatever the memory held.
Init ==
  /\ sample_number = 0 /\ sb = <<>> /\ sb_number = 0
  /\ measured_rate = <<1, SampleTicks>>
  /\ last_t = 0 /\ last_sn = -1
  /\ record_number = 0 /\ record = NewRecord(0, 0)
  /\ record_valid \in BOOLEAN /\ data_pending = FALSE
  /\ output = NULL /\ first_file_created = FALSE /\ cut_section \in {0, 1}
  /\ files = << >>
  /\ pc = "idle" /\ new_t = 0 /\ due = {}

Loop == \/ TakeLostSample \/ TakeOutsideWindow \/ TakeIntoNewFile
        \/ TakeIntoRecord \/ TakeIntoNewRecord \/ UpdateState

Next == \/ Sample \/ LostSamples
        \/ \E t \in 0 .. MaxTime : FirstTime(t) \/ UseTime(t)
        \/ Loop \/ Destroy \/ FlushFails \/ CreateFails \/ Over

Spec == Init /\ [][Next]_vars

\* ---- properties ---------------------------------------------------------

Record == [number : Nat \ {0}, time : Nat, leap : BOOLEAN,
           samples : Seq([k : Nat, t : Nat])]

\* Every variable has its type, and a pending record has a file to go to.
TypeOK ==
  /\ sample_number \in Nat /\ sb \in Seq({"data", "lost"}) /\ sb_number \in Nat
  /\ measured_rate \in (Nat \ {0}) \X (Nat \ {0})
  /\ last_t \in Nat /\ last_sn \in Nat \cup {-1} /\ new_t \in Nat
  /\ record_number \in Nat
  /\ record_valid \in BOOLEAN /\ data_pending \in BOOLEAN
  /\ first_file_created \in BOOLEAN /\ cut_section \in Int
  /\ \A name \in DOMAIN files : files[name] \in Seq(Record)
  /\ output \in DOMAIN files \cup {NULL}
  /\ data_pending => output # NULL /\ record_valid /\ record \in Record
  /\ pc \in {"idle", "drain", "destroyed", "failed"}
  /\ due \subseteq Nat

\* What a file holds once the pending record is written.
RecordsOf(name) ==
  files[name] \o (IF data_pending /\ name = output THEN <<record>> ELSE <<>>)

\* Every sample in a file: its file, its place there, its number and time.
Written ==
  UNION {UNION {{[name |-> name, at |-> <<i, j>>,
                  k |-> RecordsOf(name)[i].samples[j].k,
                  t |-> RecordsOf(name)[i].samples[j].t] :
                   j \in 1 .. Len(RecordsOf(name)[i].samples)} :
                i \in 1 .. Len(RecordsOf(name))} :
         name \in DOMAIN files}

\* --start-time and --end-time limit the conversion: a sample that got a time
\* between the limits is in a file exactly once, any other one in none.  No
\* file is truncated, no record is dropped when it ends.
WindowComplete ==
  pc # "failed" => /\ {w.k : w \in Written} = due
                   /\ Cardinality(Written) = Cardinality(due)

\* The records of a file are numbered from 1, start at the time of their first
\* sample and, having one start time and one rate, hold consecutive samples.
RecordsSound ==
  \A name \in DOMAIN files :
    \A i \in 1 .. Len(RecordsOf(name)) :
      LET rec == RecordsOf(name)[i]
          n == Len(rec.samples)
      IN  /\ rec.number = i
          /\ n \in 1 .. RecordCapacity
          /\ rec.time = rec.samples[1].t
          /\ \A j \in 1 .. n : rec.samples[j].k = rec.samples[1].k + j - 1

\* Time does not run backwards from one sample to a later one, also where two
\* intervals of the interpolation meet.
TimesAscend ==
  \A v, w \in Written : v.k < w.k => v.t <= w.t

\* --cut: two samples are in the same file exactly if their UTC times are in
\* the same section of the day, also in a leap second.
OneFilePerSection ==
  Cut > 0 => \A v, w \in Written :
    v.name = w.name <=> Utc(v.t) \div (Second * Cut) = Utc(w.t) \div (Second * Cut)

\* Between calls the queue holds the samples since the last timestamp used:
\* the interpolation of the next interval counts on it.
QueueIsBacklog ==
  pc = "idle" /\ last_sn >= 0 =>
    sb_number = last_sn /\ Len(sb) = sample_number - last_sn

=============================================================================
