----------------------------- MODULE WMSeedProofs -----------------------------
(***************************************************************************)
(* Proofs about WMSeed, for all limits, lengths of files and records,      *)
(* rates and times.                                                        *)
(***************************************************************************)
EXTENDS WMSeed, SequenceTheorems, FiniteSetTheorems, TLAPS

\* The queue and the timestamps.  In the loop the head of the queue lies in
\* the interval between the timestamps, and the interval is not empty.
QueueInv ==
  /\ sample_number \in Nat /\ sb \in Seq({"data", "lost"}) /\ sb_number \in Nat
  /\ measured_rate \in (Nat \ {0}) \X (Nat \ {0})
  /\ last_t \in Nat /\ last_sn \in Nat \cup {-1} /\ new_t \in Nat
  /\ pc \in {"idle", "drain", "destroyed", "failed"}
  /\ Len(sb) = sample_number - sb_number
  /\ last_sn = -1 => sample_number = 0 /\ sb_number = 0
  /\ pc = "idle" /\ last_sn >= 0 => sb_number = last_sn
  /\ pc = "drain" => /\ last_sn >= 0 /\ last_sn <= sb_number
                     /\ last_sn < sample_number /\ last_t < new_t

\* The files and the record that is filled.
RecordInv ==
  /\ record_number \in Nat
  /\ record_valid \in BOOLEAN /\ data_pending \in BOOLEAN
  /\ first_file_created \in BOOLEAN /\ cut_section \in Int
  /\ \A name \in DOMAIN files : files[name] \in Seq(Record)
  /\ output \in DOMAIN files \cup {NULL}
  /\ first_file_created => record \in Record
  /\ data_pending => first_file_created /\ record_valid /\ output # NULL
  /\ first_file_created /\ pc \in {"idle", "drain"} => output # NULL
  /\ due \subseteq Nat

-----------------------------------------------------------------------------
\* The queue

LEMMA Constants ==
  /\ MinDelta \in Nat \ {0} /\ MaxDelta \in Nat \ {0} /\ Tolerance \in Nat \ {0}
  /\ SampleTicks \in Nat \ {0} /\ RecordCapacity \in Nat \ {0}
  /\ Second \in Nat \ {0} /\ NameUnit \in Nat \ {0} /\ LeapSecond \in Nat
  /\ Cut \in Nat /\ StartTime \in Nat /\ EndTime \in Nat
  /\ MaxSamples \in Nat /\ MaxTime \in Nat /\ MaxLost \in Nat
  /\ NULL \notin [unit : Int, sixty : BOOLEAN]
BY WriterAssumption

LEMMA QueueInit == Init => QueueInv
BY Constants DEF Init, QueueInv

LEMMA QueueTake ==
  ASSUME QueueInv, More, Take
  PROVE  QueueInv' /\ pc' = "drain" /\ sb_number < sample_number
<1>1. /\ sb' = Tail(sb) /\ sb_number' = sb_number + 1 /\ pc = "drain" /\ sb # <<>>
      /\ UNCHANGED <<sample_number, measured_rate, last_t, last_sn, pc, new_t>>
  BY DEF More, Take, clockVars
<1>2. sb \in Seq({"data", "lost"}) /\ Len(sb) \in Nat /\ Len(sb) > 0
      /\ sb_number \in Nat /\ sample_number \in Nat
  BY <1>1, EmptySeq DEF QueueInv
<1>3. sb' \in Seq({"data", "lost"}) /\ Len(sb') = Len(sb) - 1
  BY <1>1, <1>2, HeadTailProperties
<1>4. sb_number < sample_number /\ Len(sb') = sample_number - sb_number'
  BY <1>1, <1>2, <1>3 DEF QueueInv
<1> QED  BY <1>1, <1>2, <1>3, <1>4 DEF QueueInv

LEMMA QueuePush ==
  ASSUME QueueInv, NEW s \in Seq({"data", "lost"}), Push(s)
  PROVE  QueueInv'
<1>1. /\ pc = "idle" /\ last_sn >= 0
      /\ sb' = sb \o s /\ sample_number' = sample_number + Len(s)
      /\ UNCHANGED <<sb_number, measured_rate, last_t, last_sn, pc, new_t>>
  BY DEF Push, clockVars
<1>2. sb' \in Seq({"data", "lost"}) /\ Len(sb') = Len(sb) + Len(s)
      /\ Len(sb) \in Nat /\ Len(s) \in Nat
  <2>1. sb \in Seq({"data", "lost"})  BY DEF QueueInv
  <2>2. sb \o s \in Seq({"data", "lost"}) /\ Len(sb \o s) = Len(sb) + Len(s)
    BY <2>1, ConcatProperties
  <2> QED  BY <1>1, <2>1, <2>2
<1> QED  BY <1>1, <1>2 DEF QueueInv

LEMMA QueueCalls ==
  ASSUME QueueInv, Sample \/ LostSamples \/ \E t \in 0 .. MaxTime : FirstTime(t) \/ UseTime(t)
  PROVE  QueueInv'
<1>1. CASE Sample
  <2>1. <<"data">> \in Seq({"data", "lost"})  OBVIOUS
  <2> QED  BY <1>1, <2>1, QueuePush DEF Sample
<1>2. CASE LostSamples
  <2>1. PICK n \in 1 .. MaxLost : Push([i \in 1 .. n |-> "lost"])
    BY <1>2 DEF LostSamples
  <2>2. [i \in 1 .. n |-> "lost"] \in Seq({"data", "lost"})  OBVIOUS
  <2> QED  BY <2>1, <2>2, QueuePush
<1>3. ASSUME NEW t \in 0 .. MaxTime, FirstTime(t) PROVE QueueInv'
  <2>1. /\ pc = "idle" /\ last_sn = -1 /\ sample_number = 0
        /\ last_t' = t /\ last_sn' = 0
        /\ UNCHANGED <<sample_number, sb, sb_number, measured_rate, pc, new_t>>
    BY <1>3 DEF FirstTime, queueVars
  <2> QED  BY <2>1, Constants DEF QueueInv
<1>4. ASSUME NEW t \in 0 .. MaxTime, UseTime(t) PROVE QueueInv'
  <2>1. /\ pc = "idle" /\ last_sn >= 0 /\ t > last_t
        /\ sample_number - last_sn >= MinDelta
        /\ measured_rate' = <<sample_number - last_sn, t - last_t>>
        /\ new_t' = t /\ pc' = "drain"
        /\ UNCHANGED <<sample_number, sb, sb_number, last_t, last_sn>>
    BY <1>4 DEF UseTime, Usable, queueVars
  <2>2. /\ sample_number - last_sn \in Nat \ {0} /\ t - last_t \in Nat \ {0} /\ t \in Nat
    BY <2>1, Constants DEF QueueInv
  <2>3. last_sn < sample_number  BY <2>1, <2>2, Constants DEF QueueInv
  <2>4. measured_rate' \in (Nat \ {0}) \X (Nat \ {0})  BY <2>1, <2>2
  <2> QED  BY <2>1, <2>2, <2>3, <2>4 DEF QueueInv
<1> QED  BY <1>1, <1>2, <1>3, <1>4

LEMMA QueueStep == QueueInv /\ [Next]_vars => QueueInv'
<1> SUFFICES ASSUME QueueInv, [Next]_vars PROVE QueueInv'  OBVIOUS
<1>1. CASE Sample \/ LostSamples \/ \E t \in 0 .. MaxTime : FirstTime(t) \/ UseTime(t)
  BY <1>1, QueueCalls
<1>2. CASE TakeLostSample \/ TakeOutsideWindow \/ TakeIntoNewFile
           \/ TakeIntoRecord \/ TakeIntoNewRecord
  <2>1. More /\ Take
    BY <1>2 DEF TakeLostSample, TakeOutsideWindow, TakeIntoNewFile,
                TakeIntoRecord, TakeIntoNewRecord
  <2> QED  BY <2>1, QueueTake
<1>3. CASE UpdateState
  <2>1. /\ pc = "drain" /\ ~More /\ last_t' = new_t /\ last_sn' = sample_number
        /\ pc' = "idle"
        /\ UNCHANGED <<sample_number, sb, sb_number, measured_rate, new_t>>
    BY <1>3 DEF UpdateState, queueVars
  <2>2. Len(sb) = 0 /\ sb_number = sample_number
    <3>1. sb_number <= sample_number  BY DEF QueueInv
    <3>2. sb = <<>>  BY <2>1, <3>1 DEF More
    <3>3. Len(sb) = 0  BY <3>2
    <3> QED  BY <3>3 DEF QueueInv
  <2> QED  BY <2>1, <2>2 DEF QueueInv
<1>4. CASE Destroy \/ FlushFails \/ CreateFails \/ Over \/ UNCHANGED vars
  <2>1. /\ UNCHANGED <<sample_number, sb, sb_number, measured_rate, last_t, last_sn, new_t>>
        /\ pc' = pc \/ pc' \in {"destroyed", "failed"}
    BY <1>4 DEF Destroy, FlushFails, CreateFails, Over, vars, queueVars, clockVars
  <2> QED  BY <2>1 DEF QueueInv
<1> QED  BY <1>1, <1>2, <1>3, <1>4 DEF Next, Loop

\* Between calls the queue holds exactly the samples since the last timestamp
\* that was used (wmseed.h, wmseed_sample and wmseed__time).
THEOREM Backlog == Spec => []QueueIsBacklog
<1>1. QueueInv => QueueIsBacklog  BY DEF QueueInv, QueueIsBacklog
<1> QED  BY <1>1, QueueInit, QueueStep, PTL DEF Spec

-----------------------------------------------------------------------------
\* Times

LEMMA Quotient ==
  ASSUME NEW a \in Nat, NEW d \in Nat \ {0}
  PROVE  a \div d \in Nat /\ d * (a \div d) <= a /\ a < d * (a \div d) + d
OBVIOUS

LEMMA QuotientInt ==
  ASSUME NEW a \in Int, NEW d \in Nat \ {0}
  PROVE  a \div d \in Int
OBVIOUS

\* Division keeps the order.
LEMMA QuotientOrder ==
  ASSUME NEW a \in Nat, NEW b \in Nat, a <= b, NEW d \in Nat \ {0}
  PROVE  a \div d <= b \div d
<1> DEFINE x == a \div d
           y == b \div d
<1>1. /\ x \in Nat /\ d * x <= a /\ y \in Nat /\ b < d * y + d
  BY Quotient
<1> HIDE DEF x, y
<1>2. SUFFICES ASSUME y + 1 <= x PROVE FALSE  BY <1>1 DEF x, y
<1>3. d * (y + 1) <= d * x  BY <1>1, <1>2
<1>4. d * (y + 1) = d * y + d  BY <1>1
<1> QED  BY <1>1, <1>3, <1>4

LEMMA Products ==
  ASSUME NEW a \in Nat, NEW b \in Nat, a <= b, NEW m \in Nat
  PROVE  a * m \in Nat /\ b * m \in Nat /\ a * m <= b * m
OBVIOUS

\* The times of the interval lie between its timestamps, in order.
LEMMA SampleTimes ==
  ASSUME QueueInv, pc = "drain", NEW k \in last_sn .. sample_number
  PROVE  /\ SampleTime(k) \in Nat /\ last_t <= SampleTime(k)
         /\ SampleTime(k) <= new_t
         /\ \A m \in last_sn .. k : SampleTime(m) <= SampleTime(k)
<1> DEFINE d == sample_number - last_sn
           w == new_t - last_t
<1>1. /\ last_sn \in Nat /\ last_t \in Nat /\ new_t \in Nat /\ sample_number \in Nat
      /\ d \in Nat \ {0} /\ w \in Nat /\ last_t + w = new_t
  BY DEF QueueInv
<1>2. \A m : SampleTime(m) = last_t + ((m - last_sn) * w) \div d
  BY DEF SampleTime
<1> HIDE DEF d, w
<1>3. ASSUME NEW m \in last_sn .. sample_number
      PROVE  /\ m - last_sn \in Nat /\ (m - last_sn) * w \in Nat
             /\ ((m - last_sn) * w) \div d \in Nat
  <2>1. m - last_sn \in Nat  BY <1>1, <1>3
  <2>2. (m - last_sn) * w \in Nat  BY <1>1, <2>1
  <2> QED  BY <1>1, <2>1, <2>2, Quotient
<1>4. SampleTime(k) \in Nat /\ last_t <= SampleTime(k)
  BY <1>1, <1>2, <1>3
<1>5. SampleTime(k) <= new_t
  <2>1. k - last_sn <= d  BY <1>1 DEF d
  <2>2. (k - last_sn) * w <= d * w /\ d * w \in Nat  BY <1>1, <1>3, <2>1, Products
  <2>3. ((k - last_sn) * w) \div d <= (d * w) \div d
    BY <1>1, <1>3, <2>2, QuotientOrder
  <2> DEFINE q == (d * w) \div d
  <2>4. q \in Nat /\ d * q <= d * w  BY <1>1, <2>2, Quotient
  <2> HIDE DEF q
  <2>5. q <= w
    <3> SUFFICES ASSUME w + 1 <= q PROVE FALSE  BY <1>1, <2>4
    <3>1. d * (w + 1) <= d * q  BY <1>1, <2>4
    <3>2. d * (w + 1) = d * w + d  BY <1>1
    <3>3. d * q \in Nat  BY <1>1, <2>4
    <3> QED  BY <1>1, <2>2, <2>4, <3>1, <3>2, <3>3
  <2>6. ((k - last_sn) * w) \div d <= q  BY <2>3 DEF q
  <2> QED  BY <1>1, <1>2, <1>3, <2>4, <2>5, <2>6
<1>6. ASSUME NEW m \in last_sn .. k PROVE SampleTime(m) <= SampleTime(k)
  <2>1. m \in last_sn .. sample_number /\ m - last_sn <= k - last_sn
    BY <1>1, <1>6
  <2>2. (m - last_sn) * w <= (k - last_sn) * w  BY <1>1, <1>3, <2>1, Products
  <2>3. ((m - last_sn) * w) \div d <= ((k - last_sn) * w) \div d
    BY <1>1, <1>3, <2>1, <2>2, QuotientOrder
  <2> QED  BY <1>1, <1>2, <1>3, <2>1, <2>3
<1> QED  BY <1>4, <1>5, <1>6

\* A new interval begins where the last one ended.
LEMMA IntervalStart ==
  ASSUME QueueInv, NEW t \in 0 .. MaxTime, UseTime(t)
  PROVE  SampleTime(sb_number)' = last_t
<1> DEFINE d == sample_number - last_sn
           q == 0 \div d
<1>1. /\ sb_number = last_sn /\ last_sn \in Nat /\ last_t \in Nat
      /\ d \in Nat \ {0} /\ t - last_t \in Nat
  BY Constants DEF UseTime, Usable, QueueInv
<1>2. SampleTime(sb_number)' = last_t + ((last_sn - last_sn) * (t - last_t)) \div d
  BY <1>1 DEF UseTime, SampleTime, queueVars
<1> HIDE DEF d
<1>3. (last_sn - last_sn) * (t - last_t) = 0  BY <1>1
<1>4. q \in Nat /\ d * q <= 0
  <2>1. 0 \in Nat  OBVIOUS
  <2> QED  BY <1>1, <2>1, Quotient
<1> HIDE DEF q
<1>5. q = 0
  <2> SUFFICES ASSUME 1 <= q PROVE FALSE  BY <1>4
  <2>1. d * q >= d * 1  BY <1>1, <1>4
  <2> QED  BY <1>1, <1>4, <2>1
<1>6. SampleTime(sb_number)' = last_t + q  BY <1>2, <1>3 DEF q
<1> QED  BY <1>1, <1>5, <1>6

LEMMA NamesAndSections ==
  ASSUME NEW t \in Nat
  PROVE  CutSection(t) \in Int /\ FileName(t) # NULL
<1>1. Utc(t) \in Int  BY Constants DEF Utc, tai_utc_diff
<1>2. Second * NameUnit \in Nat \ {0} /\ (Cut # 0 => Second * Cut \in Nat \ {0})
  BY Constants
<1>3. Utc(t) \div (Second * NameUnit) \in Int  BY <1>1, <1>2, QuotientInt
<1>4. FileName(t) \in [unit : Int, sixty : BOOLEAN]  BY <1>3 DEF FileName
<1>5. CutSection(t) \in Int
  <2>1. CASE Cut = 0  BY <2>1 DEF CutSection
  <2>2. CASE Cut # 0
    <3>1. Utc(t) \div (Second * Cut) \in Int  BY <1>1, <1>2, <2>2, QuotientInt
    <3> QED  BY <2>2, <3>1 DEF CutSection
  <2> QED  BY <2>1, <2>2
<1> QED  BY <1>4, <1>5, Constants

-----------------------------------------------------------------------------
\* Records and files

LEMMA StoredIs ==
  ASSUME NEW rec \in Record, NEW k \in Nat, NEW t \in Nat
  PROVE  /\ Stored(rec, k, t) \in Record
         /\ Stored(rec, k, t).samples = Append(rec.samples, [k |-> k, t |-> t])
<1>1. rec.samples \in Seq([k : Nat, t : Nat])  BY DEF Record
<1>2. Append(rec.samples, [k |-> k, t |-> t]) \in Seq([k : Nat, t : Nat])
  BY <1>1, AppendProperties
<1> QED  BY <1>2 DEF Stored, Record

LEMMA NewRecordIs ==
  ASSUME NEW number \in Nat \ {0}, NEW t \in Nat
  PROVE  NewRecord(number, t) \in Record /\ NewRecord(number, t).samples = <<>>
<1>1. <<>> \in Seq([k : Nat, t : Nat])  BY EmptySeq
<1> QED  BY <1>1 DEF NewRecord, Record

LEMMA FlushedOK ==
  ASSUME RecordInv, NEW leap \in BOOLEAN
  PROVE  /\ DOMAIN Flushed(leap) = DOMAIN files
         /\ \A name \in DOMAIN files : Flushed(leap)[name] \in Seq(Record)
<1>1. CASE data_pending
  <2>1. output \in DOMAIN files /\ record \in Record
        /\ \A name \in DOMAIN files : files[name] \in Seq(Record)
    BY <1>1 DEF RecordInv
  <2> DEFINE r == [record EXCEPT !.leap = leap]
  <2>2. r \in Record  BY <2>1 DEF Record
  <2>3. Flushed(leap) = [files EXCEPT ![output] = Append(files[output], r)]
    BY <1>1 DEF Flushed
  <2> HIDE DEF r
  <2>4. Append(files[output], r) \in Seq(Record)  BY <2>1, <2>2, AppendProperties
  <2> QED  BY <2>1, <2>3, <2>4
<1>2. CASE ~data_pending  BY <1>2 DEF Flushed, RecordInv
<1> QED  BY <1>1, <1>2

LEMMA RecordInit == Init => RecordInv
<1> SUFFICES ASSUME Init PROVE RecordInv  OBVIOUS
<1>1. files = << >> /\ \A name \in DOMAIN files : files[name] \in Seq(Record)
  BY DEF Init
<1>2. /\ record_number = 0 /\ record_valid \in BOOLEAN /\ data_pending = FALSE
      /\ output = NULL /\ first_file_created = FALSE /\ cut_section \in Int /\ due = {}
  BY DEF Init
<1> QED  BY <1>1, <1>2 DEF RecordInv

LEMMA RecordTake ==
  ASSUME QueueInv, RecordInv,
         TakeLostSample \/ TakeOutsideWindow \/ TakeIntoNewFile
         \/ TakeIntoRecord \/ TakeIntoNewRecord
  PROVE  RecordInv'
<1>1. More /\ Take /\ pc = "drain"
  BY DEF TakeLostSample, TakeOutsideWindow, TakeIntoNewFile,
         TakeIntoRecord, TakeIntoNewRecord, More
<1>2. pc' = pc /\ sb_number \in last_sn .. sample_number /\ sb_number \in Nat
  BY <1>1, QueueTake DEF QueueInv
<1> DEFINE t == SampleTime(sb_number)
<1>3. t \in Nat /\ CutSection(t) \in Int /\ FileName(t) # NULL
  BY <1>1, <1>2, SampleTimes, NamesAndSections
<1>4. LeapFlag(t) \in BOOLEAN /\ FALSE \in BOOLEAN  BY DEF LeapFlag
<1> HIDE DEF t
<1>5. Due(sb_number) => due' \subseteq Nat  BY <1>2 DEF Due, RecordInv
<1>6. CASE TakeLostSample
  <2>1. /\ files' = Flushed(FALSE) /\ data_pending' = FALSE
        /\ record_valid' = (record_valid /\ ~data_pending)
        /\ UNCHANGED <<record_number, record, output, first_file_created, cut_section, due>>
    BY <1>6 DEF TakeLostSample
  <2>2. DOMAIN files' = DOMAIN files /\ \A name \in DOMAIN files' : files'[name] \in Seq(Record)
    BY <1>4, <2>1, FlushedOK
  <2> QED  BY <1>2, <2>1, <2>2 DEF RecordInv, Record
<1>7. CASE TakeOutsideWindow
  <2>1. Due(sb_number) /\ UNCHANGED <<recordVars, fileVars>>
    BY <1>7 DEF TakeOutsideWindow
  <2> QED  BY <1>2, <1>5, <2>1 DEF RecordInv, recordVars, fileVars, Record
<1>8. CASE TakeIntoNewFile
  <2> DEFINE name == FileName(t)
             old == Flushed(LeapFlag(t))
  <2>1. /\ files' = [n \in DOMAIN old \cup {name} |-> IF n = name THEN <<>> ELSE old[n]]
        /\ output' = name /\ first_file_created' = TRUE
        /\ cut_section' = CutSection(t) /\ record_number' = 1
        /\ record' = Stored(NewRecord(1, t), sb_number, t)
        /\ record_valid' = TRUE /\ data_pending' = TRUE
        /\ Due(sb_number)
    BY <1>8 DEF TakeIntoNewFile, t
  <2>2. /\ DOMAIN old = DOMAIN files
        /\ \A n \in DOMAIN files : old[n] \in Seq(Record)
    BY <1>4, FlushedOK
  <2> HIDE DEF old
  <2>3. /\ output' \in DOMAIN files'
        /\ \A n \in DOMAIN files' : files'[n] \in Seq(Record)
    BY <2>1, <2>2, EmptySeq
  <2>4. record' \in Record
    <3>1. NewRecord(1, t) \in Record
      <4>1. 1 \in Nat \ {0}  OBVIOUS
      <4> QED  BY <1>3, <4>1, NewRecordIs
    <3> QED  BY <1>2, <1>3, <2>1, <3>1, StoredIs
  <2>5. Record' = Record  BY DEF Record
  <2> QED  BY <1>3, <1>5, <2>1, <2>3, <2>4, <2>5 DEF RecordInv
<1>9. CASE TakeIntoRecord
  <2>1. /\ first_file_created /\ record_valid
        /\ record' = Stored(record, sb_number, t) /\ data_pending' = TRUE
        /\ Due(sb_number)
        /\ UNCHANGED <<record_number, record_valid, output, first_file_created,
                       cut_section, files>>
    BY <1>9 DEF TakeIntoRecord, HasRoom, fileVars, t
  <2>2. record' \in Record  BY <1>2, <1>3, <2>1, StoredIs DEF RecordInv
  <2>3. output # NULL  BY <1>1, <2>1 DEF RecordInv
  <2>4. Record' = Record  BY DEF Record
  <2> QED  BY <1>2, <1>5, <2>1, <2>2, <2>3, <2>4 DEF RecordInv
<1>10. CASE TakeIntoNewRecord
  <2>1. /\ first_file_created /\ files' = Flushed(LeapFlag(t))
        /\ record_number' = record_number + 1
        /\ record' = Stored(NewRecord(record_number + 1, t), sb_number, t)
        /\ record_valid' = TRUE /\ data_pending' = TRUE
        /\ Due(sb_number)
        /\ UNCHANGED <<output, first_file_created, cut_section>>
    BY <1>10 DEF TakeIntoNewRecord, t
  <2>2. DOMAIN files' = DOMAIN files /\ \A n \in DOMAIN files' : files'[n] \in Seq(Record)
    BY <1>4, <2>1, FlushedOK
  <2>3. record_number + 1 \in Nat \ {0}  BY DEF RecordInv
  <2>4. record' \in Record
    BY <1>2, <1>3, <2>1, <2>3, StoredIs, NewRecordIs
  <2>5. output # NULL  BY <1>1, <2>1 DEF RecordInv
  <2>6. Record' = Record  BY DEF Record
  <2> QED  BY <1>2, <1>5, <2>1, <2>2, <2>3, <2>4, <2>5, <2>6 DEF RecordInv
<1> QED  BY <1>6, <1>7, <1>8, <1>9, <1>10

LEMMA RecordStep == QueueInv /\ RecordInv /\ [Next]_vars => RecordInv'
<1> SUFFICES ASSUME QueueInv, RecordInv, [Next]_vars PROVE RecordInv'  OBVIOUS
<1>0. Record' = Record  BY DEF Record
<1>1. CASE Sample \/ LostSamples \/ \E t \in 0 .. MaxTime : FirstTime(t) \/ UseTime(t)
  <2>1. pc = "idle" /\ pc' \in {"idle", "drain"} /\ UNCHANGED <<recordVars, fileVars, due>>
    BY <1>1 DEF Sample, LostSamples, Push, FirstTime, UseTime
  <2> QED  BY <1>0, <2>1 DEF RecordInv, recordVars, fileVars
<1>2. CASE TakeLostSample \/ TakeOutsideWindow \/ TakeIntoNewFile
           \/ TakeIntoRecord \/ TakeIntoNewRecord
  BY <1>2, RecordTake
<1>3. CASE UpdateState
  <2>1. pc = "drain" /\ UNCHANGED <<recordVars, fileVars, due>>
    BY <1>3 DEF UpdateState
  <2> QED  BY <1>0, <2>1 DEF RecordInv, recordVars, fileVars
<1>4. CASE Destroy
  <2>1. /\ files' = Flushed(FALSE) /\ data_pending' = FALSE
        /\ record_valid' = (record_valid /\ ~data_pending)
        /\ output' = NULL /\ pc' = "destroyed"
        /\ UNCHANGED <<record_number, record, first_file_created, cut_section, due>>
    BY <1>4 DEF Destroy
  <2>2. DOMAIN files' = DOMAIN files /\ \A n \in DOMAIN files' : files'[n] \in Seq(Record)
    BY <2>1, FlushedOK
  <2> QED  BY <1>0, <2>1, <2>2 DEF RecordInv
<1>5. CASE CreateFails
  <2> DEFINE t == SampleTime(sb_number)
  <2>1. /\ files' = Flushed(LeapFlag(t)) /\ data_pending' = FALSE
        /\ output' = NULL /\ pc' = "failed"
        /\ UNCHANGED <<record_number, record, record_valid, first_file_created,
                       cut_section, due>>
    BY <1>5 DEF CreateFails
  <2>2. LeapFlag(t) \in BOOLEAN  BY DEF LeapFlag
  <2>3. DOMAIN files' = DOMAIN files /\ \A n \in DOMAIN files' : files'[n] \in Seq(Record)
    BY <2>1, <2>2, FlushedOK
  <2> QED  BY <1>0, <2>1, <2>3 DEF RecordInv
<1>6. CASE FlushFails \/ Over \/ UNCHANGED vars
  <2>1. UNCHANGED <<recordVars, fileVars, due>> /\ (pc' = pc \/ pc' = "failed")
    BY <1>6 DEF FlushFails, Over, vars
  <2> QED  BY <1>0, <2>1 DEF RecordInv, recordVars, fileVars
<1> QED  BY <1>1, <1>2, <1>3, <1>4, <1>5, <1>6 DEF Next, Loop

\* The queue is the backlog, and the record, the file and the times the loop
\* in wmseed__time works with belong together.
THEOREM Invariance == Spec => [](QueueInv /\ RecordInv)
BY QueueInit, QueueStep, RecordInit, RecordStep, PTL DEF Spec

\* Every record that is to be written has a file that is open and at least
\* the shape of a record (wmseed.h, wmseed__flush and wmseed__new_record).
THEOREM TypeCorrect == Spec => []TypeOK
<1>1. QueueInv /\ RecordInv => TypeOK  BY DEF QueueInv, RecordInv, TypeOK
<1> QED  BY <1>1, Invariance, PTL

-----------------------------------------------------------------------------
\* Time order

\* The samples in a record, a file, all files; those written or to be written.
RecordStamps(rec) == {rec.samples[m] : m \in 1 .. Len(rec.samples)}
FileStamps(f) == UNION {RecordStamps(f[m]) : m \in 1 .. Len(f)}
AllStamps(fs) == UNION {FileStamps(fs[name]) : name \in DOMAIN fs}
Stamps == AllStamps(files) \cup (IF data_pending THEN RecordStamps(record) ELSE {})

Running == pc \in {"idle", "drain"}

\* No sample written has a time beyond the one the writer has reached.
OrderInv ==
  /\ \A s \in Stamps : s \in [k : Nat, t : Nat]
  /\ \A s, u \in Stamps : s.k < u.k => s.t <= u.t
  /\ Running => \A s \in Stamps : s.k < sb_number
  /\ pc = "idle" => \A s \in Stamps : s.t <= last_t
  /\ pc = "drain" => \A s \in Stamps : s.t <= SampleTime(sb_number)
  /\ Running /\ first_file_created /\ record_valid => data_pending

LEMMA StoredStamps ==
  ASSUME NEW rec \in Record, NEW k \in Nat, NEW t \in Nat
  PROVE  RecordStamps(Stored(rec, k, t)) = RecordStamps(rec) \cup {[k |-> k, t |-> t]}
<1> DEFINE s == [k |-> k, t |-> t]
           old == rec.samples
           new == Append(old, s)
<1>1. old \in Seq([k : Nat, t : Nat]) /\ Stored(rec, k, t).samples = new
  BY StoredIs DEF Record
<1>2. s \in [k : Nat, t : Nat] /\ Len(old) \in Nat  BY <1>1
<1> HIDE DEF s, old
<1>3. /\ Len(new) = Len(old) + 1 /\ new[Len(old) + 1] = s
      /\ \A m \in 1 .. Len(old) : new[m] = old[m]
  BY <1>1, <1>2, AppendProperties
<1> HIDE DEF new
<1>4. {new[m] : m \in 1 .. Len(new)} = {old[m] : m \in 1 .. Len(old)} \cup {s}
  <2>1. ASSUME NEW m \in 1 .. Len(new)
        PROVE  new[m] \in {old[n] : n \in 1 .. Len(old)} \cup {s}
    <3>1. m = Len(old) + 1 \/ m \in 1 .. Len(old)  BY <1>2, <1>3, <2>1
    <3> QED  BY <1>3, <3>1
  <2>2. ASSUME NEW m \in 1 .. Len(old) PROVE old[m] \in {new[n] : n \in 1 .. Len(new)}
    <3>1. m \in 1 .. Len(new)  BY <1>2, <1>3, <2>2
    <3> QED  BY <1>3, <3>1
  <2>3. s \in {new[n] : n \in 1 .. Len(new)}
    <3>1. Len(old) + 1 \in 1 .. Len(new)  BY <1>2, <1>3
    <3> QED  BY <1>3, <3>1
  <2> QED  BY <2>1, <2>2, <2>3
<1> QED  BY <1>1, <1>4 DEF RecordStamps, s, old

LEMMA NewStamps ==
  ASSUME NEW number \in Nat \ {0}, NEW k \in Nat, NEW t \in Nat
  PROVE  RecordStamps(Stored(NewRecord(number, t), k, t)) = {[k |-> k, t |-> t]}
<1>1. NewRecord(number, t) \in Record /\ NewRecord(number, t).samples = <<>>
  BY NewRecordIs
<1>2. RecordStamps(NewRecord(number, t)) = {}  BY <1>1 DEF RecordStamps
<1> QED  BY <1>1, <1>2, StoredStamps

\* Writing the pending record adds no sample to those that were there.
LEMMA FlushedStamps ==
  ASSUME RecordInv, NEW leap \in BOOLEAN
  PROVE  AllStamps(Flushed(leap)) \subseteq Stamps
<1>1. CASE data_pending
  <2> DEFINE r == [record EXCEPT !.leap = leap]
             f == Append(files[output], r)
  <2>1. output \in DOMAIN files /\ record \in Record /\ files[output] \in Seq(Record)
    BY <1>1 DEF RecordInv
  <2>2. r \in Record /\ RecordStamps(r) = RecordStamps(record)
    BY <2>1 DEF Record, RecordStamps
  <2>3. Flushed(leap) = [files EXCEPT ![output] = f]  BY <1>1 DEF Flushed
  <2> HIDE DEF r
  <2>4. /\ Len(files[output]) \in Nat /\ Len(f) = Len(files[output]) + 1
        /\ f[Len(files[output]) + 1] = r
        /\ \A m \in 1 .. Len(files[output]) : f[m] = files[output][m]
    BY <2>1, <2>2, AppendProperties
  <2> HIDE DEF f
  <2>5. FileStamps(f) \subseteq FileStamps(files[output]) \cup RecordStamps(record)
    <3>1. ASSUME NEW m \in 1 .. Len(f)
          PROVE  \/ RecordStamps(f[m]) = RecordStamps(record)
                 \/ \E q \in 1 .. Len(files[output]) :
                      RecordStamps(f[m]) = RecordStamps(files[output][q])
      <4>1. m = Len(files[output]) + 1 \/ m \in 1 .. Len(files[output])
        BY <2>4, <3>1
      <4>2. CASE m = Len(files[output]) + 1  BY <2>2, <2>4, <4>2
      <4>3. CASE m \in 1 .. Len(files[output])  BY <2>4, <4>3
      <4> QED  BY <4>1, <4>2, <4>3
    <3> QED  BY <3>1 DEF FileStamps
  <2>6. Stamps = AllStamps(files) \cup RecordStamps(record)  BY <1>1 DEF Stamps
  <2>7. ASSUME NEW name \in DOMAIN files
        PROVE  FileStamps(Flushed(leap)[name]) \subseteq Stamps
    <3>1. CASE name = output
      <4>1. Flushed(leap)[name] = f  BY <2>1, <2>3, <3>1
      <4>2. FileStamps(files[output]) \subseteq AllStamps(files)
        BY <2>1 DEF AllStamps
      <4> QED  BY <2>5, <2>6, <4>1, <4>2
    <3>2. CASE name # output
      <4>1. Flushed(leap)[name] = files[name]  BY <2>3, <2>7, <3>2
      <4> QED  BY <2>6, <2>7, <4>1 DEF AllStamps
    <3> QED  BY <3>1, <3>2
  <2>8. DOMAIN Flushed(leap) = DOMAIN files  BY FlushedOK
  <2> QED  BY <2>7, <2>8 DEF AllStamps
<1>2. CASE ~data_pending  BY <1>2 DEF Flushed, Stamps
<1> QED  BY <1>1, <1>2

LEMMA OrderInit == Init => OrderInv
<1> SUFFICES ASSUME Init PROVE OrderInv  OBVIOUS
<1>1. Stamps = {}  BY DEF Init, Stamps, AllStamps
<1> QED  BY <1>1 DEF Init, OrderInv

\* Taking a sample from the queue adds it, at most, with the time it gets.
LEMMA StampsTake ==
  ASSUME QueueInv, RecordInv, OrderInv,
         TakeLostSample \/ TakeOutsideWindow \/ TakeIntoNewFile
         \/ TakeIntoRecord \/ TakeIntoNewRecord
  PROVE  /\ Stamps' \subseteq
              Stamps \cup {[k |-> sb_number, t |-> SampleTime(sb_number)]}
         /\ first_file_created' /\ record_valid' => data_pending'
<1> DEFINE t == SampleTime(sb_number)
           new == [k |-> sb_number, t |-> t]
<1>1. More /\ Take /\ pc = "drain"
  BY DEF TakeLostSample, TakeOutsideWindow, TakeIntoNewFile,
         TakeIntoRecord, TakeIntoNewRecord, More
<1>2. sb_number \in last_sn .. sample_number /\ sb_number \in Nat
  BY <1>1, QueueTake DEF QueueInv
<1>3. t \in Nat  BY <1>1, <1>2, SampleTimes
<1>4. LeapFlag(t) \in BOOLEAN /\ FALSE \in BOOLEAN  BY DEF LeapFlag
<1>5. first_file_created /\ record_valid => data_pending
  BY <1>1 DEF OrderInv, Running
<1> HIDE DEF t
<1>6. CASE TakeLostSample
  <2>1. /\ files' = Flushed(FALSE) /\ data_pending' = FALSE
        /\ record_valid' = (record_valid /\ ~data_pending)
        /\ UNCHANGED first_file_created
    BY <1>6 DEF TakeLostSample
  <2>2. Stamps' = AllStamps(Flushed(FALSE))
    BY <2>1 DEF Stamps, AllStamps, FileStamps, RecordStamps
  <2> QED  BY <1>4, <1>5, <2>1, <2>2, FlushedStamps
<1>7. CASE TakeOutsideWindow
  <2>1. UNCHANGED <<record, record_valid, data_pending, files, first_file_created>>
    BY <1>7 DEF TakeOutsideWindow, recordVars, fileVars
  <2>2. Stamps' = Stamps
    BY <2>1 DEF Stamps, AllStamps, FileStamps, RecordStamps
  <2> QED  BY <1>5, <2>1, <2>2
<1>8. CASE TakeIntoNewFile
  <2> DEFINE name == FileName(t)
             old == Flushed(LeapFlag(t))
  <2>1. /\ files' = [n \in DOMAIN old \cup {name} |-> IF n = name THEN <<>> ELSE old[n]]
        /\ record' = Stored(NewRecord(1, t), sb_number, t)
        /\ data_pending' = TRUE
    BY <1>8 DEF TakeIntoNewFile, t
  <2> HIDE DEF name, old
  <2>2. 1 \in Nat \ {0}  OBVIOUS
  <2>3. RecordStamps(record') = {new}  BY <1>2, <1>3, <2>1, <2>2, NewStamps
  <2>4. Stamps' = AllStamps(files') \cup {new}
    BY <2>1, <2>3 DEF Stamps, AllStamps, FileStamps, RecordStamps
  <2>5. AllStamps(files') \subseteq AllStamps(old)
    <3>1. ASSUME NEW n \in DOMAIN files'
          PROVE  FileStamps(files'[n]) \subseteq AllStamps(old)
      <4>1. CASE n = name
        <5>1. files'[n] = <<>>  BY <2>1, <4>1
        <5> QED  BY <5>1 DEF FileStamps
      <4>2. CASE n # name
        <5>1. n \in DOMAIN old /\ files'[n] = old[n]  BY <2>1, <3>1, <4>2
        <5> QED  BY <5>1 DEF AllStamps
      <4> QED  BY <4>1, <4>2
    <3> QED  BY <3>1 DEF AllStamps
  <2>6. AllStamps(old) \subseteq Stamps  BY <1>4, FlushedStamps DEF old
  <2> QED  BY <2>1, <2>4, <2>5, <2>6 DEF t
<1>9. CASE TakeIntoRecord
  <2>1. /\ first_file_created /\ record_valid
        /\ record' = Stored(record, sb_number, t) /\ data_pending' = TRUE
        /\ UNCHANGED files
    BY <1>9 DEF TakeIntoRecord, HasRoom, fileVars, t
  <2>2. data_pending /\ record \in Record  BY <1>5, <2>1 DEF RecordInv
  <2>3. RecordStamps(record') = RecordStamps(record) \cup {new}
    BY <1>2, <1>3, <2>1, <2>2, StoredStamps
  <2>4. Stamps' = AllStamps(files) \cup RecordStamps(record')
    BY <2>1 DEF Stamps, AllStamps, FileStamps, RecordStamps
  <2> QED  BY <2>1, <2>2, <2>3, <2>4 DEF Stamps, t
<1>10. CASE TakeIntoNewRecord
  <2>1. /\ files' = Flushed(LeapFlag(t)) /\ data_pending' = TRUE
        /\ record' = Stored(NewRecord(record_number + 1, t), sb_number, t)
    BY <1>10 DEF TakeIntoNewRecord, t
  <2>2. record_number + 1 \in Nat \ {0}  BY DEF RecordInv
  <2>3. RecordStamps(record') = {new}  BY <1>2, <1>3, <2>1, <2>2, NewStamps
  <2>4. Stamps' = AllStamps(files') \cup {new}
    BY <2>1, <2>3 DEF Stamps, AllStamps, FileStamps, RecordStamps
  <2>5. AllStamps(files') \subseteq Stamps  BY <1>4, <2>1, FlushedStamps
  <2> QED  BY <2>1, <2>4, <2>5 DEF t
<1> QED  BY <1>6, <1>7, <1>8, <1>9, <1>10

LEMMA OrderTake ==
  ASSUME QueueInv, RecordInv, OrderInv,
         TakeLostSample \/ TakeOutsideWindow \/ TakeIntoNewFile
         \/ TakeIntoRecord \/ TakeIntoNewRecord
  PROVE  OrderInv'
<1> DEFINE t == SampleTime(sb_number)
           new == [k |-> sb_number, t |-> t]
<1>1. More /\ Take /\ pc = "drain"
  BY DEF TakeLostSample, TakeOutsideWindow, TakeIntoNewFile,
         TakeIntoRecord, TakeIntoNewRecord, More
<1>2. /\ sb_number \in last_sn .. sample_number /\ sb_number \in Nat
      /\ sb_number + 1 \in last_sn .. sample_number
      /\ sb_number \in last_sn .. sb_number + 1
      /\ pc' = "drain" /\ sb_number' = sb_number + 1
      /\ UNCHANGED <<sample_number, last_t, last_sn, new_t>>
  BY <1>1, QueueTake DEF QueueInv, Take, clockVars
<1>3. /\ t \in Nat /\ SampleTime(sb_number + 1) \in Nat
      /\ t <= SampleTime(sb_number + 1)
  BY <1>1, <1>2, SampleTimes
<1>4. SampleTime(sb_number)' = SampleTime(sb_number + 1)
  BY <1>2 DEF SampleTime
<1> HIDE DEF t
<1>5. Stamps' \subseteq Stamps \cup {new}
      /\ (first_file_created' /\ record_valid' => data_pending')
  BY StampsTake DEF t
<1>6. \A s \in Stamps : s \in [k : Nat, t : Nat] /\ s.k < sb_number /\ s.t <= t
  BY <1>1 DEF OrderInv, Running, t
<1>7. new \in [k : Nat, t : Nat] /\ new.k = sb_number /\ new.t = t
  BY <1>2, <1>3
<1> HIDE DEF new
<1>8. \A s \in Stamps' : s \in [k : Nat, t : Nat] /\ s.k < sb_number + 1 /\ s.t <= t
  BY <1>2, <1>3, <1>5, <1>6, <1>7
<1>9. ASSUME NEW s \in Stamps', NEW u \in Stamps', s.k < u.k PROVE s.t <= u.t
  <2>1. CASE u = new  BY <1>7, <1>8, <1>9, <2>1
  <2>2. CASE u # new /\ s = new
    <3>1. u \in Stamps  BY <1>5, <2>2
    <3> QED  BY <1>2, <1>6, <1>7, <1>9, <2>2, <3>1
  <2>3. CASE u # new /\ s # new
    <3>1. u \in Stamps /\ s \in Stamps  BY <1>5, <2>3
    <3> QED  BY <1>9, <3>1 DEF OrderInv
  <2> QED  BY <2>1, <2>2, <2>3
<1>10. \A s \in Stamps' : s.t <= SampleTime(sb_number + 1)
  BY <1>3, <1>8
<1> QED  BY <1>2, <1>4, <1>5, <1>8, <1>9, <1>10 DEF OrderInv

LEMMA OrderStep ==
  QueueInv /\ RecordInv /\ OrderInv /\ [Next]_vars => OrderInv'
<1> SUFFICES ASSUME QueueInv, RecordInv, OrderInv, [Next]_vars PROVE OrderInv'
  OBVIOUS
<1>1. CASE Sample \/ LostSamples
  <2>1. /\ pc = "idle" /\ pc' = "idle"
        /\ UNCHANGED <<sb_number, last_t, record, record_valid, data_pending, files,
                       first_file_created>>
    BY <1>1 DEF Sample, LostSamples, Push, clockVars, recordVars, fileVars
  <2>2. Stamps' = Stamps  BY <2>1 DEF Stamps, AllStamps, FileStamps, RecordStamps
  <2> QED  BY <2>1, <2>2 DEF OrderInv, Running
<1>2. ASSUME NEW t \in 0 .. MaxTime, FirstTime(t) PROVE OrderInv'
  <2>1. /\ pc = "idle" /\ last_sn = -1 /\ pc' = "idle"
        /\ UNCHANGED <<sb_number, record, record_valid, data_pending, files,
                       first_file_created>>
    BY <1>2 DEF FirstTime, queueVars, recordVars, fileVars
  <2>2. Stamps = {}
    <3>1. \A s \in Stamps : s.k \in Nat /\ s.k < 0
      BY <2>1 DEF OrderInv, Running, QueueInv
    <3> QED  BY <3>1
  <2>3. Stamps' = {}
    <3>1. Stamps' = Stamps  BY <2>1 DEF Stamps, AllStamps, FileStamps, RecordStamps
    <3> QED  BY <2>2, <3>1
  <2> QED  BY <2>1, <2>3 DEF OrderInv, Running
<1>3. ASSUME NEW t \in 0 .. MaxTime, UseTime(t) PROVE OrderInv'
  <2>1. /\ pc = "idle" /\ last_sn >= 0 /\ pc' = "drain"
        /\ UNCHANGED <<sb_number, last_t, record, record_valid, data_pending, files,
                       first_file_created>>
    BY <1>3 DEF UseTime, Usable, queueVars, recordVars, fileVars
  <2>2. Stamps' = Stamps  BY <2>1 DEF Stamps, AllStamps, FileStamps, RecordStamps
  <2>4. SampleTime(sb_number)' = last_t  BY <1>3, IntervalStart
  <2>6. \A s \in Stamps : s.t \in Nat /\ s.t <= last_t  BY <2>1 DEF OrderInv
  <2>7. \A s \in Stamps : s.t <= SampleTime(sb_number)'  BY <2>4, <2>6
  <2> QED  BY <2>1, <2>2, <2>7 DEF OrderInv, Running
<1>4. CASE TakeLostSample \/ TakeOutsideWindow \/ TakeIntoNewFile
           \/ TakeIntoRecord \/ TakeIntoNewRecord
  BY <1>4, OrderTake
<1>5. CASE UpdateState
  <2>1. /\ pc = "drain" /\ last_t' = new_t /\ pc' = "idle"
        /\ UNCHANGED <<sb_number, record, record_valid, data_pending, files,
                       first_file_created>>
    BY <1>5 DEF UpdateState, queueVars, recordVars, fileVars
  <2>2. Stamps' = Stamps  BY <2>1 DEF Stamps, AllStamps, FileStamps, RecordStamps
  <2>3. sb_number \in last_sn .. sample_number /\ new_t \in Nat
    BY <2>1 DEF QueueInv
  <2>4. SampleTime(sb_number) \in Nat /\ SampleTime(sb_number) <= new_t
    BY <2>1, <2>3, SampleTimes
  <2>5. \A s \in Stamps : s.t \in Nat /\ s.t <= SampleTime(sb_number)
    BY <2>1 DEF OrderInv
  <2>6. \A s \in Stamps : s.t <= new_t  BY <2>3, <2>4, <2>5
  <2> QED  BY <2>1, <2>2, <2>6 DEF OrderInv, Running
<1>6. CASE Destroy \/ CreateFails
  <2>1. /\ pc' \in {"destroyed", "failed"} /\ data_pending' = FALSE
        /\ \E leap \in BOOLEAN : files' = Flushed(leap)
    BY <1>6 DEF Destroy, CreateFails, LeapFlag
  <2>2. PICK leap \in BOOLEAN : files' = Flushed(leap)  BY <2>1
  <2>3. Stamps' = AllStamps(Flushed(leap))
    BY <2>1, <2>2 DEF Stamps, AllStamps, FileStamps, RecordStamps
  <2>4. Stamps' \subseteq Stamps  BY <2>3, FlushedStamps
  <2> QED  BY <2>1, <2>4 DEF OrderInv, Running
<1>7. CASE FlushFails \/ Over \/ UNCHANGED vars
  <2>1. /\ UNCHANGED <<queueVars, clockVars, recordVars, fileVars, new_t>>
        /\ pc' = pc \/ pc' = "failed"
    BY <1>7 DEF FlushFails, Over, vars
  <2>2. Stamps' = Stamps
    BY <2>1 DEF Stamps, AllStamps, FileStamps, RecordStamps, recordVars, fileVars
  <2>3. SampleTime(sb_number)' = SampleTime(sb_number)
    BY <2>1 DEF SampleTime, queueVars, clockVars
  <2> QED  BY <2>1, <2>2, <2>3 DEF OrderInv, Running, queueVars, clockVars, recordVars, fileVars
<1> QED  BY <1>1, <1>2, <1>3, <1>4, <1>5, <1>6, <1>7 DEF Next, Loop

\* What is in the files is in Stamps.
LEMMA WrittenStamps ==
  ASSUME RecordInv, NEW w \in Written
  PROVE  \E s \in Stamps : w.k = s.k /\ w.t = s.t
<1> DEFINE Entry(n, l, m) ==
             [name |-> n, at |-> <<l, m>>, k |-> RecordsOf(n)[l].samples[m].k,
              t |-> RecordsOf(n)[l].samples[m].t]
           InRecord(n, l) == {Entry(n, l, m) : m \in 1 .. Len(RecordsOf(n)[l].samples)}
           InFile(n) == UNION {InRecord(n, l) : l \in 1 .. Len(RecordsOf(n))}
<1>1. w \in UNION {InFile(n) : n \in DOMAIN files}  BY DEF Written
<1> HIDE DEF InFile
<1>4. PICK name \in DOMAIN files : w \in InFile(name)  BY <1>1
<1>5. PICK i \in 1 .. Len(RecordsOf(name)) : w \in InRecord(name, i)
  BY <1>4 DEF InFile
<1>6. PICK j \in 1 .. Len(RecordsOf(name)[i].samples) : w = Entry(name, i, j)
  BY <1>5
<1>7. /\ w.k = RecordsOf(name)[i].samples[j].k
      /\ w.t = RecordsOf(name)[i].samples[j].t
  BY <1>6
<1> DEFINE rec == RecordsOf(name)[i]
<1>2. RecordStamps(rec) \subseteq Stamps
  <2>1. files[name] \in Seq(Record)  BY DEF RecordInv
  <2>2. CASE data_pending /\ name = output
    <3>1. RecordsOf(name) = files[name] \o <<record>> /\ record \in Record
      BY <2>2 DEF RecordsOf, RecordInv
    <3>2. i \in 1 .. Len(files[name]) + 1
      /\ rec = IF i <= Len(files[name]) THEN files[name][i] ELSE record
      BY <2>1, <3>1
    <3>3. CASE i <= Len(files[name])
      <4>1. rec = files[name][i] /\ i \in 1 .. Len(files[name])  BY <2>1, <3>2, <3>3
      <4> QED  BY <4>1 DEF Stamps, AllStamps, FileStamps
    <3>4. CASE ~(i <= Len(files[name]))
      <4>1. rec = record  BY <3>2, <3>4
      <4> QED  BY <2>2, <4>1 DEF Stamps
    <3> QED  BY <3>3, <3>4
  <2>3. CASE ~(data_pending /\ name = output)
    <3>1. RecordsOf(name) = files[name] \o <<>>  BY <2>3 DEF RecordsOf
    <3>2. RecordsOf(name) = files[name]  BY <2>1, <3>1
    <3> QED  BY <3>2 DEF Stamps, AllStamps, FileStamps
  <2> QED  BY <2>2, <2>3
<1>3. rec.samples[j] \in RecordStamps(rec)  BY DEF RecordStamps
<1> QED  BY <1>2, <1>3, <1>7

\* The strengthening of TimesAscend: all stamps, written or in the record,
\* ascend and lie before the next sample of wmseed__time.
THEOREM OrderInvariance == Spec => []OrderInv
BY OrderInit, OrderStep, Invariance, PTL DEF Spec

\* A later sample never has an earlier time, also where two intervals of the
\* interpolation meet (wmseed.h, wmseed__time).
THEOREM Ascending == Spec => []TimesAscend
<1>1. RecordInv /\ OrderInv => TimesAscend
  <2> SUFFICES ASSUME RecordInv, OrderInv,
                      NEW v \in Written, NEW w \in Written, v.k < w.k
               PROVE  v.t <= w.t
    BY DEF TimesAscend
  <2>1. PICK s \in Stamps : v.k = s.k /\ v.t = s.t  BY WrittenStamps
  <2>2. PICK u \in Stamps : w.k = u.k /\ w.t = u.t  BY WrittenStamps
  <2> QED  BY <2>1, <2>2 DEF OrderInv
<1> QED  BY <1>1, Invariance, OrderInvariance, PTL

-----------------------------------------------------------------------------
\* Records

\* What RecordsSound says of the record with number i.
Sound(rec, i) ==
  LET n == Len(rec.samples)
  IN  /\ rec.number = i
      /\ n \in 1 .. RecordCapacity
      /\ rec.time = rec.samples[1].t
      /\ \A m \in 1 .. n : rec.samples[m].k = rec.samples[1].k + m - 1

SoundFile(f) == \A m \in 1 .. Len(f) : Sound(f[m], m)

\* The next sample follows the pending record, or is beyond the end time as all
\* later ones are.
SoundInv ==
  /\ \A name \in DOMAIN files : SoundFile(files[name])
  /\ data_pending => Sound(record, Len(files[output]) + 1)
  /\ Running /\ first_file_created =>
       record_number = Len(files[output]) + (IF data_pending THEN 1 ELSE 0)
  /\ pc = "idle" /\ data_pending =>
       record.samples[1].k + Len(record.samples) = sb_number \/ last_t >= EndTime
  /\ pc = "drain" /\ data_pending =>
       \/ record.samples[1].k + Len(record.samples) = sb_number
       \/ SampleTime(sb_number) >= EndTime

LEMMA SoundStored ==
  ASSUME NEW rec \in Record, NEW i, Sound(rec, i), Len(rec.samples) < RecordCapacity,
         NEW k \in Nat, NEW t \in Nat, rec.samples[1].k + Len(rec.samples) = k
  PROVE  LET new == Stored(rec, k, t)
         IN  Sound(new, i) /\ new.samples[1].k + Len(new.samples) = k + 1
<1> DEFINE new == Stored(rec, k, t)
           s == [k |-> k, t |-> t]
           n == Len(rec.samples)
<1>1. rec.samples \in Seq([k : Nat, t : Nat]) /\ s \in [k : Nat, t : Nat]
      /\ n \in Nat /\ n >= 1 /\ rec.samples[1].k \in Nat
  <2>1. rec.samples \in Seq([k : Nat, t : Nat])  BY DEF Record
  <2>2. n \in Nat /\ n >= 1  BY <2>1, Constants DEF Sound
  <2>3. rec.samples[1] \in [k : Nat, t : Nat]
    <3>1. 1 \in 1 .. n  BY <2>2
    <3> QED  BY <2>1, <3>1, ElementOfSeq
  <2> QED  BY <2>1, <2>2, <2>3
<1>2. new.samples = Append(rec.samples, s) /\ new.number = rec.number /\ new.time = rec.time
  BY DEF Stored, Record
<1>3. /\ Len(new.samples) = n + 1 /\ new.samples[n + 1] = s
      /\ \A m \in 1 .. n : new.samples[m] = rec.samples[m]
  BY <1>1, <1>2, AppendProperties
<1>4. new.samples[1] = rec.samples[1]  BY <1>1, <1>3
<1>5. s.k = k  OBVIOUS
<1> HIDE DEF new, s
<1>6. ASSUME NEW m \in 1 .. n + 1 PROVE new.samples[m].k = new.samples[1].k + m - 1
  <2>1. CASE m = n + 1  BY <1>1, <1>3, <1>4, <1>5, <2>1
  <2>2. CASE m # n + 1
    <3>1. m \in 1 .. n  BY <1>1, <1>6, <2>2
    <3>2. new.samples[m] = rec.samples[m]  BY <1>3, <3>1
    <3>3. rec.samples[m].k = rec.samples[1].k + m - 1  BY <3>1 DEF Sound
    <3> QED  BY <1>4, <3>2, <3>3
  <2> QED  BY <2>1, <2>2
<1>7. n + 1 \in 1 .. RecordCapacity  BY <1>1, Constants
<1>8. new.number = i /\ new.time = new.samples[1].t  BY <1>2, <1>4 DEF Sound
<1>9. Sound(new, i)  BY <1>3, <1>6, <1>7, <1>8 DEF Sound
<1>10. new.samples[1].k + Len(new.samples) = k + 1
  <2>1. rec.samples[1].k + n = k  OBVIOUS
  <2>2. new.samples[1].k = rec.samples[1].k  BY <1>4
  <2>3. rec.samples[1].k \in Nat /\ n \in Nat /\ Len(new.samples) = n + 1
    BY <1>1, <1>3
  <2> HIDE DEF n
  <2> QED  BY <2>1, <2>2, <2>3, SMTT(30)
<1> QED  BY <1>9, <1>10 DEF new

LEMMA SoundNew ==
  ASSUME NEW number \in Nat \ {0}, NEW k \in Nat, NEW t \in Nat
  PROVE  LET new == Stored(NewRecord(number, t), k, t)
         IN  Sound(new, number) /\ new.samples[1].k + Len(new.samples) = k + 1
<1> DEFINE new == Stored(NewRecord(number, t), k, t)
<1>1. new.samples = <<[k |-> k, t |-> t]>> /\ new.number = number /\ new.time = t
  BY DEF Stored, NewRecord
<1> HIDE DEF new
<1>2. Len(new.samples) = 1 /\ new.samples[1].k = k /\ new.samples[1].t = t
  BY <1>1
<1> QED  BY <1>1, <1>2, Constants DEF Sound, new

\* Writing the pending record leaves all files sound.
LEMMA SoundFlushed ==
  ASSUME RecordInv, SoundInv, NEW leap \in BOOLEAN
  PROVE  /\ \A name \in DOMAIN files : SoundFile(Flushed(leap)[name])
         /\ output \in DOMAIN files =>
              Len(Flushed(leap)[output])
                = Len(files[output]) + (IF data_pending THEN 1 ELSE 0)
<1>1. CASE data_pending
  <2> DEFINE r == [record EXCEPT !.leap = leap]
             n == Len(files[output])
             f == Append(files[output], r)
  <2>1. output \in DOMAIN files /\ record \in Record /\ files[output] \in Seq(Record)
        /\ n \in Nat
    BY <1>1 DEF RecordInv
  <2>2. r \in Record /\ Sound(r, n + 1)
    <3>1. r \in Record  BY <2>1 DEF Record
    <3>2. r.samples = record.samples /\ r.number = record.number /\ r.time = record.time
      BY <2>1 DEF Record
    <3>3. Sound(record, n + 1)  BY <1>1 DEF SoundInv
    <3> QED  BY <3>1, <3>2, <3>3 DEF Sound
  <2>3. Flushed(leap) = [files EXCEPT ![output] = f]  BY <1>1 DEF Flushed
  <2> HIDE DEF r
  <2>4. /\ Len(f) = n + 1 /\ f[n + 1] = r
        /\ \A m \in 1 .. n : f[m] = files[output][m]
    BY <2>1, <2>2, AppendProperties
  <2>5. SoundFile(files[output])  BY <2>1 DEF SoundInv
  <2> HIDE DEF f, n
  <2>6. SoundFile(f)
    <3>1. ASSUME NEW m \in 1 .. Len(f) PROVE Sound(f[m], m)
      <4>1. m = n + 1 \/ m \in 1 .. n  BY <2>1, <2>4, <3>1
      <4>2. CASE m = n + 1  BY <2>2, <2>4, <4>2
      <4>3. CASE m \in 1 .. n  BY <2>4, <2>5, <4>3 DEF SoundFile, n
      <4> QED  BY <4>1, <4>2, <4>3
    <3> QED  BY <3>1 DEF SoundFile
  <2>7. ASSUME NEW name \in DOMAIN files PROVE SoundFile(Flushed(leap)[name])
    <3>1. CASE name = output
      <4>1. Flushed(leap)[name] = f  BY <2>1, <2>3, <3>1
      <4> QED  BY <2>6, <4>1
    <3>2. CASE name # output
      <4>1. Flushed(leap)[name] = files[name]  BY <2>3, <2>7, <3>2
      <4> QED  BY <2>7, <4>1 DEF SoundInv
    <3> QED  BY <3>1, <3>2
  <2>8. Len(Flushed(leap)[output]) = Len(files[output]) + 1
    BY <2>1, <2>3, <2>4 DEF n
  <2> QED  BY <1>1, <2>7, <2>8
<1>2. CASE ~data_pending
  <2>1. Flushed(leap) = files  BY <1>2 DEF Flushed
  <2>2. output \in DOMAIN files => Len(files[output]) \in Nat  BY DEF RecordInv
  <2> QED  BY <1>2, <2>1, <2>2 DEF SoundInv
<1> QED  BY <1>1, <1>2

LEMMA SoundTake ==
  ASSUME QueueInv, RecordInv, OrderInv, SoundInv,
         TakeLostSample \/ TakeOutsideWindow \/ TakeIntoNewFile
         \/ TakeIntoRecord \/ TakeIntoNewRecord
  PROVE  SoundInv'
<1> DEFINE t == SampleTime(sb_number)
           leap == LeapFlag(t)
<1>1. More /\ Take /\ pc = "drain" /\ Running
  BY DEF TakeLostSample, TakeOutsideWindow, TakeIntoNewFile,
         TakeIntoRecord, TakeIntoNewRecord, More, Running
<1>2. /\ sb_number \in last_sn .. sample_number /\ sb_number \in Nat
      /\ sb_number + 1 \in last_sn .. sample_number
      /\ sb_number \in last_sn .. sb_number + 1
      /\ pc' = "drain" /\ sb_number' = sb_number + 1
      /\ UNCHANGED <<sample_number, last_t, last_sn, new_t>>
  BY <1>1, QueueTake DEF QueueInv, Take, clockVars
<1>3. /\ t \in Nat /\ SampleTime(sb_number + 1) \in Nat
      /\ t <= SampleTime(sb_number + 1)
  BY <1>1, <1>2, SampleTimes
<1>4. SampleTime(sb_number)' = SampleTime(sb_number + 1)
  BY <1>2 DEF SampleTime
<1>5. leap \in BOOLEAN  BY DEF LeapFlag
<1>6. EndTime \in Nat  BY Constants
<1> HIDE DEF t, leap
<1>7. CASE TakeLostSample
  <2>1. /\ files' = Flushed(FALSE) /\ data_pending' = FALSE
        /\ UNCHANGED <<record_number, output, first_file_created>>
    BY <1>7 DEF TakeLostSample
  <2>2. DOMAIN files' = DOMAIN files  BY <2>1, FlushedOK
  <2>3. \A name \in DOMAIN files' : SoundFile(files'[name])
    BY <2>1, <2>2, SoundFlushed
  <2>4. first_file_created => record_number = Len(files'[output])
    <3> SUFFICES ASSUME first_file_created PROVE record_number = Len(files'[output])
      OBVIOUS
    <3>1. output \in DOMAIN files  BY <1>1 DEF RecordInv
    <3> QED  BY <1>1, <2>1, <3>1, SoundFlushed DEF SoundInv
  <2>5. first_file_created => Len(files'[output]) + 0 = record_number
    BY <2>4 DEF RecordInv
  <2> QED  BY <1>2, <2>1, <2>3, <2>5 DEF SoundInv, Running
<1>8. CASE TakeOutsideWindow
  <2>1. /\ UNCHANGED <<record_number, record, data_pending, output,
                       first_file_created, files>>
        /\ t >= EndTime \/ ~first_file_created
    BY <1>8 DEF TakeOutsideWindow, recordVars, fileVars, t
  <2>2. data_pending => SampleTime(sb_number + 1) >= EndTime
    BY <1>3, <1>6, <2>1 DEF RecordInv
  <2> QED  BY <1>1, <1>2, <1>4, <2>1, <2>2 DEF SoundInv, Running, SoundFile, Sound
<1>9. CASE TakeIntoNewFile
  <2> DEFINE name == FileName(t)
             old == Flushed(leap)
  <2>1. /\ files' = [n \in DOMAIN old \cup {name} |-> IF n = name THEN <<>> ELSE old[n]]
        /\ output' = name /\ record_number' = 1
        /\ record' = Stored(NewRecord(1, t), sb_number, t)
        /\ data_pending' = TRUE
    BY <1>9 DEF TakeIntoNewFile, t, leap
  <2>2. DOMAIN old = DOMAIN files /\ \A n \in DOMAIN files : SoundFile(old[n])
    BY <1>5, FlushedOK, SoundFlushed
  <2> HIDE DEF old, name
  <2>3. \A n \in DOMAIN files' : SoundFile(files'[n])
    <3>1. SoundFile(<<>>)  BY DEF SoundFile
    <3> QED  BY <2>1, <2>2, <3>1
  <2>4. files'[output'] = <<>> /\ Len(files'[output']) = 0  BY <2>1
  <2>5. 1 \in Nat \ {0}  OBVIOUS
  <2>6. /\ Sound(record', 1)
        /\ record'.samples[1].k + Len(record'.samples) = sb_number + 1
    BY <1>2, <1>3, <2>1, <2>5, SoundNew
  <2>7. Len(files'[output']) + 1 = 1  BY <2>4
  <2> QED  BY <1>2, <2>1, <2>3, <2>6, <2>7 DEF SoundInv, Running
<1>10. CASE TakeIntoRecord
  <2>1. /\ t < EndTime /\ first_file_created /\ record_valid
        /\ Len(record.samples) < RecordCapacity
        /\ record' = Stored(record, sb_number, t) /\ data_pending' = TRUE
        /\ UNCHANGED <<record_number, output, first_file_created, files>>
    BY <1>10 DEF TakeIntoRecord, HasRoom, fileVars, t
  <2>2. data_pending /\ record \in Record  BY <1>1, <2>1 DEF OrderInv, RecordInv
  <2>3. Sound(record, Len(files[output]) + 1)  BY <2>2 DEF SoundInv
  <2>4. record.samples[1].k + Len(record.samples) = sb_number
    <3>1. ~(SampleTime(sb_number) >= EndTime)  BY <1>3, <1>6, <2>1 DEF t
    <3> QED  BY <1>1, <2>2, <3>1 DEF SoundInv
  <2>5. /\ Sound(record', Len(files[output]) + 1)
        /\ record'.samples[1].k + Len(record'.samples) = sb_number + 1
    BY <1>2, <1>3, <2>1, <2>2, <2>3, <2>4, SoundStored
  <2>6. record_number = Len(files[output]) + 1
    BY <1>1, <2>1, <2>2 DEF SoundInv
  <2> QED  BY <1>2, <2>1, <2>2, <2>5, <2>6 DEF SoundInv, SoundFile, Sound
<1>11. CASE TakeIntoNewRecord
  <2>1. /\ first_file_created /\ files' = Flushed(leap)
        /\ record_number' = record_number + 1
        /\ record' = Stored(NewRecord(record_number + 1, t), sb_number, t)
        /\ data_pending' = TRUE
        /\ UNCHANGED <<output, first_file_created>>
    BY <1>11 DEF TakeIntoNewRecord, t, leap
  <2>2. DOMAIN files' = DOMAIN files  BY <1>5, <2>1, FlushedOK
  <2>3. \A name \in DOMAIN files' : SoundFile(files'[name])
    BY <1>5, <2>1, <2>2, SoundFlushed
  <2>4. record_number = Len(files'[output])
    <3>1. output \in DOMAIN files  BY <1>1, <2>1 DEF RecordInv
    <3> QED  BY <1>1, <1>5, <2>1, <3>1, SoundFlushed DEF SoundInv
  <2>5. record_number + 1 \in Nat \ {0}  BY DEF RecordInv
  <2>6. /\ Sound(record', record_number + 1)
        /\ record'.samples[1].k + Len(record'.samples) = sb_number + 1
    BY <1>2, <1>3, <2>1, <2>5, SoundNew
  <2> QED  BY <1>2, <2>1, <2>3, <2>4, <2>6 DEF SoundInv, Running
<1> QED  BY <1>7, <1>8, <1>9, <1>10, <1>11

LEMMA SoundStep ==
  QueueInv /\ RecordInv /\ OrderInv /\ SoundInv /\ [Next]_vars => SoundInv'
<1> SUFFICES ASSUME QueueInv, RecordInv, OrderInv, SoundInv, [Next]_vars
             PROVE  SoundInv'
  OBVIOUS
<1>1. CASE Sample \/ LostSamples
  <2>1. /\ pc = "idle" /\ pc' = "idle"
        /\ UNCHANGED <<sb_number, last_t, record_number, record, data_pending, output,
                       first_file_created, files>>
    BY <1>1 DEF Sample, LostSamples, Push, clockVars, recordVars, fileVars
  <2> QED  BY <2>1 DEF SoundInv, Running, SoundFile, Sound
<1>2. ASSUME NEW t \in 0 .. MaxTime, FirstTime(t) PROVE SoundInv'
  <2>1. /\ pc = "idle" /\ last_sn = -1 /\ pc' = "idle"
        /\ UNCHANGED <<sb_number, record_number, record, data_pending, output,
                       first_file_created, files>>
    BY <1>2 DEF FirstTime, queueVars, recordVars, fileVars
  <2>2. ~data_pending
    <3> SUFFICES ASSUME data_pending PROVE FALSE  OBVIOUS
    <3>1. 1 \in 1 .. Len(record.samples)  BY Constants DEF SoundInv, Sound
    <3>2. record.samples[1] \in Stamps  BY <3>1 DEF Stamps, RecordStamps
    <3>3. record.samples[1].k \in Nat /\ record.samples[1].k < 0
      BY <2>1, <3>2 DEF OrderInv, Running, QueueInv
    <3> QED  BY <3>3
  <2> QED  BY <2>1, <2>2 DEF SoundInv, Running, SoundFile, Sound
<1>3. ASSUME NEW t \in 0 .. MaxTime, UseTime(t) PROVE SoundInv'
  <2>1. /\ pc = "idle" /\ pc' = "drain"
        /\ UNCHANGED <<sb_number, last_t, record_number, record, data_pending, output,
                       first_file_created, files>>
    BY <1>3 DEF UseTime, queueVars, recordVars, fileVars
  <2>2. SampleTime(sb_number)' = last_t  BY <1>3, IntervalStart
  <2> QED  BY <2>1, <2>2 DEF SoundInv, Running, SoundFile, Sound
<1>4. CASE TakeLostSample \/ TakeOutsideWindow \/ TakeIntoNewFile
           \/ TakeIntoRecord \/ TakeIntoNewRecord
  BY <1>4, SoundTake
<1>5. CASE UpdateState
  <2>1. /\ pc = "drain" /\ last_t' = new_t /\ pc' = "idle"
        /\ UNCHANGED <<sb_number, record_number, record, data_pending, output,
                       first_file_created, files>>
    BY <1>5 DEF UpdateState, queueVars, recordVars, fileVars
  <2>2. sb_number \in last_sn .. sample_number /\ new_t \in Nat
    BY <2>1 DEF QueueInv
  <2>3. SampleTime(sb_number) \in Nat /\ SampleTime(sb_number) <= new_t
    BY <2>1, <2>2, SampleTimes
  <2>4. SampleTime(sb_number) >= EndTime => new_t >= EndTime
    BY <2>2, <2>3, Constants
  <2> QED  BY <2>1, <2>4 DEF SoundInv, Running, SoundFile, Sound
<1>6. CASE Destroy \/ CreateFails
  <2>1. /\ pc' \in {"destroyed", "failed"} /\ data_pending' = FALSE
        /\ \E leap \in BOOLEAN : files' = Flushed(leap)
    BY <1>6 DEF Destroy, CreateFails, LeapFlag
  <2>2. PICK leap \in BOOLEAN : files' = Flushed(leap)  BY <2>1
  <2>3. \A name \in DOMAIN files' : SoundFile(files'[name])
    BY <2>2, FlushedOK, SoundFlushed
  <2> QED  BY <2>1, <2>3 DEF SoundInv, Running, SoundFile, Sound
<1>7. CASE FlushFails \/ Over \/ UNCHANGED vars
  <2>1. /\ UNCHANGED <<queueVars, clockVars, recordVars, fileVars, new_t>>
        /\ pc' = pc \/ pc' = "failed"
    BY <1>7 DEF FlushFails, Over, vars
  <2>2. SampleTime(sb_number)' = SampleTime(sb_number)
    BY <2>1 DEF SampleTime, queueVars, clockVars
  <2> QED  BY <2>1, <2>2 DEF SoundInv, Running, SoundFile, Sound,
                             queueVars, clockVars, recordVars, fileVars
<1> QED  BY <1>1, <1>2, <1>3, <1>4, <1>5, <1>6, <1>7 DEF Next, Loop

LEMMA SoundGives == ASSUME RecordInv, SoundInv PROVE RecordsSound
<1> SUFFICES ASSUME NEW name \in DOMAIN files,
                    NEW i \in 1 .. Len(RecordsOf(name))
             PROVE  Sound(RecordsOf(name)[i], i)
  BY DEF RecordsSound, Sound
<1>1. files[name] \in Seq(Record) /\ SoundFile(files[name])
  BY DEF RecordInv, SoundInv
<1>2. CASE data_pending /\ name = output
  <2>1. RecordsOf(name) = files[name] \o <<record>> /\ record \in Record
    BY <1>2 DEF RecordsOf, RecordInv
  <2>2. /\ i \in 1 .. Len(files[name]) + 1
        /\ RecordsOf(name)[i] = IF i <= Len(files[name]) THEN files[name][i] ELSE record
    BY <1>1, <2>1
  <2>3. CASE i <= Len(files[name])
    <3>1. i \in 1 .. Len(files[name])  BY <1>1, <2>2, <2>3
    <3> QED  BY <1>1, <2>2, <2>3, <3>1 DEF SoundFile
  <2>4. CASE ~(i <= Len(files[name]))
    <3>1. i = Len(files[name]) + 1  BY <1>1, <2>2, <2>4
    <3> QED  BY <1>2, <2>2, <2>4, <3>1 DEF SoundInv
  <2> QED  BY <2>3, <2>4
<1>3. CASE ~(data_pending /\ name = output)
  <2>1. RecordsOf(name) = files[name] \o <<>>  BY <1>3 DEF RecordsOf
  <2>2. RecordsOf(name) = files[name]  BY <1>1, <2>1
  <2> QED  BY <1>1, <2>2 DEF SoundFile
<1> QED  BY <1>2, <1>3

\* The records of each file are numbered from 1, never overfull, start at the
\* time of their first sample and hold consecutive samples (wmseed.h,
\* wmseed__new_record and wmseed__time).
THEOREM SoundRecords == Spec => []RecordsSound
<1>1. Init => SoundInv
  <2> SUFFICES ASSUME Init PROVE SoundInv  OBVIOUS
  <2>1. DOMAIN files = {} /\ data_pending = FALSE /\ first_file_created = FALSE
    BY DEF Init
  <2> QED  BY <2>1 DEF SoundInv
<1>2. RecordInv /\ SoundInv => RecordsSound  BY SoundGives
<1> QED  BY <1>1, <1>2, SoundStep, Invariance, OrderInvariance, PTL DEF Spec

-----------------------------------------------------------------------------
\* Sections and the names of files

\* The section that a file name tells.
SectionOf(name) == IF Cut = 0 THEN 0 ELSE (name.unit * NameUnit) \div Cut

\* Files are cut at full units of their names, and a leap second begins with a
\* second.
NamesTellSections ==
  /\ \E units \in Nat : Cut = units * NameUnit
  /\ \E seconds \in Nat : LeapSecond = seconds * Second

LEMMA Floor ==
  ASSUME NEW a \in Int, NEW d \in Nat \ {0}
  PROVE  /\ a \div d \in Int /\ d * (a \div d) <= a /\ a < d * ((a \div d) + 1)
OBVIOUS

LEMMA Distributes ==
  ASSUME NEW d \in Int, NEW x \in Int, NEW y \in Int
  PROVE  d * (x + y) = d * x + d * y
OBVIOUS

LEMMA Cancel ==
  ASSUME NEW d \in Nat \ {0}, NEW x \in Int, NEW y \in Int, d * x < d * y
  PROVE  x < y
<1> SUFFICES ASSUME y <= x PROVE FALSE  OBVIOUS
<1>1. PICK z \in Nat : x = y + z
  <2>1. x - y \in Nat /\ x = y + (x - y)  OBVIOUS
  <2> QED  BY <2>1
<1>2. d * x = d * y + d * z  BY <1>1
<1>3. d * z \in Nat /\ d * y \in Int  OBVIOUS
<1> QED  BY <1>2, <1>3

\* A quotient is known by its bounds.
LEMMA FloorIs ==
  ASSUME NEW a \in Int, NEW d \in Nat \ {0}, NEW q \in Int,
         d * q <= a, a < d * (q + 1)
  PROVE  a \div d = q
<1> DEFINE p == a \div d
<1>1. p \in Int /\ d * p <= a /\ a < d * (p + 1)  BY Floor
<1> HIDE DEF p
<1>2. p + 1 \in Int /\ q + 1 \in Int
      /\ d * p \in Int /\ d * q \in Int /\ d * (p + 1) \in Int /\ d * (q + 1) \in Int
  BY <1>1
<1>3. d * p < d * (q + 1) /\ d * q < d * (p + 1)  BY <1>1, <1>2
<1>4. p < q + 1 /\ q < p + 1  BY <1>1, <1>2, <1>3, Cancel
<1>5. p = q  BY <1>1, <1>4
<1> QED  BY <1>5 DEF p

\* A time lies in the section that the name of its file tells.
LEMMA NameTellsSection ==
  ASSUME NamesTellSections, NEW t \in Nat
  PROVE  SectionOf(FileName(t)) = CutSection(t) /\ CutSection(t) \in Int
<1>1. CASE Cut = 0  BY <1>1 DEF SectionOf, CutSection
<1>2. CASE Cut # 0
  <2>1. PICK c \in Nat : Cut = c * NameUnit  BY DEF NamesTellSections
  <2>2. Second \in Nat \ {0} /\ NameUnit \in Nat \ {0}  BY Constants
  <2>3. c \in Nat \ {0}
    <3>1. c # 0
      <4> SUFFICES ASSUME c = 0 PROVE FALSE  OBVIOUS
      <4>1. c * NameUnit = 0  BY <2>2
      <4> QED  BY <1>2, <2>1, <4>1
    <3> QED  BY <3>1
  <2> DEFINE a == Utc(t)
             d == Second * NameUnit
             u == a \div d
             q == a \div (Second * Cut)
  <2>4. a \in Int  BY Constants DEF Utc, tai_utc_diff
  <2>5. d \in Nat \ {0}  BY <2>2
  <2>6. Second * Cut = d * c  BY <2>1, <2>2, <2>3
  <2>7. d * c \in Nat \ {0}  BY <2>3, <2>5
  <2>8. u \in Int /\ d * u <= a /\ a < d * (u + 1)  BY <2>4, <2>5, Floor
  <2>9. q \in Int /\ (d * c) * q <= a /\ a < (d * c) * (q + 1)
    BY <2>4, <2>6, <2>7, Floor
  <2>10. FileName(t).unit = u /\ CutSection(t) = q
    BY <1>2 DEF FileName, CutSection
  <2> HIDE DEF a, d, u, q
  <2>11. c * q <= u /\ u < c * (q + 1)
    <3>1. (d * c) * q = d * (c * q) /\ (d * c) * (q + 1) = d * (c * (q + 1))
      BY <2>3, <2>5, <2>9
    <3>2. c * q \in Int /\ c * (q + 1) \in Int  BY <2>3, <2>9
    <3>3. d * (c * q) < d * (u + 1) /\ d * u < d * (c * (q + 1))
      <4>1. d * (c * q) \in Int /\ d * (u + 1) \in Int /\ d * u \in Int
            /\ d * (c * (q + 1)) \in Int
        BY <2>5, <2>8, <3>2
      <4> QED  BY <2>4, <2>8, <2>9, <3>1, <4>1
    <3>4. c * q < u + 1 /\ u < c * (q + 1)
      BY <2>5, <2>8, <3>2, <3>3, Cancel
    <3> QED  BY <2>8, <3>2, <3>4
  <2>12. (u * NameUnit) \div Cut = q
    <3>1. u * NameUnit \in Int /\ Cut \in Nat \ {0}  BY <1>2, <2>2, <2>8, Constants
    <3>2. Cut * q <= u * NameUnit
      <4>1. Cut * q = NameUnit * (c * q)  BY <2>1, <2>2, <2>3, <2>9
      <4>2. NameUnit * (c * q) <= NameUnit * u
        <5>1. PICK z \in Nat : u = c * q + z
          <6>1. c * q \in Int  BY <2>3, <2>9
          <6>2. u - c * q \in Nat /\ u = c * q + (u - c * q)  BY <2>8, <2>11, <6>1
          <6> QED  BY <6>2
        <5>2. c * q \in Int  BY <2>3, <2>9
        <5>3. NameUnit * u = NameUnit * (c * q) + NameUnit * z
          BY <2>2, <5>1, <5>2
        <5>4. NameUnit * z \in Nat /\ NameUnit * (c * q) \in Int  BY <2>2, <5>2
        <5> QED  BY <5>3, <5>4
      <4>3. NameUnit * u = u * NameUnit  BY <2>2, <2>8
      <4> QED  BY <4>1, <4>2, <4>3
    <3>3. u * NameUnit < Cut * (q + 1)
      <4>1. Cut * (q + 1) = NameUnit * (c * (q + 1))  BY <2>1, <2>2, <2>3, <2>9
      <4>2. c * (q + 1) \in Int  BY <2>3, <2>9
      <4>3. PICK z \in Nat \ {0} : c * (q + 1) = u + z
        <5>1. c * (q + 1) - u \in Nat \ {0} /\ c * (q + 1) = u + (c * (q + 1) - u)
          BY <2>8, <2>11, <4>2
        <5> QED  BY <5>1
      <4>4. NameUnit * (u + z) = NameUnit * u + NameUnit * z  BY <2>2, <2>8
      <4>5. NameUnit * z \in Nat \ {0} /\ NameUnit * u \in Int  BY <2>2, <2>8
      <4>6. NameUnit * u = u * NameUnit  BY <2>2, <2>8
      <4> QED  BY <4>1, <4>3, <4>4, <4>5, <4>6
    <3> QED  BY <2>9, <3>1, <3>2, <3>3, FloorIs
  <2> QED  BY <1>2, <2>9, <2>10, <2>12 DEF SectionOf
<1> QED  BY <1>1, <1>2

\* Sections follow each other in time, also where a leap second is inserted.
LEMMA SectionsAscend ==
  ASSUME NamesTellSections, NEW t \in Nat, NEW u \in Nat, t <= u
  PROVE  CutSection(t) <= CutSection(u)
<1>1. CASE Cut = 0  BY <1>1 DEF CutSection
<1>2. CASE Cut # 0
  <2> DEFINE d == Second * Cut
             p == Utc(t) \div d
             q == Utc(u) \div d
  <2>1. /\ Second \in Nat \ {0} /\ Cut \in Nat \ {0} /\ LeapSecond \in Nat
    BY <1>2, Constants
  <2>2. d \in Nat \ {0}  BY <2>1
  <2>3. Utc(t) \in Int /\ Utc(u) \in Int  BY <2>1 DEF Utc, tai_utc_diff
  <2>4. /\ p \in Int /\ d * p <= Utc(t) /\ q \in Int /\ Utc(u) < d * (q + 1)
    BY <2>2, <2>3, Floor
  <2>5. CutSection(t) = p /\ CutSection(u) = q  BY <1>2 DEF CutSection
  <2>6. d * p = Second * (Cut * p)  BY <2>1, <2>4
  <2> HIDE DEF d, p, q
  <2>7. d * p \in Int /\ d * (q + 1) \in Int  BY <2>2, <2>4
  <2>8. d * p <= Utc(u)
    <3>1. CASE Utc(t) <= Utc(u)  BY <2>3, <2>4, <2>7, <3>1
    <3>2. CASE ~(Utc(t) <= Utc(u))
      <4>1. /\ t < LeapSecond /\ LeapSecond <= u /\ Utc(t) = t /\ Utc(u) = u - Second
        BY <2>1, <3>2 DEF Utc, tai_utc_diff
      <4>2. PICK m \in Nat : LeapSecond = m * Second  BY DEF NamesTellSections
      <4>3. Second * (Cut * p) < Second * m
        <5>1. m * Second = Second * m  BY <2>1
        <5> QED  BY <2>1, <2>4, <2>6, <2>7, <4>1, <4>2, <5>1
      <4>4. Cut * p \in Int  BY <2>1, <2>4
      <4>5. Cut * p < m  BY <2>1, <4>3, <4>4, Cancel
      <4>6. Second * (Cut * p) <= Second * m - Second
        <5>1. PICK z \in Nat : m - 1 = Cut * p + z
          <6>1. m - 1 - Cut * p \in Nat /\ m - 1 = Cut * p + (m - 1 - Cut * p)
            BY <4>4, <4>5
          <6> QED  BY <6>1
        <5>2. Second * (Cut * p + z) = Second * (Cut * p) + Second * z
          BY <2>1, <4>4, Distributes
        <5>3. Second * (m - 1) = Second * m - Second  BY <2>1
        <5>4. Second * z \in Nat /\ Second * (Cut * p) \in Int  BY <2>1, <4>4
        <5> QED  BY <5>1, <5>2, <5>3, <5>4
      <4>7. Second * m = LeapSecond  BY <2>1, <4>2
      <4> QED  BY <2>1, <2>6, <2>7, <4>1, <4>6, <4>7
    <3> QED  BY <3>1, <3>2
  <2>9. d * p < d * (q + 1)  BY <2>3, <2>4, <2>7, <2>8
  <2>10. p < q + 1  BY <2>2, <2>4, <2>9, Cancel
  <2> QED  BY <2>4, <2>5, <2>10
<1> QED  BY <1>1, <1>2

-----------------------------------------------------------------------------
\* Samples in files

\* Place j of record i of a file has a sample.
Place(name, i, j) ==
  /\ name \in DOMAIN files
  /\ i \in 1 .. Len(RecordsOf(name)) /\ j \in 1 .. Len(RecordsOf(name)[i].samples)
Entry(name, i, j) ==
  [name |-> name, at |-> <<i, j>>, k |-> RecordsOf(name)[i].samples[j].k,
   t |-> RecordsOf(name)[i].samples[j].t]

\* Each file holds one section and each section has one file; the open one is
\* the last.  No sample to come is from an earlier section or from before the
\* start time.
SectionInv ==
  /\ \A name \in DOMAIN files :
       SectionOf(name) \in Int /\ SectionOf(name) <= cut_section
  /\ \A a, b \in DOMAIN files : SectionOf(a) = SectionOf(b) => a = b
  /\ \A w \in Written :
       w.name \in DOMAIN files /\ CutSection(w.t) = SectionOf(w.name)
  /\ ~first_file_created => DOMAIN files = {}
  /\ last_sn = -1 => ~first_file_created
  /\ Running /\ first_file_created => SectionOf(output) = cut_section
  /\ pc = "idle" /\ first_file_created =>
       cut_section <= CutSection(last_t) /\ StartTime <= last_t
  /\ pc = "drain" /\ first_file_created =>
       /\ cut_section <= CutSection(SampleTime(sb_number))
       /\ StartTime <= SampleTime(sb_number)

\* WindowComplete, and finitely many samples.
CompleteInv ==
  /\ IsFiniteSet(Written) /\ IsFiniteSet(due)
  /\ WindowComplete

LEMMA WrittenIs ==
  \A w : w \in Written <=> \E name, i, j : Place(name, i, j) /\ w = Entry(name, i, j)
<1> DEFINE InRecord(n, l) == {Entry(n, l, m) : m \in 1 .. Len(RecordsOf(n)[l].samples)}
           InFile(n) == UNION {InRecord(n, l) : l \in 1 .. Len(RecordsOf(n))}
<1>1. Written = UNION {InFile(n) : n \in DOMAIN files}  BY DEF Written, Entry
<1>2. \A n, w : w \in InFile(n) <=>
        \E l \in 1 .. Len(RecordsOf(n)) : w \in InRecord(n, l)
  OBVIOUS
<1>3. \A n, l, w : w \in InRecord(n, l) <=>
        \E m \in 1 .. Len(RecordsOf(n)[l].samples) : w = Entry(n, l, m)
  OBVIOUS
<1> HIDE DEF InFile, InRecord
<1>4. \A w : w \in Written <=> \E n \in DOMAIN files : w \in InFile(n)  BY <1>1
<1> QED  BY <1>2, <1>3, <1>4 DEF Place

LEMMA RecordsTyped ==
  ASSUME RecordInv, NEW name \in DOMAIN files
  PROVE  RecordsOf(name) \in Seq(Record)
<1>1. files[name] \in Seq(Record)  BY DEF RecordInv
<1>2. CASE data_pending /\ name = output
  <2>1. record \in Record  BY <1>2 DEF RecordInv
  <2> QED  BY <1>1, <1>2, <2>1 DEF RecordsOf
<1>3. CASE ~(data_pending /\ name = output)
  <2>1. RecordsOf(name) = files[name] \o <<>>  BY <1>3 DEF RecordsOf
  <2> QED  BY <1>1, <2>1
<1> QED  BY <1>2, <1>3

\* Writing the pending record keeps every sample at its place.
LEMMA FlushedRecords ==
  ASSUME RecordInv, NEW leap \in BOOLEAN, NEW name \in DOMAIN files
  PROVE  /\ Flushed(leap)[name] \in Seq(Record)
         /\ Len(Flushed(leap)[name]) = Len(RecordsOf(name))
         /\ Len(RecordsOf(name)) \in Nat
         /\ \A i \in 1 .. Len(RecordsOf(name)) :
              Flushed(leap)[name][i].samples = RecordsOf(name)[i].samples
<1>1. Flushed(leap)[name] \in Seq(Record) /\ files[name] \in Seq(Record)
  BY FlushedOK DEF RecordInv
<1>2. CASE data_pending /\ name = output
  <2> DEFINE r == [record EXCEPT !.leap = leap]
  <2>1. record \in Record  BY <1>2 DEF RecordInv
  <2>2. r \in Record /\ r.samples = record.samples  BY <2>1 DEF Record
  <2>3. Flushed(leap)[name] = Append(files[name], r)  BY <1>2 DEF Flushed
  <2>4. RecordsOf(name) = Append(files[name], record)
    BY <1>1, <1>2, <2>1 DEF RecordsOf
  <2> HIDE DEF r
  <2> QED  BY <1>1, <2>1, <2>2, <2>3, <2>4
<1>3. CASE ~(data_pending /\ name = output)
  <2>1. Flushed(leap)[name] = files[name]  BY <1>3 DEF Flushed
  <2>2. RecordsOf(name) = files[name] \o <<>>  BY <1>3 DEF RecordsOf
  <2>3. RecordsOf(name) = files[name]  BY <1>1, <2>2
  <2> QED  BY <1>1, <2>1, <2>3
<1> QED  BY <1>2, <1>3

\* A step that keeps the places and their samples.
LEMMA SamePlaces ==
  ASSUME DOMAIN files' = DOMAIN files,
         \A name \in DOMAIN files :
           /\ Len(RecordsOf(name)') = Len(RecordsOf(name))
           /\ \A i \in 1 .. Len(RecordsOf(name)) :
                RecordsOf(name)'[i].samples = RecordsOf(name)[i].samples
  PROVE  Written' = Written
<1>1. \A name, i, j : Place(name, i, j)' <=> Place(name, i, j)  BY DEF Place
<1>2. \A name, i, j : Place(name, i, j) => Entry(name, i, j)' = Entry(name, i, j)
  BY DEF Place, Entry
<1>3. (\A w : w \in Written <=> \E name, i, j : Place(name, i, j) /\ w = Entry(name, i, j))'
  BY WrittenIs, PTL
<1>4. \A w : w \in Written' <=> w \in Written
  BY <1>1, <1>2, <1>3, WrittenIs
<1> QED  BY <1>4

\* A step that adds one place.
LEMMA OneMorePlace ==
  ASSUME NEW n, NEW i0, NEW j0, NEW s,
         \A name, i, j : Place(name, i, j)' <=>
           Place(name, i, j) \/ (name = n /\ i = i0 /\ j = j0),
         \A name, i, j : Place(name, i, j) => Entry(name, i, j)' = Entry(name, i, j),
         RecordsOf(n)'[i0].samples[j0] = s
  PROVE  Written' = Written \cup {[name |-> n, at |-> <<i0, j0>>, k |-> s.k, t |-> s.t]}
<1> DEFINE e == [name |-> n, at |-> <<i0, j0>>, k |-> s.k, t |-> s.t]
<1>1. Entry(n, i0, j0)' = e  BY DEF Entry
<1>2. (\A w : w \in Written <=> \E name, i, j : Place(name, i, j) /\ w = Entry(name, i, j))'
  BY WrittenIs, PTL
<1> HIDE DEF e
<1>3. \A w : w \in Written' <=> w \in Written \/ w = e
  BY <1>1, <1>2, WrittenIs
<1> QED  BY <1>3 DEF e

\* A step that writes the pending record, or writes nothing.
LEMMA FlushKeeps ==
  ASSUME RecordInv, NEW leap \in BOOLEAN, files' = Flushed(leap), data_pending' = FALSE
  PROVE  Written' = Written /\ DOMAIN files' = DOMAIN files
<1>1. DOMAIN files' = DOMAIN files  BY FlushedOK
<1>2. ASSUME NEW name \in DOMAIN files
      PROVE  /\ Len(RecordsOf(name)') = Len(RecordsOf(name))
             /\ \A i \in 1 .. Len(RecordsOf(name)) :
                  RecordsOf(name)'[i].samples = RecordsOf(name)[i].samples
  <2>1. RecordsOf(name)' = Flushed(leap)[name] \o <<>>  BY DEF RecordsOf
  <2>2. RecordsOf(name)' = Flushed(leap)[name]  BY <2>1, FlushedRecords
  <2> QED  BY <2>2, FlushedRecords
<1> QED  BY <1>1, <1>2, SamePlaces

LEMMA StillKeeps ==
  ASSUME UNCHANGED <<files, data_pending, output, record>>
  PROVE  Written' = Written /\ DOMAIN files' = DOMAIN files
BY DEF Written, RecordsOf

LEMMA OneMore ==
  ASSUME NEW S, NEW f \in Seq(S), NEW e \in S
  PROVE  /\ Len(f \o <<e>>) = Len(f) + 1 /\ (f \o <<e>>)[Len(f) + 1] = e
         /\ \A i \in 1 .. Len(f) : (f \o <<e>>)[i] = f[i]
OBVIOUS

LEMMA NewFileAdds ==
  ASSUME RecordInv, NEW leap \in BOOLEAN, NEW name, name \notin DOMAIN files,
         NEW k \in Nat, NEW t \in Nat,
         files' = [n \in DOMAIN Flushed(leap) \cup {name} |->
                     IF n = name THEN <<>> ELSE Flushed(leap)[n]],
         output' = name, data_pending' = TRUE,
         record' = Stored(NewRecord(1, t), k, t)
  PROVE  /\ Written' = Written \cup {[name |-> name, at |-> <<1, 1>>, k |-> k, t |-> t]}
         /\ DOMAIN files' = DOMAIN files \cup {name}
<1>1. DOMAIN files' = DOMAIN files \cup {name}  BY FlushedOK
<1> DEFINE s == [k |-> k, t |-> t]
<1>2. record'.samples = <<s>>  BY DEF Stored, NewRecord
<1>3. RecordsOf(name)' = <<>> \o <<record'>>  BY <1>1 DEF RecordsOf
<1>4. RecordsOf(name)' = <<record'>>  BY <1>3
<1>5. Len(RecordsOf(name)') = 1 /\ RecordsOf(name)'[1] = record'  BY <1>4
<1> HIDE DEF s
<1>6. Len(RecordsOf(name)'[1].samples) = 1 /\ RecordsOf(name)'[1].samples[1] = s
  <2>1. RecordsOf(name)'[1].samples = <<s>>  BY <1>2, <1>5
  <2> QED  BY <2>1
<1>7. ASSUME NEW n \in DOMAIN files PROVE RecordsOf(n)' = Flushed(leap)[n]
  <2>1. n # name /\ n \in DOMAIN Flushed(leap)  BY <1>7, FlushedOK
  <2>2. RecordsOf(n)' = Flushed(leap)[n] \o <<>>  BY <2>1 DEF RecordsOf
  <2> QED  BY <1>7, <2>2, FlushedRecords
<1>8. \A n, i, j : Place(n, i, j)' <=> Place(n, i, j) \/ (n = name /\ i = 1 /\ j = 1)
  <2>1. ASSUME NEW n, NEW i, NEW j, n \in DOMAIN files
        PROVE  Place(n, i, j)' <=> Place(n, i, j)
    BY <1>1, <1>7, <2>1, FlushedRecords DEF Place
  <2>2. ASSUME NEW i, NEW j
        PROVE  Place(name, i, j)' <=> i = 1 /\ j = 1
    <3>1. i \in 1 .. 1 <=> i = 1  OBVIOUS
    <3>2. j \in 1 .. 1 <=> j = 1  OBVIOUS
    <3>3. Place(name, i, j)' <=> i = 1 /\ j \in 1 .. Len(RecordsOf(name)'[i].samples)
      BY <1>1, <1>5, <3>1 DEF Place
    <3> QED  BY <1>6, <3>2, <3>3
  <2> QED  BY <1>1, <2>1, <2>2 DEF Place
<1>9. \A n, i, j : Place(n, i, j) => Entry(n, i, j)' = Entry(n, i, j)
  BY <1>7, FlushedRecords, ZenonT(60) DEF Place, Entry
<1>10. s.k = k /\ s.t = t  BY DEF s
<1> QED  BY <1>1, <1>6, <1>8, <1>9, <1>10, OneMorePlace

LEMMA NewRecordAdds ==
  ASSUME RecordInv, NEW leap \in BOOLEAN, NEW number \in Nat \ {0},
         NEW k \in Nat, NEW t \in Nat, NEW o \in DOMAIN files, output = o,
         files' = Flushed(leap), output' = o, data_pending' = TRUE,
         record' = Stored(NewRecord(number, t), k, t)
  PROVE  /\ \E at : Written' = Written
                      \cup {[name |-> o, at |-> at, k |-> k, t |-> t]}
         /\ DOMAIN files' = DOMAIN files
<1>1. DOMAIN files' = DOMAIN files  BY FlushedOK
<1> DEFINE s == [k |-> k, t |-> t]
           l == Len(RecordsOf(o))
<1>2. record'.samples = <<s>>  BY DEF Stored, NewRecord
<1>3. RecordsOf(o)' = Flushed(leap)[o] \o <<record'>>  BY DEF RecordsOf
<1>4. /\ l \in Nat /\ Flushed(leap)[o] \in Seq(Record)
      /\ Len(Flushed(leap)[o]) = l /\ record' \in Record /\ Len(RecordsOf(o)) = l
  BY FlushedRecords, NewRecordIs, StoredIs
<1> HIDE DEF l, s
<1>5. /\ Len(RecordsOf(o)') = l + 1 /\ RecordsOf(o)'[l + 1] = record'
      /\ \A i \in 1 .. l : RecordsOf(o)'[i] = Flushed(leap)[o][i]
  <2> DEFINE f == Flushed(leap)[o]
  <2>1. f \in Seq(Record) /\ Len(f) = l /\ record' \in Record
        /\ RecordsOf(o)' = f \o <<record'>>
    BY <1>3, <1>4
  <2> HIDE DEF f
  <2>2. /\ Len(f \o <<record'>>) = Len(f) + 1 /\ (f \o <<record'>>)[Len(f) + 1] = record'
        /\ \A i \in 1 .. Len(f) : (f \o <<record'>>)[i] = f[i]
    BY <2>1, OneMore
  <2>3. /\ Len(RecordsOf(o)') = l + 1 /\ RecordsOf(o)'[l + 1] = record'
        /\ \A i \in 1 .. l : RecordsOf(o)'[i] = f[i]
    BY <2>1, <2>2
  <2> QED  BY <2>3 DEF f
<1>6. Len(RecordsOf(o)'[l + 1].samples) = 1
      /\ RecordsOf(o)'[l + 1].samples[1] = s
  <2>1. RecordsOf(o)'[l + 1].samples = <<s>>  BY <1>2, <1>5
  <2> QED  BY <2>1
<1>7. ASSUME NEW n \in DOMAIN files, n # o PROVE RecordsOf(n)' = Flushed(leap)[n]
  <2>2. RecordsOf(n)' = Flushed(leap)[n] \o <<>>  BY <1>7 DEF RecordsOf
  <2> QED  BY <1>7, <2>2, FlushedRecords
<1>8. \A i \in 1 .. l : RecordsOf(o)'[i].samples = RecordsOf(o)[i].samples
  BY <1>5, FlushedRecords DEF l
<1>9. \A n, i, j : Place(n, i, j)' <=> Place(n, i, j) \/ (n = o /\ i = l + 1 /\ j = 1)
  <2>1. ASSUME NEW n, NEW i, NEW j, n # o
        PROVE  Place(n, i, j)' <=> Place(n, i, j)
    BY <1>1, <1>7, <2>1, FlushedRecords DEF Place
  <2>2. ASSUME NEW i, NEW j
        PROVE  Place(o, i, j)' <=> Place(o, i, j) \/ (i = l + 1 /\ j = 1)
    <3>1. i \in 1 .. l + 1 <=> i \in 1 .. l \/ i = l + 1  BY <1>4
    <3>2. ~(l + 1 \in 1 .. l)  BY <1>4
    <3>3. CASE i \in 1 .. l  BY <1>1, <1>4, <1>5, <1>8, <3>1, <3>2, <3>3 DEF Place
    <3>4. CASE i = l + 1
      <4>1. ~Place(o, i, j)  BY <1>4, <3>2, <3>4 DEF Place
      <4>2. l + 1 \in 1 .. l + 1  BY <1>4
      <4>3. Place(o, i, j)' <=> j \in 1 .. 1
        BY <1>1, <1>5, <1>6, <3>4, <4>2 DEF Place
      <4>4. j \in 1 .. 1 <=> j = 1  OBVIOUS
      <4> QED  BY <3>4, <4>1, <4>3, <4>4
    <3>5. CASE i \notin 1 .. l + 1  BY <1>4, <1>5, <3>1, <3>5 DEF Place
    <3> QED  BY <3>1, <3>3, <3>4, <3>5
  <2> QED  BY <2>1, <2>2
<1>10. \A n, i, j : Place(n, i, j) => Entry(n, i, j)' = Entry(n, i, j)
  <2> SUFFICES ASSUME NEW n, NEW i, NEW j, Place(n, i, j)
               PROVE  Entry(n, i, j)' = Entry(n, i, j)
    OBVIOUS
  <2>1. CASE n = o  BY <1>8, <2>1 DEF Place, Entry, l
  <2>2. CASE n # o  BY <1>7, <2>2, FlushedRecords, ZenonT(60) DEF Place, Entry
  <2> QED  BY <2>1, <2>2
<1>11. s.k = k /\ s.t = t  BY DEF s
<1>12. Written' = Written \cup {[name |-> o, at |-> <<l + 1, 1>>, k |-> k, t |-> t]}
  BY <1>6, <1>9, <1>10, <1>11, OneMorePlace
<1> QED  BY <1>1, <1>12

LEMMA StoredAdds ==
  ASSUME RecordInv, NEW k \in Nat, NEW t \in Nat, data_pending,
         NEW o, output = o, output' = o, UNCHANGED files, data_pending' = TRUE,
         record' = Stored(record, k, t)
  PROVE  \E at : Written' = Written
                   \cup {[name |-> o, at |-> at, k |-> k, t |-> t]}
<1> DEFINE s == [k |-> k, t |-> t]
           l == Len(files[o])
           m == Len(record.samples)
<1>1. /\ o \in DOMAIN files /\ files[o] \in Seq(Record) /\ record \in Record
      /\ l \in Nat /\ record.samples \in Seq([k : Nat, t : Nat]) /\ m \in Nat
  BY DEF RecordInv, Record
<1>2. record'.samples = Append(record.samples, s)  BY <1>1 DEF Stored, Record
<1>3. /\ Len(record'.samples) = m + 1 /\ record'.samples[m + 1] = s
      /\ \A j \in 1 .. m : record'.samples[j] = record.samples[j]
  BY <1>1, <1>2
<1>4. RecordsOf(o)' = files[o] \o <<record'>>
      /\ RecordsOf(o) = files[o] \o <<record>>
  BY DEF RecordsOf
<1> HIDE DEF l, m, s
<1>5. /\ Len(RecordsOf(o)') = l + 1 /\ Len(RecordsOf(o)) = l + 1
      /\ RecordsOf(o)'[l + 1] = record' /\ RecordsOf(o)[l + 1] = record
      /\ \A i \in 1 .. l : RecordsOf(o)'[i] = RecordsOf(o)[i]
  BY <1>1, <1>4 DEF l
<1>6. ASSUME NEW n \in DOMAIN files, n # o PROVE RecordsOf(n)' = RecordsOf(n)
  BY <1>6 DEF RecordsOf
<1>7. \A n, i, j : Place(n, i, j)' <=> Place(n, i, j) \/ (n = o /\ i = l + 1 /\ j = m + 1)
  <2>1. ASSUME NEW n, NEW i, NEW j, n # o
        PROVE  Place(n, i, j)' <=> Place(n, i, j)
    BY <1>6, <2>1 DEF Place
  <2>2. ASSUME NEW i, NEW j
        PROVE  Place(o, i, j)' <=> Place(o, i, j) \/ (i = l + 1 /\ j = m + 1)
    <3>1. i \in 1 .. l + 1 <=> i \in 1 .. l \/ i = l + 1  BY <1>1
    <3>2. ~(l + 1 \in 1 .. l) /\ l + 1 \in 1 .. l + 1  BY <1>1
    <3>3. CASE i \in 1 .. l  BY <1>1, <1>5, <3>1, <3>2, <3>3 DEF Place
    <3>4. CASE i = l + 1
      <4>1. j \in 1 .. m + 1 <=> j \in 1 .. m \/ j = m + 1  BY <1>1
      <4>2. Place(o, l + 1, j) <=> j \in 1 .. m  BY <1>1, <1>5, <3>2 DEF Place, m
      <4>3. Len(RecordsOf(o)'[l + 1].samples) = m + 1  BY <1>3, <1>5
      <4>4. Place(o, i, j)' <=> j \in 1 .. Len(RecordsOf(o)'[i].samples)
        BY <1>1, <1>5, <3>2, <3>4 DEF Place
      <4>5. Place(o, i, j)' <=> j \in 1 .. m + 1  BY <3>4, <4>3, <4>4
      <4>6. Place(o, i, j) <=> j \in 1 .. m  BY <3>4, <4>2
      <4> QED  BY <3>4, <4>1, <4>5, <4>6
    <3>5. CASE i \notin 1 .. l + 1  BY <1>5, <3>1, <3>5 DEF Place
    <3> QED  BY <3>1, <3>3, <3>4, <3>5
  <2> QED  BY <2>1, <2>2
<1>8. \A n, i, j : Place(n, i, j) => Entry(n, i, j)' = Entry(n, i, j)
  <2> SUFFICES ASSUME NEW n, NEW i, NEW j, Place(n, i, j)
               PROVE  Entry(n, i, j)' = Entry(n, i, j)
    OBVIOUS
  <2>1. CASE n = o
    <3>1. i \in 1 .. l \/ i = l + 1  BY <1>1, <1>5, <2>1 DEF Place
    <3>2. CASE i \in 1 .. l  BY <1>5, <2>1, <3>2 DEF Place, Entry
    <3>3. CASE i = l + 1  BY <1>3, <1>5, <2>1, <3>3 DEF Place, Entry, m
    <3> QED  BY <3>1, <3>2, <3>3
  <2>2. CASE n # o  BY <1>6, <2>2 DEF Place, Entry
  <2> QED  BY <2>1, <2>2
<1>9. RecordsOf(o)'[l + 1].samples[m + 1] = s  BY <1>3, <1>5
<1>10. s.k = k /\ s.t = t  BY DEF s
<1>11. Written' = Written
         \cup {[name |-> o, at |-> <<l + 1, m + 1>>, k |-> k, t |-> t]}
  BY <1>7, <1>8, <1>9, <1>10, OneMorePlace
<1> QED  BY <1>11

\* A file that is created is a new one: its section comes after all others.
LEMMA NewFileIsNew ==
  ASSUME NamesTellSections, QueueInv, RecordInv, SectionInv, TakeIntoNewFile
  PROVE  /\ FileName(SampleTime(sb_number)) \notin DOMAIN files
         /\ first_file_created => cut_section < CutSection(SampleTime(sb_number))
<1> DEFINE t == SampleTime(sb_number)
<1>1. /\ More /\ Take /\ pc = "drain"
      /\ first_file_created => cut_section # CutSection(t)
  BY DEF TakeIntoNewFile, More, StartsFile
<1>2. sb_number \in last_sn .. sample_number  BY <1>1, QueueTake DEF QueueInv
<1>3. t \in Nat  BY <1>1, <1>2, SampleTimes
<1>4. SectionOf(FileName(t)) = CutSection(t) /\ CutSection(t) \in Int
  BY <1>3, NameTellsSection
<1>5. first_file_created => cut_section \in Int /\ cut_section < CutSection(t)
  BY <1>1, <1>4 DEF SectionInv, RecordInv
<1> HIDE DEF t
<1>6. CASE first_file_created
  <2>1. \A name \in DOMAIN files :
          SectionOf(name) \in Int /\ SectionOf(name) <= cut_section
    BY DEF SectionInv
  <2> QED  BY <1>4, <1>5, <1>6, <2>1 DEF t
<1>7. CASE ~first_file_created
  <2>1. DOMAIN files = {}  BY <1>7 DEF SectionInv
  <2> QED  BY <1>7, <2>1
<1> QED  BY <1>6, <1>7

\* A step of the loop that drops the sample adds nothing to the files.
LEMMA WrittenKept ==
  ASSUME RecordInv, TakeLostSample \/ TakeOutsideWindow
  PROVE  Written' = Written /\ DOMAIN files' = DOMAIN files
<1>1. CASE TakeLostSample
  <2>1. files' = Flushed(FALSE) /\ data_pending' = FALSE  BY <1>1 DEF TakeLostSample
  <2> QED  BY <2>1, FlushKeeps
<1>2. CASE TakeOutsideWindow
  <2>1. UNCHANGED <<files, data_pending, output, record>>
    BY <1>2 DEF TakeOutsideWindow, recordVars, fileVars
  <2> QED  BY <2>1, StillKeeps
<1> QED  BY <1>1, <1>2

\* Any other one adds the sample it takes, to the file that is open then.
LEMMA WrittenAdded ==
  ASSUME NamesTellSections, QueueInv, RecordInv, OrderInv, SectionInv,
         TakeIntoNewFile \/ TakeIntoRecord \/ TakeIntoNewRecord
  PROVE  \E at, name :
           /\ Written' = Written \cup {[name |-> name, at |-> at, k |-> sb_number,
                                        t |-> SampleTime(sb_number)]}
           /\ name = output' /\ DOMAIN files' = DOMAIN files \cup {name}
<1> DEFINE t == SampleTime(sb_number)
<1>1. More /\ Take /\ pc = "drain"
  BY DEF TakeIntoNewFile, TakeIntoRecord, TakeIntoNewRecord, More
<1>2. sb_number \in last_sn .. sample_number /\ sb_number \in Nat
  BY <1>1, QueueTake DEF QueueInv
<1>3. t \in Nat  BY <1>1, <1>2, SampleTimes
<1>4. LeapFlag(t) \in BOOLEAN  BY DEF LeapFlag
<1>5. CASE TakeIntoNewFile
  <2> DEFINE name == FileName(t)
  <2>1. name \notin DOMAIN files  BY <1>5, NewFileIsNew
  <2>2. /\ files' = [n \in DOMAIN Flushed(LeapFlag(t)) \cup {name} |->
                       IF n = name THEN <<>> ELSE Flushed(LeapFlag(t))[n]]
        /\ output' = name /\ data_pending' = TRUE
        /\ record' = Stored(NewRecord(1, t), sb_number, t)
    BY <1>5 DEF TakeIntoNewFile
  <2> HIDE DEF name, t
  <2>3. /\ Written' = Written
             \cup {[name |-> name, at |-> <<1, 1>>, k |-> sb_number, t |-> t]}
        /\ DOMAIN files' = DOMAIN files \cup {name}
    BY <1>2, <1>3, <1>4, <2>1, <2>2, NewFileAdds
  <2> QED  BY <2>2, <2>3 DEF t
<1>6. CASE TakeIntoRecord
  <2>1. /\ first_file_created /\ record_valid
        /\ record' = Stored(record, sb_number, t) /\ data_pending' = TRUE
        /\ UNCHANGED <<files, output>>
    BY <1>6 DEF TakeIntoRecord, HasRoom, fileVars
  <2>2. data_pending /\ output \in DOMAIN files
    BY <1>1, <2>1 DEF OrderInv, Running, RecordInv
  <2> HIDE DEF t
  <2>3. PICK o : o = output  OBVIOUS
  <2>4. output' = o  BY <2>1, <2>3
  <2>5. \E at : Written' = Written
          \cup {[name |-> o, at |-> at, k |-> sb_number, t |-> t]}
    BY <1>2, <1>3, <2>1, <2>2, <2>3, <2>4, StoredAdds
  <2>6. DOMAIN files' = DOMAIN files \cup {o}  BY <2>1, <2>2, <2>3
  <2> QED  BY <2>4, <2>5, <2>6 DEF t
<1>7. CASE TakeIntoNewRecord
  <2> DEFINE leap == LeapFlag(t)
             number == record_number + 1
  <2>1. /\ first_file_created /\ files' = Flushed(leap) /\ data_pending' = TRUE
        /\ record' = Stored(NewRecord(number, t), sb_number, t)
        /\ output' = output
    BY <1>7 DEF TakeIntoNewRecord
  <2>2. output \in DOMAIN files /\ number \in Nat \ {0}
    BY <1>1, <2>1 DEF RecordInv
  <2>3. leap \in BOOLEAN  BY <1>4
  <2> HIDE DEF t, leap, number
  <2>4. PICK o : o = output  OBVIOUS
  <2>5. output' = o /\ o \in DOMAIN files  BY <2>1, <2>2, <2>4
  <2>6. /\ \E at : Written' = Written
             \cup {[name |-> o, at |-> at, k |-> sb_number, t |-> t]}
        /\ DOMAIN files' = DOMAIN files
    <3>1. files' = Flushed(leap)  BY <2>1
    <3>2. record' = Stored(NewRecord(number, t), sb_number, t)  BY <2>1
    <3>3. data_pending' = TRUE /\ output = o /\ output' = o  BY <2>1, <2>4
    <3>4. \A k, u \in Nat : record' = Stored(NewRecord(number, u), k, u) =>
            /\ \E at : Written' = Written
                 \cup {[name |-> o, at |-> at, k |-> k, t |-> u]}
            /\ DOMAIN files' = DOMAIN files
      BY <2>2, <2>3, <2>5, <3>1, <3>3, NewRecordAdds
    <3> QED  BY <1>2, <1>3, <3>2, <3>4
  <2>7. DOMAIN files' = DOMAIN files \cup {o}  BY <2>5, <2>6
  <2> QED  BY <2>5, <2>6, <2>7 DEF t
<1> QED  BY <1>5, <1>6, <1>7

LEMMA SectionTake ==
  ASSUME NamesTellSections, QueueInv, RecordInv, OrderInv, SectionInv,
         TakeLostSample \/ TakeOutsideWindow \/ TakeIntoNewFile
         \/ TakeIntoRecord \/ TakeIntoNewRecord
  PROVE  SectionInv'
<1> DEFINE t == SampleTime(sb_number)
           u == SampleTime(sb_number + 1)
<1>1. More /\ Take /\ pc = "drain"
  BY DEF TakeLostSample, TakeOutsideWindow, TakeIntoNewFile,
         TakeIntoRecord, TakeIntoNewRecord, More
<1>2. /\ sb_number \in last_sn .. sample_number /\ sb_number \in Nat
      /\ sb_number + 1 \in last_sn .. sample_number
      /\ sb_number \in last_sn .. sb_number + 1
      /\ pc' = "drain" /\ sb_number' = sb_number + 1
      /\ UNCHANGED <<sample_number, last_t, last_sn, new_t>> /\ last_sn >= 0
  BY <1>1, QueueTake DEF QueueInv, Take, clockVars
<1>3. t \in Nat /\ u \in Nat /\ t <= u /\ SampleTime(sb_number)' = u
  <2>1. SampleTime(sb_number)' = u  BY <1>2 DEF SampleTime
  <2> QED  BY <1>1, <1>2, <2>1, SampleTimes
<1>4. /\ CutSection(t) \in Int /\ CutSection(u) \in Int
      /\ CutSection(t) <= CutSection(u)
  BY <1>3, SectionsAscend, NameTellsSection
<1>5. StartTime \in Nat /\ EndTime \in Nat  BY Constants
<1>6. /\ first_file_created => /\ cut_section \in Int /\ cut_section <= CutSection(t)
                               /\ StartTime <= t
      /\ \A name \in DOMAIN files :
           SectionOf(name) \in Int /\ SectionOf(name) <= cut_section
      /\ \A a, b \in DOMAIN files : SectionOf(a) = SectionOf(b) => a = b
      /\ \A w \in Written :
           w.name \in DOMAIN files /\ CutSection(w.t) = SectionOf(w.name)
      /\ ~first_file_created => DOMAIN files = {}
      /\ first_file_created => SectionOf(output) = cut_section
  BY <1>1 DEF SectionInv, RecordInv, Running
<1> HIDE DEF t, u
<1>7. CASE TakeLostSample \/ TakeOutsideWindow
  <2>1. Written' = Written /\ DOMAIN files' = DOMAIN files  BY <1>7, WrittenKept
  <2>2. UNCHANGED <<output, first_file_created, cut_section>>
    BY <1>7 DEF TakeLostSample, TakeOutsideWindow, fileVars
  <2>3. first_file_created => cut_section <= CutSection(u) /\ StartTime <= u
    BY <1>3, <1>4, <1>5, <1>6
  <2> QED  BY <1>2, <1>3, <1>6, <2>1, <2>2, <2>3 DEF SectionInv, Running
<1>8. CASE TakeIntoNewFile
  <2> DEFINE name == FileName(t)
  <2>1. PICK at : /\ Written' = Written
                       \cup {[name |-> name, at |-> at, k |-> sb_number, t |-> t]}
                  /\ DOMAIN files' = DOMAIN files \cup {name}
    <3>1. output' = name  BY <1>8 DEF TakeIntoNewFile, t
    <3> QED  BY <1>8, <3>1, WrittenAdded DEF t
  <2>2. /\ output' = name /\ first_file_created' = TRUE /\ cut_section' = CutSection(t)
        /\ t >= StartTime
    BY <1>8 DEF TakeIntoNewFile, StartsFile, t
  <2>3. SectionOf(name) = CutSection(t)  BY <1>3, NameTellsSection
  <2>4. \A n \in DOMAIN files : SectionOf(n) \in Int /\ SectionOf(n) < CutSection(t)
    <3>1. CASE first_file_created
      <4>1. cut_section < CutSection(t)  BY <1>8, <3>1, NewFileIsNew DEF t
      <4> QED  BY <1>4, <1>6, <3>1, <4>1
    <3>2. CASE ~first_file_created  BY <1>6, <3>2
    <3> QED  BY <3>1, <3>2
  <2> HIDE DEF name
  <2>5. \A n \in DOMAIN files' :
          SectionOf(n) \in Int /\ SectionOf(n) <= CutSection(t)
    BY <1>4, <2>1, <2>3, <2>4
  <2>6. \A a, b \in DOMAIN files' : SectionOf(a) = SectionOf(b) => a = b
    BY <1>4, <1>6, <2>1, <2>3, <2>4
  <2>7. \A w \in Written' :
          w.name \in DOMAIN files' /\ CutSection(w.t) = SectionOf(w.name)
    BY <1>6, <2>1, <2>3
  <2>8. CutSection(t) <= CutSection(u) /\ StartTime <= u
    BY <1>3, <1>4, <1>5, <2>2
  <2> QED  BY <1>2, <1>3, <2>2, <2>3, <2>5, <2>6, <2>7, <2>8 DEF SectionInv, Running
<1>9. CASE TakeIntoRecord \/ TakeIntoNewRecord
  <2>1. /\ first_file_created /\ cut_section = CutSection(t)
        /\ UNCHANGED <<output, first_file_created, cut_section>>
    BY <1>5, <1>3, <1>6, <1>9 DEF TakeIntoRecord, TakeIntoNewRecord, StartsFile, fileVars, t
  <2>2. PICK o : o = output  OBVIOUS
  <2>3. PICK at : /\ Written' = Written
                       \cup {[name |-> o, at |-> at, k |-> sb_number, t |-> t]}
                  /\ DOMAIN files' = DOMAIN files \cup {o}
    <3>1. output' = o  BY <2>1, <2>2
    <3> QED  BY <1>9, <3>1, WrittenAdded DEF t
  <2>4. o \in DOMAIN files  BY <1>1, <2>1, <2>2 DEF RecordInv
  <2>5. SectionOf(o) = CutSection(t)  BY <1>6, <2>1, <2>2
  <2>6. DOMAIN files' = DOMAIN files  BY <2>3, <2>4
  <2>7. \A w \in Written' :
          w.name \in DOMAIN files' /\ CutSection(w.t) = SectionOf(w.name)
    BY <1>6, <2>3, <2>4, <2>5
  <2>8. cut_section <= CutSection(u) /\ StartTime <= u
    BY <1>3, <1>4, <1>5, <1>6, <2>1
  <2> QED  BY <1>2, <1>3, <1>6, <2>1, <2>6, <2>7, <2>8 DEF SectionInv, Running
<1> QED  BY <1>7, <1>8, <1>9

LEMMA SectionStep ==
  ASSUME NamesTellSections, QueueInv, RecordInv, OrderInv, SectionInv, [Next]_vars
  PROVE  SectionInv'
<1>1. CASE Sample \/ LostSamples
  <2>1. /\ pc = "idle" /\ pc' = "idle"
        /\ UNCHANGED <<last_t, last_sn, record, data_pending, output,
                       first_file_created, cut_section, files>>
    BY <1>1 DEF Sample, LostSamples, Push, clockVars, recordVars, fileVars
  <2>2. Written' = Written  BY <2>1, StillKeeps
  <2> QED  BY <2>1, <2>2 DEF SectionInv, Running
<1>2. ASSUME NEW t \in 0 .. MaxTime, FirstTime(t) PROVE SectionInv'
  <2>1. /\ pc = "idle" /\ last_sn = -1 /\ pc' = "idle"
        /\ UNCHANGED <<record, data_pending, output, first_file_created,
                       cut_section, files>>
    BY <1>2 DEF FirstTime, queueVars, recordVars, fileVars
  <2>2. Written' = Written /\ ~first_file_created
    BY <2>1, StillKeeps DEF SectionInv
  <2> QED  BY <2>1, <2>2 DEF SectionInv, Running
<1>3. ASSUME NEW t \in 0 .. MaxTime, UseTime(t) PROVE SectionInv'
  <2>1. /\ pc = "idle" /\ pc' = "drain"
        /\ UNCHANGED <<last_t, last_sn, record, data_pending, output,
                       first_file_created, cut_section, files>>
    BY <1>3 DEF UseTime, queueVars, recordVars, fileVars
  <2>2. SampleTime(sb_number)' = last_t  BY <1>3, IntervalStart
  <2>3. Written' = Written  BY <2>1, StillKeeps
  <2> QED  BY <2>1, <2>2, <2>3 DEF SectionInv, Running
<1>4. CASE TakeLostSample \/ TakeOutsideWindow \/ TakeIntoNewFile
           \/ TakeIntoRecord \/ TakeIntoNewRecord
  BY <1>4, SectionTake
<1>5. CASE UpdateState
  <2>1. /\ pc = "drain" /\ last_t' = new_t /\ last_sn' = sample_number /\ pc' = "idle"
        /\ UNCHANGED <<record, data_pending, output, first_file_created,
                       cut_section, files>>
    BY <1>5 DEF UpdateState, queueVars, recordVars, fileVars
  <2>2. /\ sb_number \in last_sn .. sample_number /\ new_t \in Nat
        /\ sample_number \in Nat
    BY <2>1 DEF QueueInv
  <2>3. SampleTime(sb_number) \in Nat /\ SampleTime(sb_number) <= new_t
    BY <2>1, <2>2, SampleTimes
  <2>4. /\ CutSection(SampleTime(sb_number)) <= CutSection(new_t)
        /\ CutSection(SampleTime(sb_number)) \in Int /\ CutSection(new_t) \in Int
    BY <2>2, <2>3, SectionsAscend, NameTellsSection
  <2>5. Written' = Written  BY <2>1, StillKeeps
  <2>6. first_file_created =>
          cut_section <= CutSection(new_t) /\ StartTime <= new_t
    <3>1. cut_section \in Int /\ StartTime \in Nat  BY Constants DEF RecordInv
    <3> QED  BY <2>1, <2>2, <2>3, <2>4, <3>1 DEF SectionInv
  <2> QED  BY <2>1, <2>2, <2>5, <2>6 DEF SectionInv, Running
<1>6. CASE Destroy \/ CreateFails
  <2>1. /\ pc' \in {"destroyed", "failed"} /\ data_pending' = FALSE
        /\ UNCHANGED <<last_sn, first_file_created, cut_section>>
        /\ \E leap \in BOOLEAN : files' = Flushed(leap)
    BY <1>6 DEF Destroy, CreateFails, LeapFlag, clockVars
  <2>2. Written' = Written /\ DOMAIN files' = DOMAIN files  BY <2>1, FlushKeeps
  <2> QED  BY <2>1, <2>2 DEF SectionInv, Running
<1>7. CASE FlushFails \/ Over \/ UNCHANGED vars
  <2>1. /\ UNCHANGED <<queueVars, clockVars, recordVars, fileVars, new_t>>
        /\ pc' = pc \/ pc' = "failed"
    BY <1>7 DEF FlushFails, Over, vars
  <2>2. SampleTime(sb_number)' = SampleTime(sb_number)
    BY <2>1 DEF SampleTime, queueVars, clockVars
  <2>3. Written' = Written  BY <2>1, StillKeeps DEF recordVars, fileVars
  <2> QED  BY <2>1, <2>2, <2>3 DEF SectionInv, Running, queueVars, clockVars,
                                   recordVars, fileVars
<1> QED  BY <1>1, <1>2, <1>3, <1>4, <1>5, <1>6, <1>7 DEF Next, Loop

\* A sample with a new number is one more in the files and one more that is due.
LEMMA OneMoreDue ==
  ASSUME CompleteInv, pc # "failed", NEW e, e.k \notin due,
         Written' = Written \cup {e}, due' = due \cup {e.k}
  PROVE  CompleteInv'
<1>1. {w.k : w \in Written} = due /\ Cardinality(Written) = Cardinality(due)
  BY DEF CompleteInv, WindowComplete
<1>2. e \notin Written  BY <1>1
<1>3. /\ IsFiniteSet(Written') /\ Cardinality(Written') = Cardinality(Written) + 1
  BY <1>2, FS_AddElement DEF CompleteInv
<1>4. /\ IsFiniteSet(due') /\ Cardinality(due') = Cardinality(due) + 1
  BY FS_AddElement DEF CompleteInv
<1>5. {w.k : w \in Written'} = due'  BY <1>1
<1> QED  BY <1>1, <1>3, <1>4, <1>5 DEF CompleteInv, WindowComplete

LEMMA CompleteTake ==
  ASSUME NamesTellSections, QueueInv, RecordInv, OrderInv, SectionInv, CompleteInv,
         TakeLostSample \/ TakeOutsideWindow \/ TakeIntoNewFile
         \/ TakeIntoRecord \/ TakeIntoNewRecord
  PROVE  CompleteInv'
<1> DEFINE t == SampleTime(sb_number)
<1>1. More /\ Take /\ pc = "drain"
  BY DEF TakeLostSample, TakeOutsideWindow, TakeIntoNewFile,
         TakeIntoRecord, TakeIntoNewRecord, More
<1>2. pc' = "drain" /\ sb_number \in last_sn .. sample_number /\ sb_number \in Nat
  BY <1>1, QueueTake DEF QueueInv
<1>3. t \in Nat  BY <1>1, <1>2, SampleTimes
<1>4. StartTime \in Nat /\ EndTime \in Nat  BY Constants
<1>5. {w.k : w \in Written} = due /\ Cardinality(Written) = Cardinality(due)
  BY <1>1 DEF CompleteInv, WindowComplete
<1>6. first_file_created => StartTime <= t  BY <1>1 DEF SectionInv
<1> HIDE DEF t
<1>7. CASE TakeLostSample \/ TakeOutsideWindow
  <2>1. due' = due
    <3>1. CASE TakeLostSample  BY <3>1 DEF TakeLostSample
    <3>2. CASE TakeOutsideWindow
      <4>1. /\ t >= EndTime \/ (~first_file_created /\ ~StartsFile(t))
            /\ Due(sb_number)
        BY <3>2 DEF TakeOutsideWindow, t
      <4>2. ~InWindow(t)  BY <1>3, <1>4, <4>1 DEF StartsFile, InWindow
      <4> QED  BY <4>1, <4>2 DEF Due, t
    <3> QED  BY <1>7, <3>1, <3>2
  <2>2. Written' = Written  BY <1>7, WrittenKept
  <2> QED  BY <1>5, <2>1, <2>2 DEF CompleteInv, WindowComplete
<1>8. CASE TakeIntoNewFile \/ TakeIntoRecord \/ TakeIntoNewRecord
  <2>1. PICK at, name : Written' = Written
                          \cup {[name |-> name, at |-> at, k |-> sb_number, t |-> t]}
    BY <1>8, WrittenAdded DEF t
  <2> DEFINE e == [name |-> name, at |-> at, k |-> sb_number, t |-> t]
  <2>2. Due(sb_number) /\ t < EndTime /\ (first_file_created \/ StartsFile(t))
    BY <1>8 DEF TakeIntoNewFile, TakeIntoRecord, TakeIntoNewRecord, t
  <2>3. InWindow(t)  BY <1>3, <1>4, <1>6, <2>2 DEF StartsFile, InWindow
  <2>4. due' = due \cup {sb_number}  BY <2>2, <2>3 DEF Due, t
  <2>5. sb_number \notin due
    <3> SUFFICES ASSUME sb_number \in due PROVE FALSE  OBVIOUS
    <3>1. PICK w \in Written : w.k = sb_number  BY <1>5
    <3>2. PICK s \in Stamps : w.k = s.k  BY <3>1, WrittenStamps
    <3>3. s.k \in Nat /\ s.k < sb_number  BY <1>1 DEF OrderInv, Running
    <3> QED  BY <1>2, <3>1, <3>2, <3>3
  <2>6. e.k = sb_number  OBVIOUS
  <2>7. Written' = Written \cup {e}  BY <2>1
  <2> HIDE DEF e
  <2> QED  BY <1>1, <2>4, <2>5, <2>6, <2>7, OneMoreDue
<1> QED  BY <1>7, <1>8

LEMMA CompleteStep ==
  ASSUME NamesTellSections, QueueInv, RecordInv, OrderInv, SectionInv, CompleteInv,
         [Next]_vars
  PROVE  CompleteInv'
<1>1. CASE Sample \/ LostSamples \/ (\E t \in 0 .. MaxTime : FirstTime(t) \/ UseTime(t))
           \/ UpdateState
  <2>1. /\ pc # "failed"
        /\ UNCHANGED <<record, data_pending, output, files, due>>
    BY <1>1 DEF Sample, LostSamples, Push, FirstTime, UseTime, UpdateState,
                recordVars, fileVars
  <2>2. Written' = Written  BY <2>1, StillKeeps
  <2> QED  BY <2>1, <2>2 DEF CompleteInv, WindowComplete
<1>2. CASE TakeLostSample \/ TakeOutsideWindow \/ TakeIntoNewFile
           \/ TakeIntoRecord \/ TakeIntoNewRecord
  BY <1>2, CompleteTake
<1>3. CASE Destroy \/ CreateFails
  <2>1. /\ pc # "failed" /\ data_pending' = FALSE /\ due' = due
        /\ \E leap \in BOOLEAN : files' = Flushed(leap)
    BY <1>3 DEF Destroy, CreateFails, LeapFlag, More
  <2>2. Written' = Written  BY <2>1, FlushKeeps
  <2> QED  BY <2>1, <2>2 DEF CompleteInv, WindowComplete
<1>4. CASE FlushFails \/ Over \/ UNCHANGED vars
  <2>1. /\ UNCHANGED <<record, data_pending, output, files, due>>
        /\ pc' = pc \/ pc' = "failed"
    BY <1>4 DEF FlushFails, Over, vars, recordVars, fileVars
  <2>2. Written' = Written  BY <2>1, StillKeeps
  <2> QED  BY <2>1, <2>2 DEF CompleteInv, WindowComplete
<1> QED  BY <1>1, <1>2, <1>3, <1>4 DEF Next, Loop

LEMMA NothingWritten == Init => SectionInv /\ CompleteInv
<1> SUFFICES ASSUME Init PROVE SectionInv /\ CompleteInv  OBVIOUS
<1>1. DOMAIN files = {} /\ first_file_created = FALSE /\ due = {} /\ pc = "idle"
  BY DEF Init
<1>2. Written = {}  BY <1>1 DEF Written
<1>3. IsFiniteSet({})  BY FS_EmptySet
<1>4. SectionInv  BY <1>1, <1>2 DEF SectionInv
<1>5. CompleteInv  BY <1>1, <1>2, <1>3 DEF CompleteInv, WindowComplete
<1> QED  BY <1>4, <1>5

\* One file for each section, as far as names tell sections apart: the
\* strengthening of OneFilePerSection.
THEOREM SectionInvariance == ASSUME NamesTellSections PROVE Spec => []SectionInv
<1>1. Init => SectionInv  BY NothingWritten
<1>2. QueueInv /\ RecordInv /\ OrderInv /\ SectionInv /\ [Next]_vars => SectionInv'
  BY SectionStep
<1> QED  BY <1>1, <1>2, Invariance, OrderInvariance, PTL DEF Spec

\* Where the file names tell the sections apart, two samples are in the same
\* file exactly if their UTC times are in the same section, also in a leap
\* second (wmseed.h, wmseed__time and wmseed__create_file).
THEOREM Sections == ASSUME NamesTellSections PROVE Spec => []OneFilePerSection
<1>1. SectionInv => OneFilePerSection
  <2> SUFFICES ASSUME SectionInv, Cut > 0, NEW v \in Written, NEW w \in Written
               PROVE  v.name = w.name <=> CutSection(v.t) = CutSection(w.t)
    BY Constants DEF OneFilePerSection, CutSection
  <2> QED  BY DEF SectionInv
<1> QED  BY <1>1, SectionInvariance, PTL

\* Where the file names tell the sections apart, every sample that got a time
\* between the limits is in the files exactly once, and no other one: no file
\* is truncated by a later one, no record is given up and none is written
\* twice (wmseed.h, wmseed__time, wmseed__flush and wmseed_destroy).
THEOREM Complete == ASSUME NamesTellSections PROVE Spec => []WindowComplete
<1>1. Init => CompleteInv  BY NothingWritten
<1>2. QueueInv /\ RecordInv /\ OrderInv /\ SectionInv /\ CompleteInv /\ [Next]_vars
        => CompleteInv'
  BY CompleteStep
<1>3. CompleteInv => WindowComplete  BY DEF CompleteInv
<1> QED  BY <1>1, <1>2, <1>3, Invariance, OrderInvariance, SectionInvariance, PTL DEF Spec

=============================================================================
