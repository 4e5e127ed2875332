------------------------------ MODULE Resampler ------------------------------
(***************************************************************************)
(* src/resampler.h, between a writer of MiniSEED files and libsamplerate:  *)
(* samples are collected in a buffer of InSize and, when it is full or     *)
(* the recording ends, given to src_process, which takes in some of them   *)
(* and makes at most OutSize new ones.  Timestamps set the ratio of the    *)
(* rates.                                                                  *)
(*                                                                         *)
(* Each turn of the loop of sinc_mono_vari_process is a step.  A sample is *)
(* the number of its resampler_sample call.  A ratio is represented by the *)
(* way from one output sample to the next, counted in Units-th parts of an *)
(* input sample; what a timestamp makes of it is any member of Steps, or   *)
(* Bad when it is out of range (a timestamp that is not after the time the *)
(* buffer starts at, or far ahead).  The values of the output samples and  *)
(* the times of the records are left out.                                  *)
(***************************************************************************)
EXTENDS SincFilter

CONSTANTS InSize, OutSize,  \* sizes of in and out, 8192 in the code
          Unit,             \* parts of an input sample
          Steps,            \* ways from one output sample to the next
          LongestStep,      \* the longest of them, the lowest ratio
          Reach,            \* reach of the filter, for each step
          Bad,              \* a ratio src_process refuses
          MaxSamples        \* bound: samples given in a behaviour

\* Unit is the ratio 1 of resampler_new.
ASSUME ResamplerAssumption ==
  /\ InSize \in Nat \ {0} /\ OutSize \in Nat \ {0} /\ MaxSamples \in Nat
  /\ Unit \in Steps /\ Steps \subseteq 1 .. LongestStep /\ LongestStep \in Steps
  /\ Bad \notin Int

\* Lines 338-343 of src_sinc.c: the reach is the same for all ratios from 1 on
\* and grows as the ratio falls below 1; a step is never longer than it.  The
\* buffer holds four reaches (line 213; with the filter in use for all ratios
\* from 1/159 on).
ASSUME ReachAssumption ==
  /\ Reach \in [1 .. LongestStep -> Nat \ {0}]
  /\ \A s \in 1 .. LongestStep : s <= Reach[s] * Unit
  /\ \A s, t \in 1 .. LongestStep :
       s <= t => Reach[s] <= Reach[t] /\ (t <= Unit => Reach[s] = Reach[t])
  /\ 4 * Reach[LongestStep] + Pad <= BufferLength

VARIABLES
  got_time,   \* field: a timestamp was given
  in,         \* fields in and samples_in
  conv,       \* field conversion_rate, as a step
  last,       \* last_ratio of the SRC_STATE, as a step, 0 while not set
  filter,     \* its SINC_FILTER
  pos,        \* where the filter is, in parts from the first sample on
  pc,         \* "idle", "process" while in src_process, "over" or "exited"
  op,         \* the call in progress: "sample" or "done"
  used, gen,  \* in_used and out_gen of src_process
  step,       \* src_ratio of src_process
  given,      \* history: number of samples given
  fed,        \* history: samples the filter took in
  carried,    \* history: more than one sample had to be carried over
  outgrown    \* history: the filter reached beyond the samples kept for it

vars == <<got_time, in, conv, last, filter, pos, pc, op, used, gen, step, given,
          fed, carried, outgrown>>

\* Beyond the end of in.
FullLate(n) == n > InSize
\* Line 101: the buffer with n samples is full.
Full(n) == n = InSize

\* ---- src_process ----------------------------------------------------------

\* Lines 338-343 of src_sinc.c, by the lower one of both ratios.
ReachOf(s, t) == Reach[IF s >= t THEN s ELSE t]
\* half_filter_chan_len of the call that is in progress.
half == ReachOf(last, conv)

\* The call: lines 97-155 of samplerate.c and 326-352 of src_sinc.c.
Begin(rate) ==
  IF conv = Bad
  THEN pc' = "exited" /\ UNCHANGED <<last, used, gen, step, outgrown>>
  ELSE /\ pc' = "process" /\ used' = 0 /\ gen' = 0
       /\ last' = IF rate = 0 THEN conv ELSE rate
       /\ step' = last'
       /\ outgrown' = (outgrown \/ filter.b_current \in 1 .. ReachOf(last', conv) - 1)

\* prepare_data takes up to n samples of in; op "done" is the end of input.
Taken(f) ==
  LET room == Room(f, half)
      left == Len(in) - used
  IN  SubSeq(in, used + 1, used + (IF left < room THEN left ELSE room))

\* Line 360: too few samples are in hand, and there may be more.
NeedsData == InHand(filter) <= half /\ filter.b_real_end < 0

\* prepare_data, lines 1119-1189, and what the callers make of its error.
\* (\E over one value lets TLC compute the value once.)
Reload ==
  /\ pc = "process" /\ gen < OutSize /\ NeedsData
  /\ \E p \in {Placed(filter, half)} :
       LET s == Taken(p)
           q == Loaded(p, s)
       IN  IF p.b_end + Len(s) > BufferLength
           THEN pc' = "exited" /\ UNCHANGED <<filter, used, fed>>
           ELSE /\ pc' = "loaded"
                /\ used' = used + Len(s) /\ fed' = fed \o s
                /\ filter' = IF used' = Len(in) /\ IsLast(q, half) /\ op = "done"
                             THEN Closed(q, half) ELSE q
  /\ UNCHANGED <<got_time, in, conv, last, pos, op, gen, step, given, carried,
                 outgrown>>

\* Behind lines 360-367, with the samples there are.
Prepared == pc = "loaded" \/ (pc = "process" /\ gen < OutSize /\ ~NeedsData)

\* Lines 370-373: the step would go past the last sample.
AtEnd ==
  /\ filter.b_real_end >= 0
  /\ filter.b_current * Unit + (pos % Unit) + last > filter.b_real_end * Unit

\* Lines 363-373 let through to the filter.
AtFilter == Prepared /\ InHand(filter) > half /\ ~AtEnd

\* Lines 375-393: one more output sample.  Towards a new ratio the step
\* changes gradually.
Emit ==
  /\ AtFilter
  /\ \E s \in IF last <= conv THEN last .. conv ELSE conv .. last :
       /\ step' = s
       /\ pos' = pos + s
       /\ filter' = Advanced(filter, (pos + s) \div Unit - pos \div Unit)
  /\ gen' = gen + 1
  /\ pc' = "process"
  /\ UNCHANGED <<got_time, in, conv, last, op, used, given, fed, carried, outgrown>>

\* The buffer after n of its samples were used, with nothing moved.
CarriedNone(n) == SubSeq(in, 1, Len(in) - n)
\* Lines 125 and 172: the size given to memmove is that of one sample.
Carried(n) ==
  [i \in 1 .. Len(in) - n |-> IF i = 1 THEN in[n + 1] ELSE in[i]]

\* Line 177: there is more for src_process to do.
GoesOnWithInput(buffered) == Len(buffered) > 0
GoesOn(buffered) == Len(buffered) > 0 \/ gen = OutSize

\* The end of src_process and what its callers do then: lines 124-127 and 101
\* of resampler_sample, 171-177 of resampler_done.
Return ==
  /\ \/ pc = "process" /\ gen = OutSize
     \/ Prepared /\ (InHand(filter) <= half \/ AtEnd)
  /\ in' = Carried(used)
  /\ carried' = (carried \/ (used > 0 /\ Len(in) - used > 1))
  /\ last' = step
  /\ pc' = CASE op = "sample" /\ ~Full(Len(in')) -> "idle"
             [] op = "sample" /\ Full(Len(in')) -> "again"
             [] op = "done" /\ GoesOn(in') -> "again"
             [] OTHER -> "over"
  /\ UNCHANGED <<got_time, conv, filter, pos, op, used, gen, step, given, fed,
                 outgrown>>

\* calc_output_single begins up to half before b_current and does not look
\* whether that lies in the buffer (line 273).  Reading before it can end the
\* program; where it does not, Emit goes on with any value.
Fault ==
  /\ AtFilter /\ filter.b_current < half
  /\ pc' = "exited"
  /\ UNCHANGED <<got_time, in, conv, last, filter, pos, op, used, gen, step, given,
                 fed, carried, outgrown>>

\* The next turn of the while in resampler_sample or the goto in resampler_done.
Again ==
  /\ pc = "again"
  /\ Begin(IF op = "sample" THEN conv ELSE last)
  /\ UNCHANGED <<got_time, in, conv, filter, pos, op, given, fed, carried>>

\* ---- calls ----------------------------------------------------------------

\* resampler_sample, lines 95-115; without a timestamp it does nothing.
Sample ==
  /\ pc = "idle" /\ got_time /\ given < MaxSamples
  /\ given' = given + 1 /\ in' = Append(in, given')
  /\ op' = "sample"
  /\ IF Full(Len(in')) THEN Begin(conv)
     ELSE UNCHANGED <<pc, last, used, gen, step, outgrown>>
  /\ UNCHANGED <<got_time, conv, filter, pos, fed, carried>>

\* resampler_time, lines 132-146.
Time ==
  /\ pc = "idle"
  /\ got_time' = TRUE
  /\ IF got_time /\ in # <<>> THEN conv' \in Steps \cup {Bad} ELSE UNCHANGED conv
  /\ UNCHANGED <<in, last, filter, pos, pc, op, used, gen, step, given, fed, carried,
                 outgrown>>

\* resampler_done, lines 148-162.
Done ==
  /\ pc = "idle"
  /\ op' = "done"
  /\ Begin(last)
  /\ UNCHANGED <<got_time, in, conv, filter, pos, given, fed, carried>>

\* The program has ended, or the resampler is gone.
Over == pc \in {"over", "exited"} /\ UNCHANGED vars

\* ---- specification --------------------------------------------------------

Init ==
  /\ got_time = FALSE /\ in = <<>> /\ conv = Unit /\ last = 0
  /\ filter = Reset /\ pos = 0
  /\ pc = "idle" /\ op = "sample" /\ used = 0 /\ gen = 0 /\ step = 0
  /\ given = 0 /\ fed = <<>> /\ carried = FALSE /\ outgrown = FALSE

Process == Reload \/ Emit \/ Return \/ Again \/ Fault
Next == Process \/ Sample \/ Time \/ Done \/ Over

Spec == Init /\ [][Next]_vars
\* A call that has begun goes on.
FairSpec == Spec /\ WF_vars(Process)

\* ---- properties -----------------------------------------------------------

\* Types, and the bounds of both buffers, however the reach changes.
TypeOK ==
  /\ {got_time, carried, outgrown} \subseteq BOOLEAN
  /\ in \in Seq(Nat) /\ Len(in) <= InSize
  /\ conv \in Steps \cup {Bad}
  /\ last \in Nat /\ step \in Nat /\ pos \in Nat
  /\ pc \in {"idle", "process", "loaded", "again", "over", "exited"} /\ op \in {"sample", "done"}
  /\ used \in 0 .. Len(in) \/ pc \notin {"process", "loaded"}
  /\ gen \in 0 .. OutSize
  /\ filter.buffer \in [Cells -> Nat]
  /\ filter.b_current = 0 \/ Reach[Unit] <= filter.b_current
  /\ filter.b_current <= filter.b_end /\ filter.b_end <= BufferLength
  /\ filter.b_real_end \in -1 .. filter.b_end
  /\ given \in Nat /\ fed \in Seq(Nat)

\* The sample of the filter's input with index k, silence around it.
At(k) == IF k \in 0 .. Len(fed) - 1 THEN fed[k + 1] ELSE 0

\* The filter sees its input as if it had all of it: whatever is moved and
\* reloaded, and however the reach changes from call to call, each cell up to
\* the end of the samples holds the sample that belongs there, and the cells go
\* back as far as the filter reaches; unless the ratio fell since the last move,
\* so that it reaches beyond what was kept.
WindowIsSlice ==
  LET whole == pos \div Unit
      end == IF filter.b_real_end >= 0 THEN filter.b_real_end ELSE filter.b_end
  IN  filter.b_current > 0 =>
        /\ end - filter.b_current = Len(fed) - whole
        /\ \A i \in 0 .. filter.b_end - 1 :
             filter.buffer[i] = At(whole + i - filter.b_current)
        /\ pc \in {"process", "loaded"} => half <= filter.b_current \/ outgrown

\* The samples that wait for the filter.
Waiting == IF pc \in {"process", "loaded"} THEN SubSeq(in, used + 1, Len(in)) ELSE in

\* While the program runs every sample given has been taken in or waits, once
\* and in order, as long as no call had to carry more than one sample over.
NothingLost ==
  ~carried /\ pc # "exited" => fed \o Waiting = [i \in 1 .. given |-> i]

\* The end: all samples were taken in and the output goes to the last of them
\* and not beyond; or the program gave up on a ratio, or on a reach beyond the
\* samples kept, never on the length of the input.
Outcome ==
  /\ pc = "over" => /\ Len(fed) = given /\ in = <<>>
                    /\ given * Unit < pos + LongestStep
                    /\ pos < given * Unit + LongestStep
  /\ pc = "exited" => conv = Bad \/ outgrown

\* Each call returns.
CallReturns == pc \in {"process", "loaded", "again"} ~> pc \in {"idle", "over", "exited"}

\* resampler.h, line 123: "Then move the unused samples to the beginning": the
\* filter takes in the samples as they were given.
FedInOrder == \A i \in 1 .. Len(fed) : fed[i] = i

=============================================================================
