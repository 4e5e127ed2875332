--------------------------- MODULE ResamplerProofs ---------------------------
(***************************************************************************)
(* Proofs about Resampler and SincFilter, for every size of the buffers,   *)
(* and for every set of ratios and every reach of the filter that differs  *)
(* with them, as long as the buffer holds four of the longest reach.       *)
(***************************************************************************)
EXTENDS Resampler, SequenceTheorems, TLAPS

Processing == pc \in {"process", "loaded"}

\* A filter whose positions lie in its buffer, in their order; it is empty
\* until the first samples were placed in it.
FilterOK(f) ==
  /\ f \in [buffer : [Cells -> Nat], b_current : Nat, b_end : Nat, b_real_end : Int]
  /\ f.b_current = 0 => f.b_end = 0
  /\ f.b_current = 0 \/ Reach[Unit] <= f.b_current
  /\ f.b_current <= f.b_end /\ f.b_end <= BufferLength
  /\ -1 <= f.b_real_end /\ f.b_real_end <= f.b_end

\* A reach that some ratio has.
ReachOK(h) == h \in Nat \ {0} /\ Reach[Unit] <= h /\ 4 * h + Pad <= BufferLength

\* The ratios in use.  While src_process runs they are in range.
RatesOK ==
  /\ conv \in Steps \cup {Bad}
  /\ last \in 0 .. LongestStep /\ step \in 0 .. LongestStep
  /\ Processing => conv \in Steps /\ last > 0 /\ step > 0

\* The buffer in; between calls it has room for a sample.
InputOK ==
  /\ in \in Seq(Nat) /\ Len(in) <= InSize
  /\ pc = "idle" => Len(in) < InSize
  /\ Processing => used \in 0 .. Len(in)
  /\ pc = "loaded" => gen < OutSize

\* The samples kept are as many as the filter reaches over, or it is known that
\* they are not.
KeptOK ==
  Processing /\ filter.b_current # 0 => half <= filter.b_current \/ outgrown

IInv ==
  /\ FilterOK(filter) /\ RatesOK /\ InputOK /\ KeptOK
  /\ got_time \in BOOLEAN /\ carried \in BOOLEAN /\ outgrown \in BOOLEAN
  /\ pos \in Nat /\ gen \in 0 .. OutSize /\ given \in Nat /\ fed \in Seq(Nat)
  /\ pc \in {"idle", "process", "loaded", "again", "over", "exited"}
  /\ op \in {"sample", "done"}
  /\ pc = "exited" => conv = Bad \/ outgrown

-----------------------------------------------------------------------------
\* Numbers

LEMMA Assumed ==
  /\ Unit \in Nat \ {0} /\ InSize \in Nat \ {0} /\ OutSize \in Nat \ {0}
  /\ LongestStep \in Nat \ {0} /\ Steps \subseteq 1 .. LongestStep
  /\ Unit \in Steps /\ Unit \in 1 .. LongestStep /\ Bad \notin Int
  /\ Pad \in Nat \ {0} /\ BufferLength \in Nat
  /\ Reach \in [1 .. LongestStep -> Nat \ {0}]
<1>1. Unit \in 1 .. LongestStep /\ LongestStep \in 1 .. LongestStep
  BY ResamplerAssumption
<1>2. LongestStep \in Nat \ {0}  BY <1>1
<1> QED  BY <1>1, <1>2, FilterAssumption, ResamplerAssumption, ReachAssumption

LEMMA ReachTypes ==
  ASSUME NEW h, ReachOK(h)
  PROVE  /\ h \in Nat \ {0} /\ Reach[Unit] \in Nat \ {0} /\ Reach[Unit] <= h
         /\ BufferLength \in Nat /\ Pad \in Nat \ {0} /\ 4 * h + Pad <= BufferLength
BY Assumed DEF ReachOK

\* The reach for the lower ratio of the two, the longer step: neither step is
\* longer than it, and four of it fit the buffer.
LEMMA ReachIs ==
  ASSUME NEW s \in 1 .. LongestStep, NEW t \in 1 .. LongestStep
  PROVE  /\ ReachOK(ReachOf(s, t))
         /\ s <= ReachOf(s, t) * Unit /\ t <= ReachOf(s, t) * Unit
<1> DEFINE m == IF s >= t THEN s ELSE t
<1>1. m \in 1 .. LongestStep /\ s <= m /\ t <= m  BY Assumed
<1>2. ReachOf(s, t) = Reach[m]  BY DEF ReachOf
<1> HIDE DEF m
<1>3. Reach[m] \in Nat \ {0} /\ Reach[Unit] \in Nat \ {0} /\ Reach[LongestStep] \in Nat
      /\ LongestStep \in 1 .. LongestStep
  BY <1>1, Assumed
<1>4. Reach[Unit] <= Reach[m]
  <2>1. CASE Unit <= m  BY <1>1, <2>1, Assumed, ReachAssumption
  <2>2. CASE ~(Unit <= m)
    <3>1. m <= Unit  BY <1>1, <2>2, Assumed
    <3>2. Reach[m] = Reach[Unit]  BY <1>1, <3>1, Assumed, ReachAssumption
    <3> QED  BY <1>3, <3>2
  <2> QED  BY <2>1, <2>2
<1>5. Reach[m] <= Reach[LongestStep]
  <2>1. m <= LongestStep  BY <1>1
  <2> QED  BY <1>1, <1>3, <2>1, ReachAssumption
<1>6. 4 * Reach[m] + Pad <= BufferLength
  <2>1. PICK a \in Nat, b \in Nat : a = Reach[m] /\ b = Reach[LongestStep]
    BY <1>3, Assumed
  <2>2. 4 * b + Pad <= BufferLength /\ a <= b  BY <1>5, <2>1, ReachAssumption
  <2>3. Pad \in Nat /\ BufferLength \in Nat  BY Assumed
  <2> QED  BY <2>1, <2>2, <2>3
<1>7. m <= Reach[m] * Unit /\ Reach[m] * Unit \in Nat
  <2>1. m <= Reach[m] * Unit  BY <1>1, ReachAssumption
  <2>2. PICK a \in Nat, u \in Nat : a = Reach[m] /\ u = Unit  BY <1>3, Assumed
  <2>3. a * u \in Nat  OBVIOUS
  <2> QED  BY <2>1, <2>2, <2>3
<1> QED  BY <1>1, <1>2, <1>3, <1>4, <1>6, <1>7, Assumed, SMTT(30) DEF ReachOK

\* The reach of the call in progress.
LEMMA HalfIs ==
  ASSUME RatesOK, Processing
  PROVE  /\ ReachOK(half) /\ conv \in 1 .. LongestStep /\ last \in 1 .. LongestStep
         /\ conv <= half * Unit /\ last <= half * Unit
<1>1. conv \in 1 .. LongestStep /\ last \in 1 .. LongestStep
  BY Assumed DEF RatesOK
<1> QED  BY <1>1, ReachIs DEF half

\* Remainders and quotients by symbols, for the steps below.
LEMMA RemainderInside ==
  ASSUME NEW n \in Nat, NEW x \in Nat, x < n
  PROVE  x % n = x /\ (x + n) % n = x
OBVIOUS

LEMMA QuotientBounds ==
  ASSUME NEW n \in Nat \ {0}, NEW x \in Nat
  PROVE  x \div n \in Nat /\ n * (x \div n) <= x /\ x < n * (x \div n) + n
OBVIOUS

\* The position moves by whole input samples, never further than the reach.
LEMMA MovesInReach ==
  ASSUME NEW p \in Nat, NEW s \in Nat, NEW h \in Nat, s <= h * Unit
  PROVE  (p + s) \div Unit - p \div Unit \in 0 .. h
<1> DEFINE a == p \div Unit
           b == (p + s) \div Unit
<1>1. Unit \in Nat \ {0}  BY Assumed
<1>2. /\ a \in Nat /\ Unit * a <= p /\ p < Unit * a + Unit
      /\ b \in Nat /\ Unit * b <= p + s /\ p + s < Unit * b + Unit
  BY <1>1, QuotientBounds
<1> HIDE DEF a, b
<1>3. a <= b
  <2> SUFFICES ASSUME b + 1 <= a PROVE FALSE  BY <1>2
  <2>1. Unit * (b + 1) <= Unit * a  BY <1>1, <1>2
  <2>2. Unit * (b + 1) = Unit * b + Unit  BY <1>1, <1>2
  <2> QED  BY <1>1, <1>2, <2>1, <2>2
<1>4. b <= a + h
  <2> SUFFICES ASSUME a + h + 1 <= b PROVE FALSE  BY <1>1, <1>2
  <2>1. Unit * (a + h + 1) <= Unit * b  BY <1>1, <1>2
  <2>2. Unit * (a + h + 1) = Unit * a + h * Unit + Unit  BY <1>1, <1>2
  <2> QED  BY <1>1, <1>2, <2>1, <2>2
<1>5. b - a \in 0 .. h  BY <1>1, <1>2, <1>3, <1>4
<1> QED  BY <1>5 DEF a, b

-----------------------------------------------------------------------------
\* prepare_data, step by step

\* As the positions are in order, the remainder in the code changes nothing.
LEMMA InHandIs ==
  ASSUME NEW f, FilterOK(f)
  PROVE  f.b_end - f.b_current \in 0 .. BufferLength - 1
         /\ InHand(f) = f.b_end - f.b_current
<1>1. PICK c \in Nat, e \in Nat : f.b_current = c /\ f.b_end = e
  BY DEF FilterOK
<1>2. BufferLength \in Nat /\ BufferLength > 0
  <2>1. ReachOK(ReachOf(Unit, Unit))  BY Assumed, ReachIs
  <2> QED  BY <2>1, ReachTypes
<1>3. e - c \in 0 .. BufferLength - 1
  <2>1. /\ c = 0 => e = 0
        /\ c <= e /\ e <= BufferLength
    BY <1>1 DEF FilterOK
  <2> QED  BY <1>1, <1>2, <2>1
<1> QED  BY <1>1, <1>2, <1>3, RemainderInside DEF InHand

\* A move takes as many samples along as the filter reaches over.
LEMMA MovedOK ==
  ASSUME NEW f, FilterOK(f), NEW h, ReachOK(h), h <= f.b_current
  PROVE  /\ Moved(f, h) = Filter(Moved(f, h).buffer, h, h + (f.b_end - f.b_current),
                                 f.b_real_end)
         /\ Moved(f, h).buffer \in [Cells -> Nat]
         /\ \A i \in 0 .. h + (f.b_end - f.b_current) - 1 :
              /\ f.b_current - h + i \in 0 .. f.b_end - 1
              /\ Moved(f, h).buffer[i] = f.buffer[f.b_current - h + i]
         /\ h + (f.b_end - f.b_current) \in Nat
         /\ h + (f.b_end - f.b_current) <= BufferLength
<1> DEFINE len == f.b_end - f.b_current
           b == [i \in Cells |-> IF i < h + len THEN f.buffer[f.b_current - h + i]
                                 ELSE f.buffer[i]]
<1>1. PICK c \in Nat, e \in Nat :
        /\ f.b_current = c /\ f.b_end = e /\ c <= e /\ e <= BufferLength /\ h <= c
  BY DEF FilterOK
<1>2. BufferLength \in Nat /\ h \in Nat \ {0} /\ f.buffer \in [Cells -> Nat]
  BY ReachTypes DEF FilterOK
<1>3. len = e - c /\ h + len \in Nat /\ h + len <= BufferLength  BY <1>1, <1>2
<1>4. ASSUME NEW i \in 0 .. h + len - 1
      PROVE  i \in Cells /\ c - h + i \in Cells /\ c - h + i \in 0 .. e - 1
  BY <1>1, <1>2, <1>3 DEF Cells
<1>5. \A i \in Cells : i < h + len => i \in 0 .. h + len - 1
  BY <1>2, <1>3 DEF Cells
<1>6. b \in [Cells -> Nat]
  <2>1. ASSUME NEW i \in Cells
        PROVE  (IF i < h + len THEN f.buffer[f.b_current - h + i] ELSE f.buffer[i]) \in Nat
    <3>1. CASE i < h + len
      <4>1. f.b_current - h + i \in Cells  BY <1>1, <1>4, <1>5, <3>1
      <4> QED  BY <1>2, <3>1, <4>1
    <3>2. CASE ~(i < h + len)  BY <1>2, <3>2
    <3> QED  BY <3>1, <3>2
  <2> QED  BY <2>1
<1>7. ASSUME NEW i \in 0 .. h + len - 1
      PROVE  b[i] = f.buffer[f.b_current - h + i]
  <2>1. i \in Cells /\ i < h + len  BY <1>2, <1>3, <1>4
  <2> QED  BY <2>1
<1>8. Moved(f, h) = Filter(b, h, h + len, f.b_real_end)  BY DEF Moved
<1> HIDE DEF b
<1>9. Moved(f, h).buffer = b  BY <1>8 DEF Filter
<1> QED  BY <1>1, <1>3, <1>4, <1>6, <1>7, <1>8, <1>9

\* The numbers that make a filter.
LEMMA FilterIs ==
  ASSUME NEW b \in [Cells -> Nat], NEW c \in Nat, NEW e \in Nat, NEW r \in Int,
         Reach[Unit] <= c, c <= e, e <= BufferLength, -1 <= r, r <= e
  PROVE  FilterOK(Filter(b, c, e, r)) /\ c # 0
<1>1. c # 0  BY Assumed
<1> QED  BY <1>1 DEF FilterOK, Filter

\* Where new samples are placed there is room for those prepare_data takes:
\* BAD_LEN, the error of line 1154, never comes from the length of the input.
\* Too little room means that more samples lie behind the position than it
\* reaches over, so all that a move takes along are there.
LEMMA PlacedOK ==
  ASSUME NEW f, FilterOK(f), NEW h, ReachOK(h), InHand(f) <= h, f.b_real_end < 0
  PROVE  /\ FilterOK(Placed(f, h)) /\ Placed(f, h).b_current # 0
         /\ Placed(f, h).b_real_end = -1
         /\ Room(Placed(f, h), h) \in Nat
         /\ \A k \in Nat : k <= Room(Placed(f, h), h) =>
                             Placed(f, h).b_end + k <= BufferLength
         /\ \/ f.b_current = 0 /\ Placed(f, h) = Filter(f.buffer, h, h, -1)
            \/ f.b_current # 0 /\ Placed(f, h) = f
            \/ h <= f.b_current /\ Placed(f, h) = Moved(f, h)
<1>1. PICK c \in Nat, e \in Nat :
        /\ f.b_current = c /\ f.b_end = e /\ c <= e /\ e <= BufferLength
        /\ c = 0 \/ Reach[Unit] <= c
  BY DEF FilterOK
<1>2. /\ BufferLength \in Nat /\ h \in Nat \ {0} /\ Pad \in Nat
      /\ Reach[Unit] \in Nat \ {0} /\ Reach[Unit] <= h /\ 4 * h + Pad <= BufferLength
      /\ f.b_real_end = -1 /\ f.buffer \in [Cells -> Nat]
  BY ReachTypes DEF FilterOK
<1>3. e - c <= h /\ 0 <= e - c  BY <1>1, InHandIs
<1>4. /\ FilterOK(Placed(f, h)) /\ Placed(f, h).b_current # 0
      /\ Placed(f, h).b_real_end = -1
      /\ Placed(f, h).b_end - Placed(f, h).b_current <= h
      /\ \/ c = 0 /\ Placed(f, h) = Filter(f.buffer, h, h, -1)
         \/ c # 0 /\ Placed(f, h) = f
         \/ h <= c /\ Placed(f, h) = Moved(f, h)
  <2>1. CASE c = 0
    <3>1. Placed(f, h) = Filter(f.buffer, h, h, -1)
      BY <1>1, <1>2, <2>1 DEF Placed
    <3>2. FilterOK(Filter(f.buffer, h, h, -1)) /\ h # 0
      <4>1. h <= BufferLength  BY <1>2
      <4> QED  BY <1>2, <4>1, FilterIs
    <3> QED  BY <1>2, <2>1, <3>1, <3>2 DEF Filter
  <2>2. CASE c # 0 /\ ~NearBufferEnd(f, h)
    <3>1. Placed(f, h) = f  BY <1>1, <2>2 DEF Placed
    <3> QED  BY <1>1, <1>2, <1>3, <2>2, <3>1
  <2>3. CASE c # 0 /\ NearBufferEnd(f, h)
    <3>1. Placed(f, h) = Moved(f, h)  BY <1>1, <2>3 DEF Placed
    <3>2. h <= c
      <4>1. e + h + 1 >= BufferLength  BY <1>1, <2>3 DEF NearBufferEnd
      <4> QED  BY <1>1, <1>2, <1>3, <4>1
    <3>3. Moved(f, h) = Filter(Moved(f, h).buffer, h, h + (e - c), -1)
          /\ Moved(f, h).buffer \in [Cells -> Nat]
          /\ h + (e - c) \in Nat /\ h + (e - c) <= BufferLength
      BY <1>1, <1>2, <3>2, MovedOK
    <3> DEFINE b == Moved(f, h).buffer
               n == h + (e - c)
    <3>4. b \in [Cells -> Nat] /\ n \in Nat /\ n <= BufferLength /\ h <= n /\ n - h <= h
      BY <1>2, <1>3, <3>3
    <3>5. Moved(f, h) = Filter(b, h, n, -1)  BY <3>3
    <3> HIDE DEF b, n
    <3>6. FilterOK(Filter(b, h, n, -1)) /\ h # 0  BY <1>2, <3>4, FilterIs
    <3>7. /\ Filter(b, h, n, -1).b_current = h /\ Filter(b, h, n, -1).b_end = n
          /\ Filter(b, h, n, -1).b_real_end = -1
      BY DEF Filter
    <3> QED  BY <3>1, <3>2, <3>4, <3>5, <3>6, <3>7
  <2> QED  BY <2>1, <2>2, <2>3
<1> DEFINE p == Placed(f, h)
<1>5. PICK pc1 \in Nat, pe \in Nat :
        p.b_current = pc1 /\ p.b_end = pe /\ pe <= BufferLength
  BY <1>4 DEF FilterOK
<1> HIDE DEF p
<1>6. Room(p, h) \in Nat /\ \A k \in Nat : k <= Room(p, h) => p.b_end + k <= BufferLength
  <2>1. pe - pc1 <= h  BY <1>4, <1>5 DEF p
  <2> QED  BY <1>2, <1>5, <2>1 DEF Room
<1> QED  BY <1>1, <1>4, <1>6 DEF p

LEMMA LoadedOK ==
  ASSUME NEW f, FilterOK(f), f.b_current # 0, NEW s \in Seq(Nat),
         f.b_end + Len(s) <= BufferLength
  PROVE  FilterOK(Loaded(f, s)) /\ Loaded(f, s).b_current # 0
         /\ Loaded(f, s).b_real_end = f.b_real_end
         /\ Loaded(f, s).b_current = f.b_current
<1> DEFINE b == [i \in Cells |->
                   IF f.b_end <= i /\ i < f.b_end + Len(s) THEN s[i - f.b_end + 1]
                   ELSE f.buffer[i]]
<1>1. PICK c \in Nat, e \in Nat, r \in Int, n \in Nat :
        /\ f.b_current = c /\ f.b_end = e /\ f.b_real_end = r /\ Len(s) = n
        /\ c <= e /\ e + n <= BufferLength /\ Reach[Unit] <= c /\ -1 <= r /\ r <= e
  <2>1. Len(s) \in Nat  OBVIOUS
  <2> QED  BY <2>1 DEF FilterOK
<1>2. f.buffer \in [Cells -> Nat] /\ BufferLength \in Nat  BY Assumed DEF FilterOK
<1>3. \A i \in Cells : f.b_end <= i /\ i < f.b_end + Len(s) => s[i - f.b_end + 1] \in Nat
  <2> TAKE i \in Cells
  <2> HAVE f.b_end <= i /\ i < f.b_end + Len(s)
  <2>1. i - f.b_end + 1 \in 1 .. Len(s)  BY <1>1, <1>2 DEF Cells
  <2> QED  BY <2>1
<1>4. b \in [Cells -> Nat]  BY <1>2, <1>3
<1>5. Loaded(f, s) = Filter(b, c, e + n, r)  BY <1>1 DEF Loaded
<1> HIDE DEF b
<1>6. e + n \in Nat /\ c <= e + n /\ r <= e + n  BY <1>1
<1>7. FilterOK(Filter(b, c, e + n, r))  BY <1>1, <1>4, <1>6, FilterIs
<1> QED  BY <1>1, <1>5, <1>7 DEF Filter

\* Where the end of the input is put: behind the samples, moved or not, and all
\* of the silence the filter reaches over fits.
ClosedBase(f, h) == IF BufferLength - f.b_end < h + Pad THEN Moved(f, h) ELSE f

LEMMA ClosedOK ==
  ASSUME NEW f, FilterOK(f), f.b_current # 0, NEW h, ReachOK(h), IsLast(f, h)
  PROVE  /\ FilterOK(Closed(f, h)) /\ Closed(f, h).b_current # 0
         /\ ClosedBase(f, h) = f \/ (ClosedBase(f, h) = Moved(f, h) /\ h <= f.b_current)
         /\ ClosedBase(f, h).b_end + h + Pad <= BufferLength
         /\ Closed(f, h) =
              Filter([i \in Cells |-> IF ClosedBase(f, h).b_end <= i
                                         /\ i < ClosedBase(f, h).b_end + (h + Pad)
                                      THEN 0 ELSE ClosedBase(f, h).buffer[i]],
                     ClosedBase(f, h).b_current, ClosedBase(f, h).b_end + (h + Pad),
                     ClosedBase(f, h).b_end)
<1> DEFINE g == ClosedBase(f, h)
<1>1. PICK c \in Nat, e \in Nat :
        /\ f.b_current = c /\ f.b_end = e /\ c <= e /\ e <= BufferLength
        /\ Reach[Unit] <= c
  BY DEF FilterOK
<1>2. /\ BufferLength \in Nat /\ h \in Nat \ {0} /\ Pad \in Nat \ {0}
      /\ Reach[Unit] \in Nat \ {0} /\ Reach[Unit] <= h /\ 4 * h + Pad <= BufferLength
      /\ f.buffer \in [Cells -> Nat] /\ e - c < 2 * h
  BY <1>1, ReachTypes DEF FilterOK, IsLast
<1>3. /\ g = f \/ (g = Moved(f, h) /\ h <= c)
      /\ \E c1 \in Nat, e1 \in Nat :
           /\ g.b_current = c1 /\ g.b_end = e1 /\ g.buffer \in [Cells -> Nat]
           /\ Reach[Unit] <= c1 /\ c1 <= e1 /\ e1 + h + Pad <= BufferLength
  <2>1. CASE BufferLength - e < h + Pad
    <3>1. h <= c  BY <1>1, <1>2, <2>1
    <3>2. g = Moved(f, h)  BY <1>1, <2>1 DEF ClosedBase
    <3>3. Moved(f, h) = Filter(Moved(f, h).buffer, h, h + (e - c), f.b_real_end)
          /\ Moved(f, h).buffer \in [Cells -> Nat]
      BY <1>1, <3>1, MovedOK
    <3>4. Moved(f, h).b_current = h /\ Moved(f, h).b_end = h + (e - c)
      BY <3>3 DEF Filter
    <3>5. h + (e - c) \in Nat /\ h <= h + (e - c) /\ h + (e - c) + h + Pad <= BufferLength
      BY <1>1, <1>2
    <3> QED  BY <1>2, <3>1, <3>2, <3>3, <3>4, <3>5
  <2>2. CASE ~(BufferLength - e < h + Pad)
    <3>1. g = f  BY <1>1, <2>2 DEF ClosedBase
    <3>2. e + h + Pad <= BufferLength  BY <1>1, <1>2, <2>2
    <3> QED  BY <1>1, <1>2, <3>1, <3>2
  <2> QED  BY <2>1, <2>2
<1>4. PICK c1 \in Nat, e1 \in Nat :
        /\ g.b_current = c1 /\ g.b_end = e1 /\ g.buffer \in [Cells -> Nat]
        /\ Reach[Unit] <= c1 /\ c1 <= e1 /\ e1 + h + Pad <= BufferLength
  BY <1>3
<1> DEFINE b == [i \in Cells |-> IF g.b_end <= i /\ i < g.b_end + (h + Pad) THEN 0
                                 ELSE g.buffer[i]]
           zeros == IF g.b_end + h + Pad > BufferLength
                    THEN BufferLength - g.b_end ELSE h + Pad
<1> HIDE DEF g
<1>5. zeros = h + Pad  BY <1>2, <1>4
<1>6. Closed(f, h) =
        Filter([i \in Cells |-> IF g.b_end <= i /\ i < g.b_end + zeros THEN 0
                                ELSE g.buffer[i]],
               g.b_current, g.b_end + zeros, g.b_end)
  BY DEF Closed, g, ClosedBase
<1>7. Closed(f, h) = Filter(b, g.b_current, g.b_end + (h + Pad), g.b_end)
  BY <1>5, <1>6
<1>8. b \in [Cells -> Nat]  BY <1>4
<1> DEFINE n == e1 + (h + Pad)
<1>9. n \in Nat /\ c1 <= n /\ n <= BufferLength /\ e1 <= n /\ -1 <= e1 /\ e1 \in Int
  BY <1>2, <1>4
<1>10. Closed(f, h) = Filter(b, c1, n, e1)  BY <1>4, <1>7
<1> HIDE DEF b, n
<1>11. FilterOK(Filter(b, c1, n, e1)) /\ c1 # 0  BY <1>4, <1>8, <1>9, FilterIs
<1>12. Filter(b, c1, n, e1).b_current = c1  BY DEF Filter
<1> QED  BY <1>1, <1>3, <1>4, <1>7, <1>10, <1>11, <1>12 DEF b, g

-----------------------------------------------------------------------------
\* Type correctness, and what the program exits for

LEMMA InitIInv == Init => IInv
<1> SUFFICES ASSUME Init PROVE IInv  OBVIOUS
<1>1. FilterOK(filter)
  <2>1. filter = Filter([i \in Cells |-> 0], 0, 0, -1)  BY DEF Init, Reset
  <2>2. [i \in Cells |-> 0] \in [Cells -> Nat]  OBVIOUS
  <2> QED  BY <2>1, <2>2, FilterAssumption DEF FilterOK, Filter
<1>2. RatesOK  BY Assumed DEF Init, RatesOK, Processing
<1>3. InputOK  BY Assumed DEF Init, InputOK, Processing
<1>4. KeptOK  BY DEF Init, KeptOK, Processing
<1>5. fed \in Seq(Nat) /\ pos \in Nat /\ given \in Nat /\ gen \in 0 .. OutSize
  BY Assumed DEF Init
<1> QED  BY <1>1, <1>2, <1>3, <1>4, <1>5 DEF Init, IInv

\* src_process begins, with a new ratio or the one it has; it refuses a bad one.
LEMMA BeginOK ==
  ASSUME IInv, NEW rate \in {conv, last}, Begin(rate), UNCHANGED <<conv, filter>>
  PROVE  /\ RatesOK' /\ KeptOK' /\ outgrown' \in BOOLEAN
         /\ \/ pc' = "exited" /\ conv = Bad /\ UNCHANGED <<last, used, gen, step, outgrown>>
            \/ /\ pc' = "process" /\ conv # Bad /\ used' = 0 /\ gen' = 0
               /\ step' = last' /\ last' \in {conv, last} /\ last' # 0
<1>1. CASE conv = Bad
  <2>1. pc' = "exited" /\ UNCHANGED <<last, used, gen, step, outgrown>>
    BY <1>1 DEF Begin
  <2>2. ~Processing'  BY <2>1 DEF Processing
  <2> QED  BY <1>1, <2>1, <2>2 DEF IInv, RatesOK, KeptOK
<1>2. CASE conv # Bad
  <2>1. conv \in Steps /\ conv \in 1 .. LongestStep  BY <1>2, Assumed DEF IInv, RatesOK
  <2>2. /\ pc' = "process" /\ used' = 0 /\ gen' = 0 /\ step' = last'
        /\ last' = IF rate = 0 THEN conv ELSE rate
        /\ outgrown' = (outgrown \/ filter.b_current \in 1 .. ReachOf(last', conv) - 1)
    BY <1>2 DEF Begin
  <2>3. last' \in 1 .. LongestStep
    BY <2>1, <2>2, Assumed DEF IInv, RatesOK
  <2>4. RatesOK'  BY <2>1, <2>2, <2>3 DEF RatesOK
  <2>5. KeptOK'
    <3>1. half' = ReachOf(last', conv)  BY DEF half, ReachOf
    <3>2. half' \in Nat
      <4>1. ReachOK(ReachOf(last', conv))  BY <2>1, <2>3, ReachIs
      <4> QED  BY <3>1, <4>1, ReachTypes
    <3>3. filter.b_current \in Nat  BY DEF IInv, FilterOK
    <3>4. filter.b_current # 0 => half' <= filter.b_current \/ outgrown'
      <4>1. filter.b_current # 0 /\ ~(half' <= filter.b_current) =>
              filter.b_current \in 1 .. ReachOf(last', conv) - 1
        BY <3>1, <3>2, <3>3
      <4>2. filter.b_current \in 1 .. ReachOf(last', conv) - 1 => outgrown'
        BY <2>2, Zenon
      <4> QED  BY <4>1, <4>2, Zenon
    <3>5. UNCHANGED filter  OBVIOUS
    <3> QED  BY <3>4, <3>5 DEF KeptOK
  <2>6. outgrown' \in BOOLEAN  BY <2>2 DEF IInv
  <2> QED  BY <1>2, <2>1, <2>2, <2>3, <2>4, <2>5, <2>6
<1> QED  BY <1>1, <1>2

LEMMA CallSteps == ASSUME IInv, Sample \/ Done \/ Again PROVE IInv'
<1>1. CASE Sample
  <2>1. /\ pc = "idle" /\ given' = given + 1 /\ in' = Append(in, given + 1)
        /\ op' = "sample" /\ UNCHANGED <<got_time, conv, filter, pos, fed, carried>>
    BY <1>1 DEF Sample
  <2>2. in' \in Seq(Nat) /\ Len(in') = Len(in) + 1 /\ Len(in') <= InSize
        /\ given' \in Nat
    BY <2>1, Assumed DEF IInv, InputOK
  <2>3. CASE Full(Len(in'))
    <3>1. Begin(conv)  BY <1>1, <2>3 DEF Sample
    <3>2. /\ RatesOK' /\ KeptOK' /\ outgrown' \in BOOLEAN
          /\ \/ pc' = "exited" /\ conv = Bad /\ UNCHANGED <<used, gen>>
             \/ pc' = "process" /\ used' = 0 /\ gen' = 0
      BY <2>1, <3>1, BeginOK
    <3>3. InputOK'  BY <2>2, <3>2 DEF InputOK, Processing
    <3> QED  BY <2>1, <2>2, <3>2, <3>3, Assumed DEF IInv
  <2>4. CASE ~Full(Len(in'))
    <3>1. UNCHANGED <<pc, last, used, gen, step, outgrown>>  BY <1>1, <2>4 DEF Sample
    <3>2. InputOK'  BY <2>1, <2>2, <2>4, <3>1, Assumed DEF InputOK, Processing, Full
    <3>3. RatesOK'  BY <2>1, <3>1 DEF IInv, RatesOK, Processing
    <3>4. KeptOK'  BY <2>1, <3>1 DEF KeptOK, Processing
    <3> QED  BY <2>1, <2>2, <3>1, <3>2, <3>3, <3>4 DEF IInv
  <2> QED  BY <2>3, <2>4
<1>2. CASE Done \/ Again
  <2>1. /\ UNCHANGED <<got_time, in, conv, filter, pos, given, fed, carried>>
        /\ op' \in {"sample", "done"}
        /\ pc # "exited"
        /\ \E rate \in {conv, last} : Begin(rate)
    BY <1>2 DEF Done, Again, IInv
  <2>2. PICK rate \in {conv, last} : Begin(rate)  BY <2>1
  <2>3. /\ RatesOK' /\ KeptOK' /\ outgrown' \in BOOLEAN
        /\ \/ pc' = "exited" /\ conv = Bad /\ UNCHANGED <<used, gen>>
           \/ pc' = "process" /\ used' = 0 /\ gen' = 0
    BY <2>1, <2>2, BeginOK
  <2>4. InputOK'  BY <2>1, <2>3 DEF IInv, InputOK, Processing
  <2> QED  BY <2>1, <2>3, <2>4, Assumed DEF IInv
<1> QED  BY <1>1, <1>2

LEMMA QuietSteps == ASSUME IInv, Time \/ Over \/ UNCHANGED vars PROVE IInv'
<1>1. CASE Time
  <2>1. UNCHANGED <<in, last, filter, pos, pc, op, used, gen, step, given, fed, carried,
                    outgrown>>
        /\ got_time' = TRUE /\ conv' \in Steps \cup {Bad} /\ pc = "idle"
    BY <1>1 DEF Time, IInv, RatesOK
  <2>2. RatesOK'  BY <2>1 DEF IInv, RatesOK, Processing
  <2>3. InputOK'  BY <2>1 DEF IInv, InputOK, Processing
  <2>4. KeptOK'  BY <2>1 DEF KeptOK, Processing
  <2> QED  BY <2>1, <2>2, <2>3, <2>4 DEF IInv
<1>2. CASE UNCHANGED vars
  <2>1. RatesOK' /\ InputOK' /\ KeptOK'
    BY <1>2 DEF vars, IInv, RatesOK, InputOK, KeptOK, Processing, half, ReachOf
  <2> QED  BY <1>2, <2>1 DEF vars, IInv
<1> QED  BY <1>1, <1>2 DEF Over

\* What prepare_data takes fits the room and is a piece of the buffer in.
LEMMA TakenIs ==
  ASSUME InputOK, Processing, NEW f, Room(f, half) \in Nat
  PROVE  /\ Taken(f) \in Seq(Nat)
         /\ Len(Taken(f)) <= Room(f, half) /\ used + Len(Taken(f)) <= Len(in)
         /\ \A k \in 1 .. Len(Taken(f)) : Taken(f)[k] = in[used + k]
<1> DEFINE left == Len(in) - used
           n == IF left < Room(f, half) THEN left ELSE Room(f, half)
<1>1. used \in Nat /\ Len(in) \in Nat /\ left \in Nat /\ in \in Seq(Nat)
      /\ n \in Nat /\ n <= Room(f, half) /\ n <= left
  BY DEF InputOK, Processing
<1>2. Taken(f) = SubSeq(in, used + 1, used + n)  BY DEF Taken
<1> HIDE DEF n
<1>3. used + n <= Len(in)  BY <1>1
<1>4. /\ SubSeq(in, used + 1, used + n) \in Seq(Nat)
      /\ Len(SubSeq(in, used + 1, used + n)) = n
      /\ \A k \in 1 .. n : SubSeq(in, used + 1, used + n)[k] = in[used + k]
  BY <1>1, <1>3
<1> QED  BY <1>1, <1>2, <1>3, <1>4

\* prepare_data has room for what it takes and ends without an error.
LEMMA ReloadIs ==
  ASSUME FilterOK(filter), InputOK, RatesOK, Reload
  PROVE  LET p == Placed(filter, half)
             s == Taken(p)
             q == Loaded(p, s)
         IN  /\ FilterOK(p) /\ p.b_current # 0 /\ p.b_real_end = -1
             /\ Room(p, half) \in Nat
             /\ s \in Seq(Nat) /\ used + Len(s) <= Len(in)
             /\ p.b_end + Len(s) <= BufferLength
             /\ pc' = "loaded" /\ used' = used + Len(s) /\ fed' = fed \o s
             /\ filter' = IF used' = Len(in) /\ IsLast(q, half) /\ op = "done"
                          THEN Closed(q, half) ELSE q
<1>1. Processing /\ InHand(filter) <= half /\ filter.b_real_end < 0
  BY DEF Reload, NeedsData, Processing
<1> DEFINE p == Placed(filter, half)
           s == Taken(p)
           q == Loaded(p, s)
<1>2. ReachOK(half)  BY <1>1, HalfIs
<1>3. /\ FilterOK(p) /\ p.b_current # 0 /\ p.b_real_end = -1 /\ Room(p, half) \in Nat
      /\ \A k \in Nat : k <= Room(p, half) => p.b_end + k <= BufferLength
  BY <1>1, <1>2, PlacedOK
<1>4. s \in Seq(Nat) /\ Len(s) <= Room(p, half) /\ used + Len(s) <= Len(in)
  BY <1>1, <1>3, TakenIs
<1>5. Len(s) \in Nat /\ p.b_end + Len(s) <= BufferLength  BY <1>3, <1>4
<1>6. p.b_end \in Nat /\ BufferLength \in Nat  BY <1>3, Assumed DEF FilterOK
<1>7. ~(p.b_end + Len(s) > BufferLength)
  <2> HIDE DEF p, s
  <2> QED  BY <1>5, <1>6
<1>8. /\ pc' = "loaded" /\ used' = used + Len(s) /\ fed' = fed \o s
      /\ filter' = IF used' = Len(in) /\ IsLast(q, half) /\ op = "done"
                   THEN Closed(q, half) ELSE q
  BY <1>7 DEF Reload
<1> HIDE DEF p, s, q
<1>9. /\ FilterOK(p) /\ p.b_current # 0 /\ p.b_real_end = -1 /\ Room(p, half) \in Nat
      /\ s \in Seq(Nat) /\ used + Len(s) <= Len(in)
      /\ p.b_end + Len(s) <= BufferLength
      /\ pc' = "loaded" /\ used' = used + Len(s) /\ fed' = fed \o s
      /\ filter' = IF used' = Len(in) /\ IsLast(q, half) /\ op = "done"
                   THEN Closed(q, half) ELSE q
  BY <1>3, <1>4, <1>5, <1>8
<1> QED  BY <1>9 DEF p, s, q

\* The position stays where it is or as far behind the start of the buffer as
\* the filter reaches.
LEMMA ReloadKeeps ==
  ASSUME FilterOK(filter), InputOK, RatesOK, KeptOK, Reload
  PROVE  FilterOK(filter') /\ filter'.b_current # 0 /\ KeptOK'
<1> DEFINE p == Placed(filter, half)
           s == Taken(p)
           q == Loaded(p, s)
<1>1. /\ FilterOK(p) /\ p.b_current # 0 /\ p.b_real_end = -1
      /\ s \in Seq(Nat) /\ p.b_end + Len(s) <= BufferLength
      /\ \/ filter' = q
         \/ filter' = Closed(q, half) /\ IsLast(q, half)
  BY ReloadIs
<1>2. /\ Processing /\ ReachOK(half) /\ UNCHANGED <<last, conv, outgrown>>
      /\ InHand(filter) <= half /\ filter.b_real_end < 0
  BY HalfIs DEF Reload, NeedsData, Processing
<1>3. half \in Nat /\ half' = half  BY <1>2, ReachTypes DEF half, ReachOf
<1>4. half <= p.b_current \/ (filter.b_current # 0 /\ p.b_current = filter.b_current)
  <2>1. \/ p = Filter(filter.buffer, half, half, -1)
        \/ filter.b_current # 0 /\ p = filter
        \/ p = Moved(filter, half)
    BY <1>2, PlacedOK
  <2> QED  BY <1>3, <2>1 DEF Moved, Filter
<1> HIDE DEF p, s
<1>5. FilterOK(q) /\ q.b_current # 0 /\ q.b_current = p.b_current
  BY <1>1, LoadedOK
<1> HIDE DEF q
<1>6. CASE filter' = q
  BY <1>2, <1>3, <1>4, <1>5, <1>6 DEF KeptOK
<1>7. CASE filter' = Closed(q, half) /\ IsLast(q, half)
  <2>1. /\ FilterOK(Closed(q, half)) /\ Closed(q, half).b_current # 0
        /\ ClosedBase(q, half) = q \/ ClosedBase(q, half) = Moved(q, half)
    BY <1>2, <1>5, <1>7, ClosedOK
  <2>2. Closed(q, half).b_current = ClosedBase(q, half).b_current
    BY DEF Closed, ClosedBase, Filter
  <2>3. Closed(q, half).b_current = q.b_current \/ Closed(q, half).b_current = half
    BY <2>1, <2>2 DEF Moved, Filter
  <2> QED  BY <1>2, <1>3, <1>4, <1>5, <1>7, <2>1, <2>3 DEF KeptOK
<1> QED  BY <1>1, <1>6, <1>7

LEMMA ReloadOK == ASSUME IInv, Reload PROVE IInv'
<1>1. FilterOK(filter) /\ InputOK /\ RatesOK /\ KeptOK  BY DEF IInv
<1>2. /\ pc = "process" /\ Processing /\ gen < OutSize
      /\ UNCHANGED <<got_time, in, conv, last, pos, op, gen, step, given, carried, outgrown>>
  BY DEF Reload, Processing
<1> DEFINE s == Taken(Placed(filter, half))
<1>3. /\ s \in Seq(Nat) /\ used + Len(s) <= Len(in)
      /\ pc' = "loaded" /\ used' = used + Len(s) /\ fed' = fed \o s
  BY <1>1, ReloadIs
<1>4. FilterOK(filter)' /\ KeptOK'  BY <1>1, ReloadKeeps DEF FilterOK
<1> HIDE DEF s
<1>5. RatesOK'  BY <1>2, <1>3 DEF IInv, RatesOK, Processing
<1>6. Len(s) \in Nat /\ Len(in) \in Nat /\ used \in Nat
  BY <1>1, <1>2, <1>3 DEF InputOK
<1>7. InputOK'  BY <1>2, <1>3, <1>6 DEF IInv, InputOK, Processing
<1>8. fed' \in Seq(Nat)  BY <1>3 DEF IInv
<1> QED  BY <1>2, <1>3, <1>4, <1>5, <1>7, <1>8 DEF IInv

\* The position stays inside the buffer: a step never goes past what is in hand.
LEMMA EmitMoves ==
  ASSUME IInv, Emit
  PROVE  \E s \in 1 .. LongestStep, n \in Nat :
           /\ s \in (IF last <= conv THEN last .. conv ELSE conv .. last)
           /\ step' = s /\ pos' = pos + s
           /\ n = (pos + s) \div Unit - pos \div Unit
           /\ filter.b_current # 0 /\ filter.b_current + n < filter.b_end
           /\ filter' = Filter(filter.buffer, filter.b_current + n, filter.b_end,
                               filter.b_real_end)
<1>1. Prepared /\ InHand(filter) > half  BY DEF Emit, AtFilter
<1>2. PICK s \in (IF last <= conv THEN last .. conv ELSE conv .. last) :
        /\ step' = s /\ pos' = pos + s
        /\ filter' = Advanced(filter, (pos + s) \div Unit - pos \div Unit)
  BY DEF Emit
<1>3. Processing /\ RatesOK /\ pos \in Nat /\ FilterOK(filter)
  BY <1>1 DEF Prepared, Processing, IInv
<1>4. /\ ReachOK(half) /\ conv \in 1 .. LongestStep /\ last \in 1 .. LongestStep
      /\ conv <= half * Unit /\ last <= half * Unit /\ half \in Nat \ {0}
      /\ half * Unit \in Nat
  <2>1. /\ ReachOK(half) /\ conv \in 1 .. LongestStep /\ last \in 1 .. LongestStep
        /\ conv <= half * Unit /\ last <= half * Unit
    BY <1>3, HalfIs
  <2>2. half \in Nat \ {0}  BY <2>1, ReachTypes
  <2>3. PICK h \in Nat, u \in Nat : h = half /\ u = Unit  BY <2>2, Assumed
  <2>4. h * u \in Nat  OBVIOUS
  <2> QED  BY <2>1, <2>2, <2>3, <2>4
<1>5. s \in 1 .. LongestStep /\ s <= half * Unit /\ s \in Nat
  <2>1. PICK h \in Nat, p \in Nat, q \in Nat, l \in Nat :
          h = half * Unit /\ p = last /\ q = conv /\ l = LongestStep
    BY <1>4, Assumed
  <2>2. 1 <= p /\ p <= l /\ 1 <= q /\ q <= l /\ p <= h /\ q <= h  BY <1>4, <2>1
  <2>3. s \in (IF p <= q THEN p .. q ELSE q .. p)  BY <2>1
  <2> QED  BY <2>1, <2>2, <2>3
<1> DEFINE n == (pos + s) \div Unit - pos \div Unit
<1>6. n \in 0 .. half
  BY <1>3, <1>4, <1>5, MovesInReach
<1> HIDE DEF n
<1>7. PICK c \in Nat, e \in Nat :
        /\ filter.b_current = c /\ filter.b_end = e /\ e - c > half
        /\ e <= BufferLength /\ c <= e /\ (c = 0 => e = 0)
  BY <1>1, <1>3, InHandIs DEF FilterOK
<1>8. c # 0 /\ c + n \in Nat /\ c + n < e /\ n \in Nat /\ BufferLength \in Nat
      /\ c + n < BufferLength
  BY <1>4, <1>6, <1>7, Assumed
<1>9. (c + n) % BufferLength = c + n  BY <1>8, RemainderInside
<1>10. filter' = Filter(filter.buffer, c + n, e, filter.b_real_end)
  BY <1>2, <1>7, <1>9 DEF Advanced, n
<1> QED  BY <1>2, <1>5, <1>7, <1>8, <1>10 DEF n

LEMMA EmitOK == ASSUME IInv, Emit PROVE IInv' /\ pc' = "process"
<1>1. PICK s \in 1 .. LongestStep, n \in Nat :
        /\ step' = s /\ pos' = pos + s
        /\ filter.b_current # 0 /\ filter.b_current + n < filter.b_end
        /\ filter' = Filter(filter.buffer, filter.b_current + n, filter.b_end,
                            filter.b_real_end)
  BY EmitMoves
<1>2. /\ Prepared /\ gen' = gen + 1 /\ pc' = "process"
      /\ UNCHANGED <<got_time, in, conv, last, op, used, given, fed, carried, outgrown>>
  BY DEF Emit, AtFilter
<1>3. Processing /\ Processing' /\ gen < OutSize
  BY <1>2 DEF IInv, InputOK, Prepared, Processing
<1>4. PICK c \in Nat, e \in Nat, r \in Int :
        /\ filter.b_current = c /\ filter.b_end = e /\ filter.b_real_end = r
        /\ Reach[Unit] <= c /\ e <= BufferLength /\ -1 <= r /\ r <= e
  BY <1>1 DEF IInv, FilterOK
<1>5. filter.buffer \in [Cells -> Nat] /\ Reach[Unit] \in Nat
  BY Assumed DEF IInv, FilterOK
<1>6. c + n \in Nat /\ Reach[Unit] <= c + n /\ c + n <= e  BY <1>1, <1>4, <1>5
<1>7. FilterOK(filter)'
  <2>1. filter' = Filter(filter.buffer, c + n, e, r)  BY <1>1, <1>4
  <2>2. FilterOK(filter')  BY <1>4, <1>5, <1>6, <2>1, FilterIs
  <2> QED  BY <2>2 DEF FilterOK
<1>8. KeptOK'
  <2>1. half' = half  BY <1>2 DEF half, ReachOf
  <2>2. half \in Nat  BY <1>3, HalfIs, ReachTypes DEF IInv
  <2>3. half <= c \/ outgrown  BY <1>1, <1>3, <1>4 DEF IInv, KeptOK
  <2>4. filter'.b_current = c + n  BY <1>1, <1>4 DEF Filter
  <2> QED  BY <1>2, <1>6, <2>1, <2>2, <2>3, <2>4 DEF KeptOK
<1>9. RatesOK'  BY <1>1, <1>2, <1>3, Assumed DEF IInv, RatesOK
<1>10. InputOK'  BY <1>2, <1>3 DEF IInv, InputOK, Processing
<1>11. pos' \in Nat /\ gen' \in 0 .. OutSize
  BY <1>1, <1>2, <1>3, Assumed DEF IInv
<1> QED  BY <1>2, <1>7, <1>8, <1>9, <1>10, <1>11 DEF IInv

\* What Return leaves in the buffer: as many samples as were not used, and the
\* right ones when that is one at most, or none was used.
LEMMA CarriedIs ==
  ASSUME InputOK, Processing
  PROVE  /\ Carried(used) \in Seq(Nat) /\ Len(Carried(used)) = Len(in) - used
         /\ used = 0 \/ Len(in) - used <= 1 =>
              \A k \in 1 .. Len(in) - used : Carried(used)[k] = in[used + k]
<1>1. used \in Nat /\ Len(in) \in Nat /\ used <= Len(in) /\ in \in Seq(Nat)
  BY DEF InputOK, Processing
<1>2. ASSUME NEW k \in 1 .. Len(in) - used
      PROVE  (IF k = 1 THEN in[used + 1] ELSE in[k]) \in Nat
  <2>1. k \in 1 .. Len(in) /\ (k = 1 => used + 1 \in 1 .. Len(in))  BY <1>1
  <2> QED  BY <1>1, <2>1
<1>3. Carried(used) \in Seq(Nat) /\ Len(Carried(used)) = Len(in) - used
  BY <1>1, <1>2 DEF Carried
<1>4. ASSUME used = 0 \/ Len(in) - used <= 1, NEW k \in 1 .. Len(in) - used
      PROVE  Carried(used)[k] = in[used + k]
  <2>1. Carried(used)[k] = IF k = 1 THEN in[used + 1] ELSE in[k]  BY DEF Carried
  <2> QED  BY <1>1, <1>4, <2>1
<1> QED  BY <1>3, <1>4

LEMMA ReturnOK == ASSUME IInv, Return PROVE IInv' /\ ~Processing'
<1>1. /\ Processing /\ in' = Carried(used)
      /\ carried' = (carried \/ (used > 0 /\ Len(in) - used > 1))
      /\ last' = step
      /\ pc' = CASE op = "sample" /\ ~Full(Len(in')) -> "idle"
                 [] op = "sample" /\ Full(Len(in')) -> "again"
                 [] op = "done" /\ GoesOn(in') -> "again"
                 [] OTHER -> "over"
      /\ UNCHANGED <<got_time, conv, filter, pos, op, used, gen, step, given, fed, outgrown>>
  BY DEF Return, Processing, Prepared
<1>2. InputOK /\ used \in Nat /\ Len(in) \in Nat /\ Len(in) <= InSize
  BY <1>1 DEF IInv, InputOK
<1>3. in' \in Seq(Nat) /\ Len(in') = Len(in) - used  BY <1>1, <1>2, CarriedIs
<1>4. pc' \in {"idle", "again", "over"} /\ (pc' = "idle" => ~Full(Len(in')))
  BY <1>1
<1>5. ~Processing'  BY <1>4 DEF Processing
<1>6. InputOK' /\ KeptOK'
  BY <1>2, <1>3, <1>4, <1>5, Assumed DEF InputOK, Full, Processing, KeptOK
<1>7. RatesOK'  BY <1>1, <1>5 DEF IInv, RatesOK
<1>8. carried' \in BOOLEAN  BY <1>1 DEF IInv
<1> QED  BY <1>1, <1>4, <1>5, <1>6, <1>7, <1>8 DEF IInv

\* Reading before the buffer only happens after the ratio fell too far.
LEMMA FaultOK == ASSUME IInv, Fault PROVE IInv' /\ ~Processing'
<1>1. /\ Prepared /\ InHand(filter) > half /\ filter.b_current < half /\ pc' = "exited"
      /\ UNCHANGED <<got_time, in, conv, last, filter, pos, op, used, gen, step, given,
                     fed, carried, outgrown>>
  BY DEF Fault, AtFilter
<1>2. Processing /\ ~Processing'  BY <1>1 DEF Prepared, Processing
<1>3. outgrown
  <2>1. half \in Nat \ {0}  BY <1>2, HalfIs, ReachTypes DEF IInv
  <2>2. PICK c \in Nat, e \in Nat :
          filter.b_current = c /\ filter.b_end = e /\ (c = 0 => e = 0) /\ e - c > half
    BY <1>1, InHandIs DEF IInv, FilterOK
  <2>3. filter.b_current # 0 /\ ~(half <= filter.b_current)  BY <1>1, <2>1, <2>2
  <2> QED  BY <1>2, <2>3 DEF IInv, KeptOK
<1>4. InputOK' /\ KeptOK' /\ RatesOK'
  BY <1>1, <1>2 DEF IInv, InputOK, KeptOK, RatesOK, Processing
<1> QED  BY <1>1, <1>2, <1>3, <1>4 DEF IInv

LEMMA StepIInv == IInv /\ [Next]_vars => IInv'
<1> SUFFICES ASSUME IInv, [Next]_vars PROVE IInv'  OBVIOUS
<1>1. CASE Sample \/ Done \/ Again  BY <1>1, CallSteps
<1>2. CASE Time \/ Over \/ UNCHANGED vars  BY <1>2, QuietSteps
<1>3. CASE Reload  BY <1>3, ReloadOK
<1>4. CASE Emit  BY <1>4, EmitOK
<1>5. CASE Return  BY <1>5, ReturnOK
<1>6. CASE Fault  BY <1>6, FaultOK
<1> QED  BY <1>1, <1>2, <1>3, <1>4, <1>5, <1>6 DEF Next, Process

\* The inductive invariant: both buffers are in order, whatever the ratios.
THEOREM Invariance == Spec => []IInv
<1>1. Init => IInv  BY InitIInv
<1>2. IInv /\ [Next]_vars => IInv'  BY StepIInv
<1> QED  BY <1>1, <1>2, PTL DEF Spec

\* Both buffers are never overrun, nothing is put before their start and every
\* position stays where it belongs (resampler.h and prepare_data of src_sinc.c),
\* however the reach of the filter changes from call to call.
THEOREM TypeCorrect == Spec => []TypeOK
<1>1. IInv => TypeOK
  <2> SUFFICES ASSUME IInv PROVE TypeOK  OBVIOUS
  <2>1. conv \in Steps \cup {Bad} /\ last \in Nat /\ step \in Nat
    BY Assumed DEF IInv, RatesOK
  <2>2. {got_time, carried, outgrown} \subseteq BOOLEAN
    <3>1. got_time \in BOOLEAN /\ carried \in BOOLEAN /\ outgrown \in BOOLEAN  BY DEF IInv
    <3> QED  BY <3>1, Zenon
  <2>3. filter.b_real_end \in -1 .. filter.b_end
    <3>1. PICK e \in Nat, r \in Int :
            filter.b_end = e /\ filter.b_real_end = r /\ -1 <= r /\ r <= e
      BY DEF IInv, FilterOK
    <3> QED  BY <3>1
  <2> QED  BY <2>1, <2>2, <2>3 DEF IInv, TypeOK, FilterOK, InputOK, Processing
<1> QED  BY <1>1, Invariance, PTL

\* The program exits in the resampler for two reasons only, a ratio that no
\* recording has, or one so much lower than before that the filter reads before
\* its buffer: src_process never finds its buffer in disorder.
THEOREM OnlyRatioFails == Spec => [](pc = "exited" => conv = Bad \/ outgrown)
<1>1. IInv => (pc = "exited" => conv = Bad \/ outgrown)  BY DEF IInv
<1> QED  BY <1>1, Invariance, PTL

\* With ratios that are never below 1 the filter never reaches beyond the
\* samples kept for it (lines 338-343 of src_sinc.c make its reach the same then).
THEOREM NeverOutgrown ==
  ASSUME LongestStep = Unit
  PROVE  Spec => []~outgrown
<1>1. ASSUME NEW s \in 1 .. LongestStep, NEW t \in 1 .. LongestStep
      PROVE  ReachOf(s, t) = Reach[Unit]
  <2> DEFINE m == IF s >= t THEN s ELSE t
  <2>1. m \in 1 .. LongestStep /\ m <= Unit  BY <1>1
  <2>2. ReachOf(s, t) = Reach[m]  BY DEF ReachOf
  <2> HIDE DEF m
  <2>3. Reach[m] = Reach[Unit]  BY <2>1, Assumed, ReachAssumption
  <2> QED  BY <2>2, <2>3
<1>2. Init => ~outgrown  BY DEF Init
<1>3. IInv /\ ~outgrown /\ [Next]_vars => ~outgrown'
  <2> SUFFICES ASSUME IInv, ~outgrown, [Next]_vars PROVE ~outgrown'
    OBVIOUS
  <2>1. ASSUME NEW rate \in {conv, last}, Begin(rate), UNCHANGED <<conv, filter>>
        PROVE  ~outgrown'
    <3>1. CASE conv = Bad  BY <2>1, <3>1 DEF Begin
    <3>2. CASE conv # Bad
      <4>1. conv \in 1 .. LongestStep  BY <3>2, Assumed DEF IInv, RatesOK
      <4>2. last' \in 1 .. LongestStep
        BY <2>1, <3>2, <4>1, Assumed DEF IInv, RatesOK, Begin
      <4>3. ReachOf(last', conv) = Reach[Unit]
        BY <1>1, <4>1, <4>2
      <4>4. filter.b_current \notin 1 .. Reach[Unit] - 1
        <5>1. PICK c \in Nat : filter.b_current = c /\ (c = 0 \/ Reach[Unit] <= c)
          BY DEF IInv, FilterOK
        <5> QED  BY <5>1, Assumed
      <4>5. outgrown' = (outgrown \/ filter.b_current \in 1 .. ReachOf(last', conv) - 1)
        BY <2>1, <3>2 DEF Begin
      <4> QED  BY <4>3, <4>4, <4>5, Zenon
    <3> QED  BY <3>1, <3>2
  <2>2. CASE Sample
    <3>1. Begin(conv) \/ UNCHANGED outgrown  BY <2>2 DEF Sample
    <3> QED  BY <2>1, <2>2, <3>1 DEF Sample
  <2>3. CASE Done \/ Again  BY <2>1, <2>3 DEF Done, Again
  <2>4. CASE UNCHANGED outgrown  BY <2>4
  <2> QED
    BY <2>2, <2>3, <2>4 DEF Next, Process, Reload, Emit, Return, Fault, Time, Over, vars
<1> QED  BY <1>2, <1>3, Invariance, PTL DEF Spec

-----------------------------------------------------------------------------
\* Nothing is lost: what the buffer in holds follows what the filter took in

\* How many samples at the start of in the filter has already.
Taken0 == IF Processing THEN used ELSE 0

InOrder ==
  ~carried /\ pc # "exited" =>
    /\ Len(fed) + Len(in) - Taken0 = given
    /\ \A k \in 1 .. Len(fed) : fed[k] = k
    /\ \A k \in 1 .. Len(in) : in[k] = Len(fed) - Taken0 + k

\* The numbers up to n, in two pieces.
LEMMA Joined ==
  ASSUME NEW n \in Nat, NEW s \in Seq(Nat), NEW t \in Seq(Nat), Len(s) + Len(t) = n,
         \A k \in 1 .. Len(s) : s[k] = k,
         \A k \in 1 .. Len(t) : t[k] = Len(s) + k
  PROVE  s \o t = [i \in 1 .. n |-> i]
<1>1. Len(s) \in Nat /\ Len(t) \in Nat  OBVIOUS
<1>2. s \o t \in Seq(Nat) /\ Len(s \o t) = n  OBVIOUS
<1>3. ASSUME NEW k \in 1 .. n PROVE (s \o t)[k] = k
  <2>1. CASE k <= Len(s)
    <3>1. (s \o t)[k] = s[k]  BY <1>1, <1>3, <2>1
    <3> QED  BY <1>1, <1>3, <2>1, <3>1
  <2>2. CASE k > Len(s)
    <3>1. (s \o t)[k] = t[k - Len(s)] /\ k - Len(s) \in 1 .. Len(t)
      BY <1>1, <1>3, <2>2
    <3> QED  BY <1>1, <1>3, <3>1
  <2> QED  BY <1>1, <1>3, <2>1, <2>2
<1> DEFINE id == [i \in 1 .. n |-> i]
<1>4. id \in Seq(Nat) /\ Len(id) = n /\ \A k \in 1 .. n : id[k] = k  OBVIOUS
<1> HIDE DEF id
<1>5. s \o t = id  BY <1>2, <1>3, <1>4, SeqEqual
<1> QED  BY <1>5 DEF id

LEMMA InOrderGives == IInv /\ InOrder => NothingLost
<1> SUFFICES ASSUME IInv, InOrder, ~carried, pc # "exited"
             PROVE  fed \o Waiting = [i \in 1 .. given |-> i]
  BY DEF NothingLost
<1>1. /\ in \in Seq(Nat) /\ fed \in Seq(Nat) /\ given \in Nat
      /\ Taken0 \in 0 .. Len(in) /\ Len(in) \in Nat /\ Len(fed) \in Nat
  BY DEF IInv, InputOK, Taken0, Processing
<1>2. /\ Waiting \in Seq(Nat) /\ Len(Waiting) = Len(in) - Taken0
      /\ \A k \in 1 .. Len(in) - Taken0 : Waiting[k] = in[Taken0 + k]
  <2>1. CASE Processing
    <3>1. Waiting = SubSeq(in, used + 1, Len(in)) /\ Taken0 = used
      BY <2>1 DEF Waiting, Taken0, Processing
    <3>2. used \in 0 .. Len(in)  BY <1>1, <3>1
    <3>3. /\ SubSeq(in, used + 1, Len(in)) \in Seq(Nat)
          /\ Len(SubSeq(in, used + 1, Len(in))) = Len(in) - used
          /\ \A k \in 1 .. Len(in) - used :
               SubSeq(in, used + 1, Len(in))[k] = in[used + k]
      BY <1>1, <3>2
    <3> QED  BY <3>1, <3>3
  <2>2. CASE ~Processing
    <3>1. Waiting = in /\ Taken0 = 0  BY <2>2 DEF Waiting, Taken0, Processing
    <3> QED  BY <1>1, <3>1
  <2> QED  BY <2>1, <2>2
<1>3. ASSUME NEW k \in 1 .. Len(Waiting) PROVE Waiting[k] = Len(fed) + k
  <2>1. Taken0 + k \in 1 .. Len(in) /\ k \in 1 .. Len(in) - Taken0  BY <1>1, <1>2, <1>3
  <2>2. Waiting[k] = in[Taken0 + k]  BY <1>2, <2>1
  <2>3. in[Taken0 + k] = Len(fed) - Taken0 + (Taken0 + k)  BY <2>1 DEF InOrder
  <2> QED  BY <1>1, <2>1, <2>2, <2>3
<1>4. Len(fed) + Len(Waiting) = given /\ \A k \in 1 .. Len(fed) : fed[k] = k
  BY <1>1, <1>2 DEF InOrder
<1> QED  BY <1>1, <1>2, <1>3, <1>4, Joined

\* Calls of src_process begin with nothing taken.
LEMMA OrderInCalls ==
  ASSUME IInv, InOrder, Sample \/ Done \/ Again PROVE InOrder'
<1>1. ~Processing /\ pc # "exited" /\ UNCHANGED <<fed, carried, filter>>
  BY DEF Sample, Done, Again, Processing
<1>2. Taken0 = 0  BY <1>1 DEF Taken0
<1>3. in \in Seq(Nat) /\ Len(in) \in Nat /\ fed \in Seq(Nat) /\ given \in Nat
  BY DEF IInv, InputOK
<1>4. CASE Sample
  <2>1. given' = given + 1 /\ in' = Append(in, given + 1) /\ UNCHANGED <<conv, filter>>
    BY <1>4 DEF Sample
  <2>2. Taken0' = 0
    <3>1. CASE Begin(conv)
      <4>1. Processing' => used' = 0  BY <2>1, <3>1, BeginOK DEF Processing
      <4> QED  BY <4>1 DEF Taken0
    <3>2. CASE UNCHANGED pc  BY <1>1, <3>2 DEF Taken0, Processing
    <3> QED  BY <1>4, <3>1, <3>2 DEF Sample
  <2>3. ASSUME ~carried PROVE Len(fed) + Len(in) = given
    BY <1>1, <1>2, <1>3, <2>3 DEF InOrder
  <2>4. ASSUME ~carried, NEW k \in 1 .. Len(in') PROVE in'[k] = Len(fed) + k
    <3>1. CASE k <= Len(in)
      <4>1. in'[k] = in[k] /\ k \in 1 .. Len(in)  BY <1>3, <2>1, <2>4, <3>1
      <4> QED  BY <1>1, <1>2, <1>3, <2>4, <4>1 DEF InOrder
    <3>2. CASE k > Len(in)
      <4>1. k = Len(in) + 1 /\ in'[k] = given + 1  BY <1>3, <2>1, <2>4, <3>2
      <4>2. Len(fed) + Len(in) = given  BY <2>3, <2>4
      <4>3. Len(fed) \in Nat /\ Len(in) \in Nat  BY <1>3
      <4> QED  BY <4>1, <4>2, <4>3
    <3> QED  BY <1>3, <2>1, <2>4, <3>1, <3>2
  <2>5. Len(in') = Len(in) + 1  BY <1>3, <2>1
  <2> QED  BY <1>1, <1>2, <1>3, <2>1, <2>2, <2>3, <2>4, <2>5 DEF InOrder
<1>5. CASE Done \/ Again
  <2>1. UNCHANGED <<in, given, conv>> /\ \E rate \in {conv, last} : Begin(rate)
    BY <1>5 DEF Done, Again, IInv
  <2>2. Processing' => used' = 0  BY <1>1, <2>1, BeginOK DEF Processing
  <2>3. Taken0' = 0  BY <2>2 DEF Taken0
  <2> QED  BY <1>1, <1>2, <2>1, <2>3 DEF InOrder
<1> QED  BY <1>4, <1>5

\* The filter takes the next samples.
LEMMA OrderInReload == ASSUME IInv, InOrder, Reload PROVE InOrder'
<1>1. /\ pc = "process" /\ UNCHANGED <<in, given, carried>>
  BY DEF Reload
<1>2. Processing /\ InputOK /\ fed \in Seq(Nat)
  BY <1>1 DEF IInv, Processing
<1> DEFINE f == Placed(filter, half)
           s == Taken(f)
<1>3. /\ Room(f, half) \in Nat /\ pc' = "loaded"
      /\ used' = used + Len(s) /\ fed' = fed \o s
  BY ReloadIs DEF IInv
<1> HIDE DEF f
<1>4. /\ s \in Seq(Nat) /\ used + Len(s) <= Len(in)
      /\ \A k \in 1 .. Len(s) : s[k] = in[used + k]
  BY <1>2, <1>3, TakenIs
<1>5. pc' = "loaded" /\ used' = used + Len(s) /\ fed' = fed \o s
  BY <1>3
<1> HIDE DEF s
<1>6. Taken0 = used /\ Taken0' = used'  BY <1>2, <1>5 DEF Taken0, Processing
<1>7. /\ used \in Nat /\ Len(s) \in Nat /\ Len(fed) \in Nat /\ Len(in) \in Nat
      /\ given \in Nat /\ Len(fed') = Len(fed) + Len(s)
  BY <1>2, <1>4, <1>5 DEF InputOK, IInv
<1>10. SUFFICES ASSUME ~carried
             PROVE  /\ Len(fed') + Len(in) - used' = given
                    /\ \A k \in 1 .. Len(fed') : fed'[k] = k
                    /\ \A k \in 1 .. Len(in) : in[k] = Len(fed') - used' + k
  BY <1>1, <1>6 DEF InOrder
<1>8. /\ Len(fed) + Len(in) - used = given
      /\ \A k \in 1 .. Len(fed) : fed[k] = k
      /\ \A k \in 1 .. Len(in) : in[k] = Len(fed) - used + k
  BY <1>1, <1>6, <1>10 DEF InOrder
<1>9. ASSUME NEW k \in 1 .. Len(fed') PROVE fed'[k] = k
  <2>1. CASE k <= Len(fed)
    <3>1. fed'[k] = fed[k]  BY <1>2, <1>4, <1>5, <1>7, <1>9, <2>1
    <3> QED  BY <1>7, <1>8, <1>9, <2>1, <3>1
  <2>2. CASE k > Len(fed)
    <3> DEFINE j == k - Len(fed)
    <3>1. j \in 1 .. Len(s) /\ used + j \in 1 .. Len(in)
      BY <1>4, <1>7, <1>9, <2>2
    <3>2. fed'[k] = s[j]  BY <1>2, <1>4, <1>5, <1>7, <1>9, <2>2
    <3>3. s[j] = in[used + j]  BY <1>4, <3>1
    <3>4. in[used + j] = Len(fed) - used + (used + j)  BY <1>8, <3>1
    <3> QED  BY <1>7, <1>9, <3>2, <3>3, <3>4
  <2> QED  BY <1>7, <1>9, <2>1, <2>2
<1>11. Len(fed') + Len(in) - used' = given
  <2>1. used' = used + Len(s) /\ Len(fed) + Len(in) - used = given  BY <1>5, <1>8
  <2> QED  BY <1>7, <2>1
<1>12. ASSUME NEW k \in 1 .. Len(in) PROVE in[k] = Len(fed') - used' + k
  <2>1. in[k] = Len(fed) - used + k  BY <1>8, <1>12
  <2> QED  BY <1>5, <1>7, <1>12, <2>1
<1> QED  BY <1>9, <1>11, <1>12

\* What was not used stays, as long as that is one sample at most.
LEMMA OrderInReturn == ASSUME IInv, InOrder, Return PROVE InOrder'
<1>1. /\ Processing /\ pc # "exited" /\ in' = Carried(used) /\ UNCHANGED <<given, fed>>
      /\ carried' = (carried \/ (used > 0 /\ Len(in) - used > 1))
  BY DEF Return, Processing, Prepared
<1>2. InputOK /\ used \in Nat /\ Len(in) \in Nat /\ used <= Len(in)
      /\ fed \in Seq(Nat) /\ Len(fed) \in Nat /\ given \in Nat
  BY <1>1 DEF IInv, InputOK
<1>3. Taken0 = used /\ Taken0' = 0  BY <1>1, ReturnOK DEF Taken0
<1>4. SUFFICES ASSUME ~carried', pc' # "exited"
      PROVE  /\ Len(fed) + Len(in') = given
             /\ \A k \in 1 .. Len(fed) : fed[k] = k
             /\ \A k \in 1 .. Len(in') : in'[k] = Len(fed) + k
  <2>1. Len(in') \in Nat  BY <1>1, <1>2, CarriedIs
  <2> QED  BY <1>1, <1>2, <1>3, <1>4, <2>1 DEF InOrder
<1>5. ~carried /\ (used = 0 \/ Len(in) - used <= 1)
  <2>1. ~carried /\ ~(used > 0 /\ Len(in) - used > 1)  BY <1>1, <1>4, Zenon
  <2> QED  BY <1>2, <2>1
<1>6. /\ Len(in') = Len(in) - used
      /\ \A k \in 1 .. Len(in) - used : in'[k] = in[used + k]
  BY <1>1, <1>2, <1>5, CarriedIs
<1>7. /\ Len(fed) + Len(in) - used = given
      /\ \A k \in 1 .. Len(fed) : fed[k] = k
      /\ \A k \in 1 .. Len(in) : in[k] = Len(fed) - used + k
  BY <1>1, <1>3, <1>5 DEF InOrder
<1>8. ASSUME NEW k \in 1 .. Len(in') PROVE in'[k] = Len(fed) + k
  <2>1. k \in 1 .. Len(in) - used /\ used + k \in 1 .. Len(in)
    BY <1>2, <1>6, <1>8
  <2>2. in'[k] = in[used + k] /\ in[used + k] = Len(fed) - used + (used + k)
    BY <1>6, <1>7, <2>1
  <2> QED  BY <1>2, <2>1, <2>2
<1> QED  BY <1>2, <1>6, <1>7, <1>8

\* Each sample given to the resampler is taken in by the filter or waits, once
\* and in order, as long as the program runs and no call carried more than one
\* over (resampler.h).
THEOREM Delivered == Spec => []NothingLost
<1>1. Init => InOrder
  <2> SUFFICES ASSUME Init PROVE InOrder  OBVIOUS
  <2>1. fed = <<>> /\ in = <<>> /\ given = 0 /\ Taken0 = 0
    BY DEF Init, Taken0, Processing
  <2> QED  BY <2>1 DEF InOrder
<1>2. IInv /\ InOrder /\ [Next]_vars => InOrder'
  <2> SUFFICES ASSUME IInv, InOrder, [Next]_vars PROVE InOrder'  OBVIOUS
  <2>1. CASE Sample \/ Done \/ Again  BY <2>1, OrderInCalls
  <2>2. CASE Time \/ Over \/ UNCHANGED vars
    <3>1. UNCHANGED <<fed, in, given, carried, pc, used>>
      BY <2>2 DEF Time, Over, vars
    <3> QED  BY <3>1 DEF InOrder, Taken0, Processing
  <2>3. CASE Reload  BY <2>3, OrderInReload
  <2>4. CASE Emit
    <3>1. /\ Processing /\ Processing' /\ pc # "exited"
          /\ UNCHANGED <<fed, in, given, carried, used>>
      BY <2>4, EmitOK DEF Emit, AtFilter, Prepared, Processing
    <3> QED  BY <3>1 DEF InOrder, Taken0
  <2>5. CASE Return  BY <2>5, OrderInReturn
  <2>6. CASE Fault
    <3>1. pc' = "exited"  BY <2>6 DEF Fault
    <3> QED  BY <3>1 DEF InOrder
  <2> QED  BY <2>1, <2>2, <2>3, <2>4, <2>5, <2>6 DEF Next, Process
<1>3. IInv /\ InOrder => NothingLost  BY InOrderGives
<1> QED  BY <1>1, <1>2, <1>3, Invariance, PTL DEF Spec

-----------------------------------------------------------------------------
\* What the filter sees, and what it has seen at the end

\* The sample with index k of the input s, silence around it.
SampleOf(s, k) == IF k \in 0 .. Len(s) - 1 THEN s[k + 1] ELSE 0

\* The end of the input in the buffer.
EndOf(f) == IF f.b_real_end >= 0 THEN f.b_real_end ELSE f.b_end

\* The buffer of f holds the input s around the sample w, in every cell up to
\* the end of the samples.
Slice(f, s, w) ==
  /\ EndOf(f) - f.b_current = Len(s) - w
  /\ \A i \in 0 .. f.b_end - 1 : f.buffer[i] = SampleOf(s, w + i - f.b_current)

\* A filter in use, with the input still open.
Open(f) == FilterOK(f) /\ f.b_current # 0 /\ f.b_real_end = -1

WindowInv ==
  IF filter.b_current = 0 THEN filter = Reset /\ pos = 0 /\ fed = <<>>
  ELSE Slice(filter, fed, pos \div Unit)

-----------------------------------------------------------------------------

LEMMA OpenTypes ==
  ASSUME NEW f, Open(f)
  PROVE  /\ f.b_current \in Nat /\ f.b_end \in Nat /\ f.b_real_end = -1
         /\ f.b_current <= f.b_end /\ f.b_end <= BufferLength
         /\ f.buffer \in [Cells -> Nat] /\ BufferLength \in Nat
         /\ EndOf(f) = f.b_end
BY FilterAssumption DEF Open, FilterOK, EndOf

\* Samples moved to the start of the buffer stay where they are around the
\* position.
LEMMA SliceMoved ==
  ASSUME NEW f, Open(f), NEW h, ReachOK(h), h <= f.b_current,
         NEW s \in Seq(Nat), NEW w \in Nat, Slice(f, s, w)
  PROVE  Slice(Moved(f, h), s, w) /\ Moved(f, h).b_real_end = -1
<1>1. PICK c \in Nat, e \in Nat :
        f.b_current = c /\ f.b_end = e /\ c <= e /\ e <= BufferLength /\ h <= c
  BY OpenTypes
<1>2. f.b_real_end = -1 /\ EndOf(f) = e /\ h \in Nat  BY <1>1, OpenTypes, ReachTypes
<1> DEFINE b == Moved(f, h).buffer
<1>3. PICK n \in Nat : n = h + (e - c)  BY <1>1, <1>2
<1>4. /\ Moved(f, h) = Filter(b, h, n, -1)
      /\ \A i \in 0 .. n - 1 : c - h + i \in 0 .. e - 1 /\ b[i] = f.buffer[c - h + i]
  <2>1. /\ Moved(f, h) = Filter(b, h, h + (f.b_end - f.b_current), f.b_real_end)
        /\ \A i \in 0 .. h + (f.b_end - f.b_current) - 1 :
             /\ f.b_current - h + i \in 0 .. f.b_end - 1
             /\ b[i] = f.buffer[f.b_current - h + i]
    BY MovedOK DEF Open
  <2>2. h + (f.b_end - f.b_current) = n /\ f.b_real_end = -1  BY <1>1, <1>2, <1>3
  <2> HIDE DEF b
  <2>3. Moved(f, h) = Filter(b, h, n, -1)  BY <2>1, <2>2
  <2>4. ASSUME NEW i \in 0 .. n - 1
        PROVE  c - h + i \in 0 .. e - 1 /\ b[i] = f.buffer[c - h + i]
    <3>1. i \in 0 .. h + (f.b_end - f.b_current) - 1  BY <1>1, <1>2, <1>3
    <3>2. /\ f.b_current - h + i \in 0 .. f.b_end - 1
          /\ b[i] = f.buffer[f.b_current - h + i]
      BY <2>1, <3>1
    <3> QED  BY <1>1, <3>2
  <2> QED  BY <2>3, <2>4
<1> HIDE DEF b
<1>5. /\ Moved(f, h).buffer = b /\ Moved(f, h).b_current = h
      /\ Moved(f, h).b_end = n /\ Moved(f, h).b_real_end = -1
  BY <1>4 DEF Filter
<1>6. EndOf(Moved(f, h)) - h = Len(s) - w
  <2>1. EndOf(Moved(f, h)) = n  BY <1>5 DEF EndOf
  <2>2. e - c = Len(s) - w  BY <1>1, <1>2 DEF Slice
  <2>3. PICK k \in Int : k = Len(s) - w /\ e - c = k  BY <2>2
  <2> QED  BY <1>1, <1>2, <1>3, <2>1, <2>3
<1>7. ASSUME NEW i \in 0 .. n - 1
      PROVE  b[i] = SampleOf(s, w + i - h)
  <2> DEFINE j == c - h + i
  <2>1. j \in 0 .. e - 1 /\ b[i] = f.buffer[j]  BY <1>4
  <2>2. w + j - c = w + i - h  BY <1>1, <1>2
  <2> HIDE DEF j
  <2>3. f.buffer[j] = SampleOf(s, w + j - c)  BY <1>1, <2>1 DEF Slice
  <2> QED  BY <2>1, <2>2, <2>3
<1> QED  BY <1>5, <1>6, <1>7 DEF Slice

\* Where samples are placed the buffer still holds the input.
LEMMA SlicePlaced ==
  ASSUME FilterOK(filter), WindowInv, pos \in Nat, fed \in Seq(Nat),
         NEW h, ReachOK(h), InHand(filter) <= h, filter.b_real_end < 0
  PROVE  Open(Placed(filter, h)) /\ Slice(Placed(filter, h), fed, pos \div Unit)
<1>1. Open(Placed(filter, h))  BY PlacedOK DEF Open
<1>2. /\ h \in Nat \ {0} /\ Unit \in Nat \ {0} /\ BufferLength \in Nat
      /\ h <= BufferLength /\ filter.b_real_end = -1 /\ pos \div Unit \in Nat
  <2>1. h \in Nat \ {0} /\ BufferLength \in Nat /\ h <= BufferLength  BY ReachTypes
  <2>2. filter.b_real_end = -1  BY DEF FilterOK
  <2>3. Unit \in Nat \ {0}  BY Assumed
  <2> QED  BY <2>1, <2>2, <2>3, QuotientBounds
<1>3. CASE filter.b_current = 0
  <2>1. filter = Reset /\ pos = 0 /\ fed = <<>>  BY <1>3 DEF WindowInv
  <2> DEFINE b == [i \in Cells |-> 0]
  <2>2. Placed(filter, h) = Filter(b, h, h, -1)
    BY <1>3, <2>1 DEF Placed, Reset, Filter
  <2>3. \A i \in 0 .. h - 1 : b[i] = 0
    BY <1>2 DEF Cells
  <2> HIDE DEF b
  <2>4. pos \div Unit = 0  BY <1>2, <2>1
  <2>5. /\ Placed(filter, h).buffer = b /\ Placed(filter, h).b_current = h
        /\ Placed(filter, h).b_end = h /\ Placed(filter, h).b_real_end = -1
    BY <2>2 DEF Filter
  <2>6. Len(fed) = 0  BY <2>1
  <2>7. EndOf(Placed(filter, h)) = h  BY <2>5 DEF EndOf
  <2>8. \A k \in Int : SampleOf(fed, k) = 0  BY <2>6 DEF SampleOf
  <2>9. EndOf(Placed(filter, h)) - Placed(filter, h).b_current = Len(fed) - pos \div Unit
    BY <1>2, <2>4, <2>5, <2>6, <2>7
  <2>10. ASSUME NEW i \in 0 .. h - 1
         PROVE  b[i] = SampleOf(fed, 0 + i - h)
    BY <1>2, <2>3, <2>8
  <2> QED  BY <1>1, <2>4, <2>5, <2>9, <2>10 DEF Slice
<1>4. CASE filter.b_current # 0
  <2>1. Slice(filter, fed, pos \div Unit)  BY <1>4 DEF WindowInv
  <2>2. Open(filter)  BY <1>2, <1>4 DEF Open
  <2>3. Placed(filter, h) = filter
        \/ (h <= filter.b_current /\ Placed(filter, h) = Moved(filter, h))
    BY <1>4, PlacedOK
  <2> DEFINE w == pos \div Unit
  <2>4. w \in Nat /\ Slice(filter, fed, w)  BY <1>2, <2>1
  <2> HIDE DEF w
  <2>5. CASE Placed(filter, h) = filter  BY <1>1, <2>1, <2>5
  <2>6. CASE h <= filter.b_current /\ Placed(filter, h) = Moved(filter, h)
    <3>1. Slice(Moved(filter, h), fed, w)  BY <2>2, <2>4, <2>6, SliceMoved
    <3> QED  BY <1>1, <2>6, <3>1 DEF w
  <2> QED  BY <2>3, <2>5, <2>6
<1> QED  BY <1>3, <1>4

\* The index of cell i behind the samples there are.
LEMMA IndexBehind ==
  ASSUME NEW c \in Int, NEW e \in Int, NEW w \in Int, NEW n \in Int, NEW m \in Int,
         NEW i \in Int, e - c = n - w, e <= i, i <= e + m - 1, 0 <= n
  PROVE  /\ i - e + 1 \in 1 .. m /\ (w + i - c) + 1 = n + (i - e + 1)
         /\ w + i - c \in 0 .. n + m - 1
         /\ e + m - c = n + m - w
OBVIOUS

\* New samples continue the input.
LEMMA SliceLoaded ==
  ASSUME NEW f, Open(f), NEW s \in Seq(Nat), NEW w \in Nat, Slice(f, s, w),
         NEW t \in Seq(Nat), f.b_end + Len(t) <= BufferLength
  PROVE  Open(Loaded(f, t)) /\ Slice(Loaded(f, t), s \o t, w)
<1> DEFINE b == [i \in Cells |->
                   IF f.b_end <= i /\ i < f.b_end + Len(t) THEN t[i - f.b_end + 1]
                   ELSE f.buffer[i]]
<1>1. /\ f.b_current \in Nat /\ f.b_end \in Nat
      /\ BufferLength \in Nat /\ f.b_current <= f.b_end
      /\ f.b_real_end = -1 /\ EndOf(f) = f.b_end
      /\ Len(s) \in Nat /\ Len(t) \in Nat
  BY OpenTypes
<1>2. Loaded(f, t) = Filter(b, f.b_current, f.b_end + Len(t), -1)
  BY <1>1 DEF Loaded
<1>3. Open(Loaded(f, t))
  BY <1>1, LoadedOK DEF Open
<1>4. s \o t \in Seq(Nat) /\ Len(s \o t) = Len(s) + Len(t)  OBVIOUS
<1>5. f.b_end - f.b_current = Len(s) - w  BY <1>1 DEF Slice
<1>0. w \in Nat  OBVIOUS
<1>9. PICK c \in Nat, e \in Nat, n \in Nat, m \in Nat :
        /\ f.b_current = c /\ f.b_end = e /\ Len(s) = n /\ Len(t) = m
        /\ e - c = n - w /\ c <= e /\ e + m <= BufferLength
  BY <1>0, <1>1, <1>5
<1>6. ASSUME NEW i \in 0 .. e + m - 1
      PROVE  b[i] = SampleOf(s \o t, w + i - c)
  <2> DEFINE k == w + i - c
  <2>1. i \in Cells /\ i \in Int /\ k \in Int  BY <1>1, <1>6, <1>9 DEF Cells
  <2>2. CASE i < e
    <3>1. b[i] = f.buffer[i]  BY <1>9, <2>1, <2>2
    <3>2. f.buffer[i] = SampleOf(s, k)
      <4>1. i \in 0 .. e - 1  BY <1>1, <1>6, <1>9, <2>2
      <4> QED  BY <1>9, <4>1 DEF Slice
    <3>3. k < n  BY <1>0, <1>9, <2>1, <2>2
    <3> HIDE DEF k, b
    <3>4. SampleOf(s, k) = SampleOf(s \o t, k)
      BY <1>4, <1>9, <2>1, <3>3 DEF SampleOf
    <3> QED  BY <3>1, <3>2, <3>4 DEF k
  <2>3. CASE e <= i
    <3> DEFINE j == i - e + 1
    <3>0. i < e + m  BY <1>1, <1>6, <1>9
    <3>1. b[i] = t[j]  BY <1>9, <2>1, <2>3, <3>0
    <3>2. j \in 1 .. m /\ k + 1 = n + j /\ k \in 0 .. n + m - 1
      BY <1>0, <1>9, <2>1, <2>3, <3>0, IndexBehind
    <3> HIDE DEF k, b, j
    <3>3. (s \o t)[n + j] = t[j]
      <4>1. n + j \in 1 .. n + m /\ n + j > n /\ n + j - n = j
        BY <1>9, <3>2
      <4>2. \A x \in 1 .. Len(s) + Len(t) :
              (s \o t)[x] = IF x <= Len(s) THEN s[x] ELSE t[x - Len(s)]
        BY ConcatProperties
      <4>3. \A x \in 1 .. n + m : (s \o t)[x] = IF x <= n THEN s[x] ELSE t[x - n]
        BY <1>9, <4>2
      <4> DEFINE x == n + j
      <4>4. x \in 1 .. n + m /\ ~(x <= n) /\ x - n = j  BY <1>9, <3>2, <4>1
      <4> HIDE DEF x
      <4>5. (s \o t)[x] = t[j]  BY <4>3, <4>4
      <4> QED  BY <4>5 DEF x
    <3>4. SampleOf(s \o t, k) = t[j]  BY <1>4, <1>9, <3>2, <3>3, SMTT(30) DEF SampleOf
    <3> QED  BY <3>1, <3>4 DEF k
  <2> QED  BY <1>9, <2>1, <2>2, <2>3
<1> HIDE DEF b
<1>7. /\ Loaded(f, t).buffer = b /\ Loaded(f, t).b_current = c
      /\ Loaded(f, t).b_end = e + m /\ Loaded(f, t).b_real_end = -1
  BY <1>2, <1>9 DEF Filter
<1>8. EndOf(Loaded(f, t)) - c = Len(s \o t) - w
  <2>1. EndOf(Loaded(f, t)) = e + m  BY <1>7 DEF EndOf
  <2>2. (e + m) - c = (n + m) - w  BY <1>0, <1>9
  <2> QED  BY <1>4, <1>9, <2>1, <2>2
<1> QED  BY <1>3, <1>6, <1>7, <1>8 DEF Slice

\* The zeros behind the last sample are the silence after the input, as far as
\* the filter reaches.
LEMMA SliceClosed ==
  ASSUME NEW f, Open(f), NEW h, ReachOK(h), IsLast(f, h),
         NEW s \in Seq(Nat), NEW w \in Nat, Slice(f, s, w)
  PROVE  /\ Closed(f, h).b_real_end \in Nat
         /\ Closed(f, h).b_end = Closed(f, h).b_real_end + (h + Pad)
         /\ Slice(Closed(f, h), s, w)
<1> DEFINE g == ClosedBase(f, h)
           b == [i \in Cells |-> IF g.b_end <= i /\ i < g.b_end + (h + Pad) THEN 0
                                 ELSE g.buffer[i]]
<1>1. /\ g = f \/ (g = Moved(f, h) /\ h <= f.b_current)
      /\ g.b_end + h + Pad <= BufferLength
      /\ Closed(f, h) = Filter(b, g.b_current, g.b_end + (h + Pad), g.b_end)
  BY ClosedOK DEF Open
<1>2. Slice(g, s, w) /\ g.b_real_end = -1
  <2>1. CASE g = f  BY <2>1 DEF Open
  <2>2. CASE g = Moved(f, h) /\ h <= f.b_current  BY <2>2, SliceMoved
  <2> QED  BY <1>1, <2>1, <2>2
<1>3. PICK c \in Nat, e \in Nat : g.b_current = c /\ g.b_end = e
  <2>1. CASE g = f  BY <2>1, OpenTypes
  <2>2. CASE g = Moved(f, h) /\ h <= f.b_current
    <3>1. /\ Moved(f, h) = Filter(Moved(f, h).buffer, h, h + (f.b_end - f.b_current), f.b_real_end)
          /\ h + (f.b_end - f.b_current) \in Nat
      BY <2>2, MovedOK DEF Open
    <3>2. Moved(f, h).b_current = h /\ Moved(f, h).b_end = h + (f.b_end - f.b_current)
      BY <3>1 DEF Filter
    <3>3. h \in Nat  BY ReachTypes
    <3> QED  BY <2>2, <3>1, <3>2, <3>3
  <2> QED  BY <1>1, <2>1, <2>2
<1> HIDE DEF g
<1>4. h \in Nat \ {0} /\ Pad \in Nat \ {0} /\ BufferLength \in Nat  BY ReachTypes
<1>5. PICK z \in Nat : z = h + Pad /\ e + z <= BufferLength  BY <1>1, <1>3, <1>4
<1>6. e - c = Len(s) - w
  <2>1. EndOf(g) = e  BY <1>2, <1>3 DEF EndOf
  <2> QED  BY <1>2, <1>3, <2>1 DEF Slice
<1>7. PICK n \in Nat : Len(s) = n /\ e - c = n - w  BY <1>6
<1>8. ASSUME NEW i \in 0 .. e + z - 1
      PROVE  b[i] = SampleOf(s, w + i - c)
  <2>1. i \in Cells /\ i \in Int  BY <1>4, <1>5, <1>8 DEF Cells
  <2>2. CASE i < e
    <3>1. b[i] = g.buffer[i]  BY <1>3, <2>1, <2>2
    <3>2. i \in 0 .. e - 1  BY <1>8, <2>2
    <3> HIDE DEF b
    <3> QED  BY <1>2, <1>3, <3>1, <3>2 DEF Slice
  <2>3. CASE e <= i
    <3>1. b[i] = 0
      <4>1. i < e + z  BY <1>5, <1>8
      <4> QED  BY <1>3, <1>5, <2>1, <2>3, <4>1
    <3> HIDE DEF b
    <3>2. w + i - c >= n /\ w + i - c \in Int  BY <1>7, <2>1, <2>3
    <3> QED  BY <1>7, <3>1, <3>2 DEF SampleOf
  <2> QED  BY <2>1, <2>2, <2>3
<1> HIDE DEF b
<1>9. /\ Closed(f, h).buffer = b /\ Closed(f, h).b_current = c
      /\ Closed(f, h).b_end = e + z /\ Closed(f, h).b_real_end = e
  BY <1>1, <1>3, <1>5 DEF Filter
<1>10. EndOf(Closed(f, h)) = e  BY <1>9 DEF EndOf
<1> QED  BY <1>5, <1>6, <1>8, <1>9, <1>10 DEF Slice

\* The position moves on over samples in hand.
LEMMA SliceAdvanced ==
  ASSUME NEW f, FilterOK(f), NEW n \in Nat, NEW s \in Seq(Nat), NEW w \in Nat,
         Slice(f, s, w)
  PROVE  Slice(Filter(f.buffer, f.b_current + n, f.b_end, f.b_real_end), s, w + n)
<1> DEFINE g == Filter(f.buffer, f.b_current + n, f.b_end, f.b_real_end)
<1>1. PICK c \in Nat, e \in Int, m \in Nat :
        f.b_current = c /\ f.b_end = e /\ Len(s) = m
  <2>1. f.b_current \in Nat /\ f.b_end \in Int  BY DEF FilterOK
  <2>2. Len(s) \in Nat  OBVIOUS
  <2> QED  BY <2>1, <2>2
<1>2. PICK r \in Int : EndOf(f) = r  BY DEF FilterOK, EndOf
<1>3. /\ g.buffer = f.buffer /\ g.b_current = c + n /\ g.b_end = e
      /\ EndOf(g) = r
  BY <1>1, <1>2 DEF Filter, EndOf
<1> HIDE DEF g
<1>4. r - c = m - w  BY <1>1, <1>2 DEF Slice
<1>5. r - (c + n) = m - (w + n)  BY <1>1, <1>4
<1>6. ASSUME NEW i \in 0 .. e - 1
      PROVE  f.buffer[i] = SampleOf(s, w + n + i - (c + n))
  <2>1. w + n + i - (c + n) = w + i - c  BY <1>1
  <2>2. f.buffer[i] = SampleOf(s, w + i - c)  BY <1>1 DEF Slice
  <2> QED  BY <2>1, <2>2
<1>7. Slice(g, s, w + n)  BY <1>1, <1>3, <1>5, <1>6 DEF Slice
<1> QED  BY <1>7 DEF g

-----------------------------------------------------------------------------
\* What the filter sees

\* prepare_data: what it does to the filter, and what it leaves there.
LEMMA ReloadSlice ==
  ASSUME IInv, WindowInv, Reload
  PROVE  /\ Slice(filter', fed', pos \div Unit) /\ filter'.b_current # 0
         /\ filter'.b_real_end >= 0 =>
              /\ filter'.b_end = filter'.b_real_end + (half + Pad)
              /\ used' = Len(in) /\ op = "done"
         /\ filter'.b_real_end < 0 /\ op = "done" /\ used' = Len(in) =>
              ~IsLast(filter', half)
<1> DEFINE p == Placed(filter, half)
           s == Taken(p)
           q == Loaded(p, s)
           w == pos \div Unit
           last_one == used' = Len(in) /\ IsLast(q, half) /\ op = "done"
<1>1. /\ FilterOK(filter) /\ InputOK /\ RatesOK /\ KeptOK /\ fed \in Seq(Nat) /\ pos \in Nat
      /\ Unit \in Nat \ {0}
  BY Assumed DEF IInv
<1>2. ReachOK(half) /\ InHand(filter) <= half /\ filter.b_real_end < 0
  <2>1. Processing /\ InHand(filter) <= half /\ filter.b_real_end < 0
    BY DEF Reload, NeedsData, Processing
  <2> QED  BY <1>1, <2>1, HalfIs
<1>3. Open(p) /\ Slice(p, fed, w)  BY <1>1, <1>2, SlicePlaced
<1>4. /\ s \in Seq(Nat) /\ p.b_end + Len(s) <= BufferLength /\ fed' = fed \o s
      /\ filter' = IF last_one THEN Closed(q, half) ELSE q
  BY <1>1, ReloadIs
<1>5. w \in Nat  BY <1>1, QuotientBounds
<1>6. filter'.b_current # 0  BY <1>1, ReloadKeeps
<1> HIDE DEF p, s, w
<1>8. Open(q) /\ Slice(q, fed \o s, w)  BY <1>1, <1>3, <1>4, <1>5, SliceLoaded
<1>9. fed \o s \in Seq(Nat)  BY <1>1, <1>4
<1> HIDE DEF q
<1>10. CASE last_one
  <2>1. filter' = Closed(q, half) /\ IsLast(q, half)  BY <1>4, <1>10
  <2>2. /\ Closed(q, half).b_real_end \in Nat
        /\ Closed(q, half).b_end = Closed(q, half).b_real_end + (half + Pad)
        /\ Slice(Closed(q, half), fed \o s, w)
    BY <1>2, <1>5, <1>8, <1>9, <2>1, SliceClosed
  <2>3. ~(Closed(q, half).b_real_end < 0)  BY <2>2
  <2> QED  BY <1>4, <1>6, <1>10, <2>1, <2>2, <2>3 DEF w
<1>11. CASE ~last_one
  <2>1. filter' = q /\ q.b_real_end = -1  BY <1>4, <1>8, <1>11 DEF Open
  <2> QED  BY <1>4, <1>6, <1>8, <1>11, <2>1 DEF w
<1> QED  BY <1>10, <1>11

LEMMA WindowEmit == ASSUME IInv, WindowInv, Emit PROVE WindowInv'
<1>1. PICK s \in 1 .. LongestStep, n \in Nat :
        /\ pos' = pos + s
        /\ n = (pos + s) \div Unit - pos \div Unit
        /\ filter.b_current # 0
        /\ filter' = Filter(filter.buffer, filter.b_current + n, filter.b_end,
                            filter.b_real_end)
  BY EmitMoves
<1>2. /\ FilterOK(filter) /\ fed \in Seq(Nat) /\ pos \in Nat /\ Unit \in Nat \ {0}
      /\ filter.b_current \in Nat
  BY Assumed DEF IInv, FilterOK
<1>3. pos \div Unit \in Nat /\ (pos + s) \div Unit \in Nat
  <2>1. pos + s \in Nat  BY <1>2
  <2> QED  BY <1>2, <2>1, QuotientBounds
<1>4. Slice(filter, fed, pos \div Unit)  BY <1>1 DEF WindowInv
<1>5. Slice(filter', fed, pos \div Unit + n)
  BY <1>1, <1>2, <1>3, <1>4, SliceAdvanced
<1>6. pos \div Unit + n = pos' \div Unit  BY <1>1, <1>3
<1>7. UNCHANGED fed  BY DEF Emit
<1>8. filter'.b_current # 0
  <2>1. filter'.b_current = filter.b_current + n  BY <1>1 DEF Filter
  <2> QED  BY <1>1, <1>2, <2>1
<1> QED  BY <1>5, <1>6, <1>7, <1>8 DEF WindowInv

LEMMA WindowStep == IInv /\ WindowInv /\ [Next]_vars => WindowInv'
<1> SUFFICES ASSUME IInv, WindowInv, [Next]_vars PROVE WindowInv'  OBVIOUS
<1>1. CASE UNCHANGED <<filter, pos, fed>>  BY <1>1 DEF WindowInv
<1>2. CASE Reload
  <2>1. Slice(filter', fed', pos \div Unit) /\ filter'.b_current # 0
    BY <1>2, ReloadSlice
  <2>2. UNCHANGED pos  BY <1>2 DEF Reload
  <2> QED  BY <2>1, <2>2 DEF WindowInv
<1>3. CASE Emit  BY <1>3, WindowEmit
<1>4. CASE Sample \/ Time \/ Done \/ Again \/ Return \/ Fault \/ Over \/ UNCHANGED vars
  BY <1>1, <1>4 DEF Sample, Time, Done, Again, Return, Fault, Over, vars
<1> QED  BY <1>2, <1>3, <1>4 DEF Next, Process

\* The filter sees the samples it has taken in as if all of them were there,
\* whatever was moved or reloaded (prepare_data of src_sinc.c), and as far back
\* as it reaches, unless the ratio fell since the last move so that it reaches
\* beyond what was kept (lines 338-343).
THEOREM Window == Spec => []WindowIsSlice
<1>1. Init => WindowInv
  <2>1. Init => filter = Reset /\ pos = 0 /\ fed = <<>>  BY DEF Init
  <2>2. Reset.b_current = 0  BY DEF Reset, Filter
  <2> QED  BY <2>1, <2>2 DEF WindowInv
<1>2. IInv /\ WindowInv => WindowIsSlice
  <2> SUFFICES ASSUME IInv, WindowInv, filter.b_current > 0
               PROVE  /\ EndOf(filter) - filter.b_current = Len(fed) - pos \div Unit
                      /\ \A i \in 0 .. filter.b_end - 1 :
                           filter.buffer[i] = SampleOf(fed, pos \div Unit + i - filter.b_current)
                      /\ Processing => half <= filter.b_current \/ outgrown
    BY DEF WindowIsSlice, EndOf, SampleOf, At, Processing
  <2>1. filter.b_current # 0  BY DEF IInv, FilterOK
  <2> QED  BY <2>1 DEF WindowInv, Slice, IInv, KeptOK
<1> QED  BY <1>1, <1>2, WindowStep, Invariance, PTL DEF Spec

-----------------------------------------------------------------------------
\* The end of the input

\* What the end of src_process has seen: all samples, for the ratio in use.
OutputInv ==
  /\ pc # "exited" => Len(fed) + Len(in) - Taken0 = given
  /\ pc = "idle" => op = "sample"
  /\ Processing => step \in (IF last <= conv THEN last .. conv ELSE conv .. last)
  /\ pc = "again" => conv \in Steps /\ last > 0
  /\ pos < Len(fed) * Unit + LongestStep
  /\ filter.b_real_end >= 0 => op = "done"
  /\ filter.b_real_end >= 0 /\ (Processing \/ pc = "again") =>
       /\ half + Pad <= filter.b_end - filter.b_real_end
       /\ Taken0 = Len(in)
  /\ pc = "loaded" /\ op = "done" /\ used = Len(in) /\ filter.b_real_end < 0
       => ~IsLast(filter, half)
  /\ pc = "over" => in = <<>> /\ given * Unit < pos + LongestStep

\* The reach becomes no longer on the way from one ratio to another.
LEMMA ReachShrinks ==
  ASSUME NEW s \in 1 .. LongestStep, NEW t \in 1 .. LongestStep,
         NEW u \in 1 .. LongestStep, u <= s \/ u <= t
  PROVE  ReachOf(u, t) <= ReachOf(s, t)
<1> DEFINE m == IF u >= t THEN u ELSE t
           n == IF s >= t THEN s ELSE t
<1>1. m \in 1 .. LongestStep /\ n \in 1 .. LongestStep /\ m <= n  BY Assumed
<1>2. ReachOf(u, t) = Reach[m] /\ ReachOf(s, t) = Reach[n]  BY DEF ReachOf
<1> HIDE DEF m, n
<1> QED  BY <1>1, <1>2, ReachAssumption

\* Multiples of Unit.
LEMMA UnitOrder ==
  ASSUME NEW a \in Int, NEW b \in Int, a <= b
  PROVE  a * Unit <= b * Unit /\ a * Unit \in Int /\ b * Unit \in Int
<1>1. Unit \in Nat \ {0}  BY Assumed
<1> QED  BY <1>1

LEMMA UnitSum ==
  ASSUME NEW a \in Int, NEW b \in Int
  PROVE  (a + b) * Unit = a * Unit + b * Unit /\ a * Unit \in Int
<1>1. Unit \in Nat \ {0}  BY Assumed
<1> QED  BY <1>1

\* A position in whole samples and parts.
LEMMA PositionIs ==
  ASSUME NEW p \in Nat
  PROVE  /\ p \div Unit \in Nat /\ p % Unit \in Nat
         /\ p = (p \div Unit) * Unit + (p % Unit) /\ p % Unit < Unit
<1>1. Unit \in Nat \ {0}  BY Assumed
<1> QED  BY <1>1

\* The program begins or goes on with src_process.
LEMMA OutputCalls ==
  ASSUME IInv, OutputInv, Sample \/ Done \/ Again PROVE OutputInv'
<1>1. /\ ~Processing /\ UNCHANGED <<fed, pos, filter, conv>>
      /\ pc \in {"idle", "again"}
  BY DEF Sample, Done, Again, Processing
<1>2. in \in Seq(Nat) /\ Len(in) \in Nat /\ fed \in Seq(Nat) /\ given \in Nat
      /\ Len(fed) \in Nat /\ Taken0 = 0 /\ conv \in Steps \cup {Bad}
      /\ Len(fed) + Len(in) = given
  <2>1. Taken0 = 0  BY <1>1 DEF Taken0
  <2>2. Len(in) \in Nat /\ Len(fed) \in Nat /\ given \in Nat /\ in \in Seq(Nat)
        /\ fed \in Seq(Nat) /\ conv \in Steps \cup {Bad}
    BY DEF IInv, InputOK, RatesOK
  <2> QED  BY <1>1, <2>1, <2>2 DEF OutputInv
<1>3. ASSUME NEW rate \in {conv, last}, Begin(rate)
      PROVE  \/ pc' = "exited" /\ ~Processing'
             \/ /\ pc' = "process" /\ used' = 0 /\ Processing'
                /\ conv \in 1 .. LongestStep /\ last' \in 1 .. LongestStep
                /\ step' \in (IF last' <= conv THEN last' .. conv ELSE conv .. last')
                /\ last' = IF rate = 0 THEN conv ELSE rate
  <2>1. CASE conv = Bad  BY <1>3, <2>1 DEF Begin, Processing
  <2>2. CASE conv # Bad
    <3>1. conv \in 1 .. LongestStep  BY <1>2, <2>2, Assumed
    <3>2. /\ pc' = "process" /\ used' = 0 /\ step' = last'
          /\ last' = IF rate = 0 THEN conv ELSE rate
      BY <1>3, <2>2 DEF Begin
    <3>3. last' \in 1 .. LongestStep
      BY <1>3, <3>1, <3>2, Assumed DEF IInv, RatesOK
    <3>4. step' \in (IF last' <= conv THEN last' .. conv ELSE conv .. last')
      BY <3>1, <3>2, <3>3
    <3> QED  BY <3>1, <3>2, <3>3, <3>4 DEF Processing
  <2> QED  BY <2>1, <2>2
<1>4. CASE Sample
  <2>1. /\ pc = "idle" /\ op = "sample" /\ op' = "sample"
        /\ given' = given + 1 /\ in' = Append(in, given + 1)
    BY <1>4 DEF Sample, OutputInv
  <2>2. Len(in') = Len(in) + 1  BY <1>2, <2>1
  <2>3. ~(filter.b_real_end >= 0)  BY <2>1 DEF OutputInv
  <2>4. /\ pc' \in {"exited", "process", "idle"} /\ Taken0' = 0
        /\ Processing' => step' \in (IF last' <= conv THEN last' .. conv ELSE conv .. last')
    <3>1. CASE Begin(conv)  BY <1>3, <3>1 DEF Taken0
    <3>2. CASE UNCHANGED pc  BY <1>1, <2>1, <3>2 DEF Taken0, Processing
    <3> QED  BY <1>4, <3>1, <3>2 DEF Sample
  <2>5. Len(fed) + Len(in') - Taken0' = given'
    BY <1>2, <2>1, <2>2, <2>4
  <2> QED  BY <1>1, <2>1, <2>3, <2>4, <2>5 DEF OutputInv
<1>5. CASE Done \/ Again
  <2>1. /\ UNCHANGED <<in, given>> /\ (op' = "done" \/ UNCHANGED op)
        /\ \E rate \in {conv, last} : Begin(rate)
    BY <1>5 DEF Done, Again
  <2>2. PICK rate \in {conv, last} : Begin(rate)  BY <2>1
  <2>3. CASE pc' = "exited" /\ ~Processing'
    BY <1>1, <1>2, <2>1, <2>3 DEF OutputInv, Taken0
  <2>4. CASE pc' = "process" /\ used' = 0 /\ Processing'
    <3>1. /\ step' \in (IF last' <= conv THEN last' .. conv ELSE conv .. last')
          /\ Taken0' = 0
      BY <1>3, <2>2, <2>4 DEF Taken0
    <3>2. Len(fed) + Len(in) - Taken0' = given  BY <1>2, <3>1
    <3>3. ASSUME filter.b_real_end >= 0
          PROVE  /\ half' + Pad <= filter.b_end - filter.b_real_end
                 /\ Taken0' = Len(in) /\ op' = "done"
      <4>1. op = "done" /\ pc = "again"  BY <1>1, <3>3 DEF OutputInv
      <4>2. /\ half + Pad <= filter.b_end - filter.b_real_end
            /\ Taken0 = Len(in) /\ conv \in Steps /\ last > 0
        BY <3>3, <4>1 DEF OutputInv
      <4>3. Begin(last) /\ op' = op  BY <1>5, <4>1 DEF Done, Again
      <4>4. last' = last
        <5>1. last # 0 /\ conv # Bad
          <6>1. last \in Nat  BY DEF IInv, RatesOK
          <6> QED  BY <4>2, <6>1, Assumed
        <5> QED  BY <4>3, <5>1 DEF Begin
      <4>5. half' = half  BY <1>1, <4>4 DEF half, ReachOf
      <4> QED  BY <1>2, <3>1, <4>1, <4>2, <4>3, <4>5
    <3>4. filter.b_real_end >= 0 => op' = "done"  BY <3>3
    <3> QED  BY <1>1, <2>1, <2>4, <3>1, <3>2, <3>3, <3>4 DEF OutputInv
  <2> QED  BY <1>3, <2>2, <2>3, <2>4
<1> QED  BY <1>4, <1>5

LEMMA OutputReload == ASSUME IInv, WindowInv, OutputInv, Reload PROVE OutputInv'
<1>1. /\ pc = "process" /\ Processing
      /\ UNCHANGED <<in, given, last, conv, step, pos, op>>
  BY DEF Reload, Processing
<1>2. InputOK /\ FilterOK(filter) /\ RatesOK /\ fed \in Seq(Nat)  BY DEF IInv
<1> DEFINE s == Taken(Placed(filter, half))
<1>3. /\ s \in Seq(Nat) /\ pc' = "loaded" /\ used' = used + Len(s) /\ fed' = fed \o s
  BY <1>2, ReloadIs
<1> HIDE DEF s
<1>4. half' = half  BY <1>1 DEF half, ReachOf
<1>5. Taken0 = used /\ Taken0' = used' /\ Processing' BY <1>1, <1>3 DEF Taken0, Processing
<1>6. PICK m \in Nat, n \in Nat, k \in Nat, g \in Nat, u \in Nat :
        /\ Len(fed) = m /\ Len(s) = n /\ Len(in) = k /\ given = g /\ used = u
        /\ Len(fed') = m + n
  <2>1. Len(fed) \in Nat /\ Len(s) \in Nat /\ Len(fed') = Len(fed) + Len(s)
    BY <1>2, <1>3
  <2>2. Len(in) \in Nat /\ given \in Nat /\ used \in Nat
    <3>1. in \in Seq(Nat) /\ given \in Nat  BY <1>2 DEF InputOK, IInv
    <3>2. Len(in) \in Nat  BY <3>1
    <3>3. used \in 0 .. Len(in)  BY <1>1, <1>2 DEF InputOK
    <3> QED  BY <3>1, <3>2, <3>3
  <2> QED  BY <2>1, <2>2
<1>7. Len(fed') + Len(in') - Taken0' = given'
  <2>1. m + k - u = g  BY <1>1, <1>5, <1>6 DEF OutputInv
  <2>2. (m + n) + k - (u + n) = g  BY <2>1
  <2> QED  BY <1>1, <1>3, <1>5, <1>6, <2>2
<1>8. pos < Len(fed') * Unit + LongestStep
  <2>1. pos < m * Unit + LongestStep  BY <1>6 DEF OutputInv
  <2>2. m * Unit <= (m + n) * Unit /\ m * Unit \in Int /\ (m + n) * Unit \in Int
    BY UnitOrder
  <2>3. pos \in Nat /\ LongestStep \in Nat  BY Assumed DEF IInv
  <2> QED  BY <1>6, <2>1, <2>2, <2>3
<1>9. filter'.b_real_end >= 0 =>
        /\ half' + Pad <= filter'.b_end - filter'.b_real_end
        /\ used' = Len(in) /\ op = "done"
  <2> SUFFICES ASSUME filter'.b_real_end >= 0
               PROVE  /\ half + Pad <= filter'.b_end - filter'.b_real_end
                      /\ used' = Len(in) /\ op = "done"
    BY <1>4
  <2>1. /\ filter'.b_end = filter'.b_real_end + (half + Pad)
        /\ used' = Len(in) /\ op = "done"
    BY ReloadSlice
  <2>2. PICK h \in Nat, p \in Nat : half = h /\ Pad = p
    BY <1>1, <1>2, HalfIs, ReachTypes, Assumed
  <2>3. PICK r \in Int : filter'.b_real_end = r
    <3>1. FilterOK(filter')  BY <1>2, ReloadKeeps DEF IInv
    <3> QED  BY <3>1 DEF FilterOK
  <2> QED  BY <2>1, <2>2, <2>3
<1>10. filter'.b_real_end < 0 /\ op = "done" /\ used' = Len(in) => ~IsLast(filter', half')
  BY <1>4, ReloadSlice
<1>11. step' \in (IF last' <= conv' THEN last' .. conv' ELSE conv' .. last')
  BY <1>1 DEF OutputInv
<1> QED  BY <1>1, <1>3, <1>5, <1>7, <1>8, <1>9, <1>10, <1>11 DEF OutputInv

LEMMA OutputEmit == ASSUME IInv, WindowInv, OutputInv, Emit PROVE OutputInv'
<1>1. PICK s \in 1 .. LongestStep, n \in Nat :
        /\ s \in (IF last <= conv THEN last .. conv ELSE conv .. last)
        /\ step' = s /\ pos' = pos + s
        /\ filter.b_current # 0 /\ filter.b_current + n < filter.b_end
        /\ filter' = Filter(filter.buffer, filter.b_current + n, filter.b_end,
                            filter.b_real_end)
  BY EmitMoves
<1>2. /\ ~AtEnd /\ Processing /\ pc' = "process"
      /\ UNCHANGED <<in, conv, last, op, used, given, fed>>
  BY DEF Emit, AtFilter, Prepared, Processing
<1>3. /\ Processing' /\ Taken0' = Taken0 /\ half' = half
  BY <1>2 DEF Processing, Taken0, half, ReachOf
<1>4. /\ FilterOK(filter) /\ fed \in Seq(Nat) /\ pos \in Nat
      /\ Len(fed) \in Nat /\ last \in Nat \ {0}
      /\ Unit \in Nat \ {0} /\ LongestStep \in Nat \ {0}
      /\ Unit <= LongestStep /\ s \in Nat /\ s <= LongestStep
  BY <1>2, Assumed, HalfIs DEF IInv
<1>5. s <= last \/ s <= LongestStep  BY <1>4
<1> DEFINE w == pos \div Unit
           r == pos % Unit
           c == filter.b_current
<1>6. w \in Nat /\ r \in Nat /\ pos = w * Unit + r /\ r < Unit
  BY <1>4, PositionIs
<1>7. c \in Nat /\ EndOf(filter) - c = Len(fed) - w
      /\ filter.b_end \in Nat /\ filter.b_real_end \in Int
  BY <1>1, <1>4 DEF WindowInv, Slice, FilterOK
<1>8. pos + s < Len(fed) * Unit + LongestStep
  <2>1. CASE filter.b_real_end >= 0
    <3>1. filter.b_real_end = c + (Len(fed) - w)
      BY <1>4, <1>6, <1>7, <2>1 DEF EndOf
    <3>2. c * Unit + r + last <= filter.b_real_end * Unit
      <4>1. ~(c * Unit + r + last > filter.b_real_end * Unit)
        BY <1>2, <2>1 DEF AtEnd
      <4>2. c * Unit \in Int /\ filter.b_real_end * Unit \in Int
        BY <1>4, <1>7
      <4> HIDE DEF c, r
      <4> QED  BY <1>4, <1>6, <4>1, <4>2
    <3> HIDE DEF c, r, w
    <3>3. filter.b_real_end * Unit = c * Unit + (Len(fed) - w) * Unit
          /\ c * Unit \in Int
      BY <1>4, <1>6, <1>7, <3>1, UnitSum
    <3>4. (w + (Len(fed) - w)) * Unit = w * Unit + (Len(fed) - w) * Unit
          /\ w * Unit \in Int /\ (Len(fed) - w) * Unit \in Int
      BY <1>4, <1>6, UnitSum
    <3>5. w + (Len(fed) - w) = Len(fed)  BY <1>4, <1>6
    <3> QED  BY <1>4, <1>6, <3>2, <3>3, <3>4, <3>5
  <2>2. CASE filter.b_real_end < 0
    <3>1. EndOf(filter) = filter.b_end  BY <1>7, <2>2 DEF EndOf
    <3>2. filter.b_end - c >= 1
      <4> HIDE DEF w, r
      <4>1. c + n < filter.b_end  BY <1>1
      <4> HIDE DEF c
      <4> QED  BY <1>7, <4>1
    <3> HIDE DEF c, r, w
    <3>3. w + 1 <= Len(fed)  BY <1>4, <1>6, <1>7, <3>1, <3>2
    <3>4. (w + 1) * Unit <= Len(fed) * Unit /\ Len(fed) * Unit \in Int
      BY <1>4, <1>6, <3>3, UnitOrder
    <3>5. (w + 1) * Unit = w * Unit + Unit /\ w * Unit \in Int
      BY <1>4, <1>6
    <3> QED  BY <1>4, <1>6, <3>4, <3>5
  <2> QED  BY <1>7, <2>1, <2>2
<1>9. filter'.b_end = filter.b_end /\ filter'.b_real_end = filter.b_real_end
  BY <1>1 DEF Filter
<1>10. pc # "exited"  BY <1>2 DEF Processing
<1>11. step' \in (IF last' <= conv' THEN last' .. conv' ELSE conv' .. last')
  BY <1>1, <1>2
<1> HIDE DEF c, r, w
<1> QED  BY <1>1, <1>2, <1>3, <1>8, <1>9, <1>10, <1>11 DEF OutputInv

\* The program is through with the input: the filter has come to its end.
LEMMA AtTheEnd ==
  ASSUME IInv, WindowInv, OutputInv, Return, pc' = "over"
  PROVE  in' = <<>> /\ given * Unit < pos + LongestStep
<1>1. /\ Processing /\ in' = Carried(used)
      /\ op = "done" /\ ~GoesOn(in')
  <2>1. /\ Processing /\ in' = Carried(used)
        /\ pc' = CASE op = "sample" /\ ~Full(Len(in')) -> "idle"
                   [] op = "sample" /\ Full(Len(in')) -> "again"
                   [] op = "done" /\ GoesOn(in') -> "again"
                   [] OTHER -> "over"
    BY DEF Return, Processing, Prepared
  <2>2. op # "sample"
    <3>1. CASE op = "sample" /\ Full(Len(in'))  BY <2>1, <3>1
    <3>2. CASE op = "sample" /\ ~Full(Len(in'))  BY <2>1, <3>2
    <3> QED  BY <3>1, <3>2
  <2>3. op = "done"  BY <2>2 DEF IInv
  <2>4. ~GoesOn(in')
    <3>1. SUFFICES ASSUME GoesOn(in') PROVE FALSE  OBVIOUS
    <3> QED  BY <2>1, <2>3, <3>1
  <2> QED  BY <2>1, <2>3, <2>4
<1>2. InputOK /\ used \in Nat /\ Len(in) \in Nat /\ used <= Len(in)
      /\ Taken0 = used /\ pc # "exited"
  BY <1>1 DEF IInv, InputOK, Taken0, Processing
<1>3. in' \in Seq(Nat) /\ Len(in') = Len(in) - used  BY <1>1, <1>2, CarriedIs
<1>4. Len(in') = 0 /\ gen # OutSize  BY <1>1, <1>2, <1>3 DEF GoesOn
<1>5. in' = <<>>  BY <1>3, <1>4
<1>6. used = Len(in)  BY <1>2, <1>3, <1>4
<1>7. /\ FilterOK(filter) /\ fed \in Seq(Nat) /\ pos \in Nat /\ half \in Nat \ {0}
      /\ Len(fed) \in Nat /\ Pad \in Nat \ {0} /\ last \in Nat /\ given \in Nat
      /\ Unit \in Nat \ {0} /\ LongestStep \in Nat \ {0} /\ last <= LongestStep
  <2>1. /\ FilterOK(filter) /\ fed \in Seq(Nat) /\ pos \in Nat /\ given \in Nat
        /\ half \in Nat \ {0}
    BY <1>1, HalfIs, ReachTypes DEF IInv
  <2>2. last \in 0 .. LongestStep  BY DEF IInv, RatesOK
  <2> QED  BY <2>1, <2>2, Assumed
<1>8. given = Len(fed)
  <2>1. Len(fed) + Len(in) - used = given  BY <1>2 DEF OutputInv
  <2> QED  BY <1>2, <1>6, <1>7, <2>1
<1> DEFINE w == pos \div Unit
           r == pos % Unit
           c == filter.b_current
<1>9. w \in Nat /\ r \in Nat /\ pos = w * Unit + r /\ r < Unit
  BY <1>7, PositionIs
<1>10. /\ c \in Nat /\ filter.b_end \in Nat /\ filter.b_real_end \in Int
       /\ InHand(filter) = filter.b_end - c
  BY <1>7, InHandIs DEF FilterOK
<1>11. c # 0 => EndOf(filter) - c = Len(fed) - w
  BY DEF WindowInv, Slice
<1>12. Prepared /\ (InHand(filter) <= half \/ AtEnd)
  BY <1>4 DEF Return
<1>13. filter.b_real_end >= 0
  <2>1. SUFFICES ASSUME filter.b_real_end < 0 PROVE FALSE  BY <1>10
  <2>2. InHand(filter) <= half
    <3>1. ~AtEnd  BY <1>10, <2>1 DEF AtEnd
    <3> QED  BY <1>12, <3>1
  <2>3. pc = "loaded"  BY <1>12, <2>1, <2>2 DEF Prepared, NeedsData
  <2>4. ~IsLast(filter, half)  BY <1>1, <1>6, <2>1, <2>3 DEF OutputInv
  <2> QED  BY <1>7, <1>10, <2>2, <2>4 DEF IsLast
<1>14. half + Pad <= filter.b_end - filter.b_real_end  BY <1>1, <1>13 DEF OutputInv
<1>15. c # 0
  <2>1. filter.b_current = 0 => filter.b_end = 0  BY <1>7 DEF FilterOK
  <2>2. filter.b_end # 0
    <3> HIDE DEF w, r, c
    <3> QED  BY <1>7, <1>10, <1>13, <1>14
  <2> QED  BY <2>1, <2>2
<1>16. filter.b_real_end - c = Len(fed) - w  BY <1>11, <1>13, <1>15 DEF EndOf
<1>17. CASE AtEnd
  <2>1. c * Unit + r + last > filter.b_real_end * Unit  BY <1>17 DEF AtEnd
  <2> HIDE DEF c, r, w
  <2>2. filter.b_real_end = c + (Len(fed) - w)  BY <1>7, <1>9, <1>10, <1>16
  <2>3. filter.b_real_end * Unit = c * Unit + (Len(fed) - w) * Unit
        /\ c * Unit \in Int
    BY <1>7, <1>9, <1>10, <2>2, UnitSum
  <2>4. (w + (Len(fed) - w)) * Unit = w * Unit + (Len(fed) - w) * Unit
        /\ w * Unit \in Int /\ (Len(fed) - w) * Unit \in Int
    BY <1>7, <1>9, UnitSum
  <2>5. w + (Len(fed) - w) = Len(fed)  BY <1>7, <1>9
  <2> QED  BY <1>5, <1>7, <1>8, <1>9, <2>1, <2>3, <2>4, <2>5
<1>18. CASE InHand(filter) <= half
  <2> HIDE DEF c, r, w
  <2>1. Len(fed) <= w
    <3>1. PICK e \in Int, d \in Int, h \in Nat :
            filter.b_end = e /\ filter.b_real_end = d /\ half = h
      BY <1>7, <1>10
    <3>2. h + Pad <= e - d /\ d - c = Len(fed) - w /\ e - c <= h
      BY <1>10, <1>14, <1>16, <1>18, <3>1
    <3> QED  BY <1>7, <1>9, <1>10, <3>2
  <2>2. Len(fed) * Unit <= w * Unit /\ Len(fed) * Unit \in Int /\ w * Unit \in Int
    BY <1>7, <1>9, <2>1, UnitOrder
  <2> QED  BY <1>5, <1>7, <1>8, <1>9, <2>2
<1> QED  BY <1>12, <1>17, <1>18

LEMMA OutputReturn == ASSUME IInv, WindowInv, OutputInv, Return PROVE OutputInv'
<1>1. /\ Processing /\ in' = Carried(used) /\ last' = step /\ pc # "exited"
      /\ pc' \in {"idle", "again", "over"} /\ (pc' = "idle" => op = "sample")
      /\ UNCHANGED <<conv, filter, pos, op, used, gen, step, given, fed>>
  BY DEF Return, Processing, Prepared
<1>2. InputOK /\ used \in Nat /\ Len(in) \in Nat /\ used <= Len(in)
      /\ Taken0 = used /\ Len(fed) \in Nat /\ given \in Nat
  BY <1>1 DEF IInv, InputOK, Taken0
<1>3. Len(in') \in Nat /\ Len(in') = Len(in) - used  BY <1>1, <1>2, CarriedIs
<1>4. Taken0' = 0 /\ ~Processing'  BY <1>1, ReturnOK DEF Taken0
<1>5. Len(fed) + Len(in') - Taken0' = given
  <2>1. Len(fed) + Len(in) - used = given  BY <1>1, <1>2 DEF OutputInv
  <2> QED  BY <1>2, <1>3, <1>4, <2>1
<1>6. conv \in Steps /\ step > 0  BY <1>1 DEF IInv, RatesOK
<1>7. filter.b_real_end >= 0 =>
        /\ half' + Pad <= filter.b_end - filter.b_real_end
        /\ Taken0' = Len(in')
  <2> SUFFICES ASSUME filter.b_real_end >= 0
               PROVE  /\ half' + Pad <= filter.b_end - filter.b_real_end
                      /\ Taken0' = Len(in')
    OBVIOUS
  <2>1. /\ used = Len(in) /\ half + Pad <= filter.b_end - filter.b_real_end
        /\ step \in (IF last <= conv THEN last .. conv ELSE conv .. last)
    BY <1>1, <1>2 DEF OutputInv
  <2>2. conv \in 1 .. LongestStep /\ last \in 1 .. LongestStep /\ ReachOK(half)
    BY <1>1, HalfIs DEF IInv
  <2>3. step \in 1 .. LongestStep /\ (step <= last \/ step <= conv)
    BY <2>1, <2>2, Assumed
  <2>4. half' <= half
    <3>1. ReachOf(step, conv) <= ReachOf(last, conv)  BY <2>2, <2>3, ReachShrinks
    <3>2. half' = ReachOf(step, conv)  BY <1>1 DEF half, ReachOf
    <3> QED  BY <3>1, <3>2 DEF half
  <2>5. half' \in Nat
    <3>1. ReachOK(ReachOf(step, conv))  BY <2>2, <2>3, ReachIs
    <3>2. half' = ReachOf(step, conv)  BY <1>1 DEF half, ReachOf
    <3> QED  BY <3>1, <3>2, ReachTypes
  <2>6. PICK d \in Int : filter.b_end - filter.b_real_end = d
    BY DEF IInv, FilterOK
  <2>7. half \in Nat /\ Pad \in Nat  BY <2>2, ReachTypes
  <2> QED  BY <1>2, <1>3, <1>4, <2>1, <2>4, <2>5, <2>6, <2>7
<1>8. pc' = "over" => in' = <<>> /\ given * Unit < pos + LongestStep
  BY AtTheEnd
<1> QED  BY <1>1, <1>4, <1>5, <1>6, <1>7, <1>8 DEF OutputInv

LEMMA OutputStep == IInv /\ WindowInv /\ OutputInv /\ [Next]_vars => OutputInv'
<1> SUFFICES ASSUME IInv, WindowInv, OutputInv, [Next]_vars PROVE OutputInv'
  OBVIOUS
<1>1. CASE Sample \/ Done \/ Again  BY <1>1, OutputCalls
<1>2. CASE Over \/ UNCHANGED vars
  <2>1. UNCHANGED <<fed, in, given, pc, op, last, conv, step, used, pos, filter>>
    BY <1>2 DEF Over, vars
  <2> QED  BY <2>1 DEF OutputInv, Taken0, Processing, half, ReachOf
<1>3. CASE Reload  BY <1>3, OutputReload
<1>4. CASE Emit  BY <1>4, OutputEmit
<1>5. CASE Return  BY <1>5, OutputReturn
<1>6. CASE Time
  <2>1. pc = "idle" /\ UNCHANGED <<fed, in, given, pc, op, used, pos, filter>>
    BY <1>6 DEF Time
  <2> QED  BY <2>1 DEF OutputInv, Taken0, Processing
<1>7. CASE Fault
  <2>1. pc' = "exited" /\ UNCHANGED <<fed, op, pos, filter>>  BY <1>7 DEF Fault
  <2> QED  BY <2>1 DEF OutputInv, Processing
<1> QED  BY <1>1, <1>2, <1>3, <1>4, <1>5, <1>6, <1>7 DEF Next, Process

\* When resampler_done has returned all samples were taken in and the output
\* goes to the last of them, however the reach changed on the way; the other
\* ways out are a ratio that is refused and a reach beyond the samples kept.
THEOREM WholeOutput == Spec => []Outcome
<1>1. Init => WindowInv /\ OutputInv
  <2> SUFFICES ASSUME Init PROVE WindowInv /\ OutputInv  OBVIOUS
  <2>1. filter = Reset /\ pos = 0 /\ fed = <<>> /\ in = <<>> /\ given = 0
        /\ pc = "idle" /\ op = "sample" /\ Taken0 = 0 /\ ~Processing
    BY DEF Init, Taken0, Processing
  <2>2. filter.b_current = 0 /\ filter.b_real_end = -1  BY <2>1 DEF Reset, Filter
  <2>3. 0 < Len(fed) * Unit + LongestStep  BY <2>1, Assumed
  <2> QED  BY <2>1, <2>2, <2>3 DEF WindowInv, OutputInv
<1>2. IInv /\ OutputInv => Outcome
  <2> SUFFICES ASSUME IInv, OutputInv, pc = "over"
               PROVE  /\ Len(fed) = given /\ in = <<>>
                      /\ given * Unit < pos + LongestStep
                      /\ pos < given * Unit + LongestStep
    BY DEF IInv, Outcome
  <2>1. in = <<>> /\ given * Unit < pos + LongestStep
        /\ pos < Len(fed) * Unit + LongestStep
        /\ Len(fed) + Len(in) - Taken0 = given /\ Taken0 = 0
    BY DEF OutputInv, Taken0, Processing
  <2>2. Len(in) = 0 /\ Len(fed) \in Nat  BY <2>1 DEF IInv
  <2>3. Len(fed) = given  BY <2>1, <2>2
  <2> QED  BY <2>1, <2>3
<1> QED  BY <1>1, <1>2, WindowStep, OutputStep, Invariance, PTL DEF Spec

=============================================================================
