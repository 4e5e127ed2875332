---------------------------- MODULE S2xReadProofs ----------------------------
(***************************************************************************)
(* Proofs about S2xRead, for all numbers of channels, buffer sizes, clocks *)
(* and limits.                                                             *)
(***************************************************************************)
EXTENDS S2xRead, SequenceLemmas

LEMMA Constants ==
  /\ Channels \in Nat \ {0} /\ Capacity \in Nat \ {0} /\ Second \in Nat \ {0}
  /\ SampleTicks \in Nat \ {0} /\ RealTicks \in Nat \ {0} /\ Scale \in Nat \ {0}
  /\ ErrorGain \in Nat \ {0} /\ Proportional \in Nat \ {0} /\ SteerGain \in Nat \ {0}
  /\ TimestampEvery \in Nat \ {0}
  /\ StartTime \in Nat /\ EndTime \in Nat /\ Jitter \in Nat /\ MaxSamples \in Nat
BY ReaderAssumption

-----------------------------------------------------------------------------
\* Packets

DataPacket ==
  {p \in [type : {"data"}, channel : Channel, samples : Seq(Nat)] :
     Len(p.samples) \in 1 .. Capacity}
\* What comes before the terminating packet.
Content == [type : {"header"}, channel : Channel] \cup DataPacket
             \cup [type : {"time"}, second : Int]
Packet == Content \cup [type : {"terminate"}]

\* The samples a packet has for a channel.
Part(c, p) == IF p.type = "data" /\ p.channel = c THEN p.samples ELSE <<>>
Parts(c, packets) == [n \in 1 .. Len(packets) |-> Part(c, packets[n])]

LEMMA PartTyped ==
  ASSUME NEW c, NEW p \in Packet
  PROVE  Part(c, p) \in Seq(Nat)
<1>1. <<>> \in Seq(Nat)  BY EmptySeq
<1>2. CASE p \in DataPacket  BY <1>1, <1>2 DEF Part, DataPacket
<1>3. CASE p \in [type : {"header"}, channel : Channel]  BY <1>1, <1>3 DEF Part
<1>4. CASE p \in [type : {"time"}, second : Int]  BY <1>1, <1>4 DEF Part
<1>5. CASE p \in [type : {"terminate"}]  BY <1>1, <1>5 DEF Part
<1> QED  BY <1>2, <1>3, <1>4, <1>5 DEF Packet, Content

LEMMA PartsTyped ==
  ASSUME NEW c, NEW packets \in Seq(Packet)
  PROVE  /\ Parts(c, packets) \in Seq(Seq(Nat))
         /\ Len(Parts(c, packets)) = Len(packets)
         /\ SamplesOf(c, packets) = FlattenSeq(Parts(c, packets))
         /\ SamplesOf(c, packets) \in Seq(Nat)
<1>1. Len(packets) \in Nat /\ \A n \in 1 .. Len(packets) : packets[n] \in Packet
  BY ElementOfSeq, LenProperties
<1>2. \A n \in 1 .. Len(packets) : Part(c, packets[n]) \in Seq(Nat)
  BY <1>1, PartTyped
<1>3. Parts(c, packets) \in Seq(Seq(Nat)) /\ Len(Parts(c, packets)) = Len(packets)
  BY <1>1, <1>2 DEF Parts
<1>4. SamplesOf(c, packets) = FlattenSeq(Parts(c, packets))
  BY DEF SamplesOf, Parts, Part
<1> QED  BY <1>3, <1>4, FlattenTyped

LEMMA SamplesConcat ==
  ASSUME NEW c, NEW p \in Seq(Packet), NEW q \in Seq(Packet)
  PROVE  /\ SamplesOf(c, p \o q) = SamplesOf(c, p) \o SamplesOf(c, q)
         /\ p \o q \in Seq(Packet)
<1>1. p \o q \in Seq(Packet) /\ Len(p \o q) = Len(p) + Len(q)
      /\ Len(p) \in Nat /\ Len(q) \in Nat
      /\ \A n \in 1 .. Len(p) + Len(q) :
           (p \o q)[n] = IF n <= Len(p) THEN p[n] ELSE q[n - Len(p)]
  BY ConcatProperties, LenProperties
<1> DEFINE a == Parts(c, p)
           b == Parts(c, q)
           d == Parts(c, p \o q)
<1>2. /\ a \in Seq(Seq(Nat)) /\ b \in Seq(Seq(Nat)) /\ d \in Seq(Seq(Nat))
      /\ Len(a) = Len(p) /\ Len(b) = Len(q) /\ Len(d) = Len(p) + Len(q)
  BY <1>1, PartsTyped
<1>3. \A n \in 1 .. Len(p) + Len(q) :
        d[n] = IF n <= Len(p) THEN a[n] ELSE b[n - Len(p)]
  <2> SUFFICES ASSUME NEW n \in 1 .. Len(p) + Len(q)
               PROVE  d[n] = IF n <= Len(p) THEN a[n] ELSE b[n - Len(p)]
    OBVIOUS
  <2>1. d[n] = Part(c, (p \o q)[n])  BY <1>1 DEF Parts
  <2>2. CASE n <= Len(p)
    <3>1. n \in 1 .. Len(p)  BY <1>1, <2>2
    <3>2. a[n] = Part(c, p[n])  BY <3>1 DEF Parts
    <3> QED  BY <1>1, <2>1, <2>2, <3>2
  <2>3. CASE ~(n <= Len(p))
    <3>1. n - Len(p) \in 1 .. Len(q)  BY <1>1, <2>3
    <3>2. b[n - Len(p)] = Part(c, q[n - Len(p)])  BY <3>1 DEF Parts
    <3> QED  BY <1>1, <2>1, <2>3, <3>2
  <2> QED  BY <2>2, <2>3
<1>4. a \o b \in Seq(Seq(Nat)) /\ Len(a \o b) = Len(p) + Len(q)
      /\ \A n \in 1 .. Len(p) + Len(q) :
           (a \o b)[n] = IF n <= Len(p) THEN a[n] ELSE b[n - Len(p)]
  <2>1. Len(a) = Len(p) /\ Len(b) = Len(q)  BY <1>2
  <2> HIDE DEF a, b, d
  <2>2. a \in Seq(Seq(Nat)) /\ b \in Seq(Seq(Nat))  BY <1>2
  <2>3. /\ a \o b \in Seq(Seq(Nat)) /\ Len(a \o b) = Len(a) + Len(b)
        /\ \A n \in 1 .. Len(a) + Len(b) :
             (a \o b)[n] = IF n <= Len(a) THEN a[n] ELSE b[n - Len(a)]
    BY <2>2, ConcatProperties
  <2> QED  BY <2>1, <2>3
<1>5. d = a \o b
  <2> HIDE DEF a, b, d
  <2>1. Len(d) = Len(a \o b) /\ \A n \in 1 .. Len(d) : d[n] = (a \o b)[n]
    BY <1>2, <1>3, <1>4
  <2> QED  BY <1>2, <1>4, <2>1, SeqEqual
<1>6. FlattenSeq(d) = FlattenSeq(a) \o FlattenSeq(b)
  BY <1>2, <1>5, FlattenConcat
<1> QED  BY <1>1, <1>6, PartsTyped

LEMMA SamplesOne ==
  ASSUME NEW c, NEW p \in Packet
  PROVE  SamplesOf(c, <<p>>) = Part(c, p) /\ <<p>> \in Seq(Packet)
<1> DEFINE x == Part(c, p)
<1>1. <<p>> \in Seq(Packet) /\ Len(<<p>>) = 1 /\ <<p>>[1] = p  OBVIOUS
<1>2. Parts(c, <<p>>) = <<x>>  BY <1>1 DEF Parts
<1>3. x \in Seq(Nat)  BY PartTyped
<1> HIDE DEF x
<1>4. <<x>> = Append(<<>>, x) /\ <<>> \in Seq(Seq(Nat))  BY <1>3
<1>5. FlattenSeq(<<x>>) = <<>> \o x  BY <1>3, <1>4, FlattenAppend, FlattenEmpty
<1>6. <<>> \o x = x  BY <1>3, ConcatEmptySeq
<1> QED  BY <1>1, <1>2, <1>5, <1>6, PartsTyped DEF x

LEMMA SamplesEmpty == \A c : SamplesOf(c, <<>>) = <<>>
<1> SUFFICES ASSUME NEW c PROVE SamplesOf(c, <<>>) = <<>>  OBVIOUS
<1>1. <<>> \in Seq(Packet) /\ Len(<<>>) = 0  BY EmptySeq
<1>2. Parts(c, <<>>) = <<>>  BY <1>1 DEF Parts
<1> QED  BY <1>1, <1>2, PartsTyped, FlattenEmpty

-----------------------------------------------------------------------------
\* Flushed buffers

\* What a channel puts into a flush.
Piece(buffers, set, d) ==
  IF d \in set /\ buffers[d] # <<>> THEN <<Data(d, buffers[d])>> ELSE <<>>
Pieces(buffers, set, m) == [d \in 1 .. m |-> Piece(buffers, set, d)]
\* The packets a flush may have.
OfBuffers(buffers, set) ==
  {Data(d, buffers[d]) : d \in {d \in Channel : d \in set /\ buffers[d] # <<>>}}

Buffers == {b \in [Channel -> Seq(Nat)] : \A c \in Channel : Len(b[c]) <= Capacity}

LEMMA OfBuffersTyped ==
  ASSUME NEW buffers \in Buffers, NEW set
  PROVE  OfBuffers(buffers, set) \subseteq DataPacket
<1> SUFFICES ASSUME NEW d \in Channel, buffers[d] # <<>>
             PROVE  Data(d, buffers[d]) \in DataPacket
  BY DEF OfBuffers
<1> DEFINE b == buffers[d]
<1>1. b \in Seq(Nat) /\ Len(b) <= Capacity /\ b # <<>>  BY DEF Buffers
<1> HIDE DEF b
<1>2. Len(b) \in Nat /\ Len(b) # 0  BY <1>1, EmptySeq, LenProperties
<1>3. Len(b) \in 1 .. Capacity  BY <1>1, <1>2, Constants
<1> QED  BY <1>1, <1>3 DEF Data, DataPacket, b

LEMMA PieceTyped ==
  ASSUME NEW buffers \in Buffers, NEW set, NEW d \in Channel
  PROVE  Piece(buffers, set, d) \in Seq(OfBuffers(buffers, set))
<1> DEFINE Q == OfBuffers(buffers, set)
<1>1. CASE d \in set /\ buffers[d] # <<>>
  <2>1. Data(d, buffers[d]) \in Q  BY <1>1 DEF OfBuffers
  <2> HIDE DEF Q
  <2>2. <<Data(d, buffers[d])>> \in Seq(Q)  BY <2>1
  <2> QED  BY <1>1, <2>2 DEF Piece, Q
<1>2. CASE ~(d \in set /\ buffers[d] # <<>>)
  <2>1. <<>> \in Seq(Q)  BY EmptySeq
  <2> QED  BY <1>2, <2>1 DEF Piece
<1> QED  BY <1>1, <1>2

LEMMA PiecesTyped ==
  ASSUME NEW buffers \in Buffers, NEW set, NEW m \in 0 .. Channels
  PROVE  /\ Pieces(buffers, set, m) \in Seq(Seq(OfBuffers(buffers, set)))
         /\ m # Channels => Pieces(buffers, set, m + 1)
              = Append(Pieces(buffers, set, m), Piece(buffers, set, m + 1))
<1> DEFINE Q == OfBuffers(buffers, set)
           s(n) == Pieces(buffers, set, n)
           P(d) == Piece(buffers, set, d)
<1>1. m \in Nat /\ Channels \in Nat  BY Constants
<1>2. \A d \in 1 .. m : P(d) \in Seq(Q)
  <2>1. \A d \in 1 .. m : d \in Channel  BY <1>1 DEF Channel
  <2> QED  BY <2>1, PieceTyped
<1>3. s(m) = [d \in 1 .. m |-> P(d)] /\ s(m + 1) = [d \in 1 .. m + 1 |-> P(d)]
  BY DEF Pieces
<1> HIDE DEF s, P, Q
<1>4. s(m) \in Seq(Seq(Q)) /\ Len(s(m)) = m  BY <1>1, <1>2, <1>3
<1>5. ASSUME m # Channels PROVE s(m + 1) = Append(s(m), P(m + 1))
  <2>1. m + 1 \in Channel  BY <1>1, <1>5 DEF Channel
  <2>2. P(m + 1) \in Seq(Q)  BY <2>1, PieceTyped DEF P, Q
  <2>3. Append(s(m), P(m + 1)) =
          [i \in 1 .. m + 1 |-> IF i \in 1 .. m THEN s(m)[i] ELSE P(m + 1)]
    BY <1>1, <1>4, <2>2
  <2>4. \A i \in 1 .. m + 1 : i \notin 1 .. m => i = m + 1  BY <1>1
  <2>5. [i \in 1 .. m + 1 |-> IF i \in 1 .. m THEN s(m)[i] ELSE P(m + 1)]
        = [i \in 1 .. m + 1 |-> P(i)]
    BY <1>3, <2>4
  <2> QED  BY <1>3, <2>3, <2>5
<1> QED  BY <1>4, <1>5 DEF s, P, Q

\* A flush holds each buffer of its channels once.
LEMMA FlushedIs ==
  ASSUME NEW buffers \in Buffers, NEW set
  PROVE  /\ Flushed(buffers, set) \in Seq(OfBuffers(buffers, set))
         /\ Flushed(buffers, set) \in Seq(Packet)
         /\ \A c \in Channel : SamplesOf(c, Flushed(buffers, set)) =
                                 IF c \in set THEN buffers[c] ELSE <<>>
<1> DEFINE Q == OfBuffers(buffers, set)
           s(n) == Pieces(buffers, set, n)
           P(d) == Piece(buffers, set, d)
           G(n) == FlattenSeq(s(n))
<1>1. Channels \in Nat /\ Channels \in 0 .. Channels  BY Constants
<1>2. Flushed(buffers, set) = G(Channels)
  BY DEF Flushed, Pieces, Piece, Channel
<1>3. Q \subseteq Packet  BY OfBuffersTyped DEF Packet, Content
<1>4. ASSUME NEW n \in 0 .. Channels PROVE G(n) \in Seq(Q) /\ G(n) \in Seq(Packet)
  <2>1. s(n) \in Seq(Seq(Q))  BY PiecesTyped
  <2> HIDE DEF s, Q
  <2>2. G(n) \in Seq(Q)  BY <2>1, FlattenTyped
  <2> HIDE DEF G
  <2> QED  BY <1>3, <2>2, SeqMonotonic
<1>5. ASSUME NEW c \in Channel, NEW d \in Channel
      PROVE  /\ SamplesOf(c, P(d)) = IF c = d /\ c \in set THEN buffers[c] ELSE <<>>
             /\ P(d) \in Seq(Packet)
  <2>1. P(d) \in Seq(Q)  BY PieceTyped
  <2>2. P(d) \in Seq(Packet)
    <3> HIDE DEF P, Q
    <3> QED  BY <1>3, <2>1, SeqMonotonic
  <2>3. CASE d \in set /\ buffers[d] # <<>>
    <3> DEFINE p == Data(d, buffers[d])
    <3>1. P(d) = <<p>>  BY <2>3 DEF Piece
    <3>2. p \in Packet  BY <2>3, <1>3 DEF OfBuffers
    <3>3. Part(c, p) = IF c = d THEN buffers[d] ELSE <<>>  BY DEF Part, Data
    <3> HIDE DEF p, P
    <3>4. SamplesOf(c, <<p>>) = Part(c, p)  BY <3>2, SamplesOne
    <3> QED  BY <2>2, <2>3, <3>1, <3>3, <3>4
  <2>4. CASE ~(d \in set /\ buffers[d] # <<>>)
    <3>1. P(d) = <<>>  BY <2>4 DEF Piece
    <3>2. c = d /\ c \in set => buffers[c] = <<>>  BY <2>4
    <3> HIDE DEF P
    <3> QED  BY <2>2, <3>1, <3>2, SamplesEmpty
  <2> QED  BY <2>3, <2>4
<1>6. ASSUME NEW c \in Channel
      PROVE  SamplesOf(c, G(Channels)) = IF c \in set THEN buffers[c] ELSE <<>>
  <2> DEFINE Holds(n) == SamplesOf(c, G(n)) =
                           IF c <= n /\ c \in set THEN buffers[c] ELSE <<>>
             T == {n \in Nat : n <= Channels => Holds(n)}
  <2>1. c \in Nat \ {0} /\ c <= Channels  BY <1>1 DEF Channel
  <2>2. buffers[c] \in Seq(Nat)  BY DEF Buffers
  <2>3. Holds(0)
    <3>1. s(0) = <<>>  BY DEF Pieces
    <3>2. G(0) = <<>>  BY <3>1, FlattenEmpty
    <3>3. ~(c <= 0)  BY <2>1
    <3> HIDE DEF G
    <3> QED  BY <3>2, <3>3, SamplesEmpty
  <2>4. ASSUME NEW n \in Nat, n \in T PROVE n + 1 \in T
    <3> SUFFICES ASSUME n + 1 <= Channels PROVE Holds(n + 1)
      <4> HIDE DEF Holds
      <4> QED  OBVIOUS
    <3>1. /\ n \in 0 .. Channels /\ n # Channels /\ n + 1 \in Channel
      BY <1>1 DEF Channel
    <3>2. G(n + 1) = G(n) \o P(n + 1)
      <4>1. s(n) \in Seq(Seq(Q)) /\ s(n + 1) = Append(s(n), P(n + 1))
        BY <3>1, PiecesTyped
      <4>2. P(n + 1) \in Seq(Q)  BY <3>1, PieceTyped
      <4> HIDE DEF s, P, Q
      <4> QED  BY <4>1, <4>2, FlattenAppend
    <3>3. G(n) \in Seq(Packet)  BY <1>4, <3>1
    <3>4. /\ P(n + 1) \in Seq(Packet)
          /\ SamplesOf(c, P(n + 1)) =
               IF c = n + 1 /\ c \in set THEN buffers[c] ELSE <<>>
      BY <1>5, <3>1
    <3>5. Holds(n)  BY <2>4, <3>1
    <3> HIDE DEF G, P
    <3>6. SamplesOf(c, G(n + 1)) = SamplesOf(c, G(n)) \o SamplesOf(c, P(n + 1))
      <4>1. PICK a \in Seq(Packet) : a = G(n)  BY <3>3
      <4>2. PICK b \in Seq(Packet) : b = P(n + 1)  BY <3>4
      <4> HIDE DEF T, Holds
      <4>3. SamplesOf(c, a \o b) = SamplesOf(c, a) \o SamplesOf(c, b)  BY SamplesConcat
      <4> QED  BY <3>2, <4>1, <4>2, <4>3
    <3>7. buffers[c] \o <<>> = buffers[c] /\ <<>> \o buffers[c] = buffers[c]
          /\ <<>> \o <<>> = <<>>
      BY <2>2, ConcatEmptySeq, EmptySeq
    <3>8. CASE c = n + 1
      <4>1. ~(c <= n) /\ c <= n + 1  BY <2>1, <3>8
      <4> QED  BY <3>4, <3>5, <3>6, <3>7, <3>8, <4>1
    <3>9. CASE c # n + 1
      <4>1. c <= n <=> c <= n + 1  BY <2>1, <3>9
      <4> QED  BY <3>4, <3>5, <3>6, <3>7, <3>9, <4>1
    <3> QED  BY <3>8, <3>9
  <2>5. Nat \subseteq T
    <3>1. 0 \in T  BY <2>3
    <3> HIDE DEF T
    <3> QED  BY <2>4, <3>1, SetInduction
  <2>6. Holds(Channels)
    <3> HIDE DEF Holds
    <3>1. Channels \in T /\ Channels <= Channels  BY <1>1, <2>5
    <3> QED  BY <3>1
  <2> HIDE DEF G
  <2> QED  BY <2>1, <2>6
<1> QED  BY <1>1, <1>2, <1>4, <1>6

-----------------------------------------------------------------------------
\* Types

TypeInv ==
  /\ sample_number \in Nat
  /\ time \in Int /\ error \in Int /\ error_integral \in Int /\ sample_time \in Int
  /\ have_time \in 0 .. 2 /\ last_t \in Int /\ timed \in Int
  /\ buffer \in Buffers
  /\ times \in Seq(Int) /\ Len(times) = sample_number
  /\ pc \in {"data", "done", "failed"}
  /\ pc # "done" => output \in Seq(Content)
  /\ pc = "done" => \E o \in Seq(Content) : output = o \o <<Terminate>>

LEMMA QuotientInt ==
  ASSUME NEW a \in Int, NEW d \in Nat \ {0}
  PROVE  a \div d \in Int
OBVIOUS

LEMMA Contents ==
  /\ Seq(Content) \subseteq Seq(Packet)
  /\ \A b \in Buffers : \A set : Flushed(b, set) \in Seq(Content)
  /\ \A t \in Int : <<Time(t)>> \in Seq(Content) /\ Time(t) \in Content
  /\ Terminate \in Packet
<1>1. Content \subseteq Packet  BY DEF Packet
<1>2. Seq(Content) \subseteq Seq(Packet)  BY <1>1, SeqMonotonic
<1>3. ASSUME NEW b \in Buffers, NEW set PROVE Flushed(b, set) \in Seq(Content)
  <2>1. OfBuffers(b, set) \subseteq Content  BY OfBuffersTyped DEF Content
  <2>2. Flushed(b, set) \in Seq(OfBuffers(b, set))  BY FlushedIs
  <2> QED  BY <2>1, <2>2, SeqMonotonic
<1>4. ASSUME NEW t \in Int PROVE <<Time(t)>> \in Seq(Content) /\ Time(t) \in Content
  <2>1. Time(t) \in Content  BY DEF Time, Content
  <2> QED  BY <2>1
<1>5. Terminate \in Packet  BY DEF Terminate, Packet
<1> QED  BY <1>2, <1>3, <1>4, <1>5

LEMMA PushedTyped ==
  ASSUME NEW b \in Buffers, NEW k \in Nat
  PROVE  Pushed(b, k) \in Buffers
<1>1. ASSUME NEW c \in Channel
      PROVE  Pushed(b, k)[c] \in Seq(Nat) /\ Len(Pushed(b, k)[c]) <= Capacity
  <2> DEFINE s == b[c]
  <2>1. s \in Seq(Nat) /\ Len(s) <= Capacity  BY DEF Buffers
  <2>2. Pushed(b, k)[c] = IF c \in FullIn(b) THEN <<k>> ELSE Append(s, k)
    BY DEF Pushed
  <2>3. c \in FullIn(b) <=> Len(s) >= Capacity  BY DEF FullIn
  <2> HIDE DEF s
  <2> QED  BY <2>1, <2>2, <2>3, Constants, AppendProperties, LenProperties
<1>2. Pushed(b, k) = [c \in Channel |-> Pushed(b, k)[c]]  BY DEF Pushed
<1>3. Pushed(b, k) \in [Channel -> Seq(Nat)]  BY <1>1, <1>2
<1> QED  BY <1>1, <1>3 DEF Buffers

LEMMA TimesTyped ==
  /\ \A t \in Int : SecondOf(t) \in Int
  /\ TypeInv => NextTime \in Int
BY Constants, QuotientInt DEF SecondOf, TypeInv, NextTime

\* What a sample does to the tracker.
LEMMA Tracked ==
  ASSUME TypeInv, TrackSample
  PROVE  /\ time' \in Int /\ sample_number' = sample_number + 1
         /\ sample_number' \in Nat
         /\ UNCHANGED <<error, error_integral, sample_time>>
         /\ times' \in Seq(Int) /\ Len(times') = sample_number'
         /\ times'[sample_number + 1] = NextTime
         /\ \A k \in 1 .. sample_number : times'[k] = times[k]
<1>1. NextTime \in Int /\ times \in Seq(Int) /\ Len(times) = sample_number
      /\ times' = Append(times, NextTime) /\ sample_number' = sample_number + 1
      /\ time' = time + sample_time /\ sample_number \in Nat
      /\ UNCHANGED <<error, error_integral, sample_time>>
  BY TimesTyped DEF TypeInv, TrackSample
<1>2. /\ times' \in Seq(Int) /\ Len(times') = sample_number + 1
      /\ times'[sample_number + 1] = NextTime
      /\ \A k \in 1 .. sample_number : times'[k] = times[k]
  BY <1>1, AppendProperties
<1>3. time' \in Int  BY <1>1 DEF TypeInv
<1> QED  BY <1>1, <1>2, <1>3

LEMMA TypeInit == Init => TypeInv
<1> SUFFICES ASSUME Init PROVE TypeInv  OBVIOUS
<1>1. sample_time \in Int  BY Constants DEF Init
<1>2. buffer \in Buffers
  <2>1. <<>> \in Seq(Nat) /\ Len(<<>>) = 0  BY EmptySeq
  <2>2. 0 <= Capacity  BY Constants
  <2>3. buffer = [c \in Channel |-> <<>>]  BY DEF Init
  <2> QED  BY <2>1, <2>2, <2>3 DEF Buffers
<1>3. output \in Seq(Content)
  <2>1. Channels \in Nat  BY Constants
  <2>2. \A c \in 1 .. Channels : Header(c) \in Content  BY DEF Header, Content, Channel
  <2>3. output = [c \in 1 .. Channels |-> Header(c)]  BY DEF Init, Channel
  <2> QED  BY <2>1, <2>2, <2>3, IsASeq
<1>4. times \in Seq(Int) /\ Len(times) = 0  BY EmptySeq DEF Init
<1> QED  BY <1>1, <1>2, <1>3, <1>4 DEF Init, TypeInv

LEMMA TypeTimeFrame ==
  ASSUME TypeInv, NEW t \in Timestamps, TimeFrame(t)
  PROVE  TypeInv'
<1>1. t \in Nat  BY DEF Timestamps
<1>2. SetTime(t) /\ timed' = sample_number
      /\ have_time' = (IF have_time = 0 THEN 1 ELSE have_time)
      /\ UNCHANGED <<sample_number, last_t, buffer, output, pc, times>>
  BY DEF TimeFrame
<1>3. /\ time' \in Int /\ error' \in Int /\ error_integral' \in Int
      /\ sample_time' \in Int
  <2>1. t * Scale \in Int /\ SampleTicks * Scale \in Int  BY <1>1, Constants
  <2>2. CASE sample_number = 0
    BY <1>2, <2>1, <2>2 DEF SetTime, TypeInv
  <2>3. CASE sample_number # 0
    <3> DEFINE e == t * Scale - time
               steer == (Proportional * error' + error_integral') \div SteerGain
    <3>1. /\ error' = error + (e - error) \div ErrorGain
          /\ error_integral' = error_integral + error'
          /\ sample_time' = SampleTicks * Scale + steer /\ time' = time
      BY <1>2, <2>3 DEF SetTime
    <3>2. e - error \in Int  BY <2>1 DEF TypeInv
    <3>3. (e - error) \div ErrorGain \in Int  BY <3>2, Constants, QuotientInt
    <3> HIDE DEF e
    <3>4. error' \in Int /\ error_integral' \in Int  BY <3>1, <3>3 DEF TypeInv
    <3>5. Proportional * error' + error_integral' \in Int  BY <3>4, Constants
    <3>6. steer \in Int  BY <3>5, Constants, QuotientInt
    <3> HIDE DEF steer
    <3> QED  BY <2>1, <3>1, <3>4, <3>6 DEF TypeInv
  <2> QED  BY <2>2, <2>3
<1>4. have_time' \in 0 .. 2 /\ timed' \in Int  BY <1>2 DEF TypeInv
<1>5. /\ pc' # "done" => output' \in Seq(Content)
      /\ pc' = "done" => \E o \in Seq(Content) : output' = o \o <<Terminate>>
      /\ buffer' \in Buffers
  BY <1>2 DEF TypeInv
<1> QED  BY <1>2, <1>3, <1>4, <1>5 DEF TypeInv

LEMMA TypeSample ==
  ASSUME TypeInv, Stamp \/ Collect
  PROVE  TypeInv'
<1> DEFINE k == sample_number + 1
           s == SecondOf(NextTime)
<1>1. pc = "data" /\ pc' = "data" /\ TrackSample /\ timed' = timed
  BY DEF Stamp, Collect, SampleComes
<1>2. buffer \in Buffers /\ output \in Seq(Content) /\ NextTime \in Int /\ k \in Nat
  BY <1>1, TimesTyped DEF TypeInv
<1>3. /\ Flushed(buffer, Channel) \in Seq(Content)
      /\ Flushed(buffer, FullIn(buffer)) \in Seq(Content)
      /\ <<Time(s)>> \in Seq(Content)
  BY <1>2, Contents, TimesTyped
<1>4. have_time' \in 0 .. 2 /\ last_t' \in Int
  BY <1>2 DEF Stamp, Collect, TypeInv
<1>5. buffer' \in Buffers
  <2>1. CASE Stamp
    <3>1. buffer' = [c \in Channel |-> <<k>>]  BY <2>1 DEF Stamp
    <3>2. <<k>> \in Seq(Nat) /\ Len(<<k>>) = 1 /\ 1 <= Capacity
      BY <1>2, Constants
    <3> HIDE DEF k
    <3> QED  BY <3>1, <3>2 DEF Buffers
  <2>2. CASE Collect
    <3>1. buffer' = buffer \/ buffer' = Pushed(buffer, k)  BY <2>2 DEF Collect
    <3> QED  BY <1>2, <3>1, PushedTyped
  <2> QED  BY <2>1, <2>2
<1>6. output' \in Seq(Content)
  <2>1. \/ output' = output \o Flushed(buffer, Channel) \o <<Time(s)>>
        \/ output' = output \o Flushed(buffer, FullIn(buffer))
        \/ output' = output
    BY DEF Stamp, Collect
  <2>2. \A p, q \in Seq(Content) : p \o q \in Seq(Content)  BY ConcatProperties
  <2> HIDE DEF k, s
  <2>3. output \o Flushed(buffer, Channel) \in Seq(Content)  BY <1>2, <1>3, <2>2
  <2> QED  BY <1>2, <1>3, <2>1, <2>2, <2>3
<1> QED  BY <1>1, <1>4, <1>5, <1>6, Tracked DEF TypeInv

LEMMA TypeStep == TypeInv /\ [Next]_vars => TypeInv'
<1> SUFFICES ASSUME TypeInv, [Next]_vars PROVE TypeInv'  OBVIOUS
<1>1. ASSUME NEW t \in Timestamps, TimeFrame(t) PROVE TypeInv'
  BY <1>1, TypeTimeFrame
<1>2. CASE Stamp \/ Collect  BY <1>2, TypeSample
<1>3. CASE Finish
  <2>1. /\ pc = "data" /\ pc' = "done" /\ buffer' = [c \in Channel |-> <<>>]
        /\ output' = (output \o Flushed(buffer, Channel)) \o <<Terminate>>
        /\ UNCHANGED <<tracker, have_time, last_t, times, timed>>
    BY <1>3 DEF Finish
  <2>2. output \o Flushed(buffer, Channel) \in Seq(Content)
    BY <2>1, Contents, ConcatProperties DEF TypeInv
  <2>3. buffer' \in Buffers
    <3>1. <<>> \in Seq(Nat) /\ Len(<<>>) = 0 /\ 0 <= Capacity  BY EmptySeq, Constants
    <3> QED  BY <2>1, <3>1 DEF Buffers
  <2> QED  BY <2>1, <2>2, <2>3 DEF TypeInv, tracker
<1>4. CASE ReadFails \/ WriteFails
  <2>1. /\ pc = "data" /\ pc' = "failed"
        /\ UNCHANGED <<tracker, have_time, last_t, buffer, times, timed>>
    BY <1>4 DEF ReadFails, WriteFails
  <2>2. output' \in Seq(Content)
    <3>1. \/ output' = output
          \/ \E n \in Nat : \E all \in {Flushed(buffer, Channel),
                                        Flushed(buffer, FullIn(buffer))} :
               output' = output \o SubSeq(all, 1, n) /\ n <= Len(all)
      <4>1. ASSUME WriteFails
            PROVE  \E n \in Nat : \E all \in {Flushed(buffer, Channel),
                                              Flushed(buffer, FullIn(buffer))} :
                     output' = output \o SubSeq(all, 1, n) /\ n <= Len(all)
        <5>1. \A x \in Seq(Content) : Len(x) \in Nat  BY LenProperties
        <5>2. Len(Flushed(buffer, Channel)) \in Nat
              /\ Len(Flushed(buffer, FullIn(buffer))) \in Nat
          BY <5>1, Contents DEF TypeInv
        <5> QED  BY <4>1, <5>2 DEF WriteFails
      <4> QED  BY <1>4, <4>1 DEF ReadFails
    <3>2. output \in Seq(Content)  BY <2>1 DEF TypeInv
    <3>3. ASSUME NEW n \in Nat, NEW all \in Seq(Content), n <= Len(all)
          PROVE  output \o SubSeq(all, 1, n) \in Seq(Content)
      <4>1. SubSeq(all, 1, n) \in Seq(Content)  BY <3>3, SubSeqProperties
      <4> QED  BY <3>2, <4>1, ConcatProperties
    <3>4. Flushed(buffer, Channel) \in Seq(Content)
          /\ Flushed(buffer, FullIn(buffer)) \in Seq(Content)
      BY Contents DEF TypeInv
    <3> QED  BY <3>1, <3>2, <3>3, <3>4
  <2> QED  BY <2>1, <2>2 DEF TypeInv, tracker
<1>5. CASE Over \/ UNCHANGED vars
  BY <1>5 DEF Over, vars, tracker, TypeInv
<1> QED  BY <1>1, <1>2, <1>3, <1>4, <1>5 DEF Next

THEOREM TypeInvariance == Spec => []TypeInv
BY TypeInit, TypeStep, PTL DEF Spec

\* Every variable has its type; no buffer and no data packet is larger than the
\* buffer of a channel (6d6read.c and s2x_channel.c).
THEOREM TypeCorrect == Spec => []TypeOK
<1>1. TypeInv => TypeOK
  <2> SUFFICES ASSUME TypeInv PROVE TypeOK  OBVIOUS
  <2> DEFINE Fits(p) ==
        \/ \E c \in Channel : p = Header(c)
        \/ p.type = "data" /\ p.channel \in Channel /\ Len(p.samples) \in 1 .. Capacity
        \/ p.type = "time" /\ p = Time(p.second)
  <2>1. \A p \in Content : Fits(p)
    BY DEF Content, DataPacket, Header, Time
  <2> HIDE DEF Fits
  <2>2. ASSUME NEW n \in 1 .. Len(output)
        PROVE  Fits(output[n]) \/ (output[n] = Terminate /\ n = Len(output) /\ pc = "done")
    <3>1. CASE pc # "done"
      <4>1. output[n] \in Content  BY <3>1, ElementOfSeq DEF TypeInv
      <4> QED  BY <2>1, <4>1
    <3>2. CASE pc = "done"
      <4>1. PICK o \in Seq(Content) : output = o \o <<Terminate>>  BY <3>2 DEF TypeInv
      <4>2. /\ Len(output) = Len(o) + 1 /\ Len(o) \in Nat
            /\ output[n] = IF n <= Len(o) THEN o[n] ELSE Terminate
        <5>1. o \in Seq(Packet) /\ <<Terminate>> \in Seq(Packet)
              /\ Len(<<Terminate>>) = 1 /\ <<Terminate>>[1] = Terminate
          BY Contents
        <5>2. n \in 1 .. Len(o) + 1 /\ Len(output) = Len(o) + 1 /\ Len(o) \in Nat
          BY <4>1, <5>1, ConcatProperties, LenProperties
        <5>3. output[n] = IF n <= Len(o) THEN o[n] ELSE <<Terminate>>[n - Len(o)]
          BY <4>1, <5>1, <5>2, ConcatProperties
        <5>4. ~(n <= Len(o)) => n - Len(o) = 1  BY <5>2
        <5> QED  BY <5>1, <5>2, <5>3, <5>4
      <4>3. CASE n <= Len(o)
        <5>1. o[n] \in Content  BY <4>2, <4>3, ElementOfSeq
        <5> QED  BY <2>1, <4>2, <4>3, <5>1
      <4>4. CASE ~(n <= Len(o))
        <5>1. n = Len(output)  BY <4>2, <4>4
        <5> QED  BY <3>2, <4>2, <4>4, <5>1
      <4> QED  BY <4>3, <4>4
    <3> QED  BY <3>1, <3>2
  <2>3. \A c \in Channel : Len(buffer[c]) <= Capacity
    BY DEF TypeInv, Buffers
  <2>4. /\ sample_number \in Nat /\ have_time \in 0 .. 2 /\ pc \in {"data", "done", "failed"}
        /\ {time, error, error_integral, sample_time, last_t, timed} \subseteq Int
        /\ buffer \in [Channel -> Seq(Nat)]
    BY DEF TypeInv, Buffers
  <2> QED  BY <2>2, <2>3, <2>4 DEF TypeOK, Fits
<1> QED  BY <1>1, TypeInvariance, PTL

-----------------------------------------------------------------------------
\* The samples that are expected in the file

\* The first sample that opens a second, and the samples from there on.
First(f) == f \in 1 .. sample_number /\ Opens(f) /\ \A k \in 1 .. f - 1 : ~Opens(k)
Run(f, n) == [i \in 1 .. n - f + 1 |-> f + i - 1]

\* last_t is the last sample between the limits.  Until a time packet is
\* written, all of them are of one second.
OpenInv ==
  /\ last_t >= -1
  /\ last_t = -1 => \A m \in 1 .. sample_number : ~InWindow(times[m])
  /\ last_t # -1 => \E m \in 1 .. sample_number :
                      InWindow(times[m]) /\ times[m] = last_t
  /\ have_time # 2 => \A m \in 1 .. sample_number :
                        InWindow(times[m]) => SecondOf(times[m]) = SecondOf(last_t)
  /\ have_time = 2 => \E f \in Nat : First(f)

LEMMA ExpectedRun ==
  ASSUME TypeInv, NEW f, First(f)
  PROVE  Expected = Run(f, sample_number)
<1> DEFINE S == {k \in 1 .. sample_number : Opens(k)}
<1>1. sample_number \in Nat /\ f \in S /\ f \in Nat  BY DEF TypeInv, First
<1>2. \A k \in S : f <= k
  <2> SUFFICES ASSUME NEW k \in S, k < f PROVE FALSE
    BY <1>1
  <2>1. k \in 1 .. f - 1  BY <1>1
  <2> QED  BY <2>1 DEF First
<1>3. \A k \in S : k \in Nat  OBVIOUS
<1>4. Expected = IF S = {} THEN <<>>
                 ELSE [n \in 1 .. sample_number - Min(S) + 1 |-> Min(S) + n - 1]
  BY DEF Expected
<1> HIDE DEF S
<1>5. Min(S) = f
  <2>1. \E x \in S : \A y \in S : x <= y  BY <1>1, <1>2
  <2>2. Min(S) \in S /\ \A y \in S : Min(S) <= y  BY <2>1 DEF Min
  <2>3. Min(S) <= f /\ f <= Min(S) /\ Min(S) \in Nat  BY <1>1, <1>2, <1>3, <2>2
  <2> QED  BY <1>1, <2>3
<1> QED  BY <1>1, <1>4, <1>5 DEF Run

\* The same for the state after a step.
LEMMA ExpectedRunNext ==
  (\A f : TypeInv /\ First(f) => Expected = Run(f, sample_number))'
<1>1. \A f : TypeInv /\ First(f) => Expected = Run(f, sample_number)
  BY ExpectedRun
<1> QED  BY <1>1, PTL

LEMMA ExpectedEmpty ==
  ASSUME TypeInv, OpenInv, have_time # 2
  PROVE  Expected = <<>>
<1>1. ASSUME NEW k \in 1 .. sample_number PROVE ~Opens(k)
  <2> SUFFICES ASSUME InWindow(times[k]), NEW m \in 1 .. k - 1, InWindow(times[m])
               PROVE  SecondOf(times[m]) = SecondOf(times[k])
    BY DEF Opens
  <2>1. m \in 1 .. sample_number  BY DEF TypeInv
  <2> QED  BY <2>1 DEF OpenInv
<1> QED  BY <1>1 DEF Expected

LEMMA RunIs ==
  ASSUME NEW n \in Nat, NEW f \in 1 .. n
  PROVE  /\ Run(f, n) \in Seq(Nat) /\ Run(n, n) = <<n>>
         /\ Run(f, n + 1) = Append(Run(f, n), n + 1)
<1>1. n - f + 1 \in Nat /\ \A i \in 1 .. n - f + 1 : f + i - 1 \in Nat  OBVIOUS
<1>2. Run(f, n) \in Seq(Nat) /\ Len(Run(f, n)) = n - f + 1
  BY <1>1 DEF Run
<1>3. Run(n, n) = <<n>>
  <2>1. n - n + 1 = 1 /\ \A i \in 1 .. 1 : n + i - 1 = n  OBVIOUS
  <2>2. Run(n, n) = [i \in 1 .. 1 |-> n]  BY <2>1 DEF Run
  <2> QED  BY <2>2
<1>4. Run(f, n + 1) = Append(Run(f, n), n + 1)
  <2> DEFINE m == n - f + 1
  <2>1. m \in Nat /\ n + 1 - f + 1 = m + 1 /\ f + (m + 1) - 1 = n + 1  OBVIOUS
  <2>2. \A i \in 1 .. m + 1 : i \in 1 .. m \/ i = m + 1  BY <2>1
  <2>3. Run(f, n + 1) = [i \in 1 .. m + 1 |-> f + i - 1]  BY <2>1 DEF Run
  <2>4. Run(f, n) = [i \in 1 .. m |-> f + i - 1]  BY DEF Run
  <2> HIDE DEF m
  <2>5. Append(Run(f, n), n + 1)
        = [i \in 1 .. m + 1 |-> IF i = m + 1 THEN n + 1 ELSE Run(f, n)[i]]
    <3>1. Len(Run(f, n)) = m  BY <1>2 DEF m
    <3> QED  BY <1>2, <2>1, <3>1
  <2>6. \A i \in 1 .. m + 1 :
          f + i - 1 = IF i = m + 1 THEN n + 1 ELSE Run(f, n)[i]
    BY <2>1, <2>2, <2>4
  <2> QED  BY <2>3, <2>5, <2>6
<1> QED  BY <1>2, <1>3, <1>4

LEMMA OpensStays ==
  ASSUME TypeInv, TrackSample, NEW k \in 1 .. sample_number
  PROVE  Opens(k)' <=> Opens(k)
<1>1. sample_number \in Nat /\ \A m \in 1 .. sample_number : times'[m] = times[m]
  BY Tracked DEF TypeInv
<1>2. times'[k] = times[k] /\ \A m \in 1 .. k - 1 : times'[m] = times[m]
  BY <1>1
<1>3. Opens(k)' <=> /\ InWindow(times'[k])
                    /\ \E m \in 1 .. k - 1 : /\ InWindow(times'[m])
                                             /\ SecondOf(times'[m]) # SecondOf(times'[k])
  BY DEF Opens, InWindow, SecondOf
<1> QED  BY <1>2, <1>3 DEF Opens

LEMMA FirstStays ==
  ASSUME TypeInv, TrackSample, NEW f \in Nat, First(f)
  PROVE  First(f)'
<1>1. sample_number' = sample_number + 1 /\ sample_number \in Nat /\ f \in 1 .. sample_number
  BY Tracked DEF TypeInv, First
<1>2. f \in 1 .. sample_number' /\ \A k \in 1 .. f - 1 : k \in 1 .. sample_number
  BY <1>1
<1>3. Opens(f)' /\ \A k \in 1 .. f - 1 : ~Opens(k)'
  BY <1>1, <1>2, OpensStays DEF First
<1> QED  BY <1>2, <1>3 DEF First

LEMMA OpenSample ==
  ASSUME TypeInv, OpenInv, Stamp \/ Collect
  PROVE  /\ OpenInv'
         /\ have_time' = 2 => Expected' = Append(Expected, sample_number + 1)
         /\ have_time' # 2 => Expected' = <<>> /\ Expected = <<>>
<1>0. PICK k \in Nat : k = sample_number + 1
  <2>1. sample_number + 1 \in Nat  BY DEF TypeInv
  <2> QED  BY <2>1
<1>1. /\ TrackSample /\ NextTime \in Int /\ sample_number \in Nat
      /\ have_time \in 0 .. 2 /\ last_t \in Int /\ TypeInv'
  BY TypeSample, TimesTyped DEF Stamp, Collect, TypeInv
<1>2. /\ sample_number' = k /\ times'[k] = NextTime
      /\ \A m \in 1 .. sample_number : times'[m] = times[m]
      /\ \A m \in 1 .. k : m \in 1 .. sample_number \/ m = k
      /\ \A m \in 1 .. sample_number : m \in 1 .. k
      /\ k \in 1 .. k /\ 1 .. k - 1 = 1 .. sample_number
  BY <1>0, <1>1, Tracked
<1>3. \A t : InWindow(t)' = InWindow(t) /\ SecondOf(t)' = SecondOf(t)
  BY DEF InWindow, SecondOf
<1>4. InWindow(NextTime) => NextTime >= 0
  BY <1>1, Constants DEF InWindow
<1>5. last_t' = IF InWindow(NextTime) THEN NextTime ELSE last_t
  BY DEF Stamp, Collect, NewSecond
<1>6. Opens(k)' <=> /\ InWindow(NextTime)
                    /\ \E m \in 1 .. sample_number :
                         InWindow(times[m]) /\ SecondOf(times[m]) # SecondOf(NextTime)
  <2>1. Opens(k)' <=> /\ InWindow(times'[k])
                      /\ \E m \in 1 .. k - 1 : /\ InWindow(times'[m])
                                               /\ SecondOf(times'[m]) # SecondOf(times'[k])
    BY <1>1, <1>2 DEF Opens, InWindow, SecondOf
  <2> QED  BY <1>2, <2>1
<1>7. /\ last_t' >= -1
      /\ last_t' = -1 => \A m \in 1 .. k : ~InWindow(times'[m])
      /\ last_t' # -1 => \E m \in 1 .. k : InWindow(times'[m]) /\ times'[m] = last_t'
  <2>1. CASE InWindow(NextTime)
    BY <1>1, <1>2, <1>4, <1>5, <2>1
  <2>2. CASE ~InWindow(NextTime)
    BY <1>1, <1>2, <1>5, <2>2 DEF OpenInv
  <2> QED  BY <2>1, <2>2
<1>8. CASE have_time = 2
  <2>1. have_time' = 2  BY <1>8 DEF Stamp, Collect
  <2>2. PICK f \in Nat : First(f)  BY <1>8 DEF OpenInv
  <2>3. First(f)'  BY <1>1, <2>2, FirstStays
  <2>4. OpenInv'  BY <1>2, <1>3, <1>7, <2>1, <2>3 DEF OpenInv
  <2>5. Expected = Run(f, sample_number)  BY <2>2, ExpectedRun
  <2>6. Expected' = Run(f, k)
    <3>1. (TypeInv /\ First(f) => Expected = Run(f, sample_number))'
      BY ExpectedRunNext
    <3> QED  BY <1>1, <1>2, <2>3, <3>1 DEF Run
  <2>7. Run(f, k) = Append(Run(f, sample_number), k)
    BY <1>0, <1>1, <2>2, RunIs DEF First
  <2> QED  BY <1>0, <2>1, <2>4, <2>5, <2>6, <2>7
<1>9. CASE have_time # 2
  <2>1. Expected = <<>>  BY <1>9, ExpectedEmpty
  <2>2. ASSUME Stamp PROVE First(k)' /\ have_time' = 2
    <3>1. /\ InWindow(NextTime) /\ last_t >= 0 /\ have_time' = 2
          /\ SecondOf(NextTime) # SecondOf(last_t)
      BY <2>2 DEF Stamp, NewSecond
    <3>2. last_t # -1  BY <3>1
    <3>3. PICK m \in 1 .. sample_number : InWindow(times[m]) /\ times[m] = last_t
      BY <3>2 DEF OpenInv
    <3>4. Opens(k)'  BY <1>6, <3>1, <3>3
    <3>5. ASSUME NEW j \in 1 .. sample_number PROVE ~Opens(j)'
      <4>1. ~Opens(j)
        <5> SUFFICES ASSUME InWindow(times[j]), NEW i \in 1 .. j - 1, InWindow(times[i])
                     PROVE  SecondOf(times[i]) = SecondOf(times[j])
          BY DEF Opens
        <5>1. i \in 1 .. sample_number  BY <1>1
        <5> QED  BY <1>9, <5>1 DEF OpenInv
      <4> QED  BY <1>1, <4>1, OpensStays
    <3> QED  BY <1>2, <3>1, <3>4, <3>5 DEF First
  <2>3. CASE Stamp
    <3>1. OpenInv'
      <4> QED  BY <1>2, <1>3, <1>7, <2>2, <2>3 DEF OpenInv
    <3>2. Expected' = Run(k, k)
      <4>1. (TypeInv /\ First(k) => Expected = Run(k, sample_number))'
        BY ExpectedRunNext
      <4> QED  BY <1>1, <1>2, <2>2, <2>3, <4>1 DEF Run
    <3>3. Run(k, k) = <<k>> /\ Append(<<>>, k) = <<k>>
      <4>1. k \in 1 .. k  BY <1>2
      <4> QED  BY <4>1, RunIs
    <3> QED  BY <1>0, <2>1, <2>2, <2>3, <3>1, <3>2, <3>3
  <2>4. CASE Collect
    <3>1. have_time' # 2 /\ ~NewSecond(NextTime)  BY <1>9, <2>4 DEF Collect
    <3>2. \A m \in 1 .. k :
            InWindow(times'[m]) => SecondOf(times'[m]) = SecondOf(last_t')
      <4>1. CASE InWindow(NextTime)
        <5>1. last_t = -1 \/ SecondOf(NextTime) = SecondOf(last_t)
          BY <1>1, <3>1, <4>1 DEF NewSecond, OpenInv
        <5> QED  BY <1>2, <1>5, <1>9, <4>1, <5>1 DEF OpenInv
      <4>2. CASE ~InWindow(NextTime)
        <5> QED  BY <1>2, <1>5, <1>9, <4>2 DEF OpenInv
      <4> QED  BY <4>1, <4>2
    <3>3. OpenInv'
      <4> QED  BY <1>2, <1>3, <1>7, <3>1, <3>2 DEF OpenInv
    <3>4. Expected' = <<>>
      <4>1. (TypeInv /\ OpenInv /\ have_time # 2 => Expected = <<>>)'
        BY ExpectedEmpty, PTL
      <4> QED  BY <1>1, <3>1, <3>3, <4>1
    <3> QED  BY <2>1, <3>1, <3>3, <3>4
  <2> QED  BY <2>3, <2>4
<1> QED  BY <1>8, <1>9

\* The steps after which nothing more is expected than before.
LEMMA OpenStep == TypeInv /\ OpenInv /\ [Next]_vars => OpenInv'
<1> SUFFICES ASSUME TypeInv, OpenInv, [Next]_vars PROVE OpenInv'  OBVIOUS
<1>1. CASE Stamp \/ Collect  BY <1>1, OpenSample
<1>2. CASE (\E t \in Timestamps : TimeFrame(t)) \/ Finish \/ ReadFails \/ WriteFails
           \/ Over \/ UNCHANGED vars
  <2>1. UNCHANGED <<sample_number, last_t, times>>
        /\ (have_time' = have_time \/ (have_time # 2 /\ have_time' = 1))
    BY <1>2 DEF TimeFrame, Finish, ReadFails, WriteFails, Over, vars, tracker
  <2>2. \A f : First(f)' <=> First(f)
    BY <2>1 DEF First, Opens, InWindow, SecondOf
  <2> QED  BY <2>1, <2>2 DEF OpenInv, InWindow, SecondOf
<1> QED  BY <1>1, <1>2 DEF Next

-----------------------------------------------------------------------------
\* Every sample once

\* What is in the file and in the buffers.
EveryInv ==
  /\ pc = "data" => \A c \in Channel : SamplesOf(c, output) \o buffer[c] = Expected
  /\ pc = "done" => \A c \in Channel : SamplesOf(c, output) = Expected
  /\ pc = "failed" => \A c \in Channel : IsPrefix(SamplesOf(c, output), Expected)

LEMMA FlushedSamples ==
  ASSUME TypeInv, pc = "data", NEW c \in Channel, NEW set
  PROVE  /\ SamplesOf(c, output \o Flushed(buffer, set)) =
              SamplesOf(c, output) \o (IF c \in set THEN buffer[c] ELSE <<>>)
         /\ output \o Flushed(buffer, set) \in Seq(Content)
         /\ SamplesOf(c, output) \in Seq(Nat) /\ buffer[c] \in Seq(Nat)
<1>1. output \in Seq(Content) /\ Flushed(buffer, set) \in Seq(Content)
      /\ output \in Seq(Packet) /\ Flushed(buffer, set) \in Seq(Packet)
  BY Contents DEF TypeInv
<1>2. SamplesOf(c, Flushed(buffer, set)) = IF c \in set THEN buffer[c] ELSE <<>>
  BY FlushedIs DEF TypeInv
<1>3. SamplesOf(c, output \o Flushed(buffer, set)) =
        SamplesOf(c, output) \o SamplesOf(c, Flushed(buffer, set))
  BY <1>1, SamplesConcat
<1>4. output \o Flushed(buffer, set) \in Seq(Content)  BY <1>1, ConcatProperties
<1>5. SamplesOf(c, output) \in Seq(Nat)  BY <1>1, PartsTyped
<1>6. buffer[c] \in Seq(Nat)  BY DEF TypeInv, Buffers
<1> QED  BY <1>2, <1>3, <1>4, <1>5, <1>6

\* Packets without samples.
LEMMA NoSamples ==
  ASSUME NEW c, NEW p \in Seq(Content), NEW q,
         q = Terminate \/ \E t \in Int : q = Time(t)
  PROVE  SamplesOf(c, p \o <<q>>) = SamplesOf(c, p)
<1>1. p \in Seq(Packet) /\ q \in Packet  BY Contents DEF Packet
<1>2. Part(c, q) = <<>>  BY DEF Part, Terminate, Time
<1>3. SamplesOf(c, <<q>>) = <<>> /\ <<q>> \in Seq(Packet)  BY <1>1, <1>2, SamplesOne
<1>4. SamplesOf(c, p \o <<q>>) = SamplesOf(c, p) \o <<>>
  <2>1. PICK r \in Seq(Packet) : r = <<q>>  BY <1>3
  <2>2. SamplesOf(c, p \o r) = SamplesOf(c, p) \o SamplesOf(c, r)
    BY <1>1, SamplesConcat
  <2> QED  BY <1>3, <2>1, <2>2
<1>5. SamplesOf(c, p) \in Seq(Nat)  BY <1>1, PartsTyped
<1> QED  BY <1>4, <1>5, ConcatEmptySeq

LEMMA AppendOne ==
  ASSUME NEW S, NEW a \in Seq(S), NEW b \in Seq(S), NEW k \in S
  PROVE  /\ (a \o b) \o <<k>> = Append(a \o b, k)
         /\ a \o Append(b, k) = Append(a \o b, k)
         /\ (a \o b) \o <<>> = a \o b
OBVIOUS

LEMMA EverySample ==
  ASSUME TypeInv, OpenInv, EveryInv, Stamp \/ Collect
  PROVE  EveryInv'
<1>0. PICK k \in Nat : k = sample_number + 1
  <2>1. sample_number + 1 \in Nat  BY DEF TypeInv
  <2> QED  BY <2>1
<1>1. /\ pc = "data" /\ pc' = "data" /\ SecondOf(NextTime) \in Int
      /\ have_time' = 2 => Expected' = Append(Expected, k)
      /\ have_time' # 2 => Expected' = <<>> /\ Expected = <<>>
  BY <1>0, OpenSample, TimesTyped DEF Stamp, Collect, SampleComes
<1> SUFFICES ASSUME NEW c \in Channel
             PROVE  SamplesOf(c, output') \o buffer'[c] = Expected'
  <2>1. \A p : \A c : SamplesOf(c, p)' = SamplesOf(c, p')  BY DEF SamplesOf
  <2> QED  BY <1>1, <2>1 DEF EveryInv
<1>2. PICK a \in Seq(Nat) : a = SamplesOf(c, output)  BY <1>1, FlushedSamples
<1>3. PICK b \in Seq(Nat) : b = buffer[c]  BY <1>1, FlushedSamples
<1>4. a \o b = Expected  BY <1>1, <1>2, <1>3 DEF EveryInv
<1>5. CASE Stamp
  <2>1. /\ have_time' = 2 /\ buffer'[c] = <<k>>
        /\ output' = (output \o Flushed(buffer, Channel)) \o <<Time(SecondOf(NextTime))>>
    BY <1>0, <1>5 DEF Stamp
  <2>2. output \o Flushed(buffer, Channel) \in Seq(Content)
        /\ SamplesOf(c, output \o Flushed(buffer, Channel)) = a \o b
    BY <1>1, <1>2, <1>3, FlushedSamples
  <2>3. SamplesOf(c, output') = a \o b  BY <1>1, <2>1, <2>2, NoSamples
  <2>4. (a \o b) \o <<k>> = Append(a \o b, k)  BY AppendOne
  <2> QED  BY <1>1, <1>4, <2>1, <2>3, <2>4
<1>6. CASE Collect
  <2>1. CASE have_time = 2
    <3>1. /\ have_time' = 2 /\ output' = output \o Flushed(buffer, FullIn(buffer))
          /\ buffer' = Pushed(buffer, k)
      BY <1>0, <1>6, <2>1 DEF Collect
    <3>2. buffer'[c] = IF c \in FullIn(buffer) THEN <<k>> ELSE Append(b, k)
      BY <1>3, <3>1 DEF Pushed
    <3>3. SamplesOf(c, output') = a \o (IF c \in FullIn(buffer) THEN b ELSE <<>>)
      BY <1>1, <1>2, <1>3, <3>1, FlushedSamples
    <3>4. a \o <<>> = a /\ (a \o b) \o <<k>> = Append(a \o b, k)
          /\ a \o Append(b, k) = Append(a \o b, k)
      BY AppendOne, ConcatEmptySeq
    <3> QED  BY <1>1, <1>4, <3>1, <3>2, <3>3, <3>4
  <2>2. CASE have_time # 2
    <3>1. have_time' # 2 /\ UNCHANGED <<output, buffer>>
      BY <1>6, <2>2 DEF Collect
    <3> QED  BY <1>1, <1>2, <1>3, <1>4, <3>1
  <2> QED  BY <2>1, <2>2
<1> QED  BY <1>5, <1>6

\* A beginning of what a flush would have written.
LEMMA PrefixPart ==
  ASSUME NEW c, NEW p \in Seq(Packet), NEW all \in Seq(Packet),
         NEW n \in Nat, n <= Len(all)
  PROVE  IsPrefix(SamplesOf(c, p \o SubSeq(all, 1, n)), SamplesOf(c, p \o all))
<1>1. PICK x \in Seq(Packet) : x = SubSeq(all, 1, n)  BY SplitAt
<1>2. PICK y \in Seq(Packet) : y = SubSeq(all, n + 1, Len(all))  BY SplitAt
<1>3. all = x \o y  BY <1>1, <1>2, SplitAt
<1>4. p \o all = (p \o x) \o y  BY <1>3, ConcatAssociative, SMTT(30)
<1>5. p \o x \in Seq(Packet)  BY ConcatProperties
<1>6. PICK s \in Seq(Nat) : s = SamplesOf(c, p \o x)  BY <1>5, PartsTyped
<1>7. PICK t \in Seq(Nat) : t = SamplesOf(c, y)  BY PartsTyped
<1>8. SamplesOf(c, (p \o x) \o y) = s \o t  BY <1>5, <1>6, <1>7, SamplesConcat
<1>9. IsPrefix(s, s \o t)  BY PrefixConcat
<1> QED  BY <1>1, <1>4, <1>6, <1>8, <1>9

LEMMA EveryInit == Init => OpenInv /\ EveryInv
<1> SUFFICES ASSUME Init PROVE OpenInv /\ EveryInv  OBVIOUS
<1>1. /\ sample_number = 0 /\ last_t = -1 /\ have_time = 0 /\ pc = "data"
      /\ \A m \in 1 .. sample_number : FALSE
  BY DEF Init
<1>2. OpenInv  BY <1>1 DEF OpenInv
<1>3. TypeInv  BY TypeInit
<1>4. Expected = <<>>  BY <1>1, <1>2, <1>3, ExpectedEmpty
<1>5. ASSUME NEW c \in Channel PROVE SamplesOf(c, output) \o buffer[c] = <<>>
  <2>1. output \in Seq(Packet)  BY <1>1, <1>3, Contents DEF TypeInv
  <2>2. Channels \in Nat /\ output = [d \in 1 .. Channels |-> Header(d)]
    BY Constants DEF Init, Channel
  <2>3. Len(output) = Channels  BY <2>2
  <2>4. \A n \in 1 .. Channels : Part(c, output[n]) = <<>>
    BY <2>2 DEF Part, Header
  <2>5. Parts(c, output) = [n \in 1 .. Channels |-> <<>>]
    BY <2>3, <2>4 DEF Parts
  <2>6. Pieces([d \in Channel |-> <<>>], {}, Channels) = [n \in 1 .. Channels |-> <<>>]
    BY DEF Pieces, Piece
  <2>7. Flushed([d \in Channel |-> <<>>], {})
          = FlattenSeq(Pieces([d \in Channel |-> <<>>], {}, Channels))
    BY DEF Flushed, Pieces, Piece, Channel
  <2>8. SamplesOf(c, output) = FlattenSeq([n \in 1 .. Channels |-> <<>>])
    BY <2>1, <2>5, PartsTyped
  <2>9. OfBuffers([d \in Channel |-> <<>>], {}) = {}  BY DEF OfBuffers
  <2>10. [d \in Channel |-> <<>>] = buffer  BY DEF Init
  <2>11. Flushed(buffer, {}) \in Seq({})
    BY <1>3, <2>9, <2>10, FlushedIs DEF TypeInv
  <2>12. \A x \in Seq({}) : x = <<>>
    <3> SUFFICES ASSUME NEW x \in Seq({}) PROVE x = <<>>  OBVIOUS
    <3>1. Len(x) \in Nat /\ \A i \in 1 .. Len(x) : x[i] \in {}
      BY ElementOfSeq, LenProperties
    <3>2. Len(x) = 0  BY <3>1
    <3> QED  BY <3>2, EmptySeq
  <2>13. SamplesOf(c, output) = <<>>
    BY <2>6, <2>7, <2>8, <2>10, <2>11, <2>12
  <2>14. buffer[c] = <<>> /\ <<>> \o <<>> = <<>>  BY EmptySeq, ConcatEmptySeq DEF Init
  <2> QED  BY <2>13, <2>14
<1> QED  BY <1>1, <1>2, <1>4, <1>5 DEF EveryInv

\* The steps that do not take a sample.
LEMMA ExpectedStays ==
  ASSUME UNCHANGED <<sample_number, times>>
  PROVE  Expected' = Expected
BY DEF Expected, Opens, InWindow, SecondOf, Min

LEMMA EveryFinish ==
  ASSUME TypeInv, EveryInv, Finish
  PROVE  EveryInv'
<1>1. /\ pc = "data" /\ pc' = "done" /\ UNCHANGED <<sample_number, times>>
      /\ output' = (output \o Flushed(buffer, Channel)) \o <<Terminate>>
  BY DEF Finish, tracker
<1>2. \A p : \A c : SamplesOf(c, p)' = SamplesOf(c, p')  BY DEF SamplesOf
<1>3. ASSUME NEW c \in Channel PROVE SamplesOf(c, output') = Expected
  <2>1. output \o Flushed(buffer, Channel) \in Seq(Content)
        /\ SamplesOf(c, output \o Flushed(buffer, Channel))
             = SamplesOf(c, output) \o buffer[c]
    BY <1>1, FlushedSamples
  <2>2. SamplesOf(c, output') = SamplesOf(c, output) \o buffer[c]
    BY <1>1, <2>1, NoSamples
  <2> QED  BY <1>1, <2>2 DEF EveryInv
<1> QED  BY <1>1, <1>2, <1>3, ExpectedStays DEF EveryInv

LEMMA EveryFails ==
  ASSUME TypeInv, EveryInv, ReadFails \/ WriteFails
  PROVE  EveryInv'
<1>1. /\ pc = "data" /\ pc' = "failed" /\ UNCHANGED <<sample_number, times, buffer>>
  BY DEF ReadFails, WriteFails, tracker
<1>2. \A p : \A c : SamplesOf(c, p)' = SamplesOf(c, p')  BY DEF SamplesOf
<1>3. ASSUME NEW c \in Channel PROVE IsPrefix(SamplesOf(c, output'), Expected)
  <2>1. PICK s \in Seq(Nat) : s = SamplesOf(c, output)  BY <1>1, FlushedSamples
  <2>2. PICK b \in Seq(Nat) : b = buffer[c]  BY <1>1, FlushedSamples
  <2>3. Expected = s \o b  BY <1>1, <2>1, <2>2 DEF EveryInv
  <2>4. output \in Seq(Packet) /\ buffer \in Buffers
    BY <1>1, Contents DEF TypeInv
  <2>5. PICK all \in Seq(Packet) : all = Flushed(buffer, Channel)
    BY <2>4, FlushedIs
  <2>6. PICK full \in Seq(Packet) : full = Flushed(buffer, FullIn(buffer))
    BY <2>4, FlushedIs
  <2>7. /\ SamplesOf(c, output \o all) = s \o b
        /\ SamplesOf(c, output \o full) = s \o (IF c \in FullIn(buffer) THEN b ELSE <<>>)
    BY <1>1, <2>1, <2>2, <2>5, <2>6, FlushedSamples
  <2>8. IsPrefix(SamplesOf(c, output \o full), s \o b)
        /\ SamplesOf(c, output \o full) \in Seq(Nat)
    <3>1. s \o <<>> = s /\ s \o b \in Seq(Nat)  BY ConcatEmptySeq, ConcatProperties
    <3>2. IsPrefix(s \o b, s \o b) /\ IsPrefix(s, s \o b)
      BY <3>1, PrefixSelf, PrefixConcat
    <3> QED  BY <2>7, <3>1, <3>2
  <2>9. CASE ReadFails
    <3>1. output' = output  BY <2>9 DEF ReadFails
    <3> QED  BY <2>1, <2>3, <3>1, PrefixConcat
  <2>10. CASE WriteFails
    <3>1. Len(all) \in Nat /\ Len(full) \in Nat  BY LenProperties
    <3>2. \E n \in Nat : \/ n <= Len(all) /\ output' = output \o SubSeq(all, 1, n)
                         \/ n <= Len(full) /\ output' = output \o SubSeq(full, 1, n)
      <4>1. \E n \in 0 .. Len(Flushed(buffer, Channel)) :
              \/ output' = output \o SubSeq(Flushed(buffer, Channel), 1, n)
              \/ n < Len(Flushed(buffer, FullIn(buffer)))
                 /\ output' = output \o SubSeq(Flushed(buffer, FullIn(buffer)), 1, n)
        BY <2>10 DEF WriteFails
      <4>2. PICK n \in 0 .. Len(all) :
              \/ output' = output \o SubSeq(all, 1, n)
              \/ n < Len(full) /\ output' = output \o SubSeq(full, 1, n)
        BY <2>5, <2>6, <4>1
      <4>3. n \in Nat /\ n <= Len(all) /\ (n < Len(full) => n <= Len(full))
        BY <3>1
      <4> HIDE DEF TypeInv, EveryInv
      <4>4. \/ n <= Len(all) /\ output' = output \o SubSeq(all, 1, n)
            \/ n <= Len(full) /\ output' = output \o SubSeq(full, 1, n)
        BY <4>2, <4>3
      <4> WITNESS n \in Nat
      <4> QED  BY <4>4
    <3>3. CASE \E n \in Nat : n <= Len(all) /\ output' = output \o SubSeq(all, 1, n)
      <4>1. PICK n \in Nat : n <= Len(all) /\ output' = output \o SubSeq(all, 1, n)
        BY <3>3
      <4>2. IsPrefix(SamplesOf(c, output \o SubSeq(all, 1, n)), SamplesOf(c, output \o all))
        BY <2>4, <4>1, PrefixPart
      <4> QED  BY <2>3, <2>7, <4>1, <4>2
    <3>4. CASE \E n \in Nat : n <= Len(full) /\ output' = output \o SubSeq(full, 1, n)
      <4>1. PICK n \in Nat : n <= Len(full) /\ output' = output \o SubSeq(full, 1, n)
        BY <3>4
      <4>2. IsPrefix(SamplesOf(c, output \o SubSeq(full, 1, n)), SamplesOf(c, output \o full))
        BY <2>4, <4>1, PrefixPart
      <4>3. SamplesOf(c, output \o SubSeq(full, 1, n)) \in Seq(Nat)
        <5>1. SubSeq(full, 1, n) \in Seq(Packet)  BY <4>1, SplitAt
        <5>2. output \o SubSeq(full, 1, n) \in Seq(Packet)
          BY <2>4, <5>1, ConcatProperties
        <5> QED  BY <5>2, PartsTyped
      <4>4. PICK x \in Seq(Nat) : x = SamplesOf(c, output \o SubSeq(full, 1, n))
        BY <4>3
      <4>5. PICK y \in Seq(Nat) : y = SamplesOf(c, output \o full)  BY <2>8
      <4>6. PICK z \in Seq(Nat) : z = s \o b  BY ConcatProperties
      <4>7. IsPrefix(x, y) /\ IsPrefix(y, z)  BY <2>8, <4>2, <4>4, <4>5, <4>6
      <4>8. IsPrefix(x, z)  BY <4>7, PrefixTransitive
      <4> QED  BY <2>3, <4>1, <4>4, <4>6, <4>8
    <3> QED  BY <3>2, <3>3, <3>4
  <2> QED  BY <2>9, <2>10
<1> QED  BY <1>1, <1>2, <1>3, ExpectedStays DEF EveryInv

LEMMA EveryStep ==
  TypeInv /\ OpenInv /\ EveryInv /\ [Next]_vars => OpenInv' /\ EveryInv'
<1> SUFFICES ASSUME TypeInv, OpenInv, EveryInv, [Next]_vars
             PROVE  OpenInv' /\ EveryInv'
  OBVIOUS
<1>1. OpenInv'  BY OpenStep
<1>2. CASE Stamp \/ Collect  BY <1>1, <1>2, EverySample
<1>3. CASE (\E t \in Timestamps : TimeFrame(t)) \/ Over \/ UNCHANGED vars
  <2>1. UNCHANGED <<sample_number, times, buffer, output, pc>>
    BY <1>3 DEF TimeFrame, Over, vars, tracker
  <2>2. \A c : SamplesOf(c, output)' = SamplesOf(c, output)  BY <2>1 DEF SamplesOf
  <2> QED  BY <1>1, <2>1, <2>2, ExpectedStays DEF EveryInv
<1>4. CASE Finish  BY <1>1, <1>4, EveryFinish
<1>5. CASE ReadFails \/ WriteFails  BY <1>1, <1>5, EveryFails
<1> QED  BY <1>2, <1>3, <1>4, <1>5 DEF Next

THEOREM EveryInvariance == Spec => [](TypeInv /\ OpenInv /\ EveryInv)
BY TypeInit, TypeStep, EveryInit, EveryStep, PTL DEF Spec

\* From the first time packet on every channel has each sample once and in
\* order, the last ones in the buffers while the program runs; what a program
\* that failed has written is a beginning of that (6d6read.c lines 307-358).
THEOREM Every == Spec => []EverySampleOnce
<1>1. TypeInv /\ EveryInv => EverySampleOnce
  <2> SUFFICES ASSUME TypeInv, EveryInv, NEW c \in Channel
               PROVE  IF pc = "failed" THEN IsPrefix(SamplesOf(c, Packets), Expected)
                                       ELSE SamplesOf(c, Packets) = Expected
    BY DEF EverySampleOnce
  <2>1. CASE pc = "data"
    <3>1. SamplesOf(c, output \o Flushed(buffer, Channel))
            = SamplesOf(c, output) \o buffer[c]
      BY <2>1, FlushedSamples
    <3> QED  BY <2>1, <3>1 DEF EveryInv, Packets
  <2>2. CASE pc # "data"
    <3>1. Packets = output
      <4>1. CASE pc = "done"
        <5>1. PICK o \in Seq(Content) : output = o \o <<Terminate>>
          BY <4>1 DEF TypeInv
        <5>2. output \in Seq(Packet)
          <6>1. o \in Seq(Packet) /\ <<Terminate>> \in Seq(Packet)  BY Contents
          <6> QED  BY <5>1, <6>1, ConcatProperties
        <5> QED  BY <2>2, <5>2, ConcatEmptySeq DEF Packets
      <4>2. CASE pc # "done"
        <5>1. output \in Seq(Content)  BY <4>2 DEF TypeInv
        <5> QED  BY <2>2, <5>1, ConcatEmptySeq DEF Packets
      <4> QED  BY <4>1, <4>2
    <3> QED  BY <2>2, <3>1 DEF EveryInv, TypeInv
  <2> QED  BY <2>1, <2>2
<1> QED  BY <1>1, EveryInvariance, PTL

-----------------------------------------------------------------------------
\* Samples in their second

\* The samples that are between the limits are of the second given.
InSecond(samples, s, ts) ==
  \A i \in 1 .. Len(samples) :
    /\ samples[i] \in 1 .. Len(ts)
    /\ InWindow(ts[samples[i]]) => SecondOf(ts[samples[i]]) = s
\* Packet m is the last time packet before the place n.
Behind(p, m, n) ==
  /\ m \in 1 .. n - 1 /\ m \in 1 .. Len(p) /\ p[m].type = "time"
  /\ \A j \in m + 1 .. n - 1 : p[j].type # "time"
Placed(p, ts) ==
  \A n \in 1 .. Len(p) : p[n].type = "data" =>
    \E m \in 1 .. Len(p) : Behind(p, m, n) /\ InSecond(p[n].samples, p[m].second, ts)
\* What is written next stands behind the time packet of the second s.
Stands(p, s) == \E m \in 1 .. Len(p) : Behind(p, m, Len(p) + 1) /\ p[m].second = s

\* The buffers belong to the second of last_t.
SecondInv ==
  /\ Placed(output, times)
  /\ pc = "data" => \A c \in Channel : InSecond(buffer[c], SecondOf(last_t), times)
  /\ pc = "data" /\ have_time = 2 => Stands(output, SecondOf(last_t))
  /\ pc = "data" /\ have_time # 2 => \A c \in Channel : buffer[c] = <<>>

LEMMA Joined ==
  ASSUME NEW p \in Seq(Packet), NEW q \in Seq(Packet)
  PROVE  /\ Len(p) \in Nat /\ Len(q) \in Nat /\ Len(p \o q) = Len(p) + Len(q)
         /\ \A n \in 1 .. Len(p) : (p \o q)[n] = p[n]
         /\ \A n \in 1 .. Len(p) + Len(q) : ~(n <= Len(p)) =>
              n - Len(p) \in 1 .. Len(q) /\ (p \o q)[n] = q[n - Len(p)]
         /\ p \o q \in Seq(Packet)
<1>1. Len(p) \in Nat /\ Len(q) \in Nat  BY LenProperties
<1>2. /\ p \o q \in Seq(Packet) /\ Len(p \o q) = Len(p) + Len(q)
      /\ \A n \in 1 .. Len(p) + Len(q) :
           (p \o q)[n] = IF n <= Len(p) THEN p[n] ELSE q[n - Len(p)]
  BY ConcatProperties
<1>3. \A n \in 1 .. Len(p) : n \in 1 .. Len(p) + Len(q) /\ n <= Len(p)
  BY <1>1
<1>4. \A n \in 1 .. Len(p) + Len(q) : ~(n <= Len(p)) => n - Len(p) \in 1 .. Len(q)
  BY <1>1
<1> QED  BY <1>1, <1>2, <1>3, <1>4

LEMMA BehindJoined ==
  ASSUME NEW p \in Seq(Packet), NEW q \in Seq(Packet), NEW m, NEW n \in Nat,
         n <= Len(p) + 1, Behind(p, m, n)
  PROVE  Behind(p \o q, m, n) /\ (p \o q)[m] = p[m] /\ m \in 1 .. Len(p \o q)
<1>1. /\ Len(p) \in Nat /\ Len(q) \in Nat /\ Len(p \o q) = Len(p) + Len(q)
      /\ \A j \in 1 .. Len(p) : (p \o q)[j] = p[j]
  BY Joined
<1>2. /\ m \in 1 .. n - 1 /\ m \in 1 .. Len(p) /\ p[m].type = "time"
      /\ \A j \in m + 1 .. n - 1 : p[j].type # "time"
  BY DEF Behind
<1>3. \A j \in m + 1 .. n - 1 : j \in 1 .. Len(p)  BY <1>1, <1>2
<1>4. m \in 1 .. Len(p \o q)  BY <1>1, <1>2
<1>5. (p \o q)[m] = p[m] /\ \A j \in m + 1 .. n - 1 : (p \o q)[j] = p[j]
  BY <1>1, <1>2, <1>3
<1> QED  BY <1>2, <1>4, <1>5 DEF Behind

\* Data of the second a file stands at is in its second.
LEMMA PlaceData ==
  ASSUME NEW p \in Seq(Packet), NEW q \in Seq(Packet), NEW s, NEW ts, Placed(p, ts),
         \A i \in 1 .. Len(q) : q[i].type = "data" /\ InSecond(q[i].samples, s, ts),
         Len(q) # 0 => Stands(p, s)
  PROVE  /\ Placed(p \o q, ts)
         /\ \A r : Stands(p, r) => Stands(p \o q, r)
<1> DEFINE pq == p \o q
<1>1. /\ Len(p) \in Nat /\ Len(q) \in Nat /\ Len(pq) = Len(p) + Len(q)
      /\ \A n \in 1 .. Len(p) : pq[n] = p[n]
      /\ \A n \in 1 .. Len(p) + Len(q) : ~(n <= Len(p)) =>
           n - Len(p) \in 1 .. Len(q) /\ pq[n] = q[n - Len(p)]
  BY Joined
<1>2. ASSUME NEW m, Behind(p, m, Len(p) + 1), NEW n \in Nat,
             Len(p) < n, n <= Len(p) + Len(q) + 1
      PROVE  Behind(pq, m, n) /\ pq[m] = p[m] /\ m \in 1 .. Len(pq)
  <2>1. /\ m \in 1 .. Len(p) /\ p[m].type = "time"
        /\ \A j \in m + 1 .. Len(p) + 1 - 1 : p[j].type # "time"
    BY <1>2 DEF Behind
  <2>2. m \in 1 .. n - 1 /\ m \in 1 .. Len(pq)  BY <1>1, <1>2, <2>1
  <2>3. ASSUME NEW j \in m + 1 .. n - 1 PROVE pq[j].type # "time"
    <3>1. CASE j <= Len(p)
      <4>1. j \in m + 1 .. Len(p) + 1 - 1 /\ j \in 1 .. Len(p)
        BY <1>1, <1>2, <2>1, <3>1
      <4> QED  BY <1>1, <2>1, <4>1
    <3>2. CASE ~(j <= Len(p))
      <4>1. j \in 1 .. Len(p) + Len(q)  BY <1>1, <1>2, <2>1
      <4> QED  BY <1>1, <3>2, <4>1
    <3> QED  BY <3>1, <3>2
  <2> HIDE DEF pq
  <2> QED  BY <1>1, <2>1, <2>2, <2>3 DEF Behind
<1>3. ASSUME NEW n \in 1 .. Len(pq), pq[n].type = "data"
      PROVE  \E m \in 1 .. Len(pq) :
               Behind(pq, m, n) /\ InSecond(pq[n].samples, pq[m].second, ts)
  <2>1. CASE n <= Len(p)
    <3>1. n \in 1 .. Len(p) /\ n \in Nat /\ n <= Len(p) + 1  BY <1>1, <2>1
    <3>2. pq[n] = p[n]  BY <1>1, <3>1
    <3>3. PICK m \in 1 .. Len(p) : Behind(p, m, n) /\ InSecond(p[n].samples, p[m].second, ts)
      BY <1>3, <3>1, <3>2 DEF Placed
    <3>4. Behind(pq, m, n) /\ pq[m] = p[m] /\ m \in 1 .. Len(pq)
      BY <3>1, <3>3, BehindJoined
    <3> QED  BY <3>2, <3>3, <3>4
  <2>2. CASE ~(n <= Len(p))
    <3>1. /\ n \in Nat /\ Len(p) < n /\ n <= Len(p) + Len(q) + 1 /\ Len(q) # 0
          /\ n - Len(p) \in 1 .. Len(q) /\ pq[n] = q[n - Len(p)]
      BY <1>1, <2>2
    <3>2. PICK m \in 1 .. Len(p) : Behind(p, m, Len(p) + 1) /\ p[m].second = s
      BY <3>1 DEF Stands
    <3>3. Behind(pq, m, n) /\ pq[m] = p[m] /\ m \in 1 .. Len(pq)
      BY <1>2, <3>1, <3>2
    <3> QED  BY <3>1, <3>2, <3>3
  <2> QED  BY <2>1, <2>2
<1>4. ASSUME NEW r, Stands(p, r) PROVE Stands(pq, r)
  <2>1. PICK m \in 1 .. Len(p) : Behind(p, m, Len(p) + 1) /\ p[m].second = r
    BY <1>4 DEF Stands
  <2>2. Len(p) < Len(pq) + 1 /\ Len(pq) + 1 \in Nat /\ Len(pq) + 1 <= Len(p) + Len(q) + 1
    BY <1>1
  <2>3. Behind(pq, m, Len(pq) + 1) /\ pq[m] = p[m] /\ m \in 1 .. Len(pq)
    BY <1>2, <2>1, <2>2
  <2> QED  BY <2>1, <2>3 DEF Stands
<1> QED  BY <1>3, <1>4 DEF Placed

\* A time packet begins its second.
LEMMA PlaceOther ==
  ASSUME NEW p \in Seq(Packet), NEW x \in Packet, NEW ts, Placed(p, ts),
         x.type # "data"
  PROVE  /\ Placed(p \o <<x>>, ts)
         /\ x.type = "time" => Stands(p \o <<x>>, x.second)
<1>1. PICK q \in Seq(Packet) : q = <<x>>  BY SamplesOne
<1>2. Len(q) = 1 /\ q[1] = x  BY <1>1
<1> DEFINE pq == p \o q
<1>3. /\ Len(p) \in Nat /\ Len(pq) = Len(p) + 1 /\ pq[Len(p) + 1] = x
      /\ \A n \in 1 .. Len(p) : pq[n] = p[n]
  <2>1. /\ Len(p) \in Nat /\ Len(q) \in Nat /\ Len(pq) = Len(p) + Len(q)
        /\ \A n \in 1 .. Len(p) : pq[n] = p[n]
        /\ \A n \in 1 .. Len(p) + Len(q) : ~(n <= Len(p)) => pq[n] = q[n - Len(p)]
    BY Joined
  <2>2. Len(p) + 1 - Len(p) = 1 /\ Len(p) + 1 \in 1 .. Len(p) + 1 /\ ~(Len(p) + 1 <= Len(p))
    BY <2>1
  <2> QED  BY <1>2, <2>1, <2>2
<1>4. ASSUME NEW n \in 1 .. Len(pq), pq[n].type = "data"
      PROVE  \E m \in 1 .. Len(pq) :
               Behind(pq, m, n) /\ InSecond(pq[n].samples, pq[m].second, ts)
  <2>1. n \in 1 .. Len(p) /\ n \in Nat /\ n <= Len(p) + 1
    <3>1. n # Len(p) + 1  BY <1>3, <1>4
    <3> HIDE DEF pq
    <3> QED  BY <1>3, <3>1
  <2>2. pq[n] = p[n]  BY <1>3, <2>1
  <2>3. PICK m \in 1 .. Len(p) : Behind(p, m, n) /\ InSecond(p[n].samples, p[m].second, ts)
    BY <1>4, <2>1, <2>2 DEF Placed
  <2>4. Behind(pq, m, n) /\ pq[m] = p[m] /\ m \in 1 .. Len(pq)
    BY <2>1, <2>3, BehindJoined
  <2> QED  BY <2>2, <2>3, <2>4
<1>5. ASSUME x.type = "time" PROVE Stands(pq, x.second)
  <2>1. Len(p) + 1 \in 1 .. Len(pq) /\ Len(pq) + 1 - 1 = Len(p) + 1
        /\ \A j \in Len(p) + 1 + 1 .. Len(p) + 1 : FALSE
    BY <1>3
  <2> HIDE DEF pq
  <2>2. Behind(pq, Len(p) + 1, Len(pq) + 1)  BY <1>3, <1>5, <2>1 DEF Behind
  <2> QED  BY <1>3, <2>1, <2>2 DEF Stands
<1> QED  BY <1>1, <1>4, <1>5 DEF Placed

\* A new sample takes nothing out of its second.
LEMMA PlaceStays ==
  ASSUME NEW ts, NEW us, Len(ts) \in Nat, Len(us) \in Nat, Len(ts) <= Len(us),
         \A k \in 1 .. Len(ts) : us[k] = ts[k]
  PROVE  /\ \A x, s : InSecond(x, s, ts) => InSecond(x, s, us)
         /\ \A p : Placed(p, ts) => Placed(p, us)
<1>1. \A k \in 1 .. Len(ts) : k \in 1 .. Len(us)  OBVIOUS
<1>2. \A x, s : InSecond(x, s, ts) => InSecond(x, s, us)
  BY <1>1 DEF InSecond
<1> QED  BY <1>2 DEF Placed

\* The packets of a flush are of the second of the buffers.
LEMMA FlushInSecond ==
  ASSUME TypeInv, NEW s, \A c \in Channel : InSecond(buffer[c], s, times), NEW set,
         NEW q \in Seq(OfBuffers(buffer, set))
  PROVE  /\ q \in Seq(Content)
         /\ \A i \in 1 .. Len(q) : q[i].type = "data" /\ InSecond(q[i].samples, s, times)
         /\ (\A c \in Channel : buffer[c] = <<>>) => Len(q) = 0
<1>1. OfBuffers(buffer, set) \subseteq Content
  BY OfBuffersTyped DEF TypeInv, Content
<1>2. q \in Seq(Content)  BY <1>1, SeqMonotonic
<1>3. \A i \in 1 .. Len(q) : q[i] \in OfBuffers(buffer, set)  BY ElementOfSeq
<1>4. \A x \in OfBuffers(buffer, set) :
        \E c \in Channel : x = Data(c, buffer[c]) /\ buffer[c] # <<>>
  BY DEF OfBuffers
<1>5. \A x \in OfBuffers(buffer, set) : x.type = "data" /\ InSecond(x.samples, s, times)
  <2> SUFFICES ASSUME NEW c \in Channel
               PROVE  Data(c, buffer[c]).type = "data"
                      /\ InSecond(Data(c, buffer[c]).samples, s, times)
    BY <1>4
  <2>1. Data(c, buffer[c]).type = "data" /\ Data(c, buffer[c]).samples = buffer[c]
    BY DEF Data
  <2> QED  BY <2>1
<1>6. ASSUME \A c \in Channel : buffer[c] = <<>> PROVE Len(q) = 0
  <2>1. Len(q) \in Nat /\ \A i \in 1 .. Len(q) : FALSE
    BY <1>3, <1>4, <1>6, LenProperties
  <2> QED  BY <2>1
<1> QED  BY <1>2, <1>3, <1>5, <1>6

LEMMA FlushPlaced ==
  ASSUME TypeInv, SecondInv, pc = "data", NEW set, NEW q \in Seq(OfBuffers(buffer, set))
  PROVE  /\ output \o q \in Seq(Content)
         /\ Placed(output \o q, times)
         /\ have_time = 2 => Stands(output \o q, SecondOf(last_t))
<1>1. /\ output \in Seq(Content) /\ Placed(output, times)
      /\ \A c \in Channel : InSecond(buffer[c], SecondOf(last_t), times)
      /\ have_time = 2 => Stands(output, SecondOf(last_t))
      /\ have_time # 2 => \A c \in Channel : buffer[c] = <<>>
  BY DEF TypeInv, SecondInv
<1>2. PICK s : s = SecondOf(last_t)  OBVIOUS
<1>3. /\ q \in Seq(Content)
      /\ \A i \in 1 .. Len(q) : q[i].type = "data" /\ InSecond(q[i].samples, s, times)
      /\ Len(q) # 0 => Stands(output, s)
  BY <1>1, <1>2, FlushInSecond
<1>4. output \in Seq(Packet) /\ q \in Seq(Packet)  BY <1>1, <1>3, Contents
<1>5. Placed(output \o q, times) /\ (Stands(output, s) => Stands(output \o q, s))
  BY <1>1, <1>3, <1>4, PlaceData
<1>6. output \o q \in Seq(Content)  BY <1>1, <1>3, ConcatProperties
<1> QED  BY <1>1, <1>2, <1>5, <1>6

LEMMA InSecondAppend ==
  ASSUME NEW b \in Seq(Nat), NEW s, NEW ts, InSecond(b, s, ts), NEW k \in Nat,
         k \in 1 .. Len(ts), InWindow(ts[k]) => SecondOf(ts[k]) = s
  PROVE  InSecond(Append(b, k), s, ts) /\ InSecond(<<k>>, s, ts)
<1>1. /\ Len(b) \in Nat /\ Len(Append(b, k)) = Len(b) + 1
      /\ Append(b, k)[Len(b) + 1] = k
      /\ \A i \in 1 .. Len(b) : Append(b, k)[i] = b[i]
  BY AppendProperties, LenProperties
<1>2. \A i \in 1 .. Len(b) + 1 : i \in 1 .. Len(b) \/ i = Len(b) + 1  BY <1>1
<1>3. InSecond(Append(b, k), s, ts)
  BY <1>1, <1>2 DEF InSecond
<1>4. Len(<<k>>) = 1 /\ <<k>>[1] = k /\ \A i \in 1 .. 1 : i = 1  OBVIOUS
<1>5. InSecond(<<k>>, s, ts)  BY <1>4 DEF InSecond
<1> QED  BY <1>3, <1>5

LEMMA SecondSample ==
  ASSUME TypeInv, OpenInv, SecondInv, Stamp \/ Collect
  PROVE  SecondInv'
<1>0. PICK k \in Nat : k = sample_number + 1
  <2>1. sample_number + 1 \in Nat  BY DEF TypeInv
  <2> QED  BY <2>1
<1>1. /\ pc = "data" /\ pc' = "data" /\ TrackSample /\ NextTime \in Int
      /\ last_t \in Int /\ buffer \in Buffers /\ sample_number \in Nat
      /\ have_time \in 0 .. 2
  BY TimesTyped DEF Stamp, Collect, SampleComes, TypeInv
<1>2. /\ Len(times) = sample_number /\ Len(times') = k /\ times'[k] = NextTime
      /\ \A j \in 1 .. Len(times) : times'[j] = times[j]
      /\ Len(times) <= Len(times') /\ k \in 1 .. Len(times')
  BY <1>0, <1>1, Tracked DEF TypeInv
<1>3. PICK s \in Int : s = SecondOf(last_t)  BY <1>1, TimesTyped
<1>4. PICK u \in Int : u = SecondOf(NextTime)  BY <1>1, TimesTyped
<1>5. /\ \A x, r : InSecond(x, r, times) => InSecond(x, r, times')
      /\ \A p : Placed(p, times) => Placed(p, times')
  BY <1>0, <1>1, <1>2, PlaceStays
<1>6. ASSUME NEW c \in Channel
      PROVE  buffer[c] \in Seq(Nat) /\ InSecond(buffer[c], s, times')
  BY <1>1, <1>3, <1>5 DEF SecondInv, Buffers
<1>7. ASSUME NEW set
      PROVE  \E o \in Seq(Content) :
               /\ o = output \o Flushed(buffer, set) /\ Placed(o, times')
               /\ have_time = 2 => Stands(o, s)
  <2>1. PICK q \in Seq(OfBuffers(buffer, set)) : q = Flushed(buffer, set)
    BY <1>1, FlushedIs
  <2>2. /\ output \o q \in Seq(Content) /\ Placed(output \o q, times)
        /\ have_time = 2 => Stands(output \o q, s)
    BY <1>1, <1>3, FlushPlaced
  <2>3. PICK o \in Seq(Content) : o = output \o q  BY <2>2
  <2>4. Placed(o, times') /\ (have_time = 2 => Stands(o, s))  BY <1>5, <2>2, <2>3
  <2> QED  BY <2>1, <2>3, <2>4
<1>8. CASE Stamp
  <2>1. /\ have_time' = 2 /\ last_t' = NextTime /\ buffer' = [c \in Channel |-> <<k>>]
        /\ output' = (output \o Flushed(buffer, Channel)) \o <<Time(u)>>
    BY <1>0, <1>4, <1>8 DEF Stamp
  <2>2. PICK o \in Seq(Content) :
          o = output \o Flushed(buffer, Channel) /\ Placed(o, times')
    BY <1>7
  <2>3. o \in Seq(Packet) /\ Time(u) \in Packet /\ Time(u).type = "time"
        /\ Time(u).second = u
    BY Contents DEF Packet, Time
  <2>5. Placed(output', times') /\ Stands(output', u)
    BY <2>1, <2>2, <2>3, PlaceOther
  <2>6. <<>> \in Seq(Nat) /\ InSecond(<<>>, u, times')
    BY EmptySeq DEF InSecond
  <2>7. InSecond(<<k>>, u, times')
    BY <1>2, <1>4, <2>6, InSecondAppend
  <2>8. \A c \in Channel : InSecond(buffer'[c], u, times')  BY <2>1, <2>7
  <2>9. SecondOf(last_t)' = u  BY <1>4, <2>1 DEF SecondOf
  <2> QED  BY <1>1, <2>1, <2>5, <2>8, <2>9 DEF SecondInv
<1>9. CASE Collect
  <2>1. /\ last_t' = IF InWindow(NextTime) THEN NextTime ELSE last_t
        /\ have_time' = have_time /\ ~NewSecond(NextTime)
    BY <1>9 DEF Collect
  <2>2. CASE have_time = 2
    <3>1. /\ output' = output \o Flushed(buffer, FullIn(buffer))
          /\ buffer' = Pushed(buffer, k)
      BY <1>0, <1>9, <2>2 DEF Collect
    <3>2. last_t >= 0
      <4>1. PICK f \in Nat : First(f)  BY <2>2 DEF OpenInv
      <4>2. f \in 1 .. sample_number /\ InWindow(times[f])  BY <4>1 DEF First, Opens
      <4> QED  BY <1>1, <4>2 DEF OpenInv
    <3>3. InWindow(NextTime) => u = s
      BY <1>3, <1>4, <2>1, <3>2 DEF NewSecond
    <3>4. SecondOf(last_t)' = s
      <4>1. SecondOf(last_t)' = SecondOf(last_t')  BY DEF SecondOf
      <4> QED  BY <1>3, <1>4, <2>1, <3>3, <4>1
    <3>5. \A c \in Channel : InSecond(buffer'[c], s, times')
      <4> SUFFICES ASSUME NEW c \in Channel PROVE InSecond(buffer'[c], s, times')
        OBVIOUS
      <4>1. buffer'[c] = IF c \in FullIn(buffer) THEN <<k>> ELSE Append(buffer[c], k)
        BY <3>1 DEF Pushed
      <4>2. InSecond(Append(buffer[c], k), s, times') /\ InSecond(<<k>>, s, times')
        BY <1>2, <1>4, <1>6, <3>3, InSecondAppend
      <4> QED  BY <4>1, <4>2
    <3>6. Placed(output', times') /\ Stands(output', s)
      <4>1. PICK o \in Seq(Content) :
              /\ o = output \o Flushed(buffer, FullIn(buffer)) /\ Placed(o, times')
              /\ have_time = 2 => Stands(o, s)
        BY <1>7
      <4> QED  BY <2>2, <3>1, <4>1
    <3> QED  BY <1>1, <2>1, <2>2, <3>4, <3>5, <3>6 DEF SecondInv
  <2>3. CASE have_time # 2
    <3>1. UNCHANGED <<output, buffer>>  BY <1>9, <2>3 DEF Collect
    <3>2. \A c \in Channel : buffer'[c] = <<>>  BY <1>1, <2>3, <3>1 DEF SecondInv
    <3>3. \A r : InSecond(<<>>, r, times')
      <4>1. Len(<<>>) = 0  BY EmptySeq
      <4> QED  BY <4>1 DEF InSecond
    <3>4. Placed(output', times')  BY <1>5, <3>1 DEF SecondInv
    <3> QED  BY <1>1, <2>1, <2>3, <3>2, <3>3, <3>4 DEF SecondInv
  <2> QED  BY <2>2, <2>3
<1> QED  BY <1>8, <1>9

LEMMA SecondInit == Init => SecondInv
<1> SUFFICES ASSUME Init PROVE SecondInv  OBVIOUS
<1>1. Channels \in Nat /\ output = [c \in 1 .. Channels |-> Header(c)]
  BY Constants DEF Init, Channel
<1>2. \A n \in 1 .. Len(output) : output[n].type # "data"
  BY <1>1 DEF Header
<1>3. Len(<<>>) = 0  BY EmptySeq
<1> QED  BY <1>2, <1>3 DEF Init, SecondInv, Placed, InSecond

LEMMA SecondStep ==
  TypeInv /\ OpenInv /\ SecondInv /\ [Next]_vars => SecondInv'
<1> SUFFICES ASSUME TypeInv, OpenInv, SecondInv, [Next]_vars PROVE SecondInv'
  OBVIOUS
<1>1. CASE Stamp \/ Collect  BY <1>1, SecondSample
<1>2. CASE (\E t \in Timestamps : TimeFrame(t)) \/ Over \/ UNCHANGED vars
  <2>1. UNCHANGED <<times, buffer, output, pc, last_t>>
        /\ (have_time' = have_time \/ (have_time # 2 /\ have_time' = 1))
    BY <1>2 DEF TimeFrame, Over, vars, tracker
  <2> QED  BY <2>1 DEF SecondInv, SecondOf
<1>3. CASE Finish
  <2>1. /\ pc = "data" /\ pc' = "done" /\ times' = times
        /\ output' = (output \o Flushed(buffer, Channel)) \o <<Terminate>>
        /\ buffer \in Buffers
    BY <1>3 DEF Finish, TypeInv
  <2>2. PICK q \in Seq(OfBuffers(buffer, Channel)) : q = Flushed(buffer, Channel)
    BY <2>1, FlushedIs
  <2>3. PICK o \in Seq(Content) : o = output \o q  BY <2>1, FlushPlaced
  <2>4. Placed(o, times)  BY <2>1, <2>3, FlushPlaced
  <2>5. o \in Seq(Packet) /\ Terminate \in Packet /\ Terminate.type # "data"
    BY Contents DEF Terminate
  <2>6. Placed(o \o <<Terminate>>, times)  BY <2>4, <2>5, PlaceOther
  <2>7. Placed(output', times')  BY <2>1, <2>2, <2>3, <2>6
  <2> QED  BY <2>1, <2>7 DEF SecondInv
<1>4. CASE ReadFails
  BY <1>4 DEF ReadFails, SecondInv, tracker
<1>5. CASE WriteFails
  <2>1. /\ pc = "data" /\ pc' = "failed" /\ times' = times /\ buffer \in Buffers
    BY <1>5 DEF WriteFails, TypeInv
  <2>2. ASSUME NEW set, NEW n \in Nat, n <= Len(Flushed(buffer, set))
        PROVE  Placed(output \o SubSeq(Flushed(buffer, set), 1, n), times)
    <3>1. PICK q \in Seq(OfBuffers(buffer, set)) : q = Flushed(buffer, set)
      BY <2>1, FlushedIs
    <3>2. SubSeq(q, 1, n) \in Seq(OfBuffers(buffer, set))  BY <2>2, <3>1, SplitAt
    <3> QED  BY <2>1, <3>1, <3>2, FlushPlaced
  <2>3. \E n \in 0 .. Len(Flushed(buffer, Channel)) :
          \/ output' = output \o SubSeq(Flushed(buffer, Channel), 1, n)
          \/ n < Len(Flushed(buffer, FullIn(buffer)))
             /\ output' = output \o SubSeq(Flushed(buffer, FullIn(buffer)), 1, n)
    BY <1>5 DEF WriteFails
  <2>4. /\ Len(Flushed(buffer, Channel)) \in Nat
        /\ Len(Flushed(buffer, FullIn(buffer))) \in Nat
    BY <2>1, FlushedIs, LenProperties
  <2>5. PICK n \in 0 .. Len(Flushed(buffer, Channel)) :
          \/ output' = output \o SubSeq(Flushed(buffer, Channel), 1, n)
          \/ n < Len(Flushed(buffer, FullIn(buffer)))
             /\ output' = output \o SubSeq(Flushed(buffer, FullIn(buffer)), 1, n)
    BY <2>3
  <2>6. n \in Nat /\ n <= Len(Flushed(buffer, Channel))
        /\ (n < Len(Flushed(buffer, FullIn(buffer)))
              => n <= Len(Flushed(buffer, FullIn(buffer))))
    BY <2>4
  <2>7. Placed(output', times)  BY <2>2, <2>5, <2>6
  <2> QED  BY <2>1, <2>7 DEF SecondInv
<1> QED  BY <1>1, <1>2, <1>3, <1>4, <1>5 DEF Next

\* The last time packet is the one a reader sees last.
LEMMA LastStamp ==
  ASSUME NEW p, NEW n \in Nat, NEW m, Behind(p, m, n)
  PROVE  Max({j \in 1 .. n - 1 : p[j].type = "time"}) = m
<1> DEFINE S == {j \in 1 .. n - 1 : p[j].type = "time"}
<1>1. m \in S /\ m \in Nat  BY DEF Behind
<1>2. \A j \in S : j \in Nat /\ m >= j
  <2> SUFFICES ASSUME NEW j \in S, ~(m >= j) PROVE FALSE  OBVIOUS
  <2>1. j \in m + 1 .. n - 1  BY <1>1
  <2> QED  BY <2>1 DEF Behind
<1> HIDE DEF S
<1>3. \E x \in S : \A y \in S : x >= y  BY <1>1, <1>2
<1>4. Max(S) \in S /\ \A y \in S : Max(S) >= y  BY <1>3 DEF Max
<1>5. Max(S) >= m /\ m >= Max(S) /\ Max(S) \in Nat  BY <1>1, <1>2, <1>4
<1>6. Max(S) = m  BY <1>1, <1>5
<1> QED  BY <1>6 DEF S

LEMMA PacketsPlaced ==
  ASSUME TypeInv, SecondInv
  PROVE  Placed(Packets, times) /\ Packets \in Seq(Packet)
<1>1. CASE pc = "data"
  <2>1. PICK q \in Seq(OfBuffers(buffer, Channel)) : q = Flushed(buffer, Channel)
    BY FlushedIs DEF TypeInv
  <2>2. output \o q \in Seq(Content) /\ Placed(output \o q, times)
    BY <1>1, FlushPlaced
  <2>3. Packets = output \o q  BY <1>1, <2>1 DEF Packets
  <2> QED  BY <2>2, <2>3, Contents
<1>2. CASE pc # "data"
  <2>1. output \in Seq(Packet)
    <3>1. CASE pc = "done"
      <4>1. PICK o \in Seq(Content) : output = o \o <<Terminate>>
        BY <3>1 DEF TypeInv
      <4>2. o \in Seq(Packet) /\ <<Terminate>> \in Seq(Packet)  BY Contents
      <4> QED  BY <4>1, <4>2, ConcatProperties
    <3>2. CASE pc # "done"  BY <3>2, Contents DEF TypeInv
    <3> QED  BY <3>1, <3>2
  <2>2. Packets = output  BY <1>2, <2>1, ConcatEmptySeq DEF Packets
  <2> QED  BY <2>1, <2>2 DEF SecondInv
<1> QED  BY <1>1, <1>2

THEOREM SecondInvariance == Spec => [](TypeInv /\ OpenInv /\ SecondInv)
<1>1. Init => TypeInv /\ OpenInv /\ SecondInv
  BY TypeInit, EveryInit, SecondInit
<1>2. TypeInv /\ OpenInv /\ SecondInv /\ [Next]_vars
        => (TypeInv /\ OpenInv /\ SecondInv)'
  BY TypeStep, OpenStep, SecondStep
<1> QED  BY <1>1, <1>2, PTL DEF Spec

\* A sample between the limits stands behind the time packet of its second, with
\* no other time packet between them: the buffers are flushed before the time
\* packet of a new second is written (6d6read.c lines 311-332).
THEOREM InTheirSecond == Spec => []SamplesInTheirSecond
<1>1. TypeInv /\ SecondInv => SamplesInTheirSecond
  <2> SUFFICES ASSUME TypeInv, SecondInv, NEW n \in 1 .. Len(Packets),
                      Packets[n].type = "data"
               PROVE  LET stamps == {m \in 1 .. n - 1 : Packets[m].type = "time"}
                      IN  /\ stamps # {}
                          /\ \A i \in 1 .. Len(Packets[n].samples) :
                               LET t == times[Packets[n].samples[i]]
                               IN  InWindow(t) => Packets[Max(stamps)].second = SecondOf(t)
    BY DEF SamplesInTheirSecond
  <2>1. Placed(Packets, times) /\ Packets \in Seq(Packet)  BY PacketsPlaced
  <2>2. PICK m \in 1 .. Len(Packets) :
          Behind(Packets, m, n) /\ InSecond(Packets[n].samples, Packets[m].second, times)
    BY <2>1 DEF Placed
  <2>3. n \in Nat  OBVIOUS
  <2> DEFINE stamps == {j \in 1 .. n - 1 : Packets[j].type = "time"}
  <2>4. Max(stamps) = m  BY <2>2, <2>3, LastStamp
  <2>5. stamps # {}  BY <2>2 DEF Behind
  <2>6. \A i \in 1 .. Len(Packets[n].samples) :
          InWindow(times[Packets[n].samples[i]])
            => SecondOf(times[Packets[n].samples[i]]) = Packets[m].second
    BY <2>2 DEF InSecond
  <2> HIDE DEF stamps
  <2> QED  BY <2>4, <2>5, <2>6 DEF stamps
<1> QED  BY <1>1, SecondInvariance, PTL

-----------------------------------------------------------------------------
\* Times that ascend

LEMMA Floor ==
  ASSUME NEW a \in Int, NEW d \in Nat \ {0}
  PROVE  /\ a \div d \in Int /\ d * (a \div d) <= a /\ a < d * ((a \div d) + 1)
OBVIOUS

\* Division keeps the order.
LEMMA FloorOrder ==
  ASSUME NEW a \in Int, NEW b \in Int, a <= b, NEW d \in Nat \ {0}
  PROVE  a \div d <= b \div d
<1> DEFINE x == a \div d
           y == b \div d
<1>1. /\ x \in Int /\ d * x <= a /\ y \in Int /\ b < d * (y + 1)
  BY Floor
<1> HIDE DEF x, y
<1>2. SUFFICES ASSUME y + 1 <= x PROVE FALSE  BY <1>1 DEF x, y
<1>3. PICK z \in Nat : x = (y + 1) + z
  <2>1. x - (y + 1) \in Nat /\ x = (y + 1) + (x - (y + 1))  BY <1>1, <1>2
  <2> QED  BY <2>1
<1>4. d * x = d * (y + 1) + d * z /\ d * z \in Nat
      /\ d * x \in Int /\ d * (y + 1) \in Int
  BY <1>1, <1>3
<1> QED  BY <1>1, <1>4

LEMMA SecondOrder ==
  ASSUME NEW a \in Int, NEW b \in Int, a <= b
  PROVE  SecondOf(a) <= SecondOf(b) /\ SecondOf(a) \in Int /\ SecondOf(b) \in Int
<1>1. Second \in Nat \ {0}  BY Constants
<1>2. SecondOf(a) \in Int /\ SecondOf(b) \in Int  BY TimesTyped
<1>3. CASE a >= 0
  <2>1. b >= 0 /\ a \div Second <= b \div Second  BY <1>1, <1>3, FloorOrder
  <2> QED  BY <1>2, <1>3, <2>1 DEF SecondOf
<1>4. CASE a < 0 /\ b < 0
  <2>1. -a \in Int /\ -b \in Int /\ -b <= -a  BY <1>4
  <2>2. (-b) \div Second <= (-a) \div Second
        /\ (-b) \div Second \in Int /\ (-a) \div Second \in Int
    BY <1>1, <2>1, FloorOrder, QuotientInt
  <2>3. SecondOf(a) = -((-a) \div Second) /\ SecondOf(b) = -((-b) \div Second)
    BY <1>4 DEF SecondOf
  <2> QED  BY <2>2, <2>3
<1>5. CASE a < 0 /\ b >= 0
  <2>1. 0 \div Second = 0  BY <1>1
  <2>2. 0 \div Second <= (-a) \div Second /\ 0 \div Second <= b \div Second
        /\ (-a) \div Second \in Int /\ b \div Second \in Int
    BY <1>1, <1>5, FloorOrder, QuotientInt
  <2>3. SecondOf(a) = -((-a) \div Second) /\ SecondOf(b) = b \div Second
    BY <1>5 DEF SecondOf
  <2> QED  BY <2>1, <2>2, <2>3
<1> QED  BY <1>3, <1>4, <1>5

\* Time packets in order, and none later than a second given.
Rising(p) ==
  \A m, n \in 1 .. Len(p) :
    m < n /\ p[m].type = "time" /\ p[n].type = "time" => p[m].second < p[n].second
UpTo(p, s) == \A n \in 1 .. Len(p) : p[n].type = "time" => p[n].second <= s

AscendInv ==
  /\ \A i, j \in 1 .. sample_number : i <= j => times[i] <= times[j]
  /\ \A i \in 1 .. sample_number : times[i] <= NextTime
  /\ Rising(output) /\ UpTo(output, SecondOf(last_t))

LEMMA RisingData ==
  ASSUME NEW p \in Seq(Packet), NEW q \in Seq(Packet), NEW s, Rising(p), UpTo(p, s),
         \A i \in 1 .. Len(q) : q[i].type # "time"
  PROVE  Rising(p \o q) /\ UpTo(p \o q, s)
<1> DEFINE pq == p \o q
<1>1. /\ Len(p) \in Nat /\ Len(q) \in Nat /\ Len(pq) = Len(p) + Len(q)
      /\ \A n \in 1 .. Len(p) : pq[n] = p[n]
      /\ \A n \in 1 .. Len(p) + Len(q) : ~(n <= Len(p)) =>
           n - Len(p) \in 1 .. Len(q) /\ pq[n] = q[n - Len(p)]
  BY Joined
<1> HIDE DEF pq
<1>2. ASSUME NEW n \in 1 .. Len(pq), pq[n].type = "time"
      PROVE  n \in 1 .. Len(p) /\ pq[n] = p[n]
  <2>1. CASE n <= Len(p)
    <3>1. n \in 1 .. Len(p)  BY <1>1, <2>1
    <3> QED  BY <1>1, <3>1
  <2>2. CASE ~(n <= Len(p))  BY <1>1, <1>2, <2>2
  <2> QED  BY <2>1, <2>2
<1>3. UpTo(pq, s)  BY <1>2 DEF UpTo
<1>4. Rising(pq)  BY <1>2 DEF Rising
<1> QED  BY <1>3, <1>4 DEF pq

LEMMA RisingStamp ==
  ASSUME NEW p \in Seq(Packet), NEW s \in Int, NEW u \in Int, Rising(p), UpTo(p, s), s < u
  PROVE  Rising(p \o <<Time(u)>>) /\ UpTo(p \o <<Time(u)>>, u)
<1>1. PICK x \in Packet : x = Time(u)  BY Contents DEF Packet
<1>2. PICK q \in Seq(Packet) : q = <<x>>  BY SamplesOne
<1>3. x.type = "time" /\ x.second = u /\ Len(q) = 1 /\ q[1] = x
  BY <1>1, <1>2 DEF Time
<1> DEFINE pq == p \o q
<1>4. /\ Len(p) \in Nat /\ Len(pq) = Len(p) + 1 /\ pq[Len(p) + 1] = x
      /\ \A n \in 1 .. Len(p) : pq[n] = p[n]
  <2>1. /\ Len(p) \in Nat /\ Len(q) \in Nat /\ Len(pq) = Len(p) + Len(q)
        /\ \A n \in 1 .. Len(p) : pq[n] = p[n]
        /\ \A n \in 1 .. Len(p) + Len(q) : ~(n <= Len(p)) => pq[n] = q[n - Len(p)]
    BY Joined
  <2>2. Len(p) + 1 - Len(p) = 1 /\ Len(p) + 1 \in 1 .. Len(p) + 1 /\ ~(Len(p) + 1 <= Len(p))
    BY <2>1
  <2> QED  BY <1>3, <2>1, <2>2
<1> HIDE DEF pq
<1>5. \A n \in 1 .. Len(pq) : n \in 1 .. Len(p) \/ n = Len(p) + 1  BY <1>4
<1>6. ASSUME NEW n \in 1 .. Len(p), p[n].type = "time"
      PROVE  p[n].second \in Int /\ p[n].second <= s
  <2>1. p[n] \in Packet  BY ElementOfSeq
  <2>2. \A y \in Packet : y.type = "time" => y.second \in Int
    BY DEF Packet, Content, DataPacket
  <2> QED  BY <1>6, <2>1, <2>2 DEF UpTo
<1>7. UpTo(pq, u)
  <2> SUFFICES ASSUME NEW n \in 1 .. Len(pq), pq[n].type = "time"
               PROVE  pq[n].second <= u
    BY DEF UpTo
  <2>1. CASE n \in 1 .. Len(p)  BY <1>4, <1>6, <2>1
  <2>2. CASE n = Len(p) + 1  BY <1>3, <1>4, <2>2
  <2> QED  BY <1>5, <2>1, <2>2
<1>8. Rising(pq)
  <2> SUFFICES ASSUME NEW m \in 1 .. Len(pq), NEW n \in 1 .. Len(pq), m < n,
                      pq[m].type = "time", pq[n].type = "time"
               PROVE  pq[m].second < pq[n].second
    BY DEF Rising
  <2>1. m \in 1 .. Len(p)  BY <1>4
  <2>2. CASE n \in 1 .. Len(p)  BY <1>4, <2>1, <2>2 DEF Rising
  <2>3. CASE n = Len(p) + 1  BY <1>3, <1>4, <1>6, <2>1, <2>3
  <2> QED  BY <1>5, <2>2, <2>3
<1> QED  BY <1>1, <1>2, <1>7, <1>8 DEF pq

\* The packets of a flush are no time packets.
LEMMA FlushNoTime ==
  ASSUME TypeInv, NEW set, NEW q \in Seq(OfBuffers(buffer, set))
  PROVE  q \in Seq(Packet) /\ \A i \in 1 .. Len(q) : q[i].type # "time"
<1>1. OfBuffers(buffer, set) \subseteq DataPacket  BY OfBuffersTyped DEF TypeInv
<1>2. DataPacket \subseteq Packet /\ \A x \in DataPacket : x.type # "time"
  BY DEF Packet, Content, DataPacket
<1>3. \A i \in 1 .. Len(q) : q[i] \in OfBuffers(buffer, set)  BY ElementOfSeq
<1>4. q \in Seq(Packet)  BY <1>1, <1>2, SeqMonotonic
<1> QED  BY <1>1, <1>2, <1>3, <1>4

LEMMA FlushRising ==
  ASSUME TypeInv, AscendInv, pc = "data", NEW set, NEW q \in Seq(OfBuffers(buffer, set))
  PROVE  /\ output \o q \in Seq(Packet)
         /\ Rising(output \o q) /\ UpTo(output \o q, SecondOf(last_t))
<1>1. output \in Seq(Packet) /\ Rising(output) /\ UpTo(output, SecondOf(last_t))
  BY Contents DEF TypeInv, AscendInv
<1>2. q \in Seq(Packet) /\ \A i \in 1 .. Len(q) : q[i].type # "time"
  BY FlushNoTime
<1>3. PICK s : s = SecondOf(last_t)  OBVIOUS
<1>4. Rising(output \o q) /\ UpTo(output \o q, s)
  BY <1>1, <1>2, <1>3, RisingData
<1> QED  BY <1>1, <1>2, <1>3, <1>4, ConcatProperties

LEMMA AscendSample ==
  ASSUME TypeInv, OpenInv, AscendInv, ClockAdvances, Stamp \/ Collect
  PROVE  AscendInv'
<1>0. PICK k \in Nat : k = sample_number + 1
  <2>1. sample_number + 1 \in Nat  BY DEF TypeInv
  <2> QED  BY <2>1
<1>1. /\ pc = "data" /\ TrackSample /\ NextTime \in Int /\ last_t \in Int
      /\ sample_number \in Nat /\ buffer \in Buffers /\ times \in Seq(Int)
      /\ Len(times) = sample_number
  BY TimesTyped DEF Stamp, Collect, SampleComes, TypeInv
<1>2. /\ sample_number' = k /\ times'[k] = NextTime
      /\ \A m \in 1 .. sample_number : times'[m] = times[m]
      /\ \A m \in 1 .. k : m \in 1 .. sample_number \/ m = k
  BY <1>0, <1>1, Tracked
<1>3. PICK x \in Int : x = NextTime  BY <1>1
<1>4. PICK y \in Int : y = NextTime' /\ x <= y
  <2>1. time' = time + sample_time /\ time \in Int /\ sample_time \in Int
        /\ sample_time >= 0 /\ Scale \in Nat \ {0}
    BY <1>1, Constants DEF TrackSample, TypeInv, ClockAdvances
  <2>2. time' \in Int /\ time <= time'  BY <2>1
  <2>3. PICK a \in Int : a = time'  BY <2>2
  <2>4. time \div Scale <= a \div Scale /\ a \div Scale \in Int
    BY <2>1, <2>2, <2>3, FloorOrder, QuotientInt
  <2> QED  BY <1>3, <2>3, <2>4 DEF NextTime
<1>5. \A m \in 1 .. sample_number : times[m] \in Int /\ times[m] <= x
  BY <1>1, <1>3, ElementOfSeq DEF AscendInv
<1>6. /\ \A i, j \in 1 .. k : i <= j => times'[i] <= times'[j]
      /\ \A i \in 1 .. k : times'[i] <= y
  <2>1. \A i \in 1 .. k : times'[i] \in Int /\ times'[i] <= x
    BY <1>2, <1>3, <1>5
  <2>2. ASSUME NEW i \in 1 .. k, NEW j \in 1 .. k, i <= j
        PROVE  times'[i] <= times'[j]
    <3>1. CASE j = k  BY <1>2, <1>3, <2>1, <3>1
    <3>2. CASE j # k
      <4>1. i \in 1 .. sample_number /\ j \in 1 .. sample_number
        BY <1>0, <1>1, <2>2, <3>2
      <4> QED  BY <1>2, <2>2, <4>1 DEF AscendInv
    <3> QED  BY <3>1, <3>2
  <2> QED  BY <1>4, <2>1, <2>2
<1>7. last_t <= x \/ ~InWindow(NextTime)
  <2>1. CASE last_t = -1
    BY <1>1, <1>3, <2>1, Constants DEF InWindow
  <2>2. CASE last_t # -1
    <3>1. PICK m \in 1 .. sample_number : times[m] = last_t  BY <2>2 DEF OpenInv
    <3> QED  BY <1>5, <3>1
  <2> QED  BY <2>1, <2>2
<1>8. /\ last_t' = (IF InWindow(NextTime) THEN NextTime ELSE last_t) /\ last_t' \in Int
  BY <1>1 DEF Stamp, Collect, NewSecond
<1>9. PICK s \in Int : s = SecondOf(last_t)  BY <1>1, TimesTyped
<1>10. PICK u \in Int : u = SecondOf(last_t)' /\ s <= u
  <2>1. PICK z \in Int : z = last_t'  BY <1>8
  <2>2. last_t <= z  BY <1>1, <1>3, <1>7, <1>8, <2>1
  <2>3. SecondOf(last_t) <= SecondOf(z) /\ SecondOf(z) \in Int
    BY <1>1, <2>2, SecondOrder
  <2>4. SecondOf(last_t)' = SecondOf(z)  BY <2>1 DEF SecondOf
  <2> QED  BY <1>9, <2>3, <2>4
<1>11. ASSUME NEW set
       PROVE  \E o \in Seq(Packet) : /\ o = output \o Flushed(buffer, set)
                                     /\ Rising(o) /\ UpTo(o, s)
  <2>1. PICK q \in Seq(OfBuffers(buffer, set)) : q = Flushed(buffer, set)
    BY <1>1, FlushedIs
  <2>2. PICK o \in Seq(Packet) : o = output \o q  BY <1>1, FlushRising
  <2>3. Rising(o) /\ UpTo(o, s)  BY <1>1, <1>9, <2>2, FlushRising
  <2> QED  BY <2>1, <2>2, <2>3
<1>12. ASSUME NEW o \in Seq(Packet), UpTo(o, s) PROVE UpTo(o, u)
  <2>1. \A n \in 1 .. Len(o) : o[n].type = "time" => o[n].second \in Int
    <3>1. \A p \in Packet : p.type = "time" => p.second \in Int
      BY DEF Packet, Content, DataPacket
    <3> QED  BY <3>1, ElementOfSeq
  <2> QED  BY <1>10, <1>12, <2>1 DEF UpTo
<1>13. Rising(output') /\ UpTo(output', u)
  <2>1. CASE Stamp
    <3>1. /\ NewSecond(NextTime) /\ last_t' = NextTime
          /\ output' = (output \o Flushed(buffer, Channel)) \o <<Time(SecondOf(NextTime))>>
      BY <2>1 DEF Stamp
    <3>2. SecondOf(last_t)' = SecondOf(NextTime)  BY <3>1 DEF SecondOf
    <3>3. s < u  BY <1>9, <1>10, <3>1, <3>2 DEF NewSecond
    <3>4. PICK o \in Seq(Packet) : /\ o = output \o Flushed(buffer, Channel)
                                   /\ Rising(o) /\ UpTo(o, s)
      BY <1>11
    <3>5. Rising(o \o <<Time(u)>>) /\ UpTo(o \o <<Time(u)>>, u)
      BY <3>3, <3>4, RisingStamp
    <3> QED  BY <1>10, <3>1, <3>2, <3>4, <3>5
  <2>2. CASE Collect
    <3>1. \/ output' = output \o Flushed(buffer, FullIn(buffer))
          \/ output' = output
      BY <2>2 DEF Collect
    <3>2. CASE output' = output
      <4>1. output \in Seq(Packet) /\ Rising(output) /\ UpTo(output, s)
        BY <1>1, <1>9, Contents DEF TypeInv, AscendInv
      <4> QED  BY <1>12, <3>2, <4>1
    <3>3. CASE output' = output \o Flushed(buffer, FullIn(buffer))
      <4>1. PICK o \in Seq(Packet) : /\ o = output \o Flushed(buffer, FullIn(buffer))
                                     /\ Rising(o) /\ UpTo(o, s)
        BY <1>11
      <4> QED  BY <1>12, <3>3, <4>1
    <3> QED  BY <3>1, <3>2, <3>3
  <2> QED  BY <2>1, <2>2
<1> QED  BY <1>2, <1>4, <1>6, <1>10, <1>13 DEF AscendInv

LEMMA AscendInit == Init => AscendInv
<1> SUFFICES ASSUME Init PROVE AscendInv  OBVIOUS
<1>1. Channels \in Nat /\ output = [c \in 1 .. Channels |-> Header(c)]
  BY Constants DEF Init, Channel
<1>2. \A n \in 1 .. Len(output) : output[n].type # "time"
  BY <1>1 DEF Header
<1>3. \A i \in 1 .. sample_number : FALSE  BY DEF Init
<1> QED  BY <1>2, <1>3 DEF AscendInv, Rising, UpTo

LEMMA AscendStep ==
  TypeInv /\ OpenInv /\ AscendInv /\ ClockAdvances /\ [Next]_vars => AscendInv'
<1> SUFFICES ASSUME TypeInv, OpenInv, AscendInv, ClockAdvances, [Next]_vars
             PROVE  AscendInv'
  OBVIOUS
<1>1. CASE Stamp \/ Collect  BY <1>1, AscendSample
<1>2. ASSUME NEW t \in Timestamps, TimeFrame(t) PROVE AscendInv'
  <2>1. /\ UNCHANGED <<sample_number, times, output, last_t>>
        /\ sample_number = 0 \/ time' = time
    BY <1>2 DEF TimeFrame, SetTime
  <2>2. \A i \in 1 .. sample_number : times[i] <= NextTime'
    BY <2>1 DEF AscendInv, NextTime
  <2> QED  BY <2>1, <2>2 DEF AscendInv, SecondOf
<1>3. CASE Finish
  <2>1. /\ pc = "data" /\ UNCHANGED <<sample_number, times, time, last_t>>
        /\ output' = (output \o Flushed(buffer, Channel)) \o <<Terminate>>
        /\ buffer \in Buffers
    BY <1>3 DEF Finish, TypeInv, tracker
  <2>2. PICK q \in Seq(OfBuffers(buffer, Channel)) : q = Flushed(buffer, Channel)
    BY <2>1, FlushedIs
  <2>3. PICK o \in Seq(Packet) : o = output \o q  BY <2>1, FlushRising
  <2>4. PICK s : s = SecondOf(last_t)  OBVIOUS
  <2>5. Rising(o) /\ UpTo(o, s)  BY <2>1, <2>3, <2>4, FlushRising
  <2>6. PICK e \in Seq(Packet) : e = <<Terminate>>  BY Contents, SamplesOne
  <2>7. \A i \in 1 .. Len(e) : e[i].type # "time"  BY <2>6 DEF Terminate
  <2>8. Rising(o \o e) /\ UpTo(o \o e, s)  BY <2>5, <2>7, RisingData
  <2>9. Rising(output') /\ UpTo(output', s)  BY <2>1, <2>2, <2>3, <2>6, <2>8
  <2> QED  BY <2>1, <2>4, <2>9 DEF AscendInv, NextTime, SecondOf
<1>4. CASE ReadFails \/ Over \/ UNCHANGED vars
  BY <1>4 DEF ReadFails, Over, vars, AscendInv, NextTime, SecondOf, tracker
<1>5. CASE WriteFails
  <2>1. /\ pc = "data" /\ UNCHANGED <<sample_number, times, time, last_t>>
        /\ buffer \in Buffers
    BY <1>5 DEF WriteFails, TypeInv, tracker
  <2>2. PICK s : s = SecondOf(last_t)  OBVIOUS
  <2>3. ASSUME NEW set, NEW n \in Nat, n <= Len(Flushed(buffer, set)),
               output' = output \o SubSeq(Flushed(buffer, set), 1, n)
        PROVE  Rising(output') /\ UpTo(output', s)
    <3>1. PICK q \in Seq(OfBuffers(buffer, set)) : q = Flushed(buffer, set)
      BY <2>1, FlushedIs
    <3>2. PICK r \in Seq(OfBuffers(buffer, set)) : r = SubSeq(q, 1, n)
      BY <2>3, <3>1, SplitAt
    <3>3. Rising(output \o r) /\ UpTo(output \o r, s)
      BY <2>1, <2>2, FlushRising
    <3> QED  BY <2>3, <3>1, <3>2, <3>3
  <2>4. \E n \in 0 .. Len(Flushed(buffer, Channel)) :
          \/ output' = output \o SubSeq(Flushed(buffer, Channel), 1, n)
          \/ n < Len(Flushed(buffer, FullIn(buffer)))
             /\ output' = output \o SubSeq(Flushed(buffer, FullIn(buffer)), 1, n)
    BY <1>5 DEF WriteFails
  <2>5. /\ Len(Flushed(buffer, Channel)) \in Nat
        /\ Len(Flushed(buffer, FullIn(buffer))) \in Nat
    BY <2>1, FlushedIs, LenProperties
  <2>6. PICK n \in 0 .. Len(Flushed(buffer, Channel)) :
          \/ output' = output \o SubSeq(Flushed(buffer, Channel), 1, n)
          \/ n < Len(Flushed(buffer, FullIn(buffer)))
             /\ output' = output \o SubSeq(Flushed(buffer, FullIn(buffer)), 1, n)
    BY <2>4
  <2>7. n \in Nat /\ n <= Len(Flushed(buffer, Channel))
        /\ (n < Len(Flushed(buffer, FullIn(buffer)))
              => n <= Len(Flushed(buffer, FullIn(buffer))))
    BY <2>5
  <2>8. Rising(output') /\ UpTo(output', s)  BY <2>3, <2>6, <2>7
  <2> QED  BY <2>1, <2>2, <2>8 DEF AscendInv, NextTime, SecondOf
<1> QED  BY <1>1, <1>2, <1>3, <1>4, <1>5 DEF Next

THEOREM AscendInvariance == Spec /\ []ClockAdvances => []AscendInv
<1>1. Spec => [](TypeInv /\ OpenInv)  BY EveryInvariance, PTL
<1> QED  BY <1>1, AscendInit, AscendStep, PTL DEF Spec

\* While the clock advances, the seconds of the time packets ascend: a time
\* packet is written for a second that is not that of last_t, the last sample
\* between the limits, and no sample is earlier than the one before it
\* (6d6read.c lines 307-317, sample-tracker.h lines 111-117).
THEOREM Ascend == Spec /\ []ClockAdvances => []StampsAscend
<1>1. AscendInv => StampsAscend  BY DEF AscendInv, Rising, StampsAscend
<1> QED  BY <1>1, AscendInvariance, PTL

\* What is in a beginning of a sequence is in the sequence.
LEMMA PrefixValues ==
  ASSUME NEW s \in Seq(Nat), NEW t \in Seq(Nat), IsPrefix(s, t)
  PROVE  ToSet(s) \subseteq ToSet(t)
<1>1. Len(s) \in Nat /\ Len(t) \in Nat /\ Len(s) <= Len(t)
  BY LenProperties DEF IsPrefix
<1>2. s = SubSeq(t, 1, Len(s))
  BY SubSeqFull DEF IsPrefix
<1>3. \A i \in 1 .. Len(s) : s[i] = t[i] /\ i \in 1 .. Len(t)
  <2>1. \A i \in 1 .. Len(s) : t[i] \in Nat  BY <1>1, ElementOfSeq
  <2>2. \A i \in 1 .. Len(s) - 1 + 1 : SubSeq(t, 1, Len(s))[i] = t[1 + i - 1]
    BY <1>1, <2>1, SubSeqProperties
  <2> QED  BY <1>1, <1>2, <2>2
<1> QED  BY <1>3, SMTT(30) DEF ToSet

\* While the clock advances, no sample from before the start limit is in the
\* file: the first one opens a second between the limits, the others are not
\* earlier (6d6read.c lines 310-332).
THEOREM FromStart == Spec /\ []ClockAdvances => []NothingBeforeStart
<1>1. TypeInv /\ OpenInv /\ AscendInv /\ EverySampleOnce => NothingBeforeStart
  <2> SUFFICES ASSUME TypeInv, OpenInv, AscendInv, EverySampleOnce, NEW c \in Channel,
                      NEW k \in ToSet(SamplesOf(c, Packets))
               PROVE  times[k] >= StartTime
    BY DEF NothingBeforeStart
  <2>1. sample_number \in Nat /\ times \in Seq(Int) /\ Len(times) = sample_number
    BY DEF TypeInv
  <2>2. CASE have_time = 2
    <3>1. PICK f \in Nat : First(f)  BY <2>2 DEF OpenInv
    <3>2. Expected = Run(f, sample_number)  BY <3>1, ExpectedRun
    <3>3. f \in 1 .. sample_number /\ times[f] >= StartTime
      <4>1. f \in 1 .. sample_number /\ StartTime <= times[f]
        BY <3>1 DEF First, Opens, InWindow
      <4>2. times[f] \in Int  BY <2>1, <4>1, ElementOfSeq
      <4> QED  BY <4>1, <4>2, Constants
    <3>4. Run(f, sample_number) \in Seq(Nat)  BY <2>1, <3>3, RunIs
    <3>5. k \in ToSet(Run(f, sample_number))
      <4>1. CASE pc = "failed"
        <5>1. IsPrefix(SamplesOf(c, Packets), Run(f, sample_number))
          BY <3>2, <4>1 DEF EverySampleOnce
        <5>2. Packets \in Seq(Packet)
          <6>1. output \in Seq(Packet)  BY <4>1, Contents DEF TypeInv
          <6> QED  BY <4>1, <6>1, ConcatEmptySeq DEF Packets
        <5>3. SamplesOf(c, Packets) \in Seq(Nat)  BY <5>2, PartsTyped
        <5> QED  BY <3>4, <5>1, <5>3, PrefixValues
      <4>2. CASE pc # "failed"
        BY <3>2, <4>2 DEF EverySampleOnce
      <4> QED  BY <4>1, <4>2
    <3>6. k \in f .. sample_number
      <4>1. PICK i \in 1 .. Len(Run(f, sample_number)) : k = Run(f, sample_number)[i]
        BY <3>5 DEF ToSet
      <4>2. Len(Run(f, sample_number)) = sample_number - f + 1
        BY <2>1, <3>3 DEF Run
      <4>3. i \in 1 .. sample_number - f + 1 /\ k = f + i - 1
        BY <4>1, <4>2 DEF Run
      <4> QED  BY <2>1, <3>3, <4>3
    <3>7. times[f] <= times[k] /\ times[k] \in Int /\ times[f] \in Int
      <4>1. k \in 1 .. sample_number /\ f <= k  BY <2>1, <3>3, <3>6
      <4> QED  BY <2>1, <3>3, <4>1, ElementOfSeq DEF AscendInv
    <3> QED  BY <3>3, <3>7, Constants
  <2>3. CASE have_time # 2
    <3>1. Expected = <<>>  BY <2>3, ExpectedEmpty
    <3>2. SamplesOf(c, Packets) = <<>>
      <4>1. CASE pc = "failed"
        <5>1. IsPrefix(SamplesOf(c, Packets), <<>>)
          BY <3>1, <4>1 DEF EverySampleOnce
        <5>2. output \in Seq(Packet) /\ Packets = output
          <6>1. output \in Seq(Packet)  BY <4>1, Contents DEF TypeInv
          <6> QED  BY <4>1, <6>1, ConcatEmptySeq DEF Packets
        <5>3. PICK s \in Seq(Nat) : s = SamplesOf(c, Packets)  BY <5>2, PartsTyped
        <5>4. Len(s) <= 0 /\ Len(s) \in Nat
          BY <5>1, <5>3, EmptySeq, LenProperties DEF IsPrefix
        <5> QED  BY <5>3, <5>4, EmptySeq
      <4>2. CASE pc # "failed"  BY <3>1, <4>2 DEF EverySampleOnce
      <4> QED  BY <4>1, <4>2
    <3>3. \A i \in 1 .. Len(<<>>) : FALSE  BY EmptySeq
    <3> QED  BY <3>2, <3>3 DEF ToSet
  <2> QED  BY <2>2, <2>3
<1>2. Spec => [](TypeInv /\ OpenInv)  BY EveryInvariance, PTL
<1> QED  BY <1>1, <1>2, Every, AscendInvariance, PTL

=============================================================================
