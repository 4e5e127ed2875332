-------------------------- MODULE SamplebufferProofs --------------------------
(***************************************************************************)
(* Proof that the ring of Samplebuffer is the queue of SampleQueue, for    *)
(* every initial size and any number of enlargements.                      *)
(***************************************************************************)
EXTENDS Samplebuffer, TLAPS

\* Cell of the i-th sample behind the position, without the remainder.
CellOf(p, i, n) == IF p + i < n THEN p + i ELSE p + i - n

\* Every cell between the position and the end of the queue was written.
CellsFilled == \A i \in 0 .. len - 1 : data[CellOf(pos, i, size)] \in Sample

IInv == TypeOK /\ CellsFilled

\* The queue the ring stands for.
Contents == [i \in 1 .. len |-> data[(pos + i - 1) % size]]

-----------------------------------------------------------------------------

LEMMA Wrap ==
  ASSUME NEW n \in Nat \ {0}, NEW p \in 0 .. n - 1, NEW i \in 0 .. n
  PROVE  (p + i) % n = CellOf(p, i, n) /\ CellOf(p, i, n) \in 0 .. n - 1
<1>1. CASE p + i < n  BY <1>1 DEF CellOf
<1>2. CASE p + i >= n
  <2>1. p + i - n \in 0 .. n - 1  BY <1>2
  <2>2. (p + i) = 1 * n + (p + i - n)  BY <2>1
  <2>3. (p + i) % n = p + i - n  BY <2>1, <2>2
  <2> QED  BY <1>2, <2>1, <2>3 DEF CellOf
<1> QED  BY <1>1, <1>2

LEMMA WrapBefore ==
  ASSUME NEW n \in Nat \ {0}, NEW p \in 0 .. n - 1, NEW l \in 0 .. n
  PROVE  \A i \in 1 .. l : (p + i - 1) % n = CellOf(p, i - 1, n)
<1>1. ASSUME NEW i \in 1 .. l PROVE (p + i - 1) % n = CellOf(p, i - 1, n)
  <2>1. i - 1 \in 0 .. n /\ p + i - 1 = p + (i - 1)  BY <1>1
  <2> QED  BY <2>1, Wrap
<1> QED  BY <1>1

\* The queue, cell by cell.
LEMMA ContentsCells ==
  ASSUME TypeOK
  PROVE  Contents = [i \in 1 .. len |-> data[CellOf(pos, i - 1, size)]]
<1>1. size \in Nat \ {0} /\ pos \in 0 .. size - 1 /\ len \in 0 .. size
  BY DEF TypeOK
<1>2. \A i \in 1 .. len : (pos + i - 1) % size = CellOf(pos, i - 1, size)
  BY <1>1, WrapBefore
<1> QED  BY <1>2 DEF Contents

LEMMA InitIInv == Init => IInv
BY SizeAssumption DEF Init, IInv, TypeOK, CellsFilled

\* A push with room left keeps the queue and appends to it.
LEMMA PushInPlaceStep ==
  ASSUME IInv, NEW s \in Sample, PushInPlace(s)
  PROVE  IInv' /\ Contents' = Append(Contents, s)
<1> DEFINE c == CellOf(pos, len, size)
<1>1. /\ size \in Nat \ {0} /\ pos \in 0 .. size - 1 /\ len \in Nat /\ len < size
      /\ data \in [0 .. size - 1 -> Sample \cup {Garbage}]
      /\ UNCHANGED <<sample_number, pos, size, out>> /\ len' = len + 1
  BY DEF IInv, TypeOK, PushInPlace
<1>2. c \in 0 .. size - 1 /\ data' = [data EXCEPT ![c] = s]
  <2>1. len \in 0 .. size  BY <1>1
  <2>2. (pos + len) % size = c /\ c \in 0 .. size - 1  BY <1>1, <2>1, Wrap
  <2> QED  BY <2>2 DEF PushInPlace
<1>3. \A i \in 0 .. len - 1 : /\ CellOf(pos, i, size) # c
                              /\ CellOf(pos, i, size) \in 0 .. size - 1
  BY <1>1 DEF CellOf
<1>4. /\ \A i \in 0 .. len - 1 : data'[CellOf(pos, i, size)] = data[CellOf(pos, i, size)]
      /\ data'[c] = s
  BY <1>1, <1>2, <1>3
<1>5. IInv'
  <2>1. data' \in [0 .. size - 1 -> Sample \cup {Garbage}]  BY <1>1, <1>2
  <2>2. TypeOK'  BY <1>1, <2>1 DEF IInv, TypeOK
  <2>3. CellsFilled'
    <3> SUFFICES ASSUME NEW i \in 0 .. len PROVE data'[CellOf(pos, i, size)] \in Sample
      BY <1>1 DEF CellsFilled, CellOf
    <3>1. CASE i = len  BY <3>1, <1>4
    <3>2. CASE i \in 0 .. len - 1  BY <3>2, <1>4 DEF IInv, CellsFilled
    <3> QED  BY <1>1, <3>1, <3>2
  <2> QED  BY <2>2, <2>3 DEF IInv
<1>6. Contents' = Append(Contents, s)
  <2>1. Contents = [i \in 1 .. len |-> data[CellOf(pos, i - 1, size)]]
    BY ContentsCells DEF IInv
  <2>2. Contents' = [i \in 1 .. len + 1 |-> data'[CellOf(pos, i - 1, size)]]
    <3>1. len + 1 \in 0 .. size  BY <1>1
    <3>2. \A i \in 1 .. len + 1 : (pos + i - 1) % size = CellOf(pos, i - 1, size)
      BY <1>1, <3>1, WrapBefore
    <3> QED  BY <1>1, <3>2 DEF Contents
  <2>3. \A i \in 1 .. len : data'[CellOf(pos, i - 1, size)] = data[CellOf(pos, i - 1, size)]
    BY <1>1, <1>4
  <2>4. (len + 1) - 1 = len  BY <1>1
  <2> QED  BY <1>1, <1>4, <2>1, <2>2, <2>3, <2>4
<1> QED  BY <1>5, <1>6

\* Enlarging moves the samples to the front of the new buffer, in order.
LEMMA PushAndGrowStep ==
  ASSUME IInv, NEW s \in Sample, PushAndGrow(s)
  PROVE  IInv' /\ Contents' = Append(Contents, s)
<1>1. /\ size \in Nat \ {0} /\ pos \in 0 .. size - 1 /\ len = size
      /\ data \in [0 .. size - 1 -> Sample \cup {Garbage}]
      /\ UNCHANGED <<sample_number, out>>
      /\ len' = len + 1 /\ pos' = 0 /\ size' = 2 * size
      /\ data' = [Enlarged EXCEPT ![len % (2 * size)] = s]
  BY DEF IInv, TypeOK, PushAndGrow
<1>2. len % (2 * size) = len  BY <1>1
<1>3. \A i \in 0 .. len - 1 : (pos + i) % size = CellOf(pos, i, size)
                              /\ CellOf(pos, i, size) \in 0 .. size - 1
  BY <1>1, Wrap
<1>4. /\ Enlarged \in [0 .. 2 * size - 1 -> Sample \cup {Garbage}]
      /\ \A i \in 0 .. len - 1 : Enlarged[i] = data[CellOf(pos, i, size)]
  <2>1. \A i \in 0 .. 2 * size - 1 :
          Enlarged[i] = IF i < len THEN data[(pos + i) % size] ELSE Garbage
    BY DEF Enlarged
  <2>2. \A i \in 0 .. 2 * size - 1 :
          /\ i < len => i \in 0 .. len - 1
          /\ Enlarged[i] \in Sample \cup {Garbage}
    <3> SUFFICES ASSUME NEW i \in 0 .. 2 * size - 1
                 PROVE  /\ i < len => i \in 0 .. len - 1
                        /\ Enlarged[i] \in Sample \cup {Garbage}
      OBVIOUS
    <3>1. i < len => i \in 0 .. len - 1  BY <1>1
    <3>2. CASE i < len
      <4>1. Enlarged[i] = data[CellOf(pos, i, size)]  BY <1>3, <2>1, <3>1, <3>2
      <4> QED  BY <1>1, <1>3, <3>1, <3>2, <4>1
    <3>3. CASE ~(i < len)  BY <2>1, <3>3
    <3> QED  BY <3>1, <3>2, <3>3
  <2>3. \A i \in 0 .. len - 1 : i \in 0 .. 2 * size - 1 /\ i < len  BY <1>1
  <2>4. Enlarged = [i \in 0 .. 2 * size - 1 |-> Enlarged[i]]  BY DEF Enlarged
  <2> QED  BY <1>3, <2>1, <2>2, <2>3, <2>4
<1>5. /\ data' \in [0 .. 2 * size - 1 -> Sample \cup {Garbage}]
      /\ \A i \in 0 .. len - 1 : data'[i] = data[CellOf(pos, i, size)]
      /\ data'[len] = s
  BY <1>1, <1>2, <1>4
<1>6. \A i \in 0 .. len : CellOf(0, i, 2 * size) = i  BY <1>1 DEF CellOf
<1>7. IInv'
  <2>1. TypeOK'  BY <1>1, <1>5 DEF IInv, TypeOK
  <2>2. CellsFilled'
    <3> SUFFICES ASSUME NEW i \in 0 .. len PROVE data'[i] \in Sample
      BY <1>1, <1>6 DEF CellsFilled
    <3>1. CASE i = len  BY <3>1, <1>5
    <3>2. CASE i \in 0 .. len - 1  BY <3>2, <1>5 DEF IInv, CellsFilled
    <3> QED  BY <1>1, <3>1, <3>2
  <2> QED  BY <2>1, <2>2 DEF IInv
<1>8. Contents' = Append(Contents, s)
  <2>1. Contents = [i \in 1 .. len |-> data[CellOf(pos, i - 1, size)]]
    BY ContentsCells DEF IInv
  <2>2. Contents' = [i \in 1 .. len + 1 |-> data'[i - 1]]
    <3>1. /\ 2 * size \in Nat \ {0} /\ 0 \in 0 .. 2 * size - 1
          /\ len + 1 \in 0 .. 2 * size
      BY <1>1
    <3>2. \A i \in 1 .. len + 1 : (0 + i - 1) % (2 * size) = CellOf(0, i - 1, 2 * size)
      BY <3>1, WrapBefore
    <3>3. \A i \in 1 .. len + 1 : CellOf(0, i - 1, 2 * size) = i - 1
      BY <1>1, <1>6
    <3> QED  BY <1>1, <3>2, <3>3 DEF Contents
  <2>3. \A i \in 1 .. len : data'[i - 1] = data[CellOf(pos, i - 1, size)]
    BY <1>1, <1>5
  <2>4. (len + 1) - 1 = len  BY <1>1
  <2> QED  BY <1>1, <1>5, <2>1, <2>2, <2>3, <2>4
<1> QED  BY <1>7, <1>8

\* A pop returns the oldest sample and leaves the others as they are.
LEMMA PopStep ==
  ASSUME IInv, Pop
  PROVE  /\ IInv' /\ Contents # <<>>
         /\ out' = Head(Contents) /\ Contents' = Tail(Contents)
<1> DEFINE p == CellOf(pos, 1, size)
<1>1. /\ size \in Nat \ {0} /\ pos \in 0 .. size - 1 /\ len \in 1 .. size
      /\ data \in [0 .. size - 1 -> Sample \cup {Garbage}]
      /\ UNCHANGED <<size, data>> /\ len' = len - 1 /\ out' = data[pos]
      /\ sample_number' = sample_number + 1
  BY DEF IInv, TypeOK, Pop
<1>2. pos' = p /\ p \in 0 .. size - 1  BY <1>1, Wrap DEF Pop
<1>3. \A i \in 0 .. len - 2 : CellOf(p, i, size) = CellOf(pos, i + 1, size)
  BY <1>1, <1>2 DEF CellOf
<1>4. CellOf(pos, 0, size) = pos /\ data[pos] \in Sample
  <2>1. CellOf(pos, 0, size) = pos /\ 0 \in 0 .. len - 1  BY <1>1 DEF CellOf
  <2> QED  BY <2>1 DEF IInv, CellsFilled
<1>5. IInv'
  <2>1. TypeOK'  BY <1>1, <1>2, <1>4 DEF IInv, TypeOK
  <2>2. CellsFilled'
    <3> SUFFICES ASSUME NEW i \in 0 .. len - 2 PROVE data[CellOf(p, i, size)] \in Sample
      BY <1>1, <1>2 DEF CellsFilled
    <3>1. i + 1 \in 0 .. len - 1  BY <1>1
    <3> QED  BY <1>3, <3>1 DEF IInv, CellsFilled
  <2> QED  BY <2>1, <2>2 DEF IInv
<1>6. Contents = [i \in 1 .. len |-> data[CellOf(pos, i - 1, size)]]
  BY ContentsCells DEF IInv
<1>7. Contents' = [i \in 1 .. len - 1 |-> data[CellOf(p, i - 1, size)]]
  <2>1. len - 1 \in 0 .. size  BY <1>1
  <2>2. \A i \in 1 .. len - 1 : (p + i - 1) % size = CellOf(p, i - 1, size)
    BY <1>1, <1>2, <2>1, WrapBefore
  <2> QED  BY <1>1, <1>2, <2>2 DEF Contents
<1>8. Contents # <<>> /\ Head(Contents) = data[pos]
  BY <1>1, <1>4, <1>6
<1>9. Contents' = Tail(Contents)
  <2>1. Tail(Contents) = [i \in 1 .. len - 1 |-> data[CellOf(pos, i, size)]]
    BY <1>1, <1>6, SMTT(30)
  <2>2. \A i \in 1 .. len - 1 : CellOf(p, i - 1, size) = CellOf(pos, i, size)
    BY <1>1, <1>3
  <2> QED  BY <1>7, <2>1, <2>2
<1> QED  BY <1>1, <1>5, <1>8, <1>9

LEMMA PopEmptyStep == IInv /\ (PopEmpty \/ UNCHANGED vars) => IInv' /\ Contents' = Contents
<1> SUFFICES ASSUME IInv, PopEmpty \/ UNCHANGED vars PROVE IInv' /\ Contents' = Contents
  OBVIOUS
<1>1. /\ UNCHANGED <<sample_number, pos, len, size, data>>
      /\ out' = out \/ out' = 0
  BY DEF PopEmpty, vars
<1> QED  BY <1>1 DEF IInv, TypeOK, CellsFilled, CellOf, Contents

\* The cells between the position and the end always hold samples.
LEMMA NextIInv == IInv /\ [Next]_vars => IInv'
BY PushInPlaceStep, PushAndGrowStep, PopStep, PopEmptyStep DEF Next, Push

\* Type correctness; the position never leaves the buffer.
THEOREM TypeCorrect == Spec => []TypeOK
<1>1. IInv => TypeOK  BY DEF IInv
<1> QED  BY <1>1, InitIInv, NextIInv, PTL DEF Spec

\* The ring with its enlargements implements an unbounded queue, for every
\* initial size.
THEOREM RingIsQueue == Spec => ImplementsQueue
<1>1. Init => Queue!Init
  <2> SUFFICES ASSUME Init PROVE Queue!Init  OBVIOUS
  <2>1. Contents = <<>>  BY DEF Init, Contents
  <2> QED  BY <2>1 DEF Init, Queue!Init, Contents
<1>2. IInv /\ [Next]_vars => [Queue!Next]_(Queue!queueVars)
  <2> SUFFICES ASSUME IInv, [Next]_vars PROVE [Queue!Next]_(Queue!queueVars)
    OBVIOUS
  <2>1. ASSUME NEW s \in Sample, PushInPlace(s) \/ PushAndGrow(s) PROVE Queue!Next
    <3>1. Contents' = Append(Contents, s)
      BY <2>1, PushInPlaceStep, PushAndGrowStep
    <3>2. UNCHANGED <<sample_number, out>>  BY <2>1 DEF PushInPlace, PushAndGrow
    <3>3. Queue!Push(s)  BY <3>1, <3>2 DEF Queue!Push, Contents
    <3> QED  BY <3>3 DEF Queue!Next
  <2>2. CASE Pop
    <3>1. /\ Contents # <<>> /\ out' = Head(Contents)
          /\ Contents' = Tail(Contents)
      BY <2>2, PopStep
    <3>2. sample_number' = sample_number + 1  BY <2>2 DEF Pop
    <3> QED  BY <3>1, <3>2 DEF Queue!Next, Queue!Pop, Contents
  <2>3. CASE PopEmpty
    <3>1. Contents' = Contents  BY <2>3, PopEmptyStep
    <3>2. Contents = <<>>  BY <2>3 DEF PopEmpty, Contents
    <3> QED  BY <2>3, <3>1, <3>2 DEF PopEmpty, Queue!Next, Queue!PopEmpty, Contents
  <2>4. CASE UNCHANGED vars
    <3>1. Contents' = Contents  BY <2>4, PopEmptyStep
    <3> QED  BY <2>4, <3>1 DEF vars, Queue!queueVars, Contents
  <2> QED  BY <2>1, <2>2, <2>3, <2>4 DEF Next, Push
<1> QED  BY <1>1, <1>2, InitIInv, NextIInv, PTL DEF Spec, ImplementsQueue, Queue!Spec

=============================================================================
