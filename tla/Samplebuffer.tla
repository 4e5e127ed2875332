----------------------------- MODULE Samplebuffer -----------------------------
(***************************************************************************)
(* src/samplebuffer.h: a ring of samples that doubles when it is full.     *)
(* The writer of a MiniSEED file (WMSeed) keeps in it the samples that     *)
(* have no time yet.                                                       *)
(***************************************************************************)
EXTENDS Integers, Sequences

CONSTANTS Sample,       \* values of a sample
          InitialSize,  \* size of a new buffer, 4096 in the code
          MaxSamples,   \* bound: samples pushed in a behaviour
          Garbage       \* contents of a cell nothing was written to

ASSUME SizeAssumption == InitialSize \in Nat \ {0} /\ MaxSamples \in Nat

\* Fields of the struct.
VARIABLES sample_number, pos, len, size, data
VARIABLE out            \* what the last pop returned

vars == <<sample_number, pos, len, size, data, out>>

\* Lines 37-48.
Init ==
  /\ sample_number = 0 /\ pos = 0 /\ len = 0
  /\ size = InitialSize
  /\ data = [i \in 0 .. InitialSize - 1 |-> Garbage]
  /\ out = 0

\* Lines 62-70, with a plain copy instead of one that starts at pos.
CopyFromZero ==
  [i \in 0 .. 2 * size - 1 |-> IF i < len THEN data[i] ELSE Garbage]
\* Lines 62-70: a buffer of twice the size with the samples at its beginning.
Enlarged ==
  [i \in 0 .. 2 * size - 1 |->
     IF i < len THEN data[(pos + i) % size] ELSE Garbage]

\* samplebuffer_push, lines 68-78.
PushInPlace(sample) ==
  /\ len < size
  /\ data' = [data EXCEPT ![(pos + len) % size] = sample]
  /\ len' = len + 1
  /\ UNCHANGED <<sample_number, pos, size, out>>

\* samplebuffer_push, lines 61-78, when the buffer is full.
PushAndGrow(sample) ==
  /\ len = size
  /\ size' = 2 * size /\ pos' = 0
  /\ data' = [Enlarged EXCEPT ![len % size'] = sample]
  /\ len' = len + 1
  /\ UNCHANGED <<sample_number, out>>

Push(sample) ==
  /\ sample_number + len < MaxSamples
  /\ PushInPlace(sample) \/ PushAndGrow(sample)

\* samplebuffer_pop without the wrap of the position.
PopNoWrap ==
  /\ len > 0
  /\ out' = data[pos] /\ pos' = pos + 1
  /\ len' = len - 1 /\ sample_number' = sample_number + 1
  /\ UNCHANGED <<size, data>>

\* samplebuffer_pop, lines 85-89.
Pop ==
  /\ len > 0
  /\ out' = data[pos] /\ pos' = (pos + 1) % size
  /\ len' = len - 1 /\ sample_number' = sample_number + 1
  /\ UNCHANGED <<size, data>>

\* samplebuffer_pop of an empty buffer, line 84.
PopEmpty == len = 0 /\ out' = 0 /\ UNCHANGED <<sample_number, pos, len, size, data>>

Next == (\E sample \in Sample : Push(sample)) \/ Pop \/ PopEmpty

Spec == Init /\ [][Next]_vars

-----------------------------------------------------------------------------

\* The position is in the buffer and the samples fit it.
TypeOK ==
  /\ sample_number \in Nat /\ len \in Nat /\ size \in Nat \ {0}
  /\ pos \in 0 .. size - 1 /\ len <= size
  /\ data \in [0 .. size - 1 -> Sample \cup {Garbage}]
  /\ out \in Sample \cup {0}

\* The ring is a queue: what is pushed comes out once and in order, however
\* pushes, pops and enlargements follow each other.
Queue == INSTANCE SampleQueue WITH
  queue <- [i \in 1 .. len |-> data[(pos + i - 1) % size]]

ImplementsQueue == Queue!Spec

=============================================================================
