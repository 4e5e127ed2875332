----------------------------- MODULE SampleQueue -----------------------------
(***************************************************************************)
(* What samplebuffer.h promises: an unbounded first-in first-out queue of  *)
(* samples, and the number of the sample at its head.                      *)
(***************************************************************************)
EXTENDS Integers, Sequences

CONSTANT Sample         \* values of a sample

VARIABLES queue,          \* the samples, oldest first
          sample_number,  \* number of the sample at the head of the queue
          out             \* what the last pop returned

queueVars == <<queue, sample_number, out>>

Init == queue = <<>> /\ sample_number = 0 /\ out = 0

Push(sample) ==
  queue' = Append(queue, sample) /\ UNCHANGED <<sample_number, out>>

Pop ==
  /\ queue # <<>>
  /\ out' = Head(queue) /\ queue' = Tail(queue)
  /\ sample_number' = sample_number + 1

\* "Returns 0 if the sample buffer is empty."
PopEmpty == queue = <<>> /\ out' = 0 /\ UNCHANGED <<queue, sample_number>>

Next == (\E sample \in Sample : Push(sample)) \/ Pop \/ PopEmpty

Spec == Init /\ [][Next]_queueVars

=============================================================================
