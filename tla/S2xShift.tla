------------------------------- MODULE S2xShift -------------------------------
(***************************************************************************)
(* src/s2xshift.c: shifts the times of an s2x file by an offset, into a    *)
(* new file or in place.  One turn of the loop is one packet.              *)
(* A packet is its type, whether its size is the one its type must have,   *)
(* and its time; a header stands with one of its three times, which are    *)
(* all shifted the same way, and other packets carry a payload instead of  *)
(* a time.  Every call of the standard library may fail.                   *)
(***************************************************************************)
EXTENDS Integers, Sequences

CONSTANTS MaxPackets,  \* bound: packets of a file
          Wrap,        \* 2^32: times are unsigned 32-bit numbers
          Offsets      \* values of the argument

\* atoi makes an int of the argument, which is as wide as a time.
ShiftAssumption ==
  MaxPackets \in Nat /\ Wrap \in Nat \ {0} /\ Offsets \subseteq -Wrap .. Wrap

HEADER == 2
TIME == 3
TERMINATE == 4
DATA == 0

Packets == [type : {DATA, HEADER, TIME, TERMINATE}, wellformed : BOOLEAN,
            value : {0, Wrap - 1}]

VARIABLES
  inplace, offset,  \* from the command line
  in,               \* the packets of the file given
  output,           \* those of the new file
  n,                \* packets dealt with
  pc,               \* "run", "done" or "failed"
  original          \* history: the file as it was

vars == <<inplace, offset, in, output, n, pc, original>>

HasTimeOnly(packet) == packet.type = TIME
\* Lines 64, 75, 85 and 99.
HasTime(packet) == packet.type = HEADER \/ packet.type = TIME

\* Lines 80-84 and 91: C adds modulo 2^32.
Shifted(packet) ==
  IF HasTime(packet)
  THEN [packet EXCEPT !.value = (packet.value + offset) % Wrap] ELSE packet

\* Lines 61-102 for a packet that is read and written; line 109.
Packet ==
  /\ pc = "run" /\ n < Len(in)
  /\ LET packet == in[n + 1]
     IN  /\ HasTime(packet) => packet.wellformed
         /\ in' = IF inplace THEN [in EXCEPT ![n + 1] = Shifted(packet)] ELSE in
         /\ output' = IF inplace THEN output ELSE Append(output, Shifted(packet))
         /\ pc' = IF packet.type = TERMINATE THEN "done" ELSE "run"
  /\ n' = n + 1
  /\ UNCHANGED <<inplace, offset, original>>

\* Lines 76-79 and 86-89, any call that fails, and the end of a file without
\* a terminating packet: the program exits as it is.
Fail ==
  /\ pc = "run" /\ pc' = "failed"
  /\ UNCHANGED <<inplace, offset, in, output, n, original>>

Init ==
  /\ inplace \in BOOLEAN /\ offset \in Offsets
  /\ in \in UNION {[1 .. k -> Packets] : k \in 0 .. MaxPackets}
  /\ output = <<>> /\ n = 0 /\ pc = "run" /\ original = in

Next == Packet \/ Fail

\* ---- properties -----------------------------------------------------------

\* A packet with its time moved, by the clock: 2^32 - 1 is followed by 0.
Moved(packet) ==
  IF packet.type \in {HEADER, TIME}
  THEN [packet EXCEPT !.value = CHOOSE t \in 0 .. Wrap - 1 :
                                  \E turns \in -1 .. 1 :
                                    t + turns * Wrap = packet.value + offset]
  ELSE packet

\* Both ways of working give the same packets, each shifted once: a new file
\* leaves the old one alone and ends with the terminating packet, in place
\* what follows it stays.  Whenever the program stops, the file in place is a
\* shifted beginning and an untouched rest.
ShiftedOnce ==
  LET moved == [k \in 1 .. n |-> Moved(original[k])]
      rest == SubSeq(original, n + 1, Len(original))
  IN  /\ inplace => in = moved \o rest /\ output = <<>>
      /\ ~inplace => in = original /\ output = moved
      /\ pc = "done" => original[n].type = TERMINATE
      /\ \A k \in 1 .. n - 1 : original[k].type # TERMINATE

=============================================================================
