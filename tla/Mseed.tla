-------------------------------- MODULE Mseed --------------------------------
(***************************************************************************)
(* The conversion loop of src/6d6mseed.c: skip to the data of a 6D6 file,  *)
(* read it block by block, put frames together word by word, and turn each *)
(* frame into the calls that feed the MiniSEED writer of every channel.    *)
(* The writers get the same calls apart from the sample value, so one log  *)
(* of calls stands for all of them; WMSeed models what a writer makes of   *)
(* its calls.  The words of the file are chosen as they are read.          *)
(***************************************************************************)
EXTENDS Integers, Sequences, FiniteSets

CONSTANTS Channels,      \* channel_count of the header
          BlockWords,    \* 32-bit words in a block, 128
          Words,         \* values of a word of the data
          Addresses      \* values of the two address fields of the headers

FileAssumption ==
  /\ Channels \in Nat \ {0} /\ BlockWords \in Nat \ {0}
  /\ Words \subseteq Int /\ Addresses \subseteq Nat

VARIABLES
  start_address, end_address,  \* h_start.address, h_end.address
  i, j,          \* blocks read, words taken from the block; BlockWords: read next
  frame,         \* words of the frame so far (frame[0 .. pos - 1])
  remaining,     \* words missing to the frame
  have_time,     \* a timestamp was seen
  sample_number, \* sample frames handed on
  pc,            \* "skip", "data", "done" or "failed" (exit with an error)
  calls,         \* history: calls made to each writer
  words,         \* history: words of data taken
  cut_short      \* history: the data ended before end_address was reached

vars == <<start_address, end_address, i, j, frame, remaining, have_time,
          sample_number, pc, calls, words, cut_short>>

TIME == 1
LOST == 7
END == 13

Odd(word) == word % 2 = 1

\* ---- frames -------------------------------------------------------------

\* Line 422: words that follow the first one of a frame.
Following(first) == IF Odd(first) THEN 3 ELSE Channels - 1

\* Lines 461-464: (frame[3] >> 16) & 0xffff.
LostCount(f) == (f[4] \div 65536) % 65536

\* Samples are handed on before their time is known.
CallsOfUntimed(f, timed) ==
  CASE f[1] = TIME -> <<[op |-> "time", arg |-> <<f[2], f[3]>>]>>
    [] f[1] = LOST -> <<[op |-> "lost", arg |-> LostCount(f)]>>
    [] ~Odd(f[1]) -> <<[op |-> "sample", arg |-> f]>>
    [] OTHER -> <<>>
\* Lines 429-482: the calls for a complete frame.
CallsOf(f, timed) ==
  CASE f[1] = TIME -> <<[op |-> "time", arg |-> <<f[2], f[3]>>]>>
    [] f[1] = LOST -> <<[op |-> "lost", arg |-> LostCount(f)]>>
    [] ~Odd(f[1]) /\ timed -> <<[op |-> "sample", arg |-> f]>>
    [] OTHER -> <<>>

\* ---- actions ------------------------------------------------------------

\* Lines 408-411.
Skip ==
  /\ pc = "skip" /\ i < start_address
  /\ i' = i + 1
  /\ UNCHANGED <<start_address, end_address, j, frame, remaining, have_time,
                 sample_number, pc, calls, words, cut_short>>

\* read_block exits when a block to skip cannot be read.
SkipFails ==
  /\ pc = "skip" /\ i < start_address
  /\ pc' = "failed"
  /\ UNCHANGED <<start_address, end_address, i, j, frame, remaining, have_time,
                 sample_number, calls, words, cut_short>>

\* Line 413, first time.
StartData ==
  /\ pc = "skip" /\ i >= start_address
  /\ pc' = "data"
  /\ UNCHANGED <<start_address, end_address, i, j, frame, remaining, have_time,
                 sample_number, calls, words, cut_short>>

\* Lines 413-417 and 419 with a frame given up at the end of the block.
ReadBlockAfresh ==
  /\ pc = "data" /\ j = BlockWords /\ i < end_address
  /\ i' = i + 1 /\ j' = 0 /\ frame' = <<>> /\ remaining' = 0
  /\ UNCHANGED <<start_address, end_address, have_time, sample_number, pc, calls,
                 words, cut_short>>
\* Lines 413-417 and 419.  An unfinished frame goes on in the next block.
ReadBlock ==
  /\ pc = "data" /\ j = BlockWords /\ i < end_address
  /\ i' = i + 1 /\ j' = 0
  /\ UNCHANGED <<start_address, end_address, frame, remaining, have_time,
                 sample_number, pc, calls, words, cut_short>>

\* Lines 414-416: a file that ends early is converted as far as it goes.
ReadBlockFails ==
  /\ pc = "data" /\ j = BlockWords /\ i < end_address
  /\ pc' = "done" /\ cut_short' = TRUE
  /\ UNCHANGED <<start_address, end_address, i, j, frame, remaining, have_time,
                 sample_number, calls, words>>

\* Line 413 with one block too few.
LastBlockMissed ==
  /\ pc = "data" /\ j = BlockWords /\ i + 1 >= end_address
  /\ pc' = "done"
  /\ UNCHANGED <<start_address, end_address, i, j, frame, remaining, have_time,
                 sample_number, calls, words, cut_short>>
\* Line 413, last time.
EndOfData ==
  /\ pc = "data" /\ j = BlockWords /\ i >= end_address
  /\ pc' = "done"
  /\ UNCHANGED <<start_address, end_address, i, j, frame, remaining, have_time,
                 sample_number, calls, words, cut_short>>

\* Lines 419-484: the next word of the block; a word that completes a frame
\* has it handled at once.
TakeWord(word) ==
  /\ pc = "data" /\ j < BlockWords
  /\ j' = j + 1
  /\ words' = Append(words, word)
  /\ LET f == IF remaining = 0 THEN <<word>> ELSE Append(frame, word)
         left == IF remaining = 0 THEN Following(word) ELSE remaining - 1
         complete == left = 0
         ends == complete /\ f[1] = END
     IN  /\ frame' = f /\ remaining' = left
         /\ calls' = IF complete THEN calls \o CallsOf(f, have_time) ELSE calls
         /\ have_time' = (have_time \/ (complete /\ f[1] = TIME))
         /\ sample_number' = IF complete /\ ~Odd(f[1]) /\ have_time
                             THEN sample_number + 1 ELSE sample_number
         /\ pc' = IF ends THEN "done" ELSE pc
         /\ cut_short' = (cut_short \/ ends)
  /\ UNCHANGED <<start_address, end_address, i>>

Over == pc \in {"done", "failed"} /\ UNCHANGED vars

\* ---- specification ------------------------------------------------------

\* Line 405: the two header blocks have been read.
Init ==
  /\ start_address \in Addresses /\ end_address \in Addresses
  /\ i = 2 /\ j = BlockWords
  /\ frame = <<>> /\ remaining = 0 /\ have_time = FALSE /\ sample_number = 0
  /\ pc = "skip" /\ calls = <<>> /\ words = <<>> /\ cut_short = FALSE

Next == \/ Skip \/ SkipFails \/ StartData
        \/ ReadBlock \/ ReadBlockFails \/ EndOfData
        \/ \E word \in Words : TakeWord(word)
        \/ Over

Spec == Init /\ [][Next]_vars

\* ---- properties ---------------------------------------------------------

\* The frames of a sequence of words by the file format, without blocks: the
\* calls they stand for up to the end frame or the last complete frame.
Decoded(ws) ==
  LET from[at \in (1 .. Len(ws) + 1) \X BOOLEAN] ==
        LET n == at[1]
            timed == at[2]
            last == n + (IF Odd(ws[n]) THEN 3 ELSE Channels - 1)
            f == SubSeq(ws, n, last)
        IN  IF n > Len(ws) \/ last > Len(ws) \/ f[1] = END THEN <<>>
            ELSE CallsOf(f, timed) \o from[<<last + 1, timed \/ f[1] = TIME>>]
  IN  from[<<1, FALSE>>]

\* Every frame is found where the format puts it and handled exactly once,
\* wherever the ends of the blocks fall; payload is never taken for a frame.
DecodesFrames == calls = Decoded(words)

\* A conversion that was not cut short by the end frame or the end of the file
\* has taken every word from the start address to the end address, and none
\* from elsewhere.
WholeDataTaken ==
  LET first == IF start_address > 2 THEN start_address ELSE 2
  IN  pc = "done" /\ ~cut_short =>
        Len(words) = IF end_address > first
                     THEN (end_address - first) * BlockWords ELSE 0

\* Until the first timestamp no sample is handed on, and afterwards every one
\* is counted: the debug file relates timestamps to this number.
SamplesCounted ==
  /\ sample_number = Cardinality({n \in 1 .. Len(calls) : calls[n].op = "sample"})
  /\ ~have_time => sample_number = 0

\* 6D6FileFormat.md: a lost samples indicator is the id, 6 bytes of time and
\* then "samples | 4 | Uint32 | The number of lost samples."
LostFieldValue(f) == ((f[3] % 65536) * 65536) + ((f[4] \div 65536) % 65536)
LostCountExact ==
  remaining = 0 /\ frame # <<>> /\ frame[1] = LOST =>
    calls[Len(calls)].arg = LostFieldValue(frame)

=============================================================================
