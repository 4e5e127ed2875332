-------------------------------- MODULE Strip --------------------------------
(***************************************************************************)
(* The loop of src/6d6strip.c: a recording without its sample data.  Runs  *)
(* of sample frames are written as their number, timestamps as their time, *)
(* other control frames as their four words.  A varint stands for the      *)
(* number it encodes; zigzag_encode only makes negative words fit.  Each   *)
(* varint is a write of its own, and the program exits when one fails.     *)
(* Unlike 6d6mseed (Mseed), the loop goes on after an end frame.           *)
(***************************************************************************)
EXTENDS Integers, Sequences, SequencesExt

CONSTANTS Channels,    \* channel_count of the header
          BlockWords,  \* 32-bit words in a block, 128
          Words,       \* values of a word of the data
          Addresses    \* values of the address fields of the headers

StripAssumption ==
  /\ Channels \in Nat \ {0} /\ BlockWords \in Nat \ {0}
  /\ Words \subseteq Int /\ Addresses \subseteq Nat

VARIABLES
  start_address, end_address,  \* h_start.address, h_end.address
  i, j,           \* blocks read, words taken from the block
  frame,          \* words of the frame so far
  remaining,      \* words missing to the frame
  frame_counter,  \* sample frames not yet written
  output,         \* what was written, a tuple of varints for each entry
  pc,             \* "skip", "data", "done" or "failed"
  words           \* history: words of data taken

vars == <<start_address, end_address, i, j, frame, remaining, frame_counter,
          output, pc, words>>

Odd(word) == word % 2 = 1

\* Line 192, by the first three words.
IsTimeById(f) == f[1] = 1 /\ f[2] >= 0 /\ f[3] >= 0
\* Line 192: a timestamp that <<sec, usec>> tells completely.
IsTime(f) == f[1] = 1 /\ f[2] >= 0 /\ f[3] >= 0 /\ f[4] = 0

\* Lines 186-190 and 213-217: the sample frames counted so far are written.
Flushed == IF frame_counter > 0 THEN Append(output, <<0, frame_counter>>) ELSE output

\* Lines 192-202.
Entry(f) == IF IsTime(f) THEN <<1, f[2], f[3]>> ELSE <<2>> \o f

\* write_or_fail for each varint of the entries that are new.  What a failure
\* leaves is a beginning of them all, cut between two varints (one cut within
\* itself counts as missing): the C library collects what it is given, so that
\* entries from before the failure can be missing too.
Write(entries, next) ==
  \/ output' = entries /\ pc' = next
  \/ /\ entries # output
     /\ pc' = "failed"
     /\ \E k \in 1 .. Len(entries) : \E m \in 0 .. Len(entries[k]) - 1 :
          output' = SubSeq(entries, 1, k - 1)
                    \o (IF m = 0 THEN <<>> ELSE <<SubSeq(entries[k], 1, m)>>)

\* Lines 164-167; read_block exits when there is no block.
Skip ==
  /\ pc = "skip" /\ i < start_address
  /\ \/ i' = i + 1 /\ UNCHANGED pc
     \/ pc' = "failed" /\ UNCHANGED i
  /\ UNCHANGED <<start_address, end_address, j, frame, remaining, frame_counter,
                 output, words>>

StartData ==
  /\ pc = "skip" /\ i >= start_address
  /\ pc' = "data"
  /\ UNCHANGED <<start_address, end_address, i, j, frame, remaining, frame_counter,
                 output, words>>

\* Lines 169-173.
ReadBlock ==
  /\ pc = "data" /\ j = BlockWords /\ i < end_address
  /\ i' = i + 1 /\ j' = 0
  /\ UNCHANGED <<start_address, end_address, frame, remaining, frame_counter,
                 output, pc, words>>

\* Lines 175-206: the next word of the block, and what follows when it is the
\* last one of a frame.
TakeWord(word) ==
  /\ pc = "data" /\ j < BlockWords
  /\ j' = j + 1 /\ words' = Append(words, word)
  /\ frame' = IF remaining = 0 THEN <<word>> ELSE Append(frame, word)
  /\ remaining' = IF remaining > 0 THEN remaining - 1
                  ELSE IF Odd(word) THEN 3 ELSE Channels - 1
  /\ LET complete == remaining' = 0
         control == complete /\ Odd(frame'[1])
     IN  /\ Write(IF control THEN Append(Flushed, Entry(frame')) ELSE output, "data")
         /\ frame_counter' = IF control THEN 0
                             ELSE IF complete THEN frame_counter + 1 ELSE frame_counter
  /\ UNCHANGED <<start_address, end_address, i>>

\* Done without line 213.
FinishUnflushed ==
  /\ pc = "data" /\ j = BlockWords
  /\ pc' = "done" /\ frame_counter' = 0
  /\ UNCHANGED <<start_address, end_address, i, j, frame, remaining, output, words>>
\* Lines 169-171 and 212-217: the end address, or the end of the file.
Finish ==
  /\ pc = "data" /\ j = BlockWords
  /\ Write(Flushed, "done") /\ frame_counter' = 0
  /\ UNCHANGED <<start_address, end_address, i, j, frame, remaining, words>>

\* Lines 133-161: both headers are read and written, or the program exits.
Init ==
  /\ start_address \in Addresses /\ end_address \in Addresses
  /\ i = 2 /\ j = BlockWords /\ frame = <<>> /\ remaining = 0
  /\ frame_counter = 0 /\ output = <<>> /\ pc \in {"skip", "failed"} /\ words = <<>>

Next == Skip \/ StartData \/ ReadBlock \/ Finish \/ \E word \in Words : TakeWord(word)

\* ---- properties -----------------------------------------------------------

\* All varints of an entry are there.
Whole(e) == Len(e) = CASE e[1] = 0 -> 2 [] e[1] = 1 -> 3 [] e[1] = 2 -> 5

\* What the whole entries say was in the file: sample frames (without their
\* words) and control frames, in order.
Told(entries) ==
  LET from[n \in 1 .. Len(entries) + 1] ==
        IF n > Len(entries) THEN <<>>
        ELSE LET e == entries[n]
             IN  (CASE ~Whole(e) -> <<>>
                    [] Whole(e) /\ e[1] = 0 -> [k \in 1 .. e[2] |-> <<>>]
                    [] Whole(e) /\ e[1] = 1 -> <<<<1, e[2], e[3], 0>>>>
                    [] Whole(e) /\ e[1] = 2 -> <<Tail(e)>>) \o from[n + 1]
  IN  from[1]

\* The frames of a sequence of words by the file format, the same way.
Frames(ws) ==
  LET from[n \in 1 .. Len(ws) + 1] ==
        LET last == n + (IF Odd(ws[n]) THEN 3 ELSE Channels - 1)
        IN  IF n > Len(ws) \/ last > Len(ws) THEN <<>>
            ELSE <<IF Odd(ws[n]) THEN SubSeq(ws, n, last) ELSE <<>>>> \o from[last + 1]
  IN  from[1]

\* 6d6strip takes away the words of the samples and nothing else: which frames
\* there were, and where among the samples every control frame stood.  After a
\* failing write the output tells of the frames up to some point, and no entry
\* but the last one can be torn.
OnlySamplesStripped ==
  LET told == Told(output)
      frames == Frames(words)
  IN  /\ CASE pc = "done" -> told = frames
            [] pc = "failed" -> IsPrefix(told, frames)
            [] OTHER -> Told(Flushed) = frames
      /\ \A k \in 1 .. Len(output) :
           Whole(output[k]) \/ (pc = "failed" /\ k = Len(output))

=============================================================================
