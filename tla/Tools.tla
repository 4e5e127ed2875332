-------------------------------- MODULE Tools --------------------------------
(***************************************************************************)
(* The programs that turn one file into another, apart from 6d6read (see   *)
(* S2xRead): 6d6copy, 6d6strip, 6d6mseed up to the calls of its writers,   *)
(* and s2xshift.  A behaviour is one run of one of them.  They share what  *)
(* they have in common, and the variables of the others keep a value       *)
(* without a meaning.  The output of 6d6mseed is the calls.                *)
(***************************************************************************)
EXTENDS Integers, Sequences

CONSTANTS Channels, BlockWords, Addresses,   \* see Mseed and Strip
          StripWords, MseedWords,            \* Words of Strip, of Mseed
          BlockParts, ChunkParts, MaxParts,  \* see Copy
          EndAddresses,                      \* Addresses of Copy
          MaxPackets, Wrap, Offsets          \* see S2xShift

VARIABLES
  tool,                                \* the program that runs
  output, pc,                          \* of all of them
  end_address,                         \* of all but s2xshift
  start_address, i, j, frame, remaining, words,  \* of Mseed and Strip
  have_time, sample_number, cut_short, \* of Mseed
  frame_counter,                       \* of Strip
  size, headers, comment, taken,       \* of Copy
  inplace, offset, in, n, original     \* of S2xShift

frameVars == <<start_address, i, j, frame, remaining, words>>
mseedVars == <<have_time, sample_number, cut_short>>
copyVars == <<size, headers, comment, taken>>
shiftVars == <<inplace, offset, in, n, original>>

vars == <<tool, output, pc, end_address, frameVars, mseedVars, frame_counter,
          copyVars, shiftVars>>

Mseed == INSTANCE Mseed WITH Words <- MseedWords, calls <- output
Strip == INSTANCE Strip WITH Words <- StripWords
Copy == INSTANCE Copy WITH Addresses <- EndAddresses
Shift == INSTANCE S2xShift

ASSUME ToolsAssumption ==
  /\ Mseed!FileAssumption /\ Strip!StripAssumption
  /\ Copy!CopyAssumption /\ Shift!ShiftAssumption

NoFrames ==
  start_address = 0 /\ i = 0 /\ j = 0 /\ frame = <<>> /\ remaining = 0 /\ words = <<>>
NoMseed == have_time = FALSE /\ sample_number = 0 /\ cut_short = FALSE
NoStrip == frame_counter = 0
NoCopy == size = 0 /\ headers = {} /\ comment = "none" /\ taken = 0
NoShift == inplace = FALSE /\ offset = 0 /\ in = <<>> /\ n = 0 /\ original = <<>>

Init ==
  \/ tool = "6d6mseed" /\ Mseed!Init /\ NoStrip /\ NoCopy /\ NoShift
  \/ tool = "6d6strip" /\ Strip!Init /\ NoMseed /\ NoCopy /\ NoShift
  \/ tool = "6d6copy" /\ Copy!Init /\ NoFrames /\ NoMseed /\ NoStrip /\ NoShift
  \/ /\ tool = "s2xshift" /\ Shift!Init /\ end_address = 0
     /\ NoFrames /\ NoMseed /\ NoStrip /\ NoCopy

RunMseed ==
  /\ tool = "6d6mseed" /\ Mseed!Next
  /\ UNCHANGED <<tool, frame_counter, copyVars, shiftVars>>

RunStrip ==
  /\ tool = "6d6strip" /\ Strip!Next
  /\ UNCHANGED <<tool, mseedVars, copyVars, shiftVars>>

RunCopy ==
  /\ tool = "6d6copy" /\ Copy!Next
  /\ UNCHANGED <<tool, frameVars, mseedVars, frame_counter, shiftVars>>

RunShift ==
  /\ tool = "s2xshift" /\ Shift!Next
  /\ UNCHANGED <<tool, end_address, frameVars, mseedVars, frame_counter, copyVars>>

\* The program has ended.
Over == pc \in {"done", "failed"} /\ UNCHANGED vars

Next == RunMseed \/ RunStrip \/ RunCopy \/ RunShift \/ Over

Spec == Init /\ [][Next]_vars

\* ---- properties -----------------------------------------------------------

\* 6d6mseed (main, its loop over words) finds every frame where the format
\* puts it and handles it exactly once, wherever the ends of the blocks fall.
DecodesFrames == tool = "6d6mseed" => Mseed!DecodesFrames

\* 6d6mseed (main, its loops over blocks) takes all words between the two
\* addresses and no others, unless an end frame or the end of the file comes.
WholeDataTaken == tool = "6d6mseed" => Mseed!WholeDataTaken

\* 6d6mseed (main, the case of a sample frame) counts the samples it hands on,
\* and hands on none before the first timestamp.
SamplesCounted == tool = "6d6mseed" => Mseed!SamplesCounted

\* What 6d6strip (main, its loop) has written at any word tells exactly which
\* frames it read: no control frame and no count of samples is lost or moved.
OnlySamplesStripped == tool = "6d6strip" => Strip!OnlySamplesStripped

\* 6d6copy (main, from its first fread on) writes a beginning of the recording
\* that starts at the first or the second block, and succeeds only with all of
\* it up to the end address, whichever read or write fails.
CopyExact == tool = "6d6copy" => Copy!CopyExact

\* s2xshift (main) shifts every header and time packet once, in place as into
\* a new file, and a file in place that it fails on has a shifted beginning
\* and an untouched rest.
ShiftedOnce == tool = "s2xshift" => Shift!ShiftedOnce

=============================================================================
