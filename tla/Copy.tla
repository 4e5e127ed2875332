--------------------------------- MODULE Copy ---------------------------------
(***************************************************************************)
(* src/6d6copy.c: copies a recording, chunk by chunk, up to the end        *)
(* address of its second header; the headers are in the first two blocks   *)
(* of the file or in the two after the first.  --append-comment rewrites   *)
(* the first header.                                                       *)
(*                                                                         *)
(* A file is counted in parts, BlockParts to a block, so that it may end   *)
(* inside a block; part k holds the number k.  What a header says is its   *)
(* end address only; kum_6d6_header_read answers whether a block is one.   *)
(* Part k of a rewritten header is -k, and 0 is what the buffer held       *)
(* before.  A write fails when fwrite says so: what the C library still     *)
(* holds when main returns is taken to reach the file.                     *)
(***************************************************************************)
EXTENDS Integers, Sequences

CONSTANTS BlockParts,  \* parts of a block
          ChunkParts,  \* parts of the buffer, 256 blocks in the code
          MaxParts,    \* bound: parts of the input file
          Addresses    \* values of the address field, in blocks

CopyAssumption ==
  /\ BlockParts \in Nat \ {0} /\ MaxParts \in Nat /\ Addresses \subseteq Nat
  /\ ChunkParts \in Nat /\ ChunkParts >= 3 * BlockParts

VARIABLES
  size,         \* parts of the input file
  headers,      \* those of its first three blocks that are headers
  end_address,  \* end_header->address
  comment,      \* append_comment: "none", "fits" or "long"
  taken,        \* parts of the file read so far
  output,       \* the parts written
  pc            \* "open", "copy", "done" or "failed"

vars == <<size, headers, end_address, comment, taken, output, pc>>

Least(a, b) == IF a < b THEN a ELSE b

end == end_address * BlockParts
l == Least(size, ChunkParts)

\* Lines 106 and 108-110: a recording can begin at block b.
BeginsAt(b) == {b, b + 1} \subseteq headers /\ l >= (b + 2) * BlockParts
\* 0 unless only the second one has headers: lines 106-117.
Offset == IF BeginsAt(0) THEN 0 ELSE BlockParts

\* With l as it was read.
FirstPartsAll == Least(end, l)
\* Lines 111-112 and 136.
FirstParts == Least(end, l - Offset)

\* Lines 128-134 and 138: the beginning of the buffer with its header.
First ==
  [k \in 1 .. FirstParts |->
     CASE comment = "fits" /\ k <= BlockParts -> -k
       [] k + Offset > l -> 0
       [] OTHER -> k + Offset]

\* Writing a piece ends anywhere before its last part when it fails.
Write(piece, next) ==
  \E k \in 0 .. Len(piece) :
    /\ output' = output \o SubSeq(piece, 1, k)
    /\ pc' = IF k = Len(piece) THEN next ELSE "failed"

\* Lines 105-141.
Open ==
  /\ pc = "open" /\ taken' = l
  /\ IF (BeginsAt(0) \/ BeginsAt(1)) /\ comment # "long"
     THEN Write(First, "copy")
     ELSE pc' = "failed" /\ UNCHANGED output
  /\ UNCHANGED <<size, headers, end_address, comment>>

\* Line 150.
Chunk == Least(end - Len(output), ChunkParts)

\* Lines 149-155.
CopyChunk ==
  /\ pc = "copy" /\ Len(output) < end
  /\ taken' = Least(size, taken + Chunk)
  /\ IF taken + Chunk <= size
     THEN Write([k \in 1 .. Chunk |-> taken + k], "copy")
     ELSE pc' = "failed" /\ UNCHANGED output
  /\ UNCHANGED <<size, headers, end_address, comment>>

\* Line 149, last time, and the end of main.
Finish ==
  /\ pc = "copy" /\ Len(output) >= end
  /\ pc' = "done"
  /\ UNCHANGED <<size, headers, end_address, comment, taken, output>>

Init ==
  /\ size \in 0 .. MaxParts
  /\ headers \in SUBSET {b \in 0 .. 2 : (b + 1) * BlockParts <= size}
  /\ end_address \in Addresses /\ comment \in {"none", "fits", "long"}
  /\ taken = 0 /\ output = <<>> /\ pc = "open"

Next == Open \/ CopyChunk \/ Finish

\* ---- properties -----------------------------------------------------------

\* The parts of the recording, from its first header up to its end address,
\* with the comment in the first header.
Recording ==
  [k \in 1 .. end |->
     IF comment = "fits" /\ k <= BlockParts THEN -k
     ELSE k + (IF {0, 1} \subseteq headers THEN 0 ELSE BlockParts)]

\* 6d6copy writes a beginning of the recording, and has succeeded only with
\* all of it; a file that ends before the end address never counts as copied.
CopyExact ==
  /\ output = SubSeq(Recording, 1, Len(output))
  /\ pc = "done" => output = Recording

=============================================================================
