----------------------------- MODULE BlockStream -----------------------------
(***************************************************************************)
(* What blockreader.h promises a client, with no thread, lock or ring: a   *)
(* call of blockreader_get answers with the next block of the file, or     *)
(* with NULL once there is nothing more to give, and every call is         *)
(* answered.  When the file breaks, the blocks that were read before are   *)
(* still given.  Blocks are named by their byte offset in the file.        *)
(***************************************************************************)
EXTENDS Integers, Sequences

CONSTANTS StartOffset,  \* byte offset of the first block
          Blocksize,    \* bytes in a block
          Limit,        \* number of blocks there are, and are wanted
          NULL

VARIABLES delivered,    \* the blocks given so far, in the order given
          asked,        \* a call is waiting for its answer
          ended,        \* a call was answered with NULL
          readable      \* number of blocks that can be given

streamVars == <<delivered, asked, ended, readable>>

Init == delivered = <<>> /\ asked = FALSE /\ ended = FALSE /\ readable = Limit

Ask == ~asked /\ asked' = TRUE /\ UNCHANGED <<delivered, ended, readable>>

\* Reading fails before the last block: some blocks less can be given.
Break ==
  /\ readable' \in Len(delivered) .. Limit /\ readable = Limit
  /\ UNCHANGED <<delivered, asked, ended>>

\* The next block, while there is one and NULL was not answered before.
Deliver ==
  /\ asked /\ ~ended /\ Len(delivered) < readable
  /\ delivered' = Append(delivered, StartOffset + Len(delivered) * Blocksize)
  /\ asked' = FALSE
  /\ UNCHANGED <<ended, readable>>

\* NULL: after the last block that can be given, and ever after.
End ==
  /\ asked /\ Len(delivered) = readable
  /\ ended' = TRUE /\ asked' = FALSE
  /\ UNCHANGED <<delivered, readable>>

Next == Ask \/ Break \/ Deliver \/ End

Spec == Init /\ [][Next]_streamVars /\ WF_streamVars(Deliver \/ End)

=============================================================================
