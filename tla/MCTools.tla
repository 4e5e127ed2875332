------------------------------- MODULE MCTools -------------------------------
(***************************************************************************)
(* Tools with values of the constants for TLC that a .cfg cannot write.    *)
(***************************************************************************)
EXTENDS Tools

\* A word that begins control frames and is no part of a time, one that begins
\* sample frames, and the first word of a timestamp.
SomeWords == {-1, 0, 1}

\* Back over 0, none, and on over the greatest time.
SomeOffsets == {-3, 0, 5}

=============================================================================
