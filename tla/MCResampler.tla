------------------------------ MODULE MCResampler ------------------------------
(***************************************************************************)
(* Resampler with a value of Reach for TLC that a .cfg cannot write.       *)
(***************************************************************************)
EXTENDS Resampler

\* A filter over one sample to either side, in quarters of a sample: at 4/5 it
\* reaches over 1.25 and at 2/3 over 1.5, which the code rounds to 1 and 2; then
\* one more is added.
ReachOfOne == <<2, 2, 2, 2, 2, 3>>

=============================================================================
