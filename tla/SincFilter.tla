------------------------------ MODULE SincFilter ------------------------------
(***************************************************************************)
(* The buffer of the filter in src/samplerate/src_sinc.c: the samples a    *)
(* mono converter has taken in, kept around the position it works at.      *)
(* A sample is a number, 0 is silence.  How far the filter reaches to      *)
(* either side of the position, half_filter_chan_len, is computed anew in  *)
(* every call; here it is the argument half.                               *)
(***************************************************************************)
EXTENDS Integers, Sequences

CONSTANTS BufferLength, \* b_len
          Pad           \* 5 in prepare_data: zeros put behind the last sample

ASSUME FilterAssumption == Pad \in Nat \ {0} /\ BufferLength \in Nat

Cells == 0 .. BufferLength - 1

\* The fields of SINC_FILTER that say what is in the buffer; b_real_end is -1
\* until the end of the input is in it.
Filter(buffer, b_current, b_end, b_real_end) ==
  [buffer |-> buffer, b_current |-> b_current, b_end |-> b_end,
   b_real_end |-> b_real_end]

\* sinc_reset.
Reset == Filter([i \in Cells |-> 0], 0, 0, -1)

\* Lines 358 and 364 of sinc_mono_vari_process.
InHand(f) == (f.b_end - f.b_current + BufferLength) % BufferLength

\* Moving what is ahead of the position without what is behind it.
MovedAhead(f, half) ==
  LET len == f.b_end - f.b_current
  IN  Filter([i \in Cells |-> IF i < len THEN f.buffer[f.b_current + i] ELSE f.buffer[i]],
             half, half + len, f.b_real_end)
\* Lines 1137-1144 and 1168-1175: the samples within reach go to the start of
\* the buffer; there must be as many as it reaches over.
Moved(f, half) ==
  LET len == f.b_end - f.b_current
  IN  Filter([i \in Cells |-> IF i < half + len THEN f.buffer[f.b_current - half + i]
                              ELSE f.buffer[i]],
             half, half + len, f.b_real_end)

\* With no regard to the reach.
AtBufferEnd(f, half) == f.b_end >= BufferLength
\* Line 1133: too little room is left behind the samples.
NearBufferEnd(f, half) == f.b_end + half + 1 >= BufferLength

\* Lines 1125-1144: where new samples go.
Placed(f, half) ==
  CASE f.b_current = 0 -> Filter(f.buffer, half, half, f.b_real_end)
    [] f.b_current # 0 /\ ~NearBufferEnd(f, half) -> f
    [] OTHER -> Moved(f, half)

\* Lines 1129, 1135 and 1147: how many samples may be put there.
Room(f, half) ==
  LET r == BufferLength - f.b_current - half IN IF r > 0 THEN r ELSE 0

\* Lines 1156-1159: samples s follow the ones in the buffer.
Loaded(f, s) ==
  Filter([i \in Cells |-> IF f.b_end <= i /\ i < f.b_end + Len(s) THEN s[i - f.b_end + 1]
                          ELSE f.buffer[i]],
         f.b_current, f.b_end + Len(s), f.b_real_end)

\* Lines 1162-1163: the samples in the buffer are the last ones.
IsLast(f, half) == f.b_end - f.b_current < 2 * half

\* Lines 1168-1185: the end of the input is in the buffer, zeros follow it.
Closed(f, half) ==
  LET g == IF BufferLength - f.b_end < half + Pad THEN Moved(f, half) ELSE f
      zeros == IF g.b_end + half + Pad > BufferLength
               THEN BufferLength - g.b_end ELSE half + Pad
  IN  Filter([i \in Cells |-> IF g.b_end <= i /\ i < g.b_end + zeros THEN 0
                              ELSE g.buffer[i]],
             g.b_current, g.b_end + zeros, g.b_end)

\* Lines 385-392 and 349: the position moves on by n samples.
Advanced(f, n) ==
  Filter(f.buffer, (f.b_current + n) % BufferLength, f.b_end, f.b_real_end)

=============================================================================
