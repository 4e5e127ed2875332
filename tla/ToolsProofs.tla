----------------------------- MODULE ToolsProofs -----------------------------
(***************************************************************************)
(* Proofs about Tools, for every size of blocks and chunks, every number   *)
(* of channels and all addresses and offsets.                              *)
(***************************************************************************)
EXTENDS Tools, SequenceLemmas, FiniteSetTheorems

\* No program becomes another one: what is shown for the steps of one program
\* holds in all behaviours.
LEMMA StepsOf ==
  ASSUME [Next]_vars
  PROVE  /\ UNCHANGED tool
         /\ tool = "6d6mseed" => Mseed!Next \/ UNCHANGED vars
         /\ tool = "6d6strip" => Strip!Next \/ UNCHANGED vars
         /\ tool = "6d6copy" => Copy!Next \/ UNCHANGED vars
         /\ tool = "s2xshift" => Shift!Next \/ UNCHANGED vars
BY DEF Next, RunMseed, RunStrip, RunCopy, RunShift, Over, vars

-----------------------------------------------------------------------------
\* 6d6mseed: how many words were taken

First == IF start_address > 2 THEN start_address ELSE 2

WordsInv ==
  /\ start_address \in Nat /\ end_address \in Nat /\ i \in Nat
  /\ j \in 0 .. BlockWords
  /\ words \in Seq(Int) /\ cut_short \in BOOLEAN
  /\ pc \in {"skip", "data", "done", "failed"}
  /\ pc = "skip" => i \in 2 .. First /\ j = BlockWords /\ words = <<>>
  /\ pc = "data" => /\ First <= i /\ (i = First \/ i <= end_address)
                    /\ Len(words) + BlockWords = (i - First) * BlockWords + j
  /\ pc = "done" /\ ~cut_short => Mseed!WholeDataTaken

LEMMA WordsInit == ASSUME tool = "6d6mseed", Init PROVE WordsInv
<1>1. /\ start_address \in Addresses /\ end_address \in Addresses
      /\ i = 2 /\ j = BlockWords /\ words = <<>> /\ pc = "skip" /\ cut_short = FALSE
  BY DEF Init, Mseed!Init
<1>2. Addresses \subseteq Nat /\ BlockWords \in Nat \ {0}
  BY ToolsAssumption DEF Mseed!FileAssumption
<1>3. start_address \in Nat /\ end_address \in Nat  BY <1>1, <1>2
<1>4. i \in 2 .. First  BY <1>1, <1>3 DEF First
<1>5. j \in 0 .. BlockWords /\ i \in Nat /\ words \in Seq(Int)  BY <1>1, <1>2
<1> QED  BY <1>1, <1>3, <1>4, <1>5 DEF WordsInv

LEMMA WordsStep == ASSUME WordsInv, Mseed!Next PROVE WordsInv'
<1>1. BlockWords \in Nat \ {0} /\ MseedWords \subseteq Int
  BY ToolsAssumption DEF Mseed!FileAssumption
<1>2. First \in Nat /\ First >= 2  BY DEF WordsInv, First
<1>3. CASE Mseed!Skip
  <2>1. /\ i' = i + 1 /\ pc = "skip" /\ i < start_address
        /\ UNCHANGED <<start_address, end_address, j, pc, words, cut_short>>
    BY <1>3 DEF Mseed!Skip
  <2>2. First' = First  BY <2>1 DEF First
  <2> QED  BY <1>1, <1>2, <2>1, <2>2 DEF WordsInv, First
<1>4. CASE Mseed!SkipFails
  <2>1. pc' = "failed"
        /\ UNCHANGED <<start_address, end_address, i, j, words, cut_short>>
    BY <1>4 DEF Mseed!SkipFails
  <2> QED  BY <2>1 DEF WordsInv
<1>5. CASE Mseed!StartData
  <2>1. /\ pc = "skip" /\ i >= start_address /\ pc' = "data"
        /\ UNCHANGED <<start_address, end_address, i, j, words, cut_short>>
    BY <1>5 DEF Mseed!StartData
  <2>2. First' = First  BY <2>1 DEF First
  <2>3. i = First /\ j = BlockWords /\ Len(words) = 0
    BY <2>1 DEF WordsInv, First
  <2> QED  BY <1>1, <1>2, <2>1, <2>2, <2>3 DEF WordsInv
<1>6. CASE Mseed!ReadBlock
  <2>1. /\ pc = "data" /\ j = BlockWords /\ i < end_address
        /\ i' = i + 1 /\ j' = 0
        /\ UNCHANGED <<start_address, end_address, pc, words, cut_short>>
    BY <1>6 DEF Mseed!ReadBlock
  <2>2. First' = First  BY <2>1 DEF First
  <2>3. Len(words) + BlockWords = (i' - First) * BlockWords + j'
    <3>1. Len(words) + BlockWords = (i - First) * BlockWords + BlockWords
      BY <2>1 DEF WordsInv
    <3>2. (i + 1 - First) * BlockWords = (i - First) * BlockWords + BlockWords
      BY <1>1, <1>2, <2>1 DEF WordsInv
    <3>3. Len(words) \in Nat /\ i \in Nat  BY DEF WordsInv
    <3> QED  BY <1>1, <1>2, <2>1, <3>1, <3>2, <3>3
  <2>4. First <= i' /\ i' <= end_address  BY <1>2, <2>1 DEF WordsInv
  <2> QED  BY <1>1, <2>1, <2>2, <2>3, <2>4 DEF WordsInv
<1>7. CASE Mseed!ReadBlockFails
  <2>1. /\ pc' = "done" /\ cut_short' = TRUE
        /\ UNCHANGED <<start_address, end_address, i, j, words>>
    BY <1>7 DEF Mseed!ReadBlockFails
  <2> QED  BY <2>1 DEF WordsInv
<1>8. CASE Mseed!EndOfData
  <2>1. /\ pc = "data" /\ j = BlockWords /\ i >= end_address /\ pc' = "done"
        /\ UNCHANGED <<start_address, end_address, i, j, words, cut_short>>
    BY <1>8 DEF Mseed!EndOfData
  <2>2. /\ First <= i /\ (i = First \/ i = end_address) /\ i \in Nat
        /\ Len(words) = (i - First) * BlockWords /\ end_address \in Nat
    <3>1. Len(words) \in Nat /\ i \in Nat /\ First <= i /\ (i - First) * BlockWords \in Int
      BY <1>1, <1>2, <2>1 DEF WordsInv
    <3>2. Len(words) + BlockWords = (i - First) * BlockWords + BlockWords
      BY <2>1 DEF WordsInv
    <3> QED  BY <1>1, <2>1, <3>1, <3>2 DEF WordsInv
  <2>3. Len(words) = IF end_address > First THEN (end_address - First) * BlockWords ELSE 0
    <3>1. CASE end_address > First
      <4>1. i = end_address  BY <1>2, <2>1, <2>2, <3>1
      <4> QED  BY <2>2, <3>1, <4>1
    <3>2. CASE ~(end_address > First)
      <4>1. i - First = 0  BY <1>2, <2>2, <3>2
      <4> QED  BY <1>1, <2>2, <3>2, <4>1
    <3> QED  BY <3>1, <3>2
  <2>4. Mseed!WholeDataTaken'
    BY <2>1, <2>3 DEF Mseed!WholeDataTaken, First
  <2> QED  BY <2>1, <2>4 DEF WordsInv
<1>9. ASSUME NEW word \in MseedWords, Mseed!TakeWord(word) PROVE WordsInv'
  <2>1. /\ pc = "data" /\ j < BlockWords /\ j' = j + 1
        /\ words' = Append(words, word)
        /\ UNCHANGED <<start_address, end_address, i>>
    BY <1>9 DEF Mseed!TakeWord
  <2>2. \/ pc' = pc /\ cut_short' = cut_short
        \/ pc' = "done" /\ cut_short' = TRUE
    <3> DEFINE f == IF remaining = 0 THEN <<word>> ELSE Append(frame, word)
               left == IF remaining = 0 THEN Mseed!Following(word) ELSE remaining - 1
               ends == left = 0 /\ f[1] = Mseed!END
    <3>1. pc' = (IF ends THEN "done" ELSE pc) /\ cut_short' = (cut_short \/ ends)
      BY <1>9 DEF Mseed!TakeWord
    <3> HIDE DEF ends
    <3> QED  BY <3>1 DEF WordsInv
  <2>3. words' \in Seq(Int) /\ Len(words') = Len(words) + 1
    BY <1>1, <2>1 DEF WordsInv
  <2>4. First' = First  BY <2>1 DEF First
  <2>5. Len(words') + BlockWords = (i' - First') * BlockWords + j'
    <3>1. Len(words) \in Nat /\ j \in Nat /\ (i - First) * BlockWords \in Int
      BY <1>1, <1>2 DEF WordsInv
    <3>2. Len(words) + BlockWords = (i - First) * BlockWords + j
      BY <2>1 DEF WordsInv
    <3>3. (i' - First') * BlockWords = (i - First) * BlockWords  BY <2>1, <2>4
    <3> HIDE DEF First
    <3> DEFINE m == (i - First) * BlockWords
    <3>4. Len(words) + BlockWords = m + j /\ m \in Int  BY <3>1, <3>2
    <3> HIDE DEF m
    <3>5. Len(words) + 1 + BlockWords = m + (j + 1)  BY <1>1, <3>1, <3>4
    <3> QED  BY <2>1, <2>3, <3>3, <3>5 DEF m
  <2>6. j' \in 0 .. BlockWords  BY <1>1, <2>1 DEF WordsInv
  <2>7. /\ start_address' \in Nat /\ end_address' \in Nat /\ i' \in Nat
        /\ First' <= i' /\ (i' = First' \/ i' <= end_address')
    BY <2>1, <2>4 DEF WordsInv
  <2>8. CASE pc' = pc /\ cut_short' = cut_short
    BY <2>1, <2>3, <2>5, <2>6, <2>7, <2>8 DEF WordsInv
  <2>9. CASE pc' = "done" /\ cut_short' = TRUE
    BY <2>3, <2>6, <2>7, <2>9 DEF WordsInv
  <2> QED  BY <2>2, <2>8, <2>9
<1>10. CASE Mseed!Over
  <2>1. UNCHANGED <<start_address, end_address, i, j, words, cut_short, pc>>
    BY <1>10 DEF Mseed!Over, Mseed!vars
  <2> QED  BY <2>1 DEF WordsInv, First, Mseed!WholeDataTaken
<1> QED  BY <1>3, <1>4, <1>5, <1>6, <1>7, <1>8, <1>9, <1>10 DEF Mseed!Next

\* 6d6mseed takes all words between the two addresses and no others, for all
\* addresses and sizes of blocks (6d6mseed.c, its loops over blocks).
THEOREM AllWords == Spec => []WholeDataTaken
<1> DEFINE Inv == tool = "6d6mseed" => WordsInv
<1>1. Init => Inv  BY WordsInit
<1>2. Inv /\ [Next]_vars => Inv'
  <2> SUFFICES ASSUME WordsInv, tool = "6d6mseed", [Next]_vars PROVE WordsInv'
    BY StepsOf
  <2>1. CASE Mseed!Next  BY <2>1, WordsStep
  <2>2. CASE UNCHANGED vars
    <3>1. UNCHANGED <<start_address, end_address, i, j, words, cut_short, pc>>
      BY <2>2 DEF vars, frameVars, mseedVars
    <3> QED  BY <3>1 DEF WordsInv, First, Mseed!WholeDataTaken
  <2> QED  BY <2>1, <2>2, StepsOf
<1>3. Inv => WholeDataTaken
  BY DEF WholeDataTaken, WordsInv, Mseed!WholeDataTaken
<1> QED  BY <1>1, <1>2, <1>3, PTL DEF Spec

-----------------------------------------------------------------------------
\* s2xshift: what is shifted and what is not

Timed == [type : {0, 2, 3, 4}, wellformed : BOOLEAN, value : 0 .. Wrap - 1]

ShiftAt(k) == IF k <= n THEN Shift!Moved(original[k]) ELSE original[k]

ShiftInv ==
  /\ inplace \in BOOLEAN /\ offset \in Offsets
  /\ original \in Seq(Timed) /\ n \in 0 .. Len(original)
  /\ inplace => /\ output = <<>>
                /\ in \in Seq(Timed) /\ Len(in) = Len(original)
                /\ \A k \in 1 .. Len(original) : in[k] = ShiftAt(k)
  /\ ~inplace => /\ in = original
                 /\ output \in Seq(Timed) /\ Len(output) = n
                 /\ \A k \in 1 .. n : output[k] = Shift!Moved(original[k])
  /\ pc \in {"run", "done", "failed"}
  /\ pc = "run" => \A k \in 1 .. n : original[k].type # Shift!TERMINATE
  /\ pc = "done" => n > 0 /\ original[n].type = Shift!TERMINATE
  /\ \A k \in 1 .. n - 1 : original[k].type # Shift!TERMINATE

\* The remainder of a time and an offset, by cases.
LEMMA Wrapped ==
  ASSUME NEW w \in Nat \ {0}, NEW x \in -w .. 2 * w - 1
  PROVE  x % w = IF x < 0 THEN (IF x = -w THEN 0 ELSE x + w)
                 ELSE IF x >= w THEN x - w ELSE x
OBVIOUS

\* C's addition moves a time by the clock.
LEMMA ShiftedIsMoved ==
  ASSUME NEW p \in Timed, offset \in Offsets
  PROVE  Shift!Shifted(p) = Shift!Moved(p) /\ Shift!Shifted(p) \in Timed
<1> DEFINE r == (p.value + offset) % Wrap
<1>1. /\ Wrap \in Nat \ {0} /\ offset \in -Wrap .. Wrap /\ p.value \in 0 .. Wrap - 1
      /\ p.value + offset \in -Wrap .. 2 * Wrap - 1
  BY ToolsAssumption DEF Shift!ShiftAssumption, Timed
<1>2. r \in 0 .. Wrap - 1 /\ \E turns \in -1 .. 1 : r + turns * Wrap = p.value + offset
  <2> DEFINE x == p.value + offset
  <2>1. x \in -Wrap .. 2 * Wrap - 1 /\ x \in Int  BY <1>1
  <2> HIDE DEF x
  <2>2. x % Wrap = IF x < 0 THEN (IF x = -Wrap THEN 0 ELSE x + Wrap)
                   ELSE IF x >= Wrap THEN x - Wrap ELSE x
    BY <1>1, <2>1, Wrapped
  <2>3. CASE x < 0
    <3>1. x % Wrap \in 0 .. Wrap - 1 /\ (x % Wrap) + (-1) * Wrap = x
      BY <1>1, <2>1, <2>2, <2>3
    <3> QED  BY <3>1 DEF x
  <2>4. CASE x >= Wrap
    <3>1. x % Wrap \in 0 .. Wrap - 1 /\ (x % Wrap) + 1 * Wrap = x
      BY <1>1, <2>1, <2>2, <2>4
    <3> QED  BY <3>1 DEF x
  <2>5. CASE 0 <= x /\ x < Wrap
    <3>1. x % Wrap \in 0 .. Wrap - 1 /\ (x % Wrap) + 0 * Wrap = x
      BY <1>1, <2>1, <2>2, <2>5
    <3> QED  BY <3>1 DEF x
  <2> QED  BY <1>1, <2>1, <2>3, <2>4, <2>5
<1>3. ASSUME NEW t \in 0 .. Wrap - 1,
             NEW turns \in -1 .. 1, t + turns * Wrap = p.value + offset
      PROVE  t = r
  <2>1. PICK u \in -1 .. 1 : r + u * Wrap = p.value + offset  BY <1>2
  <2>2. r \in 0 .. Wrap - 1  BY <1>2
  <2> HIDE DEF r
  <2>3. /\ turns * Wrap \in {-Wrap, 0, Wrap} /\ u * Wrap \in {-Wrap, 0, Wrap}
    BY <1>1, <1>3, <2>1
  <2> QED  BY <1>1, <1>3, <2>1, <2>2, <2>3
<1> HIDE DEF r
<1>4. (CHOOSE t \in 0 .. Wrap - 1 :
         \E turns \in -1 .. 1 : t + turns * Wrap = p.value + offset) = r
  BY <1>2, <1>3
<1>5. Shift!HasTime(p) <=> p.type \in {Shift!HEADER, Shift!TIME}
  BY DEF Shift!HasTime
<1>6. CASE Shift!HasTime(p)
  <2>1. Shift!Shifted(p) = [p EXCEPT !.value = r]
    BY <1>6 DEF Shift!Shifted, r
  <2>2. Shift!Moved(p) = [p EXCEPT !.value = r]
    BY <1>4, <1>5, <1>6 DEF Shift!Moved
  <2> QED  BY <1>2, <2>1, <2>2 DEF Timed
<1>7. CASE ~Shift!HasTime(p)
  BY <1>5, <1>7 DEF Shift!Shifted, Shift!Moved
<1> QED  BY <1>6, <1>7

LEMMA ShiftInit == ASSUME tool = "s2xshift", Init PROVE ShiftInv
<1>1. /\ inplace \in BOOLEAN /\ offset \in Offsets
      /\ in \in UNION {[1 .. k -> Shift!Packets] : k \in 0 .. MaxPackets}
      /\ output = <<>> /\ n = 0 /\ pc = "run" /\ original = in
  BY DEF Init, Shift!Init
<1>2. Wrap \in Nat \ {0} /\ MaxPackets \in Nat
  BY ToolsAssumption DEF Shift!ShiftAssumption
<1>3. Shift!Packets \subseteq Timed
  BY <1>2 DEF Shift!Packets, Timed, Shift!DATA, Shift!HEADER, Shift!TIME, Shift!TERMINATE
<1>4. in \in Seq(Timed)
  <2>1. PICK k \in 0 .. MaxPackets : in \in [1 .. k -> Shift!Packets]  BY <1>1
  <2>2. in \in [1 .. k -> Timed] /\ k \in Nat  BY <1>2, <1>3, <2>1
  <2> QED  BY <2>2
<1>5. n \in 0 .. Len(original) /\ output \in Seq(Timed) /\ Len(output) = 0
  BY <1>1, <1>4
<1>6. \A k \in 1 .. Len(original) : in[k] = ShiftAt(k)
  BY <1>1, <1>4 DEF ShiftAt
<1> QED  BY <1>1, <1>4, <1>5, <1>6 DEF ShiftInv

\* One packet, in place or into a new file.
LEMMA ShiftPacket == ASSUME ShiftInv, Shift!Packet PROVE ShiftInv'
<1> DEFINE p == in[n + 1]
<1>1. /\ pc = "run" /\ n < Len(in) /\ n' = n + 1
      /\ in' = IF inplace THEN [in EXCEPT ![n + 1] = Shift!Shifted(p)] ELSE in
      /\ output' = IF inplace THEN output ELSE Append(output, Shift!Shifted(p))
      /\ pc' = IF p.type = Shift!TERMINATE THEN "done" ELSE "run"
      /\ UNCHANGED <<inplace, offset, original>>
  BY DEF Shift!Packet
<1>2. /\ original \in Seq(Timed) /\ n \in Nat /\ Len(original) \in Nat
      /\ Len(in) = Len(original) /\ n + 1 \in 1 .. Len(original)
      /\ inplace \in BOOLEAN /\ offset \in Offsets
  BY <1>1 DEF ShiftInv
<1>3. p = original[n + 1] /\ p \in Timed
  <2>1. p = original[n + 1]  BY <1>2 DEF ShiftInv, ShiftAt
  <2> QED  BY <1>2, <2>1
<1>4. Shift!Shifted(p) = Shift!Moved(p) /\ Shift!Shifted(p) \in Timed
  BY <1>2, <1>3, ShiftedIsMoved
<1> HIDE DEF p
<1>5. \A k : (Shift!Moved(original[k]))' = Shift!Moved(original[k])
  BY <1>1 DEF Shift!Moved
<1>6. ASSUME inplace PROVE /\ in' \in Seq(Timed) /\ Len(in') = Len(original)
                           /\ \A k \in 1 .. Len(original) : in'[k] = ShiftAt(k)'
                           /\ output' = <<>>
  <2>1. /\ in \in Seq(Timed) /\ output' = <<>>
        /\ in' = [in EXCEPT ![n + 1] = Shift!Moved(p)]
        /\ \A k \in 1 .. Len(original) : in[k] = ShiftAt(k)
    BY <1>1, <1>4, <1>6 DEF ShiftInv
  <2>2. in' \in Seq(Timed) /\ Len(in') = Len(original)
    BY <1>2, <1>4, <2>1, ExceptSeq
  <2>3. ASSUME NEW k \in 1 .. Len(original) PROVE in'[k] = ShiftAt(k)'
    <3>1. ShiftAt(k)' = IF k <= n + 1 THEN Shift!Moved(original[k]) ELSE original[k]
      BY <1>1, <1>5 DEF ShiftAt
    <3>2. CASE k = n + 1
      BY <1>2, <1>3, <2>1, <3>1, <3>2
    <3>3. CASE k # n + 1
      <4>1. in'[k] = in[k]  BY <1>2, <2>1, <2>3, <3>3
      <4>2. in[k] = IF k <= n THEN Shift!Moved(original[k]) ELSE original[k]
        BY <2>1, <2>3 DEF ShiftAt
      <4>3. k <= n <=> k <= n + 1  BY <1>2, <2>3, <3>3
      <4> QED  BY <3>1, <4>1, <4>2, <4>3
    <3> QED  BY <3>2, <3>3
  <2> QED  BY <2>1, <2>2, <2>3
<1>7. ASSUME ~inplace
      PROVE  /\ in' = original /\ output' \in Seq(Timed) /\ Len(output') = n + 1
             /\ \A k \in 1 .. n + 1 : output'[k] = (Shift!Moved(original[k]))'
  <2>1. /\ in' = original /\ output' = Append(output, Shift!Moved(p))
        /\ output \in Seq(Timed) /\ Len(output) = n
        /\ \A k \in 1 .. n : output[k] = Shift!Moved(original[k])
    BY <1>1, <1>4, <1>7 DEF ShiftInv
  <2>2. /\ output' \in Seq(Timed) /\ Len(output') = n + 1
        /\ output'[n + 1] = Shift!Moved(p)
        /\ \A k \in 1 .. n : output'[k] = output[k]
    BY <1>4, <2>1, AppendProperties
  <2>3. ASSUME NEW k \in 1 .. n + 1 PROVE output'[k] = Shift!Moved(original[k])
    <3>1. CASE k = n + 1  BY <1>3, <2>2, <3>1
    <3>2. CASE k # n + 1
      <4>1. k \in 1 .. n  BY <1>2, <2>3, <3>2
      <4> QED  BY <2>1, <2>2, <4>1
    <3> QED  BY <3>1, <3>2
  <2> QED  BY <1>5, <2>1, <2>2, <2>3
<1>8. \A k \in 1 .. n : original[k].type # Shift!TERMINATE  BY <1>1 DEF ShiftInv
<1>9. /\ pc' \in {"run", "done", "failed"}
      /\ pc' = "run" => \A k \in 1 .. n + 1 : original[k].type # Shift!TERMINATE
      /\ pc' = "done" => n + 1 > 0 /\ original[n + 1].type = Shift!TERMINATE
      /\ \A k \in 1 .. n + 1 - 1 : original[k].type # Shift!TERMINATE
  <2>1. CASE p.type = Shift!TERMINATE  BY <1>1, <1>2, <1>3, <1>8, <2>1
  <2>2. CASE p.type # Shift!TERMINATE
    <3>1. ASSUME NEW k \in 1 .. n + 1 PROVE original[k].type # Shift!TERMINATE
      <4>1. CASE k = n + 1  BY <1>3, <2>2, <4>1
      <4>2. CASE k # n + 1
        <5>1. k \in 1 .. n  BY <1>2, <3>1, <4>2
        <5> QED  BY <1>8, <5>1
      <4> QED  BY <4>1, <4>2
    <3> QED  BY <1>1, <1>2, <1>8, <2>2, <3>1
  <2> QED  BY <2>1, <2>2
<1>10. Shift!TERMINATE' = Shift!TERMINATE  BY DEF Shift!TERMINATE
<1> QED  BY <1>1, <1>2, <1>6, <1>7, <1>9, <1>10 DEF ShiftInv

LEMMA ShiftStep == ASSUME ShiftInv, Shift!Next PROVE ShiftInv'
<1>1. CASE Shift!Packet  BY <1>1, ShiftPacket
<1>2. CASE Shift!Fail
  <2>1. pc' = "failed" /\ UNCHANGED <<inplace, offset, in, output, n, original>>
    BY <1>2 DEF Shift!Fail
  <2> QED  BY <2>1 DEF ShiftInv, ShiftAt, Shift!Moved, Shift!TERMINATE
<1> QED  BY <1>1, <1>2 DEF Shift!Next

LEMMA ShiftGives == ASSUME ShiftInv PROVE Shift!ShiftedOnce
<1> DEFINE moved == [k \in 1 .. n |-> Shift!Moved(original[k])]
           rest == SubSeq(original, n + 1, Len(original))
<1>1. /\ original \in Seq(Timed) /\ n \in Nat /\ Len(original) \in Nat
      /\ n <= Len(original) /\ offset \in Offsets
  BY DEF ShiftInv
<1>2. ASSUME NEW k \in 1 .. n PROVE Shift!Moved(original[k]) \in Timed
  <2>1. original[k] \in Timed  BY <1>1, <1>2
  <2> QED  BY <1>1, <2>1, ShiftedIsMoved
<1>3. moved \in Seq(Timed) /\ Len(moved) = n
      /\ \A k \in 1 .. n : moved[k] = Shift!Moved(original[k])
  BY <1>1, <1>2
<1>4. rest \in Seq(Timed) /\ Len(rest) = Len(original) - n
      /\ \A k \in 1 .. Len(original) - n : rest[k] = original[n + k]
  BY <1>1
<1> HIDE DEF moved, rest
<1>5. ASSUME inplace PROVE in = moved \o rest
  <2>1. /\ in \in Seq(Timed) /\ Len(in) = Len(original)
        /\ \A k \in 1 .. Len(original) : in[k] = ShiftAt(k)
    BY <1>5 DEF ShiftInv
  <2>2. moved \o rest \in Seq(Timed) /\ Len(moved \o rest) = Len(original)
    BY <1>1, <1>3, <1>4
  <2>3. ASSUME NEW k \in 1 .. Len(original) PROVE in[k] = (moved \o rest)[k]
    <3>1. CASE k <= n
      <4>1. (moved \o rest)[k] = moved[k] /\ k \in 1 .. n
        BY <1>1, <1>3, <1>4, <2>3, <3>1
      <4> QED  BY <1>3, <2>1, <2>3, <3>1, <4>1 DEF ShiftAt
    <3>2. CASE k > n
      <4>1. (moved \o rest)[k] = rest[k - n] /\ k - n \in 1 .. Len(original) - n
        BY <1>1, <1>3, <1>4, <2>3, <3>2
      <4>2. rest[k - n] = original[k]  BY <1>1, <1>4, <2>3, <4>1
      <4>3. ShiftAt(k) = original[k]  BY <1>1, <2>3, <3>2 DEF ShiftAt
      <4>4. in[k] = ShiftAt(k)  BY <2>1, <2>3
      <4> QED  BY <4>1, <4>2, <4>3, <4>4
    <3>3. k <= n \/ k > n  BY <1>1, <2>3
    <3> QED  BY <3>1, <3>2, <3>3
  <2> QED  BY <2>1, <2>2, <2>3, SeqEqual
<1>6. ASSUME ~inplace PROVE in = original /\ output = moved
  <2>1. /\ in = original /\ output \in Seq(Timed) /\ Len(output) = n
        /\ \A k \in 1 .. n : output[k] = Shift!Moved(original[k])
    BY <1>6 DEF ShiftInv
  <2> QED  BY <1>3, <2>1, SeqEqual
<1>7. inplace => output = <<>>  BY DEF ShiftInv
<1>8. /\ pc = "done" => original[n].type = Shift!TERMINATE
      /\ \A k \in 1 .. n - 1 : original[k].type # Shift!TERMINATE
  BY DEF ShiftInv
<1> QED  BY <1>5, <1>6, <1>7, <1>8 DEF Shift!ShiftedOnce, moved, rest

\* s2xshift shifts every header and time packet once, for all files, offsets
\* and places where it may fail (s2xshift.c, main).
THEOREM EachShiftedOnce == Spec => []ShiftedOnce
<1> DEFINE Inv == tool = "s2xshift" => ShiftInv
<1>1. Init => Inv  BY ShiftInit
<1>2. Inv /\ [Next]_vars => Inv'
  <2> SUFFICES ASSUME ShiftInv, tool = "s2xshift", [Next]_vars PROVE ShiftInv'
    BY StepsOf
  <2>1. CASE Shift!Next  BY <2>1, ShiftStep
  <2>2. CASE UNCHANGED vars
    <3>1. UNCHANGED <<inplace, offset, in, output, n, original, pc>>
      BY <2>2 DEF vars, shiftVars
    <3> QED  BY <3>1 DEF ShiftInv, ShiftAt, Shift!Moved, Shift!TERMINATE
  <2> QED  BY <2>1, <2>2, StepsOf
<1>3. Inv => ShiftedOnce  BY ShiftGives DEF ShiftedOnce
<1> QED  BY <1>1, <1>2, <1>3, PTL DEF Spec

-----------------------------------------------------------------------------
\* 6d6copy: what is written is the recording

\* Parts of the file in front of the recording.
Before == IF {0, 1} \subseteq headers THEN 0 ELSE BlockParts

CopyInv ==
  /\ size \in Nat /\ end_address \in Nat /\ taken \in Nat
  /\ headers \subseteq {b \in 0 .. 2 : (b + 1) * BlockParts <= size}
  /\ comment \in {"none", "fits", "long"}
  /\ pc \in {"open", "copy", "done", "failed"}
  /\ output \in Seq(Int) /\ Len(output) <= Copy!end
  /\ \A k \in 1 .. Len(output) : output[k] = Copy!Recording[k]
  /\ pc = "open" => output = <<>>
  /\ pc = "copy" /\ Len(output) < Copy!end =>
       BlockParts <= Len(output) /\ taken = Len(output) + Before
  /\ pc = "done" => Len(output) = Copy!end

LEMMA CopyTypes ==
  ASSUME CopyInv
  PROVE  /\ BlockParts \in Nat \ {0} /\ ChunkParts \in Nat /\ 3 * BlockParts <= ChunkParts
         /\ Copy!end \in Nat /\ Copy!l \in Nat /\ Before \in {0, BlockParts}
         /\ Copy!Recording \in Seq(Int) /\ Len(Copy!Recording) = Copy!end
         /\ \A k \in 1 .. Copy!end : Copy!Recording[k] =
              IF comment = "fits" /\ k <= BlockParts THEN -k ELSE k + Before
<1>1. /\ BlockParts \in Nat \ {0} /\ ChunkParts \in Nat /\ 3 * BlockParts <= ChunkParts
  BY ToolsAssumption DEF Copy!CopyAssumption
<1>2. size \in Nat /\ end_address \in Nat  BY DEF CopyInv
<1>3. Copy!end \in Nat  BY <1>1, <1>2 DEF Copy!end
<1>4. Copy!l \in Nat  BY <1>1, <1>2 DEF Copy!l, Copy!Least
<1>5. Before \in {0, BlockParts} /\ Before \in Nat  BY <1>1 DEF Before
<1> DEFINE r == [k \in 1 .. Copy!end |->
                   IF comment = "fits" /\ k <= BlockParts THEN -k ELSE k + Before]
<1>6. Copy!Recording = r  BY DEF Copy!Recording, Before
<1>7. \A k \in 1 .. Copy!end :
        (IF comment = "fits" /\ k <= BlockParts THEN -k ELSE k + Before) \in Int
  BY <1>5
<1>8. /\ r \in Seq(Int) /\ Len(r) = Copy!end
      /\ \A k \in 1 .. Copy!end : r[k] =
           IF comment = "fits" /\ k <= BlockParts THEN -k ELSE k + Before
  BY <1>3, <1>7
<1> QED  BY <1>1, <1>3, <1>4, <1>5, <1>6, <1>8

\* Writing a next piece of the recording, or only a part of the piece.
LEMMA Written ==
  ASSUME CopyInv, NEW piece \in Seq(Int), NEW next,
         Copy!Write(piece, next),
         UNCHANGED <<size, headers, end_address, comment>>,
         Len(output) + Len(piece) <= Copy!end,
         \A k \in 1 .. Len(piece) : piece[k] = Copy!Recording[Len(output) + k]
  PROVE  /\ output' \in Seq(Int) /\ Len(output') <= Copy!end
         /\ \A k \in 1 .. Len(output') : output'[k] = Copy!Recording[k]
         /\ \/ pc' = "failed"
            \/ pc' = next /\ Len(output') = Len(output) + Len(piece)
<1>1. PICK m \in 0 .. Len(piece) :
        /\ output' = output \o SubSeq(piece, 1, m)
        /\ pc' = IF m = Len(piece) THEN next ELSE "failed"
  BY DEF Copy!Write
<1> DEFINE s == SubSeq(piece, 1, m)
<1>2. s \in Seq(Int) /\ Len(s) = m /\ \A k \in 1 .. m : s[k] = piece[k]
  BY <1>1
<1> HIDE DEF s
<1>3. /\ output \in Seq(Int) /\ Len(output) \in Nat /\ Len(piece) \in Nat
      /\ m \in Nat /\ m <= Len(piece) /\ Copy!end \in Nat
      /\ \A k \in 1 .. Len(output) : output[k] = Copy!Recording[k]
  BY <1>1, CopyTypes DEF CopyInv
<1>4. output' = output \o s  BY <1>1 DEF s
<1>5. output' \in Seq(Int) /\ Len(output') = Len(output) + m
  <2>1. output \o s \in Seq(Int) /\ Len(output \o s) = Len(output) + Len(s)
    BY <1>2, <1>3, ConcatProperties
  <2> QED  BY <1>2, <1>4, <2>1
<1>6. ASSUME NEW k \in 1 .. Len(output') PROVE output'[k] = Copy!Recording[k]
  <2>1. CASE k <= Len(output)
    <3>1. output'[k] = output[k] /\ k \in 1 .. Len(output)
      BY <1>2, <1>3, <1>4, <1>5, <1>6, <2>1
    <3> QED  BY <1>3, <3>1
  <2>2. CASE k > Len(output)
    <3>1. k - Len(output) \in 1 .. m /\ k - Len(output) \in 1 .. Len(piece)
      BY <1>3, <1>5, <1>6, <2>2
    <3>2. output'[k] = s[k - Len(output)]  BY <1>2, <1>3, <1>4, <1>5, <1>6, <2>2
    <3>3. s[k - Len(output)] = Copy!Recording[Len(output) + (k - Len(output))]
      BY <1>2, <3>1
    <3>4. Len(output) + (k - Len(output)) = k  BY <1>3, <1>5, <1>6
    <3> QED  BY <3>2, <3>3, <3>4
  <2> QED  BY <1>3, <1>5, <1>6, <2>1, <2>2
<1>7. Len(output') <= Copy!end  BY <1>3, <1>5
<1>8. \/ pc' = "failed"
      \/ pc' = next /\ Len(output') = Len(output) + Len(piece)
  BY <1>1, <1>5
<1> QED  BY <1>5, <1>6, <1>7, <1>8

\* The first piece starts at the recording, with what was read of it.
LEMMA FirstIs ==
  ASSUME CopyInv, Copy!BeginsAt(0) \/ Copy!BeginsAt(1)
  PROVE  /\ Copy!Offset = Before /\ Copy!l >= 2 * BlockParts + Before
         /\ Copy!First \in Seq(Int) /\ Len(Copy!First) = Copy!Least(Copy!end, Copy!l - Before)
         /\ Len(Copy!First) <= Copy!end
         /\ comment # "long" =>
              \A k \in 1 .. Len(Copy!First) : Copy!First[k] = Copy!Recording[k]
<1>1. /\ BlockParts \in Nat \ {0} /\ ChunkParts \in Nat /\ 3 * BlockParts <= ChunkParts
      /\ Copy!end \in Nat /\ Copy!l \in Nat /\ Before \in {0, BlockParts}
      /\ \A k \in 1 .. Copy!end : Copy!Recording[k] =
              IF comment = "fits" /\ k <= BlockParts THEN -k ELSE k + Before
  BY CopyTypes
<1>2. size \in Nat /\ \A b \in headers : b \in 0 .. 2 /\ (b + 1) * BlockParts <= size
  BY DEF CopyInv
<1>3. {0, 1} \subseteq headers => Copy!l >= 2 * BlockParts
  <2> SUFFICES ASSUME {0, 1} \subseteq headers PROVE Copy!l >= 2 * BlockParts
    OBVIOUS
  <2>1. (1 + 1) * BlockParts <= size  BY <1>2
  <2> QED  BY <1>1, <1>2, <2>1 DEF Copy!l, Copy!Least
<1>4. Copy!BeginsAt(0) <=> {0, 1} \subseteq headers
  BY <1>1, <1>3 DEF Copy!BeginsAt
<1>5. Copy!Offset = Before  BY <1>4 DEF Copy!Offset, Before
<1>6. Copy!l >= 2 * BlockParts + Before
  <2>1. CASE {0, 1} \subseteq headers  BY <1>1, <1>3, <2>1 DEF Before
  <2>2. CASE ~({0, 1} \subseteq headers)
    <3>1. Copy!l >= (1 + 2) * BlockParts  BY <1>4, <2>2 DEF Copy!BeginsAt
    <3> QED  BY <1>1, <3>1, <2>2 DEF Before
  <2> QED  BY <2>1, <2>2
<1> DEFINE parts == Copy!Least(Copy!end, Copy!l - Before)
<1>7. parts \in Nat /\ parts <= Copy!end /\ parts <= Copy!l - Before
  BY <1>1, <1>6 DEF Copy!Least
<1> HIDE DEF parts
<1>8. Copy!First = [k \in 1 .. parts |->
                      CASE comment = "fits" /\ k <= BlockParts -> -k
                        [] k + Before > Copy!l -> 0
                        [] OTHER -> k + Before]
  BY <1>5 DEF Copy!First, Copy!FirstParts, parts
<1>9. ASSUME NEW k \in 1 .. parts
      PROVE  (CASE comment = "fits" /\ k <= BlockParts -> -k
                [] k + Before > Copy!l -> 0
                [] OTHER -> k + Before)
             = IF comment = "fits" /\ k <= BlockParts THEN -k ELSE k + Before
  <2>1. ~(k + Before > Copy!l)  BY <1>1, <1>7, <1>9
  <2> QED  BY <2>1
<1> DEFINE f == [k \in 1 .. parts |->
                   IF comment = "fits" /\ k <= BlockParts THEN -k ELSE k + Before]
<1>10. Copy!First = f  BY <1>8, <1>9
<1>11. \A k \in 1 .. parts :
         (IF comment = "fits" /\ k <= BlockParts THEN -k ELSE k + Before) \in Int
  BY <1>1
<1>12. /\ f \in Seq(Int) /\ Len(f) = parts
       /\ \A k \in 1 .. parts :
            f[k] = IF comment = "fits" /\ k <= BlockParts THEN -k ELSE k + Before
  BY <1>7, <1>11
<1> HIDE DEF f
<1>13. \A k \in 1 .. parts : f[k] = Copy!Recording[k]
  <2> TAKE k \in 1 .. parts
  <2>1. k \in 1 .. Copy!end  BY <1>1, <1>7
  <2> QED  BY <1>1, <1>12, <2>1
<1> QED  BY <1>5, <1>6, <1>7, <1>10, <1>12, <1>13 DEF parts

LEMMA CopyOpen == ASSUME CopyInv, Copy!Open PROVE CopyInv'
<1>1. /\ pc = "open" /\ taken' = Copy!l
      /\ UNCHANGED <<size, headers, end_address, comment>>
  BY DEF Copy!Open
<1>2. Copy!end' = Copy!end /\ Before' = Before /\ Copy!Recording' = Copy!Recording
  BY <1>1 DEF Copy!end, Before, Copy!Recording
<1>3. output = <<>> /\ Len(output) = 0 /\ Copy!end \in Nat /\ Copy!l \in Nat
      /\ Before \in Nat /\ BlockParts \in Nat
  BY <1>1, CopyTypes DEF CopyInv
<1>4. CASE (Copy!BeginsAt(0) \/ Copy!BeginsAt(1)) /\ comment # "long"
  <2>1. Copy!Write(Copy!First, "copy")  BY <1>4 DEF Copy!Open
  <2>2. /\ Copy!First \in Seq(Int) /\ Len(Copy!First) \in Nat
        /\ Copy!l >= 2 * BlockParts + Before
        /\ Len(Copy!First) = Copy!Least(Copy!end, Copy!l - Before)
        /\ Len(Copy!First) <= Copy!end
        /\ \A k \in 1 .. Len(Copy!First) : Copy!First[k] = Copy!Recording[k]
    BY <1>4, FirstIs
  <2>3. \A k \in 1 .. Len(Copy!First) :
          Copy!First[k] = Copy!Recording[Len(output) + k]
    BY <1>3, <2>2
  <2>4. Len(output) + Len(Copy!First) <= Copy!end  BY <1>3, <2>2
  <2>5. /\ output' \in Seq(Int) /\ Len(output') <= Copy!end
        /\ \A k \in 1 .. Len(output') : output'[k] = Copy!Recording[k]
        /\ \/ pc' = "failed"
           \/ pc' = "copy" /\ Len(output') = Len(output) + Len(Copy!First)
    BY <1>1, <2>1, <2>2, <2>3, <2>4, Written
  <2>6. ASSUME pc' = "copy", Len(output') < Copy!end
        PROVE  BlockParts <= Len(output') /\ taken' = Len(output') + Before
    <3>1. Len(output') = Len(Copy!First)  BY <1>3, <2>2, <2>5, <2>6
    <3>2. Len(output') = Copy!l - Before
      BY <1>3, <2>2, <2>6, <3>1 DEF Copy!Least
    <3> QED  BY <1>1, <1>3, <2>2, <3>2
  <2> QED  BY <1>1, <1>2, <1>3, <2>5, <2>6 DEF CopyInv
<1>5. CASE ~((Copy!BeginsAt(0) \/ Copy!BeginsAt(1)) /\ comment # "long")
  <2>1. pc' = "failed" /\ output' = output  BY <1>5 DEF Copy!Open
  <2> QED  BY <1>1, <1>2, <1>3, <2>1 DEF CopyInv
<1> QED  BY <1>4, <1>5

LEMMA CopyGoesOn == ASSUME CopyInv, Copy!CopyChunk PROVE CopyInv'
<1>1. /\ pc = "copy" /\ Len(output) < Copy!end
      /\ taken' = Copy!Least(size, taken + Copy!Chunk)
      /\ UNCHANGED <<size, headers, end_address, comment>>
  BY DEF Copy!CopyChunk
<1>2. Copy!end' = Copy!end /\ Before' = Before /\ Copy!Recording' = Copy!Recording
  BY <1>1 DEF Copy!end, Before, Copy!Recording
<1>3. /\ Copy!end \in Nat /\ Before \in Nat /\ BlockParts \in Nat /\ ChunkParts \in Nat
      /\ \A k \in 1 .. Copy!end : Copy!Recording[k] =
           IF comment = "fits" /\ k <= BlockParts THEN -k ELSE k + Before
  BY CopyTypes
<1>4. /\ size \in Nat /\ taken \in Nat /\ output \in Seq(Int) /\ Len(output) \in Nat
      /\ BlockParts <= Len(output) /\ taken = Len(output) + Before
  BY <1>1 DEF CopyInv
<1> DEFINE c == Copy!Chunk
<1>5. c \in Nat /\ Len(output) + c <= Copy!end
  BY <1>1, <1>3, <1>4 DEF Copy!Chunk, Copy!Least
<1> HIDE DEF c
<1>6. taken' = (IF size < taken + c THEN size ELSE taken + c)
  BY <1>1 DEF Copy!Least, c
<1>7. CASE taken + c <= size
  <2> DEFINE piece == [k \in 1 .. c |-> taken + k]
  <2>1. Copy!Write(piece, "copy")  BY <1>7 DEF Copy!CopyChunk, c
  <2>2. piece \in Seq(Int) /\ Len(piece) = c /\ \A k \in 1 .. c : piece[k] = taken + k
    BY <1>4, <1>5
  <2> HIDE DEF piece
  <2>3. ASSUME NEW k \in 1 .. Len(piece)
        PROVE  piece[k] = Copy!Recording[Len(output) + k]
    <3>1. Len(output) + k \in 1 .. Copy!end /\ ~(Len(output) + k <= BlockParts)
      BY <1>3, <1>4, <1>5, <2>2, <2>3
    <3>2. Copy!Recording[Len(output) + k] = Len(output) + k + Before  BY <1>3, <3>1
    <3> QED  BY <1>3, <1>4, <1>5, <2>2, <2>3, <3>2
  <2>4. Len(output) + Len(piece) <= Copy!end  BY <1>5, <2>2
  <2>5. /\ output' \in Seq(Int) /\ Len(output') <= Copy!end
        /\ \A k \in 1 .. Len(output') : output'[k] = Copy!Recording[k]
        /\ \/ pc' = "failed"
           \/ pc' = "copy" /\ Len(output') = Len(output) + Len(piece)
    BY <1>1, <2>1, <2>2, <2>3, <2>4, Written
  <2>6. taken' \in Nat /\ taken' = taken + c  BY <1>4, <1>5, <1>6, <1>7
  <2>7. ASSUME pc' = "copy"
        PROVE  BlockParts <= Len(output') /\ taken' = Len(output') + Before
    <3>1. Len(output') = Len(output) + c  BY <2>2, <2>5, <2>7
    <3> QED  BY <1>3, <1>4, <1>5, <2>6, <3>1
  <2> QED  BY <1>1, <1>2, <2>5, <2>6, <2>7 DEF CopyInv
<1>8. CASE ~(taken + c <= size)
  <2>1. pc' = "failed" /\ output' = output  BY <1>8 DEF Copy!CopyChunk, c
  <2>2. taken' \in Nat  BY <1>4, <1>5, <1>6
  <2> QED  BY <1>1, <1>2, <2>1, <2>2 DEF CopyInv
<1> QED  BY <1>7, <1>8

LEMMA CopyStep == ASSUME CopyInv, Copy!Next PROVE CopyInv'
<1>1. CASE Copy!Finish
  <2>1. /\ pc = "copy" /\ Len(output) >= Copy!end /\ pc' = "done"
        /\ UNCHANGED <<size, headers, end_address, comment, taken, output>>
    BY <1>1 DEF Copy!Finish
  <2>2. Copy!end' = Copy!end /\ Before' = Before /\ Copy!Recording' = Copy!Recording
    BY <2>1 DEF Copy!end, Before, Copy!Recording
  <2>3. Len(output) = Copy!end
    <3>1. Len(output) \in Nat /\ Len(output) <= Copy!end /\ Copy!end \in Nat
      BY CopyTypes DEF CopyInv
    <3> QED  BY <2>1, <3>1
  <2> QED  BY <2>1, <2>2, <2>3 DEF CopyInv
<1> QED  BY <1>1, CopyOpen, CopyGoesOn DEF Copy!Next

LEMMA CopyInit == ASSUME tool = "6d6copy", Init PROVE CopyInv
<1>1. Copy!Init  BY DEF Init
<1>2. /\ MaxParts \in Nat /\ BlockParts \in Nat /\ EndAddresses \subseteq Nat
  BY ToolsAssumption DEF Copy!CopyAssumption
<1>3. size \in Nat /\ end_address \in Nat  BY <1>1, <1>2 DEF Copy!Init
<1>4. Copy!end \in Nat  BY <1>2, <1>3 DEF Copy!end
<1>5. output \in Seq(Int) /\ Len(output) = 0 /\ output = <<>>  BY <1>1 DEF Copy!Init
<1> QED  BY <1>1, <1>3, <1>4, <1>5 DEF CopyInv, Copy!Init

LEMMA CopyGives == ASSUME CopyInv PROVE Copy!CopyExact
<1>1. /\ Copy!Recording \in Seq(Int) /\ Len(Copy!Recording) = Copy!end
      /\ Copy!end \in Nat
  BY CopyTypes
<1>2. /\ output \in Seq(Int) /\ Len(output) \in Nat /\ Len(output) <= Copy!end
      /\ \A k \in 1 .. Len(output) : output[k] = Copy!Recording[k]
  BY DEF CopyInv
<1> DEFINE s == SubSeq(Copy!Recording, 1, Len(output))
<1>3. s \in Seq(Int) /\ Len(s) = Len(output)
      /\ \A k \in 1 .. Len(output) : s[k] = Copy!Recording[k]
  BY <1>1, <1>2
<1> HIDE DEF s
<1>4. output = s  BY <1>2, <1>3, SeqEqual
<1>5. pc = "done" => output = Copy!Recording
  <2> SUFFICES ASSUME pc = "done" PROVE output = Copy!Recording  OBVIOUS
  <2>1. Len(output) = Copy!end  BY DEF CopyInv
  <2> QED  BY <1>1, <1>2, <2>1, SeqEqual
<1> QED  BY <1>4, <1>5 DEF Copy!CopyExact, s

\* 6d6copy writes a beginning of the recording and succeeds only with all of
\* it, for all files and sizes of blocks and chunks (6d6copy.c, main).
THEOREM CopiedExactly == Spec => []CopyExact
<1> DEFINE Inv == tool = "6d6copy" => CopyInv
<1>1. Init => Inv  BY CopyInit
<1>2. Inv /\ [Next]_vars => Inv'
  <2> SUFFICES ASSUME CopyInv, tool = "6d6copy", [Next]_vars PROVE CopyInv'
    BY StepsOf
  <2>1. CASE Copy!Next  BY <2>1, CopyStep
  <2>2. CASE UNCHANGED vars
    <3>1. UNCHANGED <<size, headers, end_address, comment, taken, output, pc>>
      BY <2>2 DEF vars, copyVars
    <3>2. Copy!end' = Copy!end /\ Before' = Before /\ Copy!Recording' = Copy!Recording
      BY <3>1 DEF Copy!end, Before, Copy!Recording
    <3> QED  BY <3>1, <3>2 DEF CopyInv
  <2> QED  BY <2>1, <2>2, StepsOf
<1>3. Inv => CopyExact  BY CopyGives DEF CopyExact
<1> QED  BY <1>1, <1>2, <1>3, PTL DEF Spec

-----------------------------------------------------------------------------
\* 6d6mseed: the frames of the data

Call == [op : {"time", "lost", "sample"}, arg : (Int \X Int) \cup Int \cup Seq(Int)]

\* The last word of the frame that begins with word k.
LastOf(ws, k) == k + (IF ws[k] % 2 = 1 THEN 3 ELSE Channels - 1)
\* No frame is decoded from word k on.
NoFrame(ws, k) == k > Len(ws) \/ LastOf(ws, k) > Len(ws) \/ ws[k] = Mseed!END
\* Places in the data: a word, and whether a timestamp was seen before it.
Places(ws) == (1 .. Len(ws) + 1) \X BOOLEAN
CallsFrom(ws) ==
  CHOOSE from : from = [at \in Places(ws) |->
    IF at[1] > Len(ws) \/ LastOf(ws, at[1]) > Len(ws)
         \/ SubSeq(ws, at[1], LastOf(ws, at[1]))[1] = Mseed!END THEN <<>>
    ELSE Mseed!CallsOf(SubSeq(ws, at[1], LastOf(ws, at[1])), at[2])
           \o from[<<LastOf(ws, at[1]) + 1,
                    at[2] \/ SubSeq(ws, at[1], LastOf(ws, at[1]))[1] = Mseed!TIME>>]]

LEMMA DecodedIs == \A ws : Mseed!Decoded(ws) = CallsFrom(ws)[<<1, FALSE>>]
BY DEF Mseed!Decoded, CallsFrom, LastOf, Places, Mseed!Odd

LEMMA ChannelsNat == Channels \in Nat /\ Channels >= 1
BY ToolsAssumption DEF Mseed!FileAssumption

LEMMA FrameAt ==
  ASSUME NEW ws \in Seq(Int), NEW k \in Nat, k \in 1 .. Len(ws), LastOf(ws, k) <= Len(ws)
  PROVE  /\ SubSeq(ws, k, LastOf(ws, k)) \in Seq(Int)
         /\ Len(SubSeq(ws, k, LastOf(ws, k))) >= 1
         /\ SubSeq(ws, k, LastOf(ws, k))[1] = ws[k]
         /\ ws[k] % 2 = 1 => Len(SubSeq(ws, k, LastOf(ws, k))) = 4
         /\ ws[k] % 2 # 1 => Len(SubSeq(ws, k, LastOf(ws, k))) = Channels
         /\ LastOf(ws, k) \in Nat /\ k <= LastOf(ws, k)
<1>1. Len(ws) \in Nat /\ ws[k] \in Int  BY ElementOfSeq, LenProperties
<1>2. PICK e \in Nat : e = LastOf(ws, k)
  <2>1. LastOf(ws, k) \in Nat  BY <1>1, ChannelsNat DEF LastOf
  <2> QED  BY <2>1
<1>3. /\ k <= e /\ e <= Len(ws)
      /\ ws[k] % 2 = 1 => e - k + 1 = 4
      /\ ws[k] % 2 # 1 => e - k + 1 = Channels
  BY <1>1, <1>2, ChannelsNat DEF LastOf
<1>4. \A m \in k .. e : ws[m] \in Int  BY <1>1, <1>3, ElementOfSeq
<1>5. /\ SubSeq(ws, k, e) \in Seq(Int) /\ Len(SubSeq(ws, k, e)) = e - k + 1
      /\ SubSeq(ws, k, e)[1] = ws[k]
  <2>1. /\ SubSeq(ws, k, e) \in Seq(Int)
        /\ Len(SubSeq(ws, k, e)) = IF k <= e THEN e - k + 1 ELSE 0
        /\ \A m \in 1 .. e - k + 1 : SubSeq(ws, k, e)[m] = ws[k + m - 1]
    BY <1>4, SubSeqProperties, SMTT(30)
  <2>2. 1 \in 1 .. e - k + 1 /\ k + 1 - 1 = k  BY <1>3
  <2> QED  BY <1>3, <2>1, <2>2
<1> QED  BY <1>2, <1>3, <1>5

LEMMA CallsTyped ==
  ASSUME NEW f \in Seq(Int), Len(f) >= 1, f[1] % 2 = 1 => Len(f) = 4, NEW t \in BOOLEAN
  PROVE  Mseed!CallsOf(f, t) \in Seq(Call)
<1>1. f[1] \in Int /\ Mseed!TIME = 1 /\ Mseed!LOST = 7
  <2>1. Len(f) \in Nat  BY LenProperties
  <2>2. 1 \in 1 .. Len(f)  BY <2>1
  <2> QED  BY <2>2, ElementOfSeq DEF Mseed!TIME, Mseed!LOST
<1>2. CASE f[1] = 1
  <2>1. f[2] \in Int /\ f[3] \in Int
    <3>1. Len(f) = 4  BY <1>2
    <3>2. 2 \in 1 .. Len(f) /\ 3 \in 1 .. Len(f)  BY <3>1
    <3> QED  BY <3>2, ElementOfSeq
  <2>2. [op |-> "time", arg |-> <<f[2], f[3]>>] \in Call  BY <2>1 DEF Call
  <2>3. Mseed!CallsOf(f, t) = <<[op |-> "time", arg |-> <<f[2], f[3]>>]>>
    BY <1>1, <1>2 DEF Mseed!CallsOf, Mseed!Odd
  <2> QED  BY <2>2, <2>3
<1>3. CASE f[1] = 7
  <2>1. f[4] \in Int
    <3>1. Len(f) = 4  BY <1>3
    <3> QED  BY <3>1, ElementOfSeq, SMTT(30)
  <2>2. Mseed!LostCount(f) \in Int  BY <2>1 DEF Mseed!LostCount
  <2>3. [op |-> "lost", arg |-> Mseed!LostCount(f)] \in Call  BY <2>2 DEF Call
  <2>4. Mseed!CallsOf(f, t) = <<[op |-> "lost", arg |-> Mseed!LostCount(f)]>>
    BY <1>1, <1>3 DEF Mseed!CallsOf, Mseed!Odd
  <2> QED  BY <2>3, <2>4
<1>4. CASE f[1] # 1 /\ f[1] # 7 /\ ~Mseed!Odd(f[1]) /\ t
  <2>1. [op |-> "sample", arg |-> f] \in Call  BY DEF Call
  <2>2. Mseed!CallsOf(f, t) = <<[op |-> "sample", arg |-> f]>>
    BY <1>1, <1>4 DEF Mseed!CallsOf
  <2> QED  BY <2>1, <2>2
<1>5. CASE f[1] # 1 /\ f[1] # 7 /\ ~(~Mseed!Odd(f[1]) /\ t)
  <2>1. Mseed!CallsOf(f, t) = <<>>  BY <1>1, <1>5 DEF Mseed!CallsOf
  <2> QED  BY <2>1, EmptySeq
<1> QED  BY <1>2, <1>3, <1>4, <1>5

\* The calls from a place on: those of its frame, then those from the next.
LEMMA CallsUnfold ==
  ASSUME NEW ws \in Seq(Int), NEW k \in 1 .. Len(ws) + 1, NEW t \in BOOLEAN
  PROVE  /\ CallsFrom(ws)[<<k, t>>] \in Seq(Call)
         /\ NoFrame(ws, k) => CallsFrom(ws)[<<k, t>>] = <<>>
         /\ ~NoFrame(ws, k) =>
              CallsFrom(ws)[<<k, t>>] =
                Mseed!CallsOf(SubSeq(ws, k, LastOf(ws, k)), t)
                  \o CallsFrom(ws)[<<LastOf(ws, k) + 1, t \/ ws[k] = Mseed!TIME>>]
<1> DEFINE X == Places(ws)
           Stop(at) == \/ at[1] > Len(ws) \/ LastOf(ws, at[1]) > Len(ws)
                       \/ SubSeq(ws, at[1], LastOf(ws, at[1]))[1] = Mseed!END
           Head_(at) == Mseed!CallsOf(SubSeq(ws, at[1], LastOf(ws, at[1])), at[2])
           Next_(at) == <<LastOf(ws, at[1]) + 1,
                         at[2] \/ SubSeq(ws, at[1], LastOf(ws, at[1]))[1] = Mseed!TIME>>
           stop == {at \in X : Stop(at)}
           head == [at \in X |-> Head_(at)]
           next == [at \in X |-> Next_(at)]
           m == [at \in X |-> Len(ws) + 1 - at[1]]
           Body(from) == [at \in X |-> IF Stop(at) THEN <<>> ELSE Head_(at) \o from[Next_(at)]]
<1>1. Len(ws) \in Nat  BY LenProperties
<1>2. \A at \in X : m[at] \in 0 .. Len(ws)
  BY <1>1 DEF Places
<1>3. ASSUME NEW at \in X \ stop
      PROVE  head[at] \in Seq(Call) /\ next[at] \in X /\ m[next[at]] < m[at]
  <2>1. PICK n1 \in 1 .. Len(ws) + 1, b \in BOOLEAN : at = <<n1, b>>
    BY DEF Places
  <2>2. at[1] = n1 /\ at[2] = b  BY <2>1
  <2>3. n1 \in Nat /\ n1 \in 1 .. Len(ws) /\ LastOf(ws, n1) <= Len(ws)
    <3>1. ~(n1 > Len(ws)) /\ ~(LastOf(ws, n1) > Len(ws))  BY <1>3, <2>2
    <3>2. n1 \in 1 .. Len(ws)  BY <1>1, <3>1
    <3>3. LastOf(ws, n1) \in Int
      <4>1. ws[n1] \in Int  BY <3>2, ElementOfSeq
      <4> QED  BY <4>1, ChannelsNat DEF LastOf
    <3> QED  BY <1>1, <3>1, <3>2, <3>3
  <2>4. PICK f : f = SubSeq(ws, n1, LastOf(ws, n1))  OBVIOUS
  <2>5. PICK e \in Nat : e = LastOf(ws, n1) /\ n1 <= e /\ e <= Len(ws)
    BY <2>3, FrameAt
  <2>6. f \in Seq(Int) /\ Len(f) >= 1 /\ (f[1] % 2 = 1 => Len(f) = 4)
    BY <2>3, <2>4, FrameAt
  <2>7. Head_(at) \in Seq(Call)
    BY <2>2, <2>4, <2>6, CallsTyped
  <2>8. Next_(at) = <<e + 1, b \/ f[1] = Mseed!TIME>>  BY <2>2, <2>4, <2>5
  <2>9. e + 1 \in 1 .. Len(ws) + 1 /\ (b \/ f[1] = Mseed!TIME) \in BOOLEAN
    BY <1>1, <2>5
  <2>10. Next_(at) \in X /\ Next_(at)[1] = e + 1  BY <2>8, <2>9 DEF Places
  <2> HIDE DEF X, Head_, Next_
  <2>11. head[at] = Head_(at) /\ next[at] = Next_(at)  OBVIOUS
  <2>12. m[at] = Len(ws) + 1 - n1 /\ m[next[at]] = Len(ws) + 1 - (e + 1)
    BY <2>2, <2>10, <2>11
  <2> QED  BY <1>1, <2>3, <2>5, <2>7, <2>10, <2>11, <2>12, SMTT(30)
<1>4. \E f \in [X -> Seq(Call)] : TailEquation(f, X, stop, head, next)
  <2> HIDE DEF X, stop, head, next, m
  <2> QED  BY <1>1, <1>2, <1>3, TailRecursion
<1>5. ASSUME NEW f, TailEquation(f, X, stop, head, next)
      PROVE  \A at \in X : f[at] = Body(f)[at]
  <2> SUFFICES ASSUME NEW at \in X PROVE f[at] = Body(f)[at]  OBVIOUS
  <2>1. f[at] = IF at \in stop THEN <<>> ELSE head[at] \o f[next[at]]
    BY <1>5 DEF TailEquation
  <2> HIDE DEF X, Head_, Next_, Stop
  <2> QED  BY <2>1
<1>6. \E f : f = Body(f)
  <2>1. PICK f : f \in [X -> Seq(Call)] /\ TailEquation(f, X, stop, head, next)
    BY <1>4
  <2>2. \A at \in X : f[at] = Body(f)[at]  BY <1>5, <2>1
  <2>3. f = [at \in X |-> f[at]] /\ Body(f) = [at \in X |-> Body(f)[at]]
    BY <2>1
  <2> HIDE DEF Body, X
  <2>4. [at \in X |-> f[at]] = [at \in X |-> Body(f)[at]]  BY <2>2
  <2> QED  BY <2>3, <2>4
<1>7. PICK c : c = CallsFrom(ws)  OBVIOUS
<1>8. c = Body(c)
  <2>1. CallsFrom(ws) = CHOOSE from : from = Body(from)  BY DEF CallsFrom
  <2> HIDE DEF Body
  <2> QED  BY <1>6, <1>7, <2>1
<1>9. \A at \in X : c[at] = IF Stop(at) THEN <<>> ELSE Head_(at) \o c[Next_(at)]
  <2> HIDE DEF X, Head_, Next_, Stop
  <2> QED  BY <1>8
<1>10. TailEquation(c, X, stop, head, next)
  <2> SUFFICES ASSUME NEW at \in X
               PROVE  c[at] = IF at \in stop THEN <<>> ELSE head[at] \o c[next[at]]
    BY DEF TailEquation
  <2> HIDE DEF X, Head_, Next_, Stop
  <2> QED  BY <1>9
<1>11. \A at \in X : c[at] \in Seq(Call)
  <2> HIDE DEF X, stop, head, next, m
  <2> QED  BY <1>1, <1>2, <1>3, <1>10, TailTyped
<1> DEFINE at == <<k, t>>
<1>12. at \in X /\ at[1] = k /\ at[2] = t  BY DEF Places
<1>13. c[at] \in Seq(Call)  BY <1>11, <1>12
<1>14. c[at] = IF Stop(at) THEN <<>> ELSE Head_(at) \o c[Next_(at)]  BY <1>9, <1>12
<1>15. Stop(at) <=> NoFrame(ws, k)
  <2>1. CASE k > Len(ws) \/ LastOf(ws, k) > Len(ws)  BY <1>12, <2>1 DEF NoFrame
  <2>2. CASE ~(k > Len(ws)) /\ ~(LastOf(ws, k) > Len(ws))
    <3>1. SubSeq(ws, k, LastOf(ws, k))[1] = ws[k]
      <4>1. k \in Nat /\ k \in 1 .. Len(ws)  BY <1>1, <2>2
      <4>2. ws[k] \in Int  BY <4>1, ElementOfSeq
      <4>3. LastOf(ws, k) \in Int  BY <4>1, <4>2, ChannelsNat DEF LastOf
      <4>4. LastOf(ws, k) <= Len(ws)  BY <1>1, <2>2, <4>3
      <4> QED  BY <4>1, <4>4, FrameAt
    <3> QED  BY <1>12, <2>2, <3>1 DEF NoFrame
  <2> QED  BY <2>1, <2>2
<1>16. CASE NoFrame(ws, k)  BY <1>7, <1>13, <1>14, <1>15, <1>16
<1>17. CASE ~NoFrame(ws, k)
  <2>1. SubSeq(ws, k, LastOf(ws, k))[1] = ws[k]
    <3>1. k \in Nat /\ k \in 1 .. Len(ws)  BY <1>1, <1>17 DEF NoFrame
    <3>2. ws[k] \in Int  BY <3>1, ElementOfSeq
    <3>3. LastOf(ws, k) \in Int  BY <3>1, <3>2, ChannelsNat DEF LastOf
    <3>4. LastOf(ws, k) <= Len(ws)  BY <1>1, <1>17, <3>3 DEF NoFrame
    <3> QED  BY <3>1, <3>4, FrameAt
  <2>2. Next_(at) = <<LastOf(ws, k) + 1, t \/ ws[k] = Mseed!TIME>>  BY <1>12, <2>1
  <2>3. Head_(at) = Mseed!CallsOf(SubSeq(ws, k, LastOf(ws, k)), t)  BY <1>12
  <2>4. c[at] = Head_(at) \o c[Next_(at)]  BY <1>14, <1>15, <1>17
  <2> HIDE DEF Head_, Next_, at
  <2>5. c[at] = Mseed!CallsOf(SubSeq(ws, k, LastOf(ws, k)), t)
                  \o c[<<LastOf(ws, k) + 1, t \/ ws[k] = Mseed!TIME>>]
    BY <2>2, <2>3, <2>4
  <2> QED  BY <1>7, <1>13, <1>17, <2>5 DEF at
<1> QED  BY <1>16, <1>17

LEMMA ConcatCalls ==
  \A a, b, c \in Seq(Call) : a \o b \in Seq(Call) /\ a \o (b \o c) = (a \o b) \o c
BY ConcatProperties, ConcatAssociative

LEMMA OneInt ==
  ASSUME NEW a \in Int
  PROVE  <<a>> \in Seq(Int) /\ <<a>>[1] = a /\ Len(<<a>>) = 1
OBVIOUS

LEMMA AppendThen ==
  ASSUME NEW a \in Seq(Int), NEW x \in Int, NEW c \in Seq(Int)
  PROVE  Append(a, x) \o c = a \o (<<x>> \o c)
<1>1. PICK b \in Seq(Int) : b = <<x>>  BY OneInt
<1>2. (a \o b) \o c = a \o (b \o c)
  <2>1. \A S : \A d, e, f \in Seq(S) : (d \o e) \o f = d \o (e \o f)
    BY ONLY ConcatAssociative
  <2> QED  BY <2>1, SMTT(30)
<1>3. Append(a, x) = a \o b  BY <1>1
<1> QED  BY <1>1, <1>2, <1>3

\* Word s of ws begins the frame of which fr was read and rem words are missing,
\* or it begins the end frame.
InFrame(ws, fr, rem, at, s) ==
  /\ rem = 0 => s = Len(ws) + 1 \/ (at = "done" /\ s <= Len(ws) /\ ws[s] = Mseed!END)
  /\ rem > 0 => /\ s <= Len(ws) /\ fr = SubSeq(ws, s, Len(ws))
                /\ rem = LastOf(ws, s) - Len(ws)
\* What the calls out leave of ws is decoded from word s, however ws goes on.
LeftFrom(ws, out, timed, s) ==
  \A rest \in Seq(Int) :
    CallsFrom(ws \o rest)[<<1, FALSE>>] = out \o CallsFrom(ws \o rest)[<<s, timed>>]
DecodedSoFar(ws, out, timed, fr, rem, at) ==
  /\ ws \in Seq(Int) /\ out \in Seq(Call) /\ timed \in BOOLEAN
  /\ fr \in Seq(Int) /\ rem \in Nat
  /\ \E s \in 1 .. Len(ws) + 1 : InFrame(ws, fr, rem, at, s) /\ LeftFrom(ws, out, timed, s)
DecodeInv == DecodedSoFar(words, output, have_time, frame, remaining, pc)

LEMMA DecodeInit == ASSUME tool = "6d6mseed", Init PROVE DecodeInv
<1>1. /\ words = <<>> /\ output = <<>> /\ have_time = FALSE /\ remaining = 0
      /\ frame = <<>>
  BY DEF Init, Mseed!Init
<1>2. <<>> \in Seq(Int) /\ <<>> \in Seq(Call) /\ Len(<<>>) = 0  BY EmptySeq
<1>3. LeftFrom(<<>>, <<>>, FALSE, 1)
  <2> SUFFICES ASSUME NEW rest \in Seq(Int)
               PROVE  CallsFrom(<<>> \o rest)[<<1, FALSE>>]
                        = <<>> \o CallsFrom(<<>> \o rest)[<<1, FALSE>>]
    BY DEF LeftFrom
  <2>1. <<>> \o rest = rest  BY ConcatEmptySeq
  <2>2. 1 \in 1 .. Len(rest) + 1  BY LenProperties
  <2>3. CallsFrom(rest)[<<1, FALSE>>] \in Seq(Call)  BY <2>2, CallsUnfold
  <2>4. <<>> \o CallsFrom(rest)[<<1, FALSE>>] = CallsFrom(rest)[<<1, FALSE>>]
    BY <2>3, ConcatEmptySeq
  <2> QED  BY <2>1, <2>4
<1>4. \A at : InFrame(<<>>, <<>>, 0, at, 1)  BY <1>2 DEF InFrame
<1>5. \A at : DecodedSoFar(<<>>, <<>>, FALSE, <<>>, 0, at)
  <2>1. 1 \in 1 .. Len(<<>>) + 1  BY <1>2
  <2> QED  BY <1>2, <1>3, <1>4, <2>1 DEF DecodedSoFar
<1> QED  BY <1>1, <1>5 DEF DecodeInv

\* The frame of a sequence of words is that of every continuation.
LEMMA FrameStays ==
  ASSUME NEW ws \in Seq(Int), NEW rest \in Seq(Int), NEW s \in 1 .. Len(ws)
  PROVE  /\ ws \o rest \in Seq(Int) /\ (ws \o rest)[s] = ws[s]
         /\ LastOf(ws \o rest, s) = LastOf(ws, s)
         /\ Len(ws) \in Nat /\ Len(ws) <= Len(ws \o rest) /\ Len(ws \o rest) \in Nat
         /\ \A e \in s .. Len(ws) : SubSeq(ws \o rest, s, e) = SubSeq(ws, s, e)
<1>1. /\ ws \o rest \in Seq(Int) /\ Len(ws \o rest) = Len(ws) + Len(rest)
      /\ \A k \in 1 .. Len(ws) + Len(rest) :
           (ws \o rest)[k] = IF k <= Len(ws) THEN ws[k] ELSE rest[k - Len(ws)]
      /\ Len(ws) \in Nat /\ Len(rest) \in Nat
  BY ConcatProperties, LenProperties
<1>2. (ws \o rest)[s] = ws[s]
  <2>1. s \in 1 .. Len(ws) + Len(rest) /\ s <= Len(ws)  BY <1>1
  <2> QED  BY <1>1, <2>1
<1>3. \A e \in s .. Len(ws) : SubSeq(ws \o rest, s, e) = SubSeq(ws, s, e)
  <2> SUFFICES ASSUME NEW e \in s .. Len(ws)
               PROVE  SubSeq(ws \o rest, s, e) = SubSeq(ws, s, e)
    OBVIOUS
  <2>1. s \in 1 .. Len(ws) /\ e \in 1 .. Len(ws)  BY <1>1
  <2> QED  BY <2>1, SubSeqOfConcat1
<1> QED  BY <1>1, <1>2, <1>3 DEF LastOf

\* The frame with one word more, and the words that are then missing to it.
Longer(fr, rem, word) == IF rem = 0 THEN <<word>> ELSE Append(fr, word)
Missing(rem, word) == IF rem = 0 THEN Mseed!Following(word) ELSE rem - 1

\* A word more of the frame.
LEMMA FrameGrows ==
  ASSUME NEW ws \in Seq(Int), NEW fr \in Seq(Int), NEW rem \in Nat,
         NEW s \in 1 .. Len(ws) + 1, InFrame(ws, fr, rem, "data", s),
         NEW word \in Int
  PROVE  LET f == Longer(fr, rem, word)
             left == Missing(rem, word)
             w == Append(ws, word)
         IN  /\ w \in Seq(Int) /\ Len(w) = Len(ws) + 1 /\ Len(ws) \in Nat
             /\ f = SubSeq(w, s, Len(w)) /\ f \in Seq(Int) /\ f[1] = w[s]
             /\ left = LastOf(w, s) - Len(w) /\ left \in Nat
<1>1. PICK w \in Seq(Int) : w = Append(ws, word)  BY AppendProperties
<1>2. PICK n1 \in Nat : n1 = Len(ws)  BY LenProperties
<1>3. Len(w) = n1 + 1 /\ w[n1 + 1] = word /\ \A k \in 1 .. n1 : w[k] = ws[k]
  BY <1>1, <1>2, AppendProperties
<1>4. s \in 1 .. n1 + 1  BY <1>2
<1>5. CASE rem = 0
  <2>1. s = n1 + 1  BY <1>2, <1>5 DEF InFrame
  <2>2. /\ Longer(fr, rem, word) = <<word>>
        /\ Missing(rem, word) = (IF word % 2 = 1 THEN 3 ELSE Channels - 1)
    BY <1>5 DEF Longer, Missing, Mseed!Following, Mseed!Odd
  <2>3. SubSeq(w, s, Len(w)) = <<word>>
    <3>1. s \in Int /\ w[s] \in Int /\ \A k \in s .. s : w[k] \in Int
      BY <1>3, <2>1
    <3>2. PICK h \in Seq(Int) : h = SubSeq(w, s, s) /\ Len(h) = 1 /\ h[1] = w[s]
      <4>1. PICK h : h = SubSeq(w, s, s)  OBVIOUS
      <4>2. /\ h \in Seq(Int) /\ Len(h) = IF s <= s THEN s - s + 1 ELSE 0
            /\ \A k \in 1 .. s - s + 1 : h[k] = w[s + k - 1]
        BY ONLY <3>1, <4>1, SubSeqProperties
      <4>3. s - s + 1 = 1 /\ 1 \in 1 .. 1 /\ s + 1 - 1 = s  BY ONLY <3>1
      <4>4. Len(h) = 1 /\ h[1] = w[s]  BY ONLY <3>1, <4>2, <4>3
      <4> QED  BY ONLY <4>1, <4>2, <4>4
    <3>3. h = <<w[s]>>
      <4>1. PICK a \in Seq(Int) : a = <<w[s]>> /\ a[1] = w[s] /\ Len(a) = 1
        BY <3>1, OneInt
      <4>2. \A k \in 1 .. 1 : h[k] = a[k]  BY <3>2, <4>1
      <4> QED  BY <3>2, <4>1, <4>2, SeqEqual
    <3> QED  BY <1>3, <2>1, <3>2, <3>3
  <2>4. LastOf(w, s) = s + Missing(rem, word)  BY <1>3, <2>1, <2>2 DEF LastOf
  <2>5. Missing(rem, word) \in Nat  BY <2>2, ChannelsNat
  <2>6. Missing(rem, word) = LastOf(w, s) - Len(w)  BY <1>3, <2>1, <2>4, <2>5
  <2>7. <<word>>[1] = w[s]  BY <1>3, <2>1, OneInt
  <2> QED  BY <1>1, <1>2, <1>3, <2>2, <2>3, <2>5, <2>6, <2>7, OneInt
<1>6. CASE rem # 0
  <2>1. /\ s <= n1 /\ fr = SubSeq(ws, s, n1) /\ rem = LastOf(ws, s) - n1
        /\ s \in 1 .. n1 /\ s \in Nat
    BY <1>2, <1>4, <1>6 DEF InFrame
  <2>2. Longer(fr, rem, word) = Append(fr, word) /\ Missing(rem, word) = rem - 1
    BY <1>6 DEF Longer, Missing
  <2>3. w[s] = ws[s] /\ LastOf(w, s) = LastOf(ws, s)
    BY <1>3, <2>1 DEF LastOf
  <2>4. Len(fr) = n1 - s + 1 /\ \A k \in 1 .. n1 - s + 1 : fr[k] = ws[s + k - 1]
    <3>1. \A k \in s .. n1 : ws[k] \in Int  BY <1>2, <2>1, ElementOfSeq
    <3> QED  BY <2>1, <3>1, SubSeqProperties
  <2>5. PICK h \in Seq(Int) :
          /\ h = SubSeq(w, s, n1 + 1) /\ Len(h) = n1 - s + 2
          /\ \A k \in 1 .. n1 - s + 2 : h[k] = w[s + k - 1]
    <3>1. \A k \in s .. n1 + 1 : w[k] \in Int  BY <1>3, <2>1, ElementOfSeq
    <3>2. n1 + 1 \in Int /\ s \in Int /\ s <= n1 + 1 /\ n1 + 1 - s + 1 = n1 - s + 2
      BY <2>1
    <3>3. /\ SubSeq(w, s, n1 + 1) \in Seq(Int)
          /\ Len(SubSeq(w, s, n1 + 1)) = IF s <= n1 + 1 THEN n1 + 1 - s + 1 ELSE 0
          /\ \A k \in 1 .. n1 + 1 - s + 1 : SubSeq(w, s, n1 + 1)[k] = w[s + k - 1]
      BY <3>1, <3>2, SubSeqProperties
    <3> QED  BY <3>2, <3>3
  <2>6. PICK g \in Seq(Int) :
          /\ g = Append(fr, word) /\ Len(g) = n1 - s + 2 /\ g[n1 - s + 2] = word
          /\ \A k \in 1 .. n1 - s + 1 : g[k] = fr[k]
    <3>1. PICK m \in Nat : m = Len(fr)  BY LenProperties
    <3>2. m = n1 - s + 1 /\ m + 1 = n1 - s + 2  BY <2>1, <2>4, <3>1
    <3>3. PICK g : g = Append(fr, word)  OBVIOUS
    <3>4. g \in Seq(Int) /\ Len(g) = m + 1 /\ g[m + 1] = word /\ \A k \in 1 .. m : g[k] = fr[k]
      BY ONLY <3>1, <3>3, fr \in Seq(Int), word \in Int, AppendProperties
    <3> QED  BY <3>2, <3>3, <3>4
  <2>7. ASSUME NEW k \in 1 .. n1 - s + 2 PROVE g[k] = h[k]
    <3>1. CASE k = n1 - s + 2
      <4>1. s + k - 1 = n1 + 1  BY <2>1, <3>1
      <4>2. h[k] = w[n1 + 1]  BY <2>5, <4>1
      <4> QED  BY <1>3, <2>6, <3>1, <4>2
    <3>2. CASE k # n1 - s + 2
      <4>1. k \in 1 .. n1 - s + 1 /\ s + k - 1 \in 1 .. n1  BY <2>1, <3>2
      <4>2. g[k] = ws[s + k - 1]  BY <2>4, <2>6, <4>1
      <4>3. h[k] = ws[s + k - 1]  BY <1>3, <2>5, <4>1
      <4> QED  BY <4>2, <4>3
    <3> QED  BY <3>1, <3>2
  <2>8. g = h
    <3>1. Len(g) = Len(h) /\ Len(g) = n1 - s + 2  BY <2>5, <2>6
    <3>2. \A k \in 1 .. Len(g) : g[k] = h[k]  BY <2>7, <3>1
    <3> QED  BY <3>1, <3>2, SeqEqual
  <2>9. g[1] = w[s]
    <3>1. 1 \in 1 .. n1 - s + 2 /\ s + 1 - 1 = s  BY <2>1
    <3> QED  BY <2>5, <2>8, <3>1
  <2>10. rem - 1 = LastOf(w, s) - (n1 + 1)
    <3>1. ws[s] \in Int  BY <1>2, <2>1, ElementOfSeq
    <3>2. LastOf(ws, s) \in Int  BY <2>1, <3>1, ChannelsNat DEF LastOf
    <3> QED  BY <2>1, <2>3, <3>2
  <2>11. rem - 1 \in Nat  BY <1>6
  <2>12. g = SubSeq(w, s, Len(w)) /\ g = Longer(fr, rem, word)
    BY <1>3, <2>2, <2>5, <2>6, <2>8
  <2>13. Missing(rem, word) = LastOf(w, s) - Len(w) /\ Missing(rem, word) \in Nat
    BY <1>3, <2>2, <2>10, <2>11
  <2> QED  BY <1>1, <1>2, <1>3, <2>9, <2>12, <2>13
<1> QED  BY <1>5, <1>6

\* The calls of a complete frame go out; the rest is decoded from behind it.
LEMMA FrameDone ==
  ASSUME NEW w \in Seq(Int), NEW s \in 1 .. Len(w), LastOf(w, s) = Len(w),
         w[s] # Mseed!END, NEW o \in Seq(Call), NEW t \in BOOLEAN, LeftFrom(w, o, t, s),
         NEW u \in BOOLEAN, u = (t \/ w[s] = Mseed!TIME),
         NEW x \in Seq(Call), x = Mseed!CallsOf(SubSeq(w, s, Len(w)), t)
  PROVE  LeftFrom(w, o \o x, u, Len(w) + 1)
<1> SUFFICES ASSUME NEW rest \in Seq(Int)
             PROVE  CallsFrom(w \o rest)[<<1, FALSE>>]
                      = (o \o x) \o CallsFrom(w \o rest)[<<Len(w) + 1, u>>]
  BY DEF LeftFrom
<1>1. PICK v \in Seq(Int) : v = w \o rest  BY ConcatProperties
<1>2. PICK n1 \in Nat : n1 = Len(w)  BY LenProperties
<1>3. s \in Nat /\ s \in 1 .. n1 /\ n1 \in s .. n1  BY <1>2
<1>4. /\ v[s] = w[s] /\ LastOf(v, s) = n1 /\ n1 <= Len(v) /\ Len(v) \in Nat
      /\ SubSeq(v, s, n1) = SubSeq(w, s, n1)
  BY <1>1, <1>2, <1>3, FrameStays
<1>5. n1 <= Len(v) /\ Len(v) \in Nat  BY <1>4
<1>6. s \in 1 .. Len(v) + 1 /\ n1 + 1 \in 1 .. Len(v) + 1  BY <1>3, <1>5
<1>7. ~NoFrame(v, s)
  <2>1. ~(s > Len(v))  BY <1>3, <1>5
  <2>2. ~(LastOf(v, s) > Len(v))  BY <1>4
  <2>3. v[s] # Mseed!END  BY <1>4
  <2> QED  BY <2>1, <2>2, <2>3 DEF NoFrame
<1>8. PICK y \in Seq(Call) : y = CallsFrom(v)[<<n1 + 1, u>>]  BY <1>6, CallsUnfold
<1>9. CallsFrom(v)[<<s, t>>] = x \o y
  <2>1. CallsFrom(v)[<<s, t>>]
          = Mseed!CallsOf(SubSeq(v, s, LastOf(v, s)), t)
              \o CallsFrom(v)[<<LastOf(v, s) + 1, t \/ v[s] = Mseed!TIME>>]
    BY <1>6, <1>7, CallsUnfold
  <2>2. Mseed!CallsOf(SubSeq(v, s, LastOf(v, s)), t) = x  BY <1>2, <1>4
  <2>3. u = (t \/ v[s] = Mseed!TIME)  BY <1>4
  <2>4. CallsFrom(v)[<<LastOf(v, s) + 1, t \/ v[s] = Mseed!TIME>>] = y
    BY <1>4, <1>8, <2>3
  <2> QED  BY <2>1, <2>2, <2>4
<1>10. CallsFrom(v)[<<1, FALSE>>] = o \o CallsFrom(v)[<<s, t>>]  BY <1>1 DEF LeftFrom
<1>11. o \o (x \o y) = (o \o x) \o y
  BY ONLY ConcatCalls, o \in Seq(Call), x \in Seq(Call), y \in Seq(Call), SMTT(30)
<1>12. CallsFrom(v)[<<1, FALSE>>] = (o \o x) \o CallsFrom(v)[<<n1 + 1, u>>]
  BY <1>8, <1>9, <1>10, <1>11
<1> QED  BY <1>1, <1>2, <1>12

\* A word more goes on with the data.
LEMMA LeftStays ==
  ASSUME NEW ws \in Seq(Int), NEW o \in Seq(Call), NEW t \in BOOLEAN, NEW s,
         LeftFrom(ws, o, t, s), NEW word \in Int
  PROVE  LeftFrom(Append(ws, word), o, t, s)
<1> SUFFICES ASSUME NEW rest \in Seq(Int)
             PROVE  CallsFrom(Append(ws, word) \o rest)[<<1, FALSE>>]
                      = o \o CallsFrom(Append(ws, word) \o rest)[<<s, t>>]
  BY DEF LeftFrom
<1>1. PICK a \in Seq(Int) : a = <<word>>  BY OneInt
<1>2. PICK r \in Seq(Int) : r = a \o rest  BY ConcatProperties
<1>3. Append(ws, word) \o rest = ws \o r  BY <1>1, <1>2, AppendThen
<1>5. CallsFrom(ws \o r)[<<1, FALSE>>] = o \o CallsFrom(ws \o r)[<<s, t>>]
  BY DEF LeftFrom
<1> QED  BY <1>3, <1>5

\* What a word more makes of the calls and the frame.
WordDecoded(ws, o, t, fr, rem, word) ==
  \E w \in Seq(Int), f \in Seq(Int), left \in Nat :
    /\ w = Append(ws, word) /\ f = Longer(fr, rem, word) /\ left = Missing(rem, word)
    /\ left # 0 => DecodedSoFar(w, o, t, f, left, "data")
    /\ left = 0 =>
         \A u \in BOOLEAN : \A at :
            /\ u = (t \/ f[1] = Mseed!TIME)
            /\ f[1] = Mseed!END => at = "done"
            => DecodedSoFar(w, o \o Mseed!CallsOf(f, t), u, f, left, at)

LEMMA DecodedWord ==
  ASSUME NEW ws \in Seq(Int), NEW o \in Seq(Call), NEW t \in BOOLEAN,
         NEW fr \in Seq(Int), NEW rem \in Nat, DecodedSoFar(ws, o, t, fr, rem, "data"),
         NEW word \in Int
  PROVE  WordDecoded(ws, o, t, fr, rem, word)
<1>1. PICK s \in 1 .. Len(ws) + 1 : InFrame(ws, fr, rem, "data", s) /\ LeftFrom(ws, o, t, s)
  BY DEF DecodedSoFar
<1>2. PICK w \in Seq(Int), f \in Seq(Int), left \in Nat :
        /\ w = Append(ws, word) /\ f = Longer(fr, rem, word) /\ left = Missing(rem, word)
        /\ Len(w) = Len(ws) + 1 /\ Len(ws) \in Nat /\ f = SubSeq(w, s, Len(w))
        /\ f[1] = w[s] /\ left = LastOf(w, s) - Len(w)
  <2> DEFINE w == Append(ws, word)  f == Longer(fr, rem, word)  left == Missing(rem, word)
  <2>1. /\ w \in Seq(Int) /\ Len(w) = Len(ws) + 1 /\ Len(ws) \in Nat
        /\ f = SubSeq(w, s, Len(w)) /\ f \in Seq(Int) /\ f[1] = w[s]
        /\ left = LastOf(w, s) - Len(w) /\ left \in Nat
    BY <1>1, FrameGrows
  <2>2. w = Append(ws, word) /\ f = Longer(fr, rem, word) /\ left = Missing(rem, word)
    OBVIOUS
  <2> HIDE DEF w, f, left
  <2> QED  BY <2>1, <2>2
<1>3. Len(w) = Len(ws) + 1 /\ Len(ws) \in Nat  BY <1>2
<1>4. f = SubSeq(w, s, Len(w)) /\ f[1] = w[s]  BY <1>2
<1>5. left = LastOf(w, s) - Len(w)  BY <1>2
<1>6. LeftFrom(w, o, t, s)  BY <1>1, <1>2, LeftStays
<1>7. s \in 1 .. Len(w) /\ s \in 1 .. Len(w) + 1  BY <1>3
<1>8. left # 0 => DecodedSoFar(w, o, t, f, left, "data")
  <2> SUFFICES ASSUME left # 0 PROVE DecodedSoFar(w, o, t, f, left, "data")  OBVIOUS
  <2>1. InFrame(w, f, left, "data", s)  BY <1>4, <1>5, <1>7 DEF InFrame
  <2> QED  BY <1>6, <1>7, <2>1 DEF DecodedSoFar
<1>9. left = 0 =>
        \A u \in BOOLEAN : \A at :
           /\ u = (t \/ f[1] = Mseed!TIME)
           /\ f[1] = Mseed!END => at = "done"
           => DecodedSoFar(w, o \o Mseed!CallsOf(f, t), u, f, left, at)
  <2>0. SUFFICES ASSUME left = 0, NEW u \in BOOLEAN, NEW at, u = (t \/ f[1] = Mseed!TIME),
                        f[1] = Mseed!END => at = "done"
                 PROVE  DecodedSoFar(w, o \o Mseed!CallsOf(f, t), u, f, 0, at)
    OBVIOUS
  <2>1. LastOf(w, s) = Len(w)
    <3>1. w[s] \in Int /\ Len(w) \in Nat  BY <1>3, <1>7, ElementOfSeq
    <3>2. LastOf(w, s) \in Int  BY <1>7, <3>1, ChannelsNat DEF LastOf
    <3> QED  BY <1>5, <2>0, <3>1, <3>2
  <2>2. Len(f) >= 1 /\ (f[1] % 2 = 1 => Len(f) = 4)
    <3>1. LastOf(w, s) <= Len(w) /\ s \in Nat  BY <1>3, <1>7, <2>1
    <3>2. /\ Len(SubSeq(w, s, LastOf(w, s))) >= 1
          /\ w[s] % 2 = 1 => Len(SubSeq(w, s, LastOf(w, s))) = 4
      BY ONLY <1>7, <3>1, w \in Seq(Int), FrameAt
    <3>3. SubSeq(w, s, LastOf(w, s)) = f /\ f[1] = w[s]  BY <1>4, <2>1
    <3> QED  BY ONLY <3>2, <3>3
  <2>3. PICK x \in Seq(Call) : x = Mseed!CallsOf(f, t)  BY <2>2, CallsTyped
  <2>4. PICK ox \in Seq(Call) : ox = o \o x  BY ConcatProperties
  <2>5. CASE f[1] # Mseed!END
    <3>1. x = Mseed!CallsOf(SubSeq(w, s, Len(w)), t)  BY <1>4, <2>3
    <3>2. u = (t \/ w[s] = Mseed!TIME) /\ w[s] # Mseed!END  BY <1>4, <2>0, <2>5
    <3>3. LeftFrom(w, ox, u, Len(w) + 1)
      BY <1>6, <1>7, <2>1, <2>4, <3>1, <3>2, FrameDone
    <3>4. InFrame(w, f, 0, at, Len(w) + 1)  BY DEF InFrame
    <3>5. Len(w) + 1 \in 1 .. Len(w) + 1  BY <1>3
    <3>6. DecodedSoFar(w, ox, u, f, 0, at)  BY <3>3, <3>4, <3>5 DEF DecodedSoFar
    <3> QED  BY <2>3, <2>4, <3>6
  <2>6. CASE f[1] = Mseed!END
    <3>1. Mseed!CallsOf(f, t) = <<>> /\ f[1] # Mseed!TIME
      BY <2>6 DEF Mseed!CallsOf, Mseed!END, Mseed!TIME, Mseed!LOST, Mseed!Odd
    <3>2. u = t  BY <2>0, <3>1
    <3>3. ox = o  BY <2>3, <2>4, <3>1, ConcatEmptySeq
    <3>4. InFrame(w, f, 0, at, s)
      <4>1. s <= Len(w) /\ w[s] = Mseed!END  BY <1>4, <1>7, <2>6
      <4> QED  BY <2>0, <2>6, <4>1 DEF InFrame
    <3>5. DecodedSoFar(w, o, t, f, 0, at)  BY <1>6, <1>7, <3>4 DEF DecodedSoFar
    <3> QED  BY <2>3, <2>4, <3>2, <3>3, <3>5
  <2> QED  BY <2>5, <2>6
<1> QED  BY <1>2, <1>8, <1>9, ZenonT(60) DEF WordDecoded

LEMMA DecodeWord ==
  ASSUME DecodeInv, NEW word \in MseedWords, Mseed!TakeWord(word)
  PROVE  DecodeInv'
<1>1. word \in Int  BY ToolsAssumption DEF Mseed!FileAssumption
<1>2. pc = "data"  BY DEF Mseed!TakeWord
<1>6. /\ words \in Seq(Int) /\ output \in Seq(Call) /\ have_time \in BOOLEAN
      /\ frame \in Seq(Int) /\ remaining \in Nat
  BY DEF DecodeInv, DecodedSoFar
<1>7. DecodedSoFar(words, output, have_time, frame, remaining, "data")
  BY <1>2 DEF DecodeInv
<1>10. PICK o \in Seq(Call), t \in BOOLEAN : o = output /\ t = have_time  BY <1>6
<1>11. PICK ws \in Seq(Int), fr \in Seq(Int), rem \in Nat :
         ws = words /\ fr = frame /\ rem = remaining
  BY <1>6
<1>12. DecodedSoFar(ws, o, t, fr, rem, "data")  BY <1>7, <1>10, <1>11
<1>15. WordDecoded(ws, o, t, fr, rem, word)  BY <1>1, <1>12, DecodedWord
<1>3. PICK w \in Seq(Int), f \in Seq(Int), left \in Nat :
        /\ w = Append(ws, word) /\ f = Longer(fr, rem, word) /\ left = Missing(rem, word)
        /\ left # 0 => DecodedSoFar(w, o, t, f, left, "data")
        /\ left = 0 =>
             \A u \in BOOLEAN : \A at :
                /\ u = (t \/ f[1] = Mseed!TIME)
                /\ f[1] = Mseed!END => at = "done"
                => DecodedSoFar(w, o \o Mseed!CallsOf(f, t), u, f, left, at)
  BY <1>15 DEF WordDecoded
<1>4. w = Append(words, word) /\ f = Longer(frame, remaining, word)
      /\ left = Missing(remaining, word)
  BY <1>3, <1>11
<1>8. /\ words' = w /\ frame' = f /\ remaining' = left
      /\ output' = IF left = 0 THEN output \o Mseed!CallsOf(f, have_time) ELSE output
      /\ pc' = IF left = 0 /\ f[1] = Mseed!END THEN "done" ELSE pc
  BY <1>4 DEF Mseed!TakeWord, Longer, Missing
<1>9. have_time' = (have_time \/ (left = 0 /\ f[1] = Mseed!TIME))
  BY <1>4 DEF Mseed!TakeWord, Longer, Missing
<1>13. CASE left # 0
  <2>1. pc' = "data" /\ output' = o  BY <1>2, <1>8, <1>10, <1>13
  <2>2. have_time' = t  BY <1>9, <1>10, <1>13
  <2>3. DecodedSoFar(w, o, t, f, left, "data")  BY <1>3, <1>13
  <2> QED  BY <1>8, <2>1, <2>2, <2>3 DEF DecodeInv
<1>14. CASE left = 0
  <2>1. f[1] = Mseed!END => pc' = "done"  BY <1>8, <1>14
  <2>2. PICK u \in BOOLEAN : u = (t \/ f[1] = Mseed!TIME)  OBVIOUS
  <2>3. have_time' = u  BY <1>9, <1>10, <1>14, <2>2
  <2>4. output' = o \o Mseed!CallsOf(f, t)  BY <1>8, <1>10, <1>14
  <2>5. PICK at : at = pc'  OBVIOUS
  <2>6. DecodedSoFar(w, o \o Mseed!CallsOf(f, t), u, f, left, at)
    BY <1>3, <1>14, <2>1, <2>2, <2>5
  <2> QED  BY <1>8, <2>3, <2>4, <2>5, <2>6 DEF DecodeInv
<1> QED  BY <1>13, <1>14

LEMMA DecodeStep == ASSUME DecodeInv, Mseed!Next PROVE DecodeInv'
<1>1. ASSUME pc # "done" \/ pc' = pc, UNCHANGED <<words, output, have_time, frame, remaining>>
      PROVE  DecodeInv'
  <2>1. CASE pc' = pc  BY <1>1, <2>1 DEF DecodeInv
  <2>2. CASE pc # "done"
    <3>1. DecodedSoFar(words, output, have_time, frame, remaining, pc)  BY DEF DecodeInv
    <3>2. \A ws, fr, rem, s, at, b :
            at # "done" /\ InFrame(ws, fr, rem, at, s) => InFrame(ws, fr, rem, b, s)
      BY DEF InFrame
    <3>3. PICK at : at = pc'  OBVIOUS
    <3>4. DecodedSoFar(words, output, have_time, frame, remaining, at)
      BY <2>2, <3>1, <3>2 DEF DecodedSoFar
    <3> QED  BY <1>1, <3>3, <3>4 DEF DecodeInv
  <2> QED  BY <1>1, <2>1, <2>2
<1>2. CASE \E word \in MseedWords : Mseed!TakeWord(word)  BY <1>2, DecodeWord
<1>3. CASE \/ Mseed!Skip \/ Mseed!SkipFails \/ Mseed!StartData
           \/ Mseed!ReadBlock \/ Mseed!ReadBlockFails \/ Mseed!EndOfData
  <2>1. pc # "done" /\ UNCHANGED <<words, output, have_time, frame, remaining>>
    BY <1>3 DEF Mseed!Skip, Mseed!SkipFails, Mseed!StartData, Mseed!ReadBlock,
                Mseed!ReadBlockFails, Mseed!EndOfData
  <2> QED  BY <1>1, <2>1
<1>4. CASE Mseed!Over
  <2>1. UNCHANGED <<words, output, have_time, frame, remaining, pc>>
    BY <1>4 DEF Mseed!Over, Mseed!vars
  <2> QED  BY <1>1, <2>1
<1> QED  BY <1>2, <1>3, <1>4 DEF Mseed!Next

\* When nothing follows, the calls out are all.
LEMMA DecodedAll == ASSUME DecodeInv PROVE Mseed!DecodesFrames
<1>0. PICK at : at = pc  OBVIOUS
<1>1. PICK ws \in Seq(Int), o \in Seq(Call), t \in BOOLEAN, fr \in Seq(Int), rem \in Nat :
        /\ ws = words /\ o = output /\ t = have_time /\ fr = frame /\ rem = remaining
  BY DEF DecodeInv, DecodedSoFar
<1>2. DecodedSoFar(ws, o, t, fr, rem, at)  BY <1>0, <1>1 DEF DecodeInv
<1>3. PICK s \in 1 .. Len(ws) + 1 : InFrame(ws, fr, rem, at, s) /\ LeftFrom(ws, o, t, s)
  BY <1>2 DEF DecodedSoFar
<1>4. <<>> \in Seq(Int) /\ ws \o <<>> = ws  BY EmptySeq, ConcatEmptySeq
<1>5. CallsFrom(ws)[<<1, FALSE>>] = o \o CallsFrom(ws)[<<s, t>>]
  BY <1>3, <1>4 DEF LeftFrom
<1>6. NoFrame(ws, s)
  <2>1. Len(ws) \in Nat  BY LenProperties
  <2>2. CASE rem = 0
    <3>1. s = Len(ws) + 1 \/ ws[s] = Mseed!END  BY <1>3, <2>2 DEF InFrame
    <3> QED  BY <2>1, <3>1 DEF NoFrame
  <2>3. CASE rem > 0
    <3>1. s <= Len(ws) /\ rem = LastOf(ws, s) - Len(ws)  BY <1>3, <2>3 DEF InFrame
    <3>2. ws[s] \in Int /\ s \in Int
      <4>1. s \in 1 .. Len(ws)  BY <2>1, <3>1
      <4> QED  BY <4>1, ElementOfSeq
    <3>3. LastOf(ws, s) \in Int  BY <3>2, ChannelsNat DEF LastOf
    <3>4. LastOf(ws, s) > Len(ws)  BY <2>1, <2>3, <3>1, <3>3
    <3> QED  BY <3>4 DEF NoFrame
  <2> QED  BY <2>2, <2>3
<1>7. CallsFrom(ws)[<<s, t>>] = <<>>  BY <1>6, CallsUnfold
<1>8. o \o <<>> = o  BY ConcatEmptySeq
<1>9. CallsFrom(ws)[<<1, FALSE>>] = o  BY <1>5, <1>7, <1>8
<1>10. Mseed!Decoded(ws) = o  BY <1>9, DecodedIs
<1> QED  BY <1>1, <1>10 DEF Mseed!DecodesFrames

\* 6d6mseed finds every frame where the format puts it and hands it on exactly
\* once, for every number of channels and every size of blocks (6d6mseed.c, its
\* loop over words).
THEOREM EveryFrame == Spec => []DecodesFrames
<1> DEFINE Inv == tool = "6d6mseed" => DecodeInv
<1>1. Init => Inv  BY DecodeInit
<1>2. Inv /\ [Next]_vars => Inv'
  <2> SUFFICES ASSUME DecodeInv, tool = "6d6mseed", [Next]_vars PROVE DecodeInv'
    BY StepsOf
  <2>1. CASE Mseed!Next  BY <2>1, DecodeStep
  <2>2. CASE UNCHANGED vars
    <3>1. UNCHANGED <<words, output, have_time, frame, remaining, pc>>
      BY <2>2 DEF vars, frameVars, mseedVars
    <3> QED  BY <3>1 DEF DecodeInv
  <2> QED  BY <2>1, <2>2, StepsOf
<1>3. Inv => DecodesFrames
  BY DecodedAll DEF DecodesFrames
<1> QED  BY <1>1, <1>2, <1>3, PTL DEF Spec

-----------------------------------------------------------------------------
\* 6d6mseed: how many samples were handed on

SamplesOf(o) == {k \in 1 .. Len(o) : o[k].op = "sample"}
CountInv ==
  /\ sample_number \in Nat /\ sample_number = Cardinality(SamplesOf(output))
  /\ ~have_time => sample_number = 0

LEMMA CountOne ==
  ASSUME NEW o \in Seq(Call), NEW p \in Seq(Call), Len(p) = Len(o) + 1,
         \A k \in 1 .. Len(o) : p[k] = o[k]
  PROVE  /\ Cardinality(SamplesOf(o)) \in Nat
         /\ Cardinality(SamplesOf(p)) =
              IF p[Len(p)].op = "sample" THEN Cardinality(SamplesOf(o)) + 1
              ELSE Cardinality(SamplesOf(o))
<1>1. PICK m \in Nat : m = Len(o)  BY LenProperties
<1>2. IsFiniteSet(SamplesOf(o))
  <2>1. IsFiniteSet(1 .. Len(o))  BY <1>1, FS_Interval
  <2>2. SamplesOf(o) \subseteq 1 .. Len(o)  BY DEF SamplesOf
  <2> QED  BY <2>1, <2>2, FS_Subset
<1>3. m + 1 \notin SamplesOf(o)  BY <1>1 DEF SamplesOf
<1>4. SamplesOf(p) = IF p[Len(p)].op = "sample" THEN SamplesOf(o) \cup {m + 1}
                     ELSE SamplesOf(o)
  BY <1>1 DEF SamplesOf
<1>5. Cardinality(SamplesOf(o) \cup {m + 1}) = Cardinality(SamplesOf(o)) + 1
  BY <1>2, <1>3, FS_AddElement
<1>6. Cardinality(SamplesOf(o)) \in Nat  BY <1>2, FS_CardinalityType
<1> QED  BY <1>4, <1>5, <1>6

\* A frame stands for at most one call, a frame of samples for itself.
LEMMA CallOf ==
  ASSUME NEW f, NEW t \in BOOLEAN
  PROVE  \/ Mseed!CallsOf(f, t) = <<>> /\ (Mseed!Odd(f[1]) \/ ~t)
         \/ \E e : /\ Mseed!CallsOf(f, t) = <<e>>
                   /\ e.op = "sample" <=> ~Mseed!Odd(f[1]) /\ t
<1>1. Mseed!TIME = 1 /\ Mseed!LOST = 7 /\ Mseed!Odd(1) /\ Mseed!Odd(7)
  BY DEF Mseed!TIME, Mseed!LOST, Mseed!Odd
<1>2. CASE f[1] = 1
  <2>1. Mseed!CallsOf(f, t) = <<[op |-> "time", arg |-> <<f[2], f[3]>>]>>
    BY <1>1, <1>2 DEF Mseed!CallsOf
  <2>2. [op |-> "time", arg |-> <<f[2], f[3]>>].op # "sample"  OBVIOUS
  <2> QED  BY <1>1, <1>2, <2>1, <2>2
<1>3. CASE f[1] = 7
  <2>1. Mseed!CallsOf(f, t) = <<[op |-> "lost", arg |-> Mseed!LostCount(f)]>>
    BY <1>1, <1>3 DEF Mseed!CallsOf
  <2>2. [op |-> "lost", arg |-> Mseed!LostCount(f)].op # "sample"  OBVIOUS
  <2> QED  BY <1>1, <1>3, <2>1, <2>2
<1>4. CASE f[1] # 1 /\ f[1] # 7 /\ ~Mseed!Odd(f[1]) /\ t
  <2>1. Mseed!CallsOf(f, t) = <<[op |-> "sample", arg |-> f]>>
    BY <1>1, <1>4 DEF Mseed!CallsOf
  <2>2. [op |-> "sample", arg |-> f].op = "sample"  OBVIOUS
  <2> QED  BY <1>4, <2>1, <2>2
<1>5. CASE f[1] # 1 /\ f[1] # 7 /\ ~(~Mseed!Odd(f[1]) /\ t)
  <2>1. Mseed!CallsOf(f, t) = <<>>  BY <1>1, <1>5 DEF Mseed!CallsOf
  <2> QED  BY <1>5, <2>1
<1> QED  BY <1>2, <1>3, <1>4, <1>5

LEMMA CountInit == ASSUME tool = "6d6mseed", Init PROVE CountInv
<1>1. output = <<>> /\ sample_number = 0 /\ have_time = FALSE
  BY DEF Init, Mseed!Init
<1>2. SamplesOf(<<>>) = {}  BY DEF SamplesOf
<1> QED  BY <1>1, <1>2, FS_EmptySet DEF CountInv

LEMMA CountWord ==
  ASSUME DecodeInv, DecodeInv', CountInv, NEW word \in MseedWords, Mseed!TakeWord(word)
  PROVE  CountInv'
<1>1. PICK f : f = Longer(frame, remaining, word)  OBVIOUS
<1>2. PICK left : left = Missing(remaining, word)  OBVIOUS
<1>3. PICK o \in Seq(Call), t \in BOOLEAN, p \in Seq(Call) :
        o = output /\ t = have_time /\ p = output'
  BY DEF DecodeInv, DecodedSoFar
<1>4. /\ p = IF left = 0 THEN o \o Mseed!CallsOf(f, t) ELSE o
      /\ sample_number' = IF left = 0 /\ ~Mseed!Odd(f[1]) /\ t
                          THEN sample_number + 1 ELSE sample_number
  BY <1>1, <1>2, <1>3 DEF Mseed!TakeWord, Longer, Missing
<1>5. have_time' = (t \/ (left = 0 /\ f[1] = Mseed!TIME))
  BY <1>1, <1>2, <1>3 DEF Mseed!TakeWord, Longer, Missing
<1>6. /\ sample_number \in Nat /\ sample_number = Cardinality(SamplesOf(o))
      /\ ~t => sample_number = 0
  BY <1>3 DEF CountInv
<1>7. sample_number' \in Nat /\ (~have_time' => sample_number' = 0)
  <2>1. ~have_time' => ~t  BY <1>5
  <2> QED  BY <1>4, <1>6, <2>1
<1>8. sample_number' = Cardinality(SamplesOf(p))
  <2>1. CASE p = o /\ ~(left = 0 /\ ~Mseed!Odd(f[1]) /\ t)  BY <1>4, <1>6, <2>1
  <2>2. CASE left = 0 /\ \E e : /\ Mseed!CallsOf(f, t) = <<e>>
                                /\ e.op = "sample" <=> ~Mseed!Odd(f[1]) /\ t
    <3>1. PICK e : /\ Mseed!CallsOf(f, t) = <<e>>
                   /\ e.op = "sample" <=> ~Mseed!Odd(f[1]) /\ t
      BY <2>2
    <3>2. p = Append(o, e)  BY <1>4, <2>2, <3>1
    <3>3. Len(p) = Len(o) + 1 /\ p[Len(p)] = e /\ \A k \in 1 .. Len(o) : p[k] = o[k]
      BY ONLY <3>2, o \in Seq(Call), p \in Seq(Call)
    <3>4. Cardinality(SamplesOf(p)) =
            IF e.op = "sample" THEN Cardinality(SamplesOf(o)) + 1
            ELSE Cardinality(SamplesOf(o))
      BY <3>3, CountOne
    <3> QED  BY <1>4, <1>6, <2>2, <3>1, <3>4
  <2>3. CASE left = 0 /\ Mseed!CallsOf(f, t) = <<>> /\ (Mseed!Odd(f[1]) \/ ~t)
    <3>1. p = o  BY <1>4, <2>3, ConcatEmptySeq
    <3> QED  BY <2>1, <2>3, <3>1
  <2>4. CASE left # 0  BY <1>4, <2>1, <2>4
  <2> QED  BY <2>2, <2>3, <2>4, CallOf
<1>9. (SamplesOf(output))' = SamplesOf(p)
  BY <1>3 DEF SamplesOf
<1> QED  BY <1>7, <1>8, <1>9 DEF CountInv

LEMMA CountStep == ASSUME DecodeInv, CountInv, Mseed!Next PROVE CountInv'
<1>1. ASSUME UNCHANGED <<output, have_time, sample_number>> PROVE CountInv'
  BY <1>1 DEF CountInv, SamplesOf
<1>2. CASE \E word \in MseedWords : Mseed!TakeWord(word)
  BY <1>2, DecodeStep, CountWord
<1>3. CASE \/ Mseed!Skip \/ Mseed!SkipFails \/ Mseed!StartData
           \/ Mseed!ReadBlock \/ Mseed!ReadBlockFails \/ Mseed!EndOfData
           \/ Mseed!Over
  <2>1. UNCHANGED <<output, have_time, sample_number>>
    BY <1>3 DEF Mseed!Skip, Mseed!SkipFails, Mseed!StartData, Mseed!ReadBlock,
                Mseed!ReadBlockFails, Mseed!EndOfData, Mseed!Over, Mseed!vars
  <2> QED  BY <1>1, <2>1
<1> QED  BY <1>2, <1>3 DEF Mseed!Next

\* 6d6mseed counts the samples it hands on, and hands on none before the first
\* timestamp (6d6mseed.c, the case of a sample frame), however many there are.
THEOREM EverySample == Spec => []SamplesCounted
<1> DEFINE Inv == tool = "6d6mseed" => DecodeInv /\ CountInv
<1>1. Init => Inv  BY DecodeInit, CountInit
<1>2. Inv /\ [Next]_vars => Inv'
  <2> SUFFICES ASSUME DecodeInv, CountInv, tool = "6d6mseed", [Next]_vars
               PROVE  DecodeInv' /\ CountInv'
    BY StepsOf
  <2>1. CASE Mseed!Next  BY <2>1, DecodeStep, CountStep
  <2>2. CASE UNCHANGED vars
    <3>1. UNCHANGED <<words, output, have_time, frame, remaining, pc, sample_number>>
      BY <2>2 DEF vars, frameVars, mseedVars
    <3> QED  BY <3>1 DEF DecodeInv, CountInv, SamplesOf
  <2> QED  BY <2>1, <2>2, StepsOf
<1>3. Inv => SamplesCounted
  <2>1. \A S : Mseed!Cardinality(S) = Cardinality(S)
    BY DEF Mseed!Cardinality, Cardinality
  <2> QED  BY <2>1 DEF SamplesCounted, Mseed!SamplesCounted, CountInv, SamplesOf
<1> QED  BY <1>1, <1>2, <1>3, PTL DEF Spec

-----------------------------------------------------------------------------
\* 6d6strip: the frames of the data

\* What is kept of the frame that begins with word k.
Kept(ws, k) == IF ws[k] % 2 = 1 THEN SubSeq(ws, k, LastOf(ws, k)) ELSE <<>>
\* No complete frame begins with word k.
NoMore(ws, k) == k > Len(ws) \/ LastOf(ws, k) > Len(ws)
FramesFrom(ws) ==
  CHOOSE from : from = [k \in 1 .. Len(ws) + 1 |->
    IF k > Len(ws) \/ LastOf(ws, k) > Len(ws) THEN <<>>
    ELSE <<Kept(ws, k)>> \o from[LastOf(ws, k) + 1]]

LEMMA FramesAre == \A ws : Strip!Frames(ws) = FramesFrom(ws)[1]
BY DEF Strip!Frames, FramesFrom, LastOf, Kept, Strip!Odd

LEMMA OneFrame ==
  ASSUME NEW a \in Seq(Int)
  PROVE  <<a>> \in Seq(Seq(Int)) /\ <<a>>[1] = a /\ Len(<<a>>) = 1
<1>1. PICK I : I = Seq(Int)  OBVIOUS
<1>2. a \in I  BY <1>1
<1>3. <<a>> \in Seq(I) /\ <<a>>[1] = a /\ Len(<<a>>) = 1  BY ONLY <1>2
<1> QED  BY <1>1, <1>3

LEMMA KeptTyped ==
  ASSUME NEW ws \in Seq(Int), NEW k \in Nat, k \in 1 .. Len(ws), LastOf(ws, k) <= Len(ws)
  PROVE  /\ Kept(ws, k) \in Seq(Int)
         /\ LastOf(ws, k) \in Nat /\ k <= LastOf(ws, k)
<1>1. SubSeq(ws, k, LastOf(ws, k)) \in Seq(Int) /\ LastOf(ws, k) \in Nat /\ k <= LastOf(ws, k)
  BY FrameAt
<1>2. <<>> \in Seq(Int)  BY EmptySeq
<1> QED  BY <1>1, <1>2 DEF Kept

\* The frames from a place on: the one there, then those from the next.
LEMMA FramesUnfold ==
  ASSUME NEW ws \in Seq(Int), NEW k \in 1 .. Len(ws) + 1
  PROVE  /\ FramesFrom(ws)[k] \in Seq(Seq(Int))
         /\ NoMore(ws, k) => FramesFrom(ws)[k] = <<>>
         /\ ~NoMore(ws, k) =>
              FramesFrom(ws)[k] = <<Kept(ws, k)>> \o FramesFrom(ws)[LastOf(ws, k) + 1]
<1> DEFINE X == 1 .. Len(ws) + 1
           Stop(a) == a > Len(ws) \/ LastOf(ws, a) > Len(ws)
           stop == {a \in X : Stop(a)}
           Head_(a) == <<Kept(ws, a)>>
           Next_(a) == LastOf(ws, a) + 1
           head == [a \in X |-> Head_(a)]
           next == [a \in X |-> Next_(a)]
           m == [a \in X |-> Len(ws) + 1 - a]
           Body(from) == [a \in X |-> IF Stop(a) THEN <<>> ELSE Head_(a) \o from[Next_(a)]]
<1>1. Len(ws) \in Nat  BY LenProperties
<1>2. \A a \in X : m[a] \in 0 .. Len(ws)  BY <1>1
<1>3. ASSUME NEW a \in X \ stop
      PROVE  head[a] \in Seq(Seq(Int)) /\ next[a] \in X /\ m[next[a]] < m[a]
  <2>1. a \in Nat /\ a \in 1 .. Len(ws) /\ LastOf(ws, a) <= Len(ws)
    <3>1. ~(a > Len(ws)) /\ ~(LastOf(ws, a) > Len(ws))  BY <1>3
    <3>2. a \in 1 .. Len(ws)  BY <1>1, <3>1
    <3>3. ws[a] \in Int  BY <3>2, ElementOfSeq
    <3>4. LastOf(ws, a) \in Int  BY <3>2, <3>3, ChannelsNat DEF LastOf
    <3> QED  BY <1>1, <3>1, <3>2, <3>4
  <2>2. PICK e \in Nat : e = LastOf(ws, a) /\ a <= e /\ e <= Len(ws)
    BY <2>1, KeptTyped
  <2>3. Head_(a) \in Seq(Seq(Int))  BY <2>1, KeptTyped, OneFrame
  <2>4. Next_(a) = e + 1 /\ e + 1 \in X  BY <1>1, <2>2
  <2> HIDE DEF Head_, Next_
  <2>5. head[a] = Head_(a) /\ next[a] = Next_(a)  OBVIOUS
  <2>6. m[a] = Len(ws) + 1 - a /\ m[next[a]] = Len(ws) + 1 - (e + 1)  BY <2>4, <2>5
  <2> QED  BY <1>1, <2>1, <2>2, <2>3, <2>4, <2>5, <2>6
<1>4. \E f \in [X -> Seq(Seq(Int))] : TailEquation(f, X, stop, head, next)
  <2> HIDE DEF X, stop, head, next, m
  <2> QED  BY <1>1, <1>2, <1>3, TailRecursion
<1>5. ASSUME NEW f, TailEquation(f, X, stop, head, next)
      PROVE  \A a \in X : f[a] = Body(f)[a]
  <2> SUFFICES ASSUME NEW a \in X PROVE f[a] = Body(f)[a]  OBVIOUS
  <2>1. f[a] = IF a \in stop THEN <<>> ELSE head[a] \o f[next[a]]
    BY <1>5 DEF TailEquation
  <2> HIDE DEF X, Head_, Next_, Stop
  <2> QED  BY <2>1
<1>6. \E f : f = Body(f)
  <2>1. PICK f : f \in [X -> Seq(Seq(Int))] /\ TailEquation(f, X, stop, head, next)
    BY <1>4
  <2>2. \A a \in X : f[a] = Body(f)[a]  BY <1>5, <2>1
  <2>3. f = [a \in X |-> f[a]] /\ Body(f) = [a \in X |-> Body(f)[a]]
    BY <2>1
  <2> HIDE DEF Body, X
  <2>4. [a \in X |-> f[a]] = [a \in X |-> Body(f)[a]]  BY <2>2
  <2> QED  BY <2>3, <2>4
<1>7. PICK c : c = FramesFrom(ws)  OBVIOUS
<1>8. c = Body(c)
  <2>1. FramesFrom(ws) = CHOOSE from : from = Body(from)  BY DEF FramesFrom
  <2> HIDE DEF Body
  <2> QED  BY <1>6, <1>7, <2>1
<1>9. \A a \in X : c[a] = IF Stop(a) THEN <<>> ELSE Head_(a) \o c[Next_(a)]
  <2> HIDE DEF X, Head_, Next_, Stop
  <2> QED  BY <1>8
<1>10. TailEquation(c, X, stop, head, next)
  <2> SUFFICES ASSUME NEW a \in X
               PROVE  c[a] = IF a \in stop THEN <<>> ELSE head[a] \o c[next[a]]
    BY DEF TailEquation
  <2> HIDE DEF X, Head_, Next_, Stop
  <2> QED  BY <1>9
<1>11. \A a \in X : c[a] \in Seq(Seq(Int))
  <2> HIDE DEF X, stop, head, next, m
  <2> QED  BY <1>1, <1>2, <1>3, <1>10, TailTyped
<1>12. c[k] \in Seq(Seq(Int))  BY <1>11
<1>13. Stop(k) <=> NoMore(ws, k)  BY DEF NoMore
<1>14. c[k] = IF Stop(k) THEN <<>> ELSE Head_(k) \o c[Next_(k)]  BY <1>9
<1> HIDE DEF Stop
<1> QED  BY <1>7, <1>12, <1>13, <1>14

Kind == Seq(Int)

\* What told leaves of the frames of ws is found from word s, however ws goes on.
FramesLeft(ws, told, s) ==
  \A rest \in Seq(Int) :
    FramesFrom(ws \o rest)[1] = told \o FramesFrom(ws \o rest)[s]
FramesSoFar(ws, told, fr, rem) ==
  /\ ws \in Seq(Int) /\ told \in Seq(Kind) /\ fr \in Seq(Int) /\ rem \in Nat
  /\ \E s \in 1 .. Len(ws) + 1 : InFrame(ws, fr, rem, "data", s) /\ FramesLeft(ws, told, s)

LEMMA FramesInit == FramesSoFar(<<>>, <<>>, <<>>, 0)
<1>1. <<>> \in Seq(Int) /\ <<>> \in Seq(Kind) /\ Len(<<>>) = 0  BY EmptySeq
<1>2. FramesLeft(<<>>, <<>>, 1)
  <2> SUFFICES ASSUME NEW rest \in Seq(Int)
               PROVE  FramesFrom(<<>> \o rest)[1] = <<>> \o FramesFrom(<<>> \o rest)[1]
    BY DEF FramesLeft
  <2>1. <<>> \o rest = rest  BY ConcatEmptySeq
  <2>2. 1 \in 1 .. Len(rest) + 1  BY LenProperties
  <2>3. FramesFrom(rest)[1] \in Seq(Kind)  BY <2>2, FramesUnfold DEF Kind
  <2>4. <<>> \o FramesFrom(rest)[1] = FramesFrom(rest)[1]  BY <2>3, ConcatEmptySeq
  <2> QED  BY <2>1, <2>4
<1>3. InFrame(<<>>, <<>>, 0, "data", 1) /\ 1 \in 1 .. Len(<<>>) + 1
  BY <1>1 DEF InFrame
<1> QED  BY <1>1, <1>2, <1>3 DEF FramesSoFar

LEMMA ConcatKinds ==
  \A a, b, c \in Seq(Kind) : a \o b \in Seq(Kind) /\ a \o (b \o c) = (a \o b) \o c
BY ConcatProperties, ConcatAssociative

\* A complete frame is told; the rest is found from behind it.
LEMMA FrameTold ==
  ASSUME NEW w \in Seq(Int), NEW s \in 1 .. Len(w), LastOf(w, s) = Len(w),
         NEW o \in Seq(Kind), FramesLeft(w, o, s), NEW x \in Seq(Kind), x = <<Kept(w, s)>>
  PROVE  FramesLeft(w, o \o x, Len(w) + 1)
<1> SUFFICES ASSUME NEW rest \in Seq(Int)
             PROVE  FramesFrom(w \o rest)[1] = (o \o x) \o FramesFrom(w \o rest)[Len(w) + 1]
  BY DEF FramesLeft
<1>1. PICK v \in Seq(Int) : v = w \o rest  BY ConcatProperties
<1>2. PICK n1 \in Nat : n1 = Len(w)  BY LenProperties
<1>3. s \in Nat /\ s \in 1 .. n1 /\ n1 \in s .. n1  BY <1>2
<1>4. /\ v[s] = w[s] /\ LastOf(v, s) = n1 /\ n1 <= Len(v) /\ Len(v) \in Nat
      /\ SubSeq(v, s, n1) = SubSeq(w, s, n1)
  BY <1>1, <1>2, <1>3, FrameStays
<1>5. n1 <= Len(v) /\ Len(v) \in Nat  BY <1>4
<1>6. s \in 1 .. Len(v) + 1 /\ n1 + 1 \in 1 .. Len(v) + 1  BY <1>3, <1>5
<1>7. ~NoMore(v, s)
  <2>1. ~(s > Len(v))  BY <1>3, <1>5
  <2>2. ~(LastOf(v, s) > Len(v))  BY <1>4
  <2> QED  BY <2>1, <2>2 DEF NoMore
<1>8. PICK y \in Seq(Kind) : y = FramesFrom(v)[n1 + 1]  BY <1>6, FramesUnfold DEF Kind
<1>9. FramesFrom(v)[s] = x \o y
  <2>1. FramesFrom(v)[s] = <<Kept(v, s)>> \o FramesFrom(v)[LastOf(v, s) + 1]
    BY <1>6, <1>7, FramesUnfold
  <2>2. Kept(v, s) = Kept(w, s)  BY <1>2, <1>4 DEF Kept
  <2>3. FramesFrom(v)[LastOf(v, s) + 1] = y  BY <1>4, <1>8
  <2> QED  BY <2>1, <2>2, <2>3
<1>10. FramesFrom(v)[1] = o \o FramesFrom(v)[s]  BY <1>1 DEF FramesLeft
<1>11. o \o (x \o y) = (o \o x) \o y
  BY ONLY ConcatKinds, o \in Seq(Kind), x \in Seq(Kind), y \in Seq(Kind), SMTT(30)
<1>12. FramesFrom(v)[1] = (o \o x) \o FramesFrom(v)[n1 + 1]
  BY <1>8, <1>9, <1>10, <1>11
<1> QED  BY <1>1, <1>2, <1>12

\* A word more goes on with the data.
LEMMA FramesStay ==
  ASSUME NEW ws \in Seq(Int), NEW o \in Seq(Kind), NEW s, FramesLeft(ws, o, s),
         NEW word \in Int
  PROVE  FramesLeft(Append(ws, word), o, s)
<1> SUFFICES ASSUME NEW rest \in Seq(Int)
             PROVE  FramesFrom(Append(ws, word) \o rest)[1]
                      = o \o FramesFrom(Append(ws, word) \o rest)[s]
  BY DEF FramesLeft
<1>1. PICK a \in Seq(Int) : a = <<word>>  BY OneInt
<1>2. PICK r \in Seq(Int) : r = a \o rest  BY ConcatProperties
<1>3. Append(ws, word) \o rest = ws \o r  BY <1>1, <1>2, AppendThen
<1>4. FramesFrom(ws \o r)[1] = o \o FramesFrom(ws \o r)[s]  BY DEF FramesLeft
<1> QED  BY <1>3, <1>4

\* What is kept of a frame read.
KeptOf(f) == IF f[1] % 2 = 1 THEN f ELSE <<>>

\* What a word more makes of the frames told.
WordTold(ws, o, fr, rem, word) ==
  \E w \in Seq(Int), f \in Seq(Int), left \in Nat :
    /\ w = Append(ws, word) /\ f = Longer(fr, rem, word) /\ left = Missing(rem, word)
    /\ left # 0 => FramesSoFar(w, o, f, left)
    /\ left = 0 => /\ FramesSoFar(w, o \o <<KeptOf(f)>>, f, left)
                   /\ KeptOf(f) \in Kind /\ f[1] \in Int
                   /\ f[1] % 2 = 1 => Len(f) = 4

LEMMA FramesWord ==
  ASSUME NEW ws \in Seq(Int), NEW o \in Seq(Kind), NEW fr \in Seq(Int), NEW rem \in Nat,
         FramesSoFar(ws, o, fr, rem), NEW word \in Int
  PROVE  WordTold(ws, o, fr, rem, word)
<1>1. PICK s \in 1 .. Len(ws) + 1 : InFrame(ws, fr, rem, "data", s) /\ FramesLeft(ws, o, s)
  BY DEF FramesSoFar
<1>2. PICK w \in Seq(Int), f \in Seq(Int), left \in Nat :
        /\ w = Append(ws, word) /\ f = Longer(fr, rem, word) /\ left = Missing(rem, word)
        /\ Len(w) = Len(ws) + 1 /\ Len(ws) \in Nat /\ f = SubSeq(w, s, Len(w))
        /\ f[1] = w[s] /\ left = LastOf(w, s) - Len(w)
  <2> DEFINE w == Append(ws, word)  f == Longer(fr, rem, word)  left == Missing(rem, word)
  <2>1. /\ w \in Seq(Int) /\ Len(w) = Len(ws) + 1 /\ Len(ws) \in Nat
        /\ f = SubSeq(w, s, Len(w)) /\ f \in Seq(Int) /\ f[1] = w[s]
        /\ left = LastOf(w, s) - Len(w) /\ left \in Nat
    BY <1>1, FrameGrows
  <2>2. w = Append(ws, word) /\ f = Longer(fr, rem, word) /\ left = Missing(rem, word)
    OBVIOUS
  <2> HIDE DEF w, f, left
  <2> QED  BY <2>1, <2>2
<1>3. Len(w) = Len(ws) + 1 /\ Len(ws) \in Nat  BY <1>2
<1>4. f = SubSeq(w, s, Len(w)) /\ f[1] = w[s]  BY <1>2
<1>5. left = LastOf(w, s) - Len(w)  BY <1>2
<1>6. FramesLeft(w, o, s)  BY <1>1, <1>2, FramesStay
<1>7. s \in 1 .. Len(w) /\ s \in 1 .. Len(w) + 1  BY <1>3
<1>8. left # 0 => FramesSoFar(w, o, f, left)
  <2> SUFFICES ASSUME left # 0 PROVE FramesSoFar(w, o, f, left)  OBVIOUS
  <2>1. InFrame(w, f, left, "data", s)  BY <1>4, <1>5, <1>7 DEF InFrame
  <2> QED  BY <1>6, <1>7, <2>1 DEF FramesSoFar
<1>9. left = 0 => /\ FramesSoFar(w, o \o <<KeptOf(f)>>, f, left)
                  /\ KeptOf(f) \in Kind /\ f[1] \in Int
                  /\ f[1] % 2 = 1 => Len(f) = 4
  <2>0. SUFFICES ASSUME left = 0
                 PROVE  /\ FramesSoFar(w, o \o <<KeptOf(f)>>, f, 0)
                        /\ KeptOf(f) \in Kind /\ f[1] \in Int
                        /\ f[1] % 2 = 1 => Len(f) = 4
    OBVIOUS
  <2>1. LastOf(w, s) = Len(w) /\ w[s] \in Int
    <3>1. w[s] \in Int /\ Len(w) \in Nat  BY <1>3, <1>7, ElementOfSeq
    <3>2. LastOf(w, s) \in Int  BY <1>7, <3>1, ChannelsNat DEF LastOf
    <3> QED  BY <1>5, <2>0, <3>1, <3>2
  <2>2. f[1] % 2 = 1 => Len(f) = 4
    <3>1. LastOf(w, s) <= Len(w) /\ s \in Nat  BY <1>3, <1>7, <2>1
    <3>2. w[s] % 2 = 1 => Len(SubSeq(w, s, LastOf(w, s))) = 4
      BY ONLY <1>7, <3>1, w \in Seq(Int), FrameAt
    <3>3. SubSeq(w, s, LastOf(w, s)) = f /\ f[1] = w[s]  BY <1>4, <2>1
    <3> QED  BY ONLY <3>2, <3>3
  <2>3. KeptOf(f) = Kept(w, s)  BY <1>4, <2>1 DEF KeptOf, Kept
  <2>4. KeptOf(f) \in Kind
    <3>1. <<>> \in Seq(Int)  BY EmptySeq
    <3> QED  BY <3>1 DEF KeptOf, Kind
  <2>5. PICK x \in Seq(Kind) : x = <<KeptOf(f)>>  BY <2>4, OneFrame DEF Kind
  <2>6. PICK ox \in Seq(Kind) : ox = o \o x  BY ConcatProperties
  <2>7. FramesLeft(w, ox, Len(w) + 1)
    BY <1>6, <1>7, <2>1, <2>3, <2>5, <2>6, FrameTold
  <2>8. InFrame(w, f, 0, "data", Len(w) + 1)  BY DEF InFrame
  <2>9. Len(w) + 1 \in 1 .. Len(w) + 1  BY <1>3
  <2>10. FramesSoFar(w, ox, f, 0)  BY <2>7, <2>8, <2>9 DEF FramesSoFar
  <2> QED  BY <1>4, <2>1, <2>2, <2>4, <2>5, <2>6, <2>10
<1> QED  BY <1>2, <1>8, <1>9 DEF WordTold

\* When nothing follows, the frames told are all.
LEMMA FramesAll ==
  ASSUME NEW ws, NEW o, NEW fr, NEW rem, FramesSoFar(ws, o, fr, rem)
  PROVE  Strip!Frames(ws) = o
<1>1. ws \in Seq(Int) /\ o \in Seq(Kind) /\ rem \in Nat  BY DEF FramesSoFar
<1>2. PICK s \in 1 .. Len(ws) + 1 : InFrame(ws, fr, rem, "data", s) /\ FramesLeft(ws, o, s)
  BY DEF FramesSoFar
<1>3. <<>> \in Seq(Int) /\ ws \o <<>> = ws  BY <1>1, EmptySeq, ConcatEmptySeq
<1>4. FramesFrom(ws)[1] = o \o FramesFrom(ws)[s]  BY <1>2, <1>3 DEF FramesLeft
<1>5. NoMore(ws, s)
  <2>1. Len(ws) \in Nat  BY <1>1, LenProperties
  <2>2. CASE rem = 0
    <3>1. s = Len(ws) + 1  BY <1>2, <2>2 DEF InFrame
    <3> QED  BY <2>1, <3>1 DEF NoMore
  <2>3. CASE rem > 0
    <3>1. s <= Len(ws) /\ rem = LastOf(ws, s) - Len(ws)  BY <1>2, <2>3 DEF InFrame
    <3>2. ws[s] \in Int /\ s \in Int
      <4>1. s \in 1 .. Len(ws)  BY <2>1, <3>1
      <4> QED  BY <1>1, <4>1, ElementOfSeq
    <3>3. LastOf(ws, s) \in Int  BY <3>2, ChannelsNat DEF LastOf
    <3>4. LastOf(ws, s) > Len(ws)  BY <2>1, <2>3, <3>1, <3>3
    <3> QED  BY <3>4 DEF NoMore
  <2> QED  BY <1>1, <2>2, <2>3
<1>6. FramesFrom(ws)[s] = <<>>  BY <1>1, <1>5, FramesUnfold
<1>7. o \o <<>> = o  BY <1>1, ConcatEmptySeq
<1> QED  BY <1>4, <1>6, <1>7, FramesAre

-----------------------------------------------------------------------------
\* 6d6strip: what its entries tell

Entries ==
  {e \in Seq(Int) : /\ Len(e) >= 1 /\ e[1] \in {0, 1, 2}
                    /\ Len(e) = 2 /\ e[1] = 0 => e[2] \in Nat}

\* The frames that an entry tells of, a torn one of none.
Part(e) ==
  CASE ~Strip!Whole(e) -> <<>>
    [] Strip!Whole(e) /\ e[1] = 0 -> [k \in 1 .. e[2] |-> <<>>]
    [] Strip!Whole(e) /\ e[1] = 1 -> <<<<1, e[2], e[3], 0>>>>
    [] Strip!Whole(e) /\ e[1] = 2 -> <<Tail(e)>>
ToldFrom(es) ==
  CHOOSE from : from = [n1 \in 1 .. Len(es) + 1 |->
    IF n1 > Len(es) THEN <<>> ELSE Part(es[n1]) \o from[n1 + 1]]

LEMMA ToldIs == \A es : Strip!Told(es) = ToldFrom(es)[1]
BY DEF Strip!Told, ToldFrom, Part

\* A number of frames of samples.
Blank(c) == [k \in 1 .. c |-> <<>>]

LEMMA BlankTyped == \A c \in Nat : Blank(c) \in Seq(Kind) /\ Len(Blank(c)) = c
<1> SUFFICES ASSUME NEW c \in Nat PROVE Blank(c) \in Seq(Kind) /\ Len(Blank(c)) = c
  OBVIOUS
<1>1. <<>> \in Kind  BY EmptySeq DEF Kind
<1>2. Blank(c) \in [1 .. c -> Kind]  BY <1>1 DEF Blank
<1> HIDE DEF Blank, Kind
<1> QED  BY <1>2

LEMMA TailTypedInts ==
  ASSUME NEW e \in Seq(Int), Len(e) >= 1
  PROVE  Tail(e) \in Seq(Int)
<1>1. e # <<>>  BY EmptySeq
<1> QED  BY <1>1, HeadTailProperties

LEMMA WholeIs ==
  ASSUME NEW e
  PROVE  /\ e[1] = 0 => (Strip!Whole(e) <=> Len(e) = 2)
         /\ e[1] = 1 => (Strip!Whole(e) <=> Len(e) = 3)
         /\ e[1] = 2 => (Strip!Whole(e) <=> Len(e) = 5)
BY DEF Strip!Whole

LEMMA PartIs ==
  ASSUME NEW e
  PROVE  /\ ~Strip!Whole(e) => Part(e) = <<>>
         /\ e[1] = 0 /\ Len(e) = 2 => Part(e) = Blank(e[2])
         /\ e[1] = 1 /\ Len(e) = 3 => Part(e) = <<<<1, e[2], e[3], 0>>>>
         /\ e[1] = 2 /\ Len(e) = 5 => Part(e) = <<Tail(e)>>
<1>1. CASE ~Strip!Whole(e)  BY <1>1, WholeIs DEF Part
<1>2. CASE Strip!Whole(e) /\ e[1] = 0  BY <1>2 DEF Part, Blank
<1>3. CASE Strip!Whole(e) /\ e[1] = 1  BY <1>3 DEF Part
<1>4. CASE Strip!Whole(e) /\ e[1] = 2  BY <1>4 DEF Part
<1>5. CASE e[1] \notin {0, 1, 2} /\ Strip!Whole(e)  BY <1>5
<1> QED  BY <1>1, <1>2, <1>3, <1>4, <1>5

LEMMA PartTyped == ASSUME NEW e \in Entries PROVE Part(e) \in Seq(Kind)
<1>1. e \in Seq(Int) /\ e[1] \in {0, 1, 2} /\ Len(e) >= 1  BY DEF Entries
<1>2. CASE e[1] = 0 /\ Len(e) = 2
  <2>1. e[2] \in Nat  BY <1>2 DEF Entries
  <2> QED  BY <1>2, <2>1, PartIs, BlankTyped
<1>3. CASE e[1] = 1 /\ Len(e) = 3
  <2>1. e[2] \in Int /\ e[3] \in Int
    <3>1. 2 \in 1 .. Len(e) /\ 3 \in 1 .. Len(e)  BY <1>3
    <3> QED  BY <1>1, <3>1, ElementOfSeq
  <2>2. <<1, e[2], e[3], 0>> \in Seq(Int)  BY <2>1
  <2>3. Part(e) = <<<<1, e[2], e[3], 0>>>>  BY <1>3, PartIs
  <2> QED  BY <2>2, <2>3, OneFrame DEF Kind
<1>4. CASE e[1] = 2 /\ Len(e) = 5
  <2>1. Tail(e) \in Seq(Int)  BY <1>1, <1>4, TailTypedInts
  <2>2. Part(e) = <<Tail(e)>>  BY <1>4, PartIs
  <2> QED  BY <2>1, <2>2, OneFrame DEF Kind
<1>5. CASE ~Strip!Whole(e)
  <2>1. Part(e) = <<>>  BY <1>5, PartIs
  <2> QED  BY <2>1, EmptySeq
<1> QED  BY <1>1, <1>2, <1>3, <1>4, <1>5, WholeIs

LEMMA ToldUnfold ==
  ASSUME NEW es \in Seq(Entries), NEW k \in 1 .. Len(es) + 1
  PROVE  /\ ToldFrom(es)[k] \in Seq(Kind)
         /\ k = Len(es) + 1 => ToldFrom(es)[k] = <<>>
         /\ k # Len(es) + 1 => ToldFrom(es)[k] = Part(es[k]) \o ToldFrom(es)[k + 1]
<1> DEFINE X == 1 .. Len(es) + 1
           Stop(a) == a > Len(es)
           stop == {a \in X : Stop(a)}
           Head_(a) == Part(es[a])
           head == [a \in X |-> Head_(a)]
           next == [a \in X |-> a + 1]
           m == [a \in X |-> Len(es) + 1 - a]
           Body(from) == [a \in X |-> IF Stop(a) THEN <<>> ELSE Head_(a) \o from[a + 1]]
<1>1. Len(es) \in Nat  BY LenProperties
<1>2. \A a \in X : m[a] \in 0 .. Len(es)  BY <1>1
<1>3. ASSUME NEW a \in X \ stop
      PROVE  head[a] \in Seq(Kind) /\ next[a] \in X /\ m[next[a]] < m[a]
  <2>1. a \in 1 .. Len(es)  BY <1>1
  <2>2. es[a] \in Entries  BY <2>1, ElementOfSeq
  <2>3. Head_(a) \in Seq(Kind)  BY <2>2, PartTyped
  <2>4. a + 1 \in X  BY <1>1, <2>1
  <2> HIDE DEF Head_
  <2>5. head[a] = Head_(a) /\ next[a] = a + 1  OBVIOUS
  <2>6. m[a] = Len(es) + 1 - a /\ m[next[a]] = Len(es) + 1 - (a + 1)  BY <2>4, <2>5
  <2> QED  BY <1>1, <2>1, <2>3, <2>4, <2>5, <2>6
<1>4. \E f \in [X -> Seq(Kind)] : TailEquation(f, X, stop, head, next)
  <2> HIDE DEF X, stop, head, next, m
  <2> QED  BY <1>1, <1>2, <1>3, TailRecursion
<1>5. ASSUME NEW f, TailEquation(f, X, stop, head, next)
      PROVE  \A a \in X : f[a] = Body(f)[a]
  <2> SUFFICES ASSUME NEW a \in X PROVE f[a] = Body(f)[a]  OBVIOUS
  <2>1. f[a] = IF a \in stop THEN <<>> ELSE head[a] \o f[next[a]]
    BY <1>5 DEF TailEquation
  <2> HIDE DEF X, Head_, Stop
  <2> QED  BY <2>1
<1>6. \E f : f = Body(f)
  <2>1. PICK f : f \in [X -> Seq(Kind)] /\ TailEquation(f, X, stop, head, next)
    BY <1>4
  <2>2. \A a \in X : f[a] = Body(f)[a]  BY <1>5, <2>1
  <2>3. f = [a \in X |-> f[a]] /\ Body(f) = [a \in X |-> Body(f)[a]]
    BY <2>1
  <2> HIDE DEF Body, X
  <2>4. [a \in X |-> f[a]] = [a \in X |-> Body(f)[a]]  BY <2>2
  <2> QED  BY <2>3, <2>4
<1>7. PICK c : c = ToldFrom(es)  OBVIOUS
<1>8. c = Body(c)
  <2>1. ToldFrom(es) = CHOOSE from : from = Body(from)  BY DEF ToldFrom
  <2> HIDE DEF Body
  <2> QED  BY <1>6, <1>7, <2>1
<1>9. \A a \in X : c[a] = IF Stop(a) THEN <<>> ELSE Head_(a) \o c[a + 1]
  <2> HIDE DEF X, Head_, Stop
  <2> QED  BY <1>8
<1>10. TailEquation(c, X, stop, head, next)
  <2> SUFFICES ASSUME NEW a \in X
               PROVE  c[a] = IF a \in stop THEN <<>> ELSE head[a] \o c[next[a]]
    BY DEF TailEquation
  <2> HIDE DEF X, Head_, Stop
  <2> QED  BY <1>9
<1>11. \A a \in X : c[a] \in Seq(Kind)
  <2> HIDE DEF X, stop, head, next, m
  <2> QED  BY <1>1, <1>2, <1>3, <1>10, TailTyped
<1>12. c[k] \in Seq(Kind)  BY <1>11
<1>13. Stop(k) <=> k = Len(es) + 1  BY <1>1
<1>14. c[k] = IF Stop(k) THEN <<>> ELSE Head_(k) \o c[k + 1]  BY <1>9
<1> HIDE DEF Stop
<1> QED  BY <1>7, <1>12, <1>13, <1>14

\* One entry more tells of its frames.
LEMMA ToldAppend ==
  ASSUME NEW es \in Seq(Entries), NEW e \in Entries
  PROVE  /\ Strip!Told(es) \in Seq(Kind)
         /\ Strip!Told(Append(es, e)) = Strip!Told(es) \o Part(e)
<1>1. PICK l \in Nat : l = Len(es)  BY LenProperties
<1>2. PICK fs \in Seq(Entries) :
        /\ fs = Append(es, e) /\ Len(fs) = l + 1 /\ fs[l + 1] = e
        /\ \A k \in 1 .. l : fs[k] = es[k]
  <2>1. PICK fs : fs = Append(es, e)  OBVIOUS
  <2>2. /\ fs \in Seq(Entries) /\ Len(fs) = l + 1 /\ fs[l + 1] = e
        /\ \A k \in 1 .. l : fs[k] = es[k]
    BY ONLY <1>1, <2>1, es \in Seq(Entries), e \in Entries, AppendProperties
  <2> QED  BY <2>1, <2>2
<1>3. PICK x \in Seq(Kind) : x = Part(e)  BY PartTyped
<1>4. PICK a, b : a = ToldFrom(es) /\ b = ToldFrom(fs)  OBVIOUS
<1>5. a[l + 1] = <<>> /\ \A k \in 1 .. l + 1 : a[k] \in Seq(Kind)
  <2>1. l + 1 \in 1 .. Len(es) + 1 /\ l + 1 = Len(es) + 1  BY <1>1
  <2>2. ToldFrom(es)[l + 1] = <<>>  BY <2>1, ToldUnfold
  <2>3. \A k \in 1 .. Len(es) + 1 : ToldFrom(es)[k] \in Seq(Kind)  BY ToldUnfold
  <2> QED  BY <1>1, <1>4, <2>2, <2>3
<1>6. \A k \in 1 .. l : a[k] = Part(es[k]) \o a[k + 1]
  <2> SUFFICES ASSUME NEW k \in 1 .. l PROVE a[k] = Part(es[k]) \o a[k + 1]  OBVIOUS
  <2>1. k \in 1 .. Len(es) + 1 /\ k # Len(es) + 1  BY <1>1
  <2>2. ToldFrom(es)[k] = Part(es[k]) \o ToldFrom(es)[k + 1]  BY <2>1, ToldUnfold
  <2> QED  BY <1>4, <2>2
<1>7. b[l + 1] = x
  <2>1. l + 1 \in 1 .. Len(fs) + 1 /\ l + 1 # Len(fs) + 1 /\ l + 1 + 1 = Len(fs) + 1
        /\ l + 1 + 1 \in 1 .. Len(fs) + 1
    BY <1>2
  <2>2. b[l + 1] = Part(e) \o b[l + 1 + 1]  BY <1>2, <1>4, <2>1, ToldUnfold
  <2>3. b[l + 1 + 1] = <<>>  BY <1>4, <2>1, ToldUnfold
  <2>4. x \o <<>> = x  BY ConcatEmptySeq
  <2> QED  BY <1>3, <2>2, <2>3, <2>4
<1>8. \A k \in 1 .. l : b[k] = Part(es[k]) \o b[k + 1]
  <2> SUFFICES ASSUME NEW k \in 1 .. l PROVE b[k] = Part(es[k]) \o b[k + 1]  OBVIOUS
  <2>1. k \in 1 .. Len(fs) + 1 /\ k # Len(fs) + 1 /\ fs[k] = es[k]  BY <1>2
  <2>2. ToldFrom(fs)[k] = Part(fs[k]) \o ToldFrom(fs)[k + 1]  BY <2>1, ToldUnfold
  <2> QED  BY <1>4, <2>1, <2>2
<1>9. \A k \in 1 .. l : Part(es[k]) \in Seq(Kind)
  BY <1>1, ElementOfSeq, PartTyped
<1> DEFINE T == {k \in Nat : k <= l => b[l + 1 - k] = a[l + 1 - k] \o x}
<1>10. 0 \in T
  <2>1. <<>> \o x = x /\ l + 1 - 0 = l + 1  BY ConcatEmptySeq
  <2> QED  BY <1>5, <1>7, <2>1
<1>11. ASSUME NEW k \in Nat, k \in T PROVE k + 1 \in T
  <2> SUFFICES ASSUME k + 1 <= l PROVE b[l + 1 - (k + 1)] = a[l + 1 - (k + 1)] \o x
    OBVIOUS
  <2>1. PICK h \in 1 .. l : h = l + 1 - (k + 1) /\ h + 1 = l + 1 - k  OBVIOUS
  <2>2. b[h + 1] = a[h + 1] \o x  BY <1>11, <2>1
  <2>3. PICK p \in Seq(Kind), q \in Seq(Kind) : p = Part(es[h]) /\ q = a[h + 1]
    BY <1>5, <1>9
  <2>4. b[h] = p \o (q \o x)  BY <1>8, <2>2, <2>3
  <2>5. a[h] = p \o q  BY <1>6, <2>3
  <2>6. p \o (q \o x) = (p \o q) \o x
    BY ONLY ConcatKinds, p \in Seq(Kind), q \in Seq(Kind), x \in Seq(Kind)
  <2> QED  BY <2>1, <2>4, <2>5, <2>6
<1>12. Nat \subseteq T
  <2> HIDE DEF T
  <2> QED  BY <1>10, <1>11, SetInduction
<1>13. b[1] = a[1] \o x
  <2>1. l \in T  BY <1>12
  <2>2. l + 1 - l = 1  OBVIOUS
  <2> QED  BY <2>1, <2>2
<1>14. a[1] \in Seq(Kind)  BY <1>5
<1> QED  BY <1>2, <1>3, <1>4, <1>13, <1>14, ToldIs

\* A frame of samples more is told by one number more.
LEMMA BlankMore ==
  ASSUME NEW c \in Nat
  PROVE  Blank(c) \o <<<<>>>> = Blank(c + 1)
<1>1. PICK z \in Seq(Kind) : z = <<<<>>>> /\ Len(z) = 1 /\ z[1] = <<>>
  BY EmptySeq, OneFrame DEF Kind
<1>2. PICK a \in Seq(Kind), b \in Seq(Kind) : a = Blank(c) /\ b = Blank(c + 1)
  BY BlankTyped
<1>3. /\ Len(a) = c /\ Len(b) = c + 1 /\ \A k \in 1 .. c : a[k] = <<>>
      /\ \A k \in 1 .. c + 1 : b[k] = <<>>
  BY <1>2, BlankTyped DEF Blank
<1>4. PICK p \in Seq(Kind) :
        /\ p = a \o z /\ Len(p) = c + 1
        /\ \A k \in 1 .. c + 1 : p[k] = IF k <= c THEN a[k] ELSE z[k - c]
  <2>1. PICK p : p = a \o z  OBVIOUS
  <2>2. /\ p \in Seq(Kind) /\ Len(p) = Len(a) + Len(z)
        /\ \A k \in 1 .. Len(a) + Len(z) : p[k] = IF k <= Len(a) THEN a[k] ELSE z[k - Len(a)]
    BY ONLY <2>1, a \in Seq(Kind), z \in Seq(Kind), ConcatProperties
  <2> QED  BY <1>1, <1>3, <2>1, <2>2
<1>5. \A k \in 1 .. c + 1 : p[k] = b[k]
  <2> SUFFICES ASSUME NEW k \in 1 .. c + 1 PROVE p[k] = <<>>  BY <1>3
  <2>1. CASE k <= c  BY <1>3, <1>4, <2>1
  <2>2. CASE k = c + 1
    <3>1. k - c = 1 /\ ~(k <= c)  BY <2>2
    <3> QED  BY <1>1, <1>4, <3>1
  <2> QED  BY <2>1, <2>2
<1>6. p = b  BY <1>3, <1>4, <1>5, SeqEqual
<1> QED  BY <1>1, <1>2, <1>4, <1>6

LEMMA BlankTold ==
  ASSUME NEW t \in Seq(Kind), NEW c \in Nat
  PROVE  (t \o Blank(c)) \o <<<<>>>> = t \o Blank(c + 1)
<1>1. PICK b \in Seq(Kind) : b = Blank(c)  BY BlankTyped
<1>2. PICK z \in Seq(Kind) : z = <<<<>>>>  BY EmptySeq, OneFrame DEF Kind
<1>3. b \o z = Blank(c + 1)  BY <1>1, <1>2, BlankMore
<1>4. t \o (b \o z) = (t \o b) \o z
  BY ONLY ConcatKinds, t \in Seq(Kind), b \in Seq(Kind), z \in Seq(Kind)
<1> QED  BY <1>1, <1>2, <1>3, <1>4

LEMMA BlankPart ==
  ASSUME NEW c \in Nat, c > 0
  PROVE  <<0, c>> \in Entries /\ Part(<<0, c>>) = Blank(c) /\ Strip!Whole(<<0, c>>)
<1>1. PICK e : e = <<0, c>>  OBVIOUS
<1>2. e \in Seq(Int) /\ e[1] = 0 /\ Len(e) = 2 /\ e[2] = c  BY <1>1
<1>3. e \in Entries  BY <1>2 DEF Entries
<1>4. Part(e) = Blank(c) /\ Strip!Whole(e)  BY <1>2, PartIs, WholeIs
<1> QED  BY <1>1, <1>3, <1>4

AllWhole(es) == \A k \in 1 .. Len(es) : Strip!Whole(es[k])

LEMMA WholeAppend ==
  ASSUME NEW es \in Seq(Entries), AllWhole(es), NEW e \in Entries, Strip!Whole(e)
  PROVE  AllWhole(Append(es, e))
<1>1. PICK fs \in Seq(Entries) :
        /\ fs = Append(es, e) /\ Len(fs) = Len(es) + 1 /\ fs[Len(es) + 1] = e
        /\ \A k \in 1 .. Len(es) : fs[k] = es[k]
  <2>1. PICK fs : fs = Append(es, e)  OBVIOUS
  <2>2. /\ fs \in Seq(Entries) /\ Len(fs) = Len(es) + 1 /\ fs[Len(es) + 1] = e
        /\ \A k \in 1 .. Len(es) : fs[k] = es[k]
    BY ONLY <2>1, es \in Seq(Entries), e \in Entries, AppendProperties
  <2> QED  BY <2>1, <2>2
<1>2. PICK l \in Nat : l = Len(es)  BY LenProperties
<1>3. ASSUME NEW k \in 1 .. l + 1 PROVE Strip!Whole(fs[k])
  <2>1. CASE k = l + 1  BY <1>1, <1>2, <2>1
  <2>2. CASE k \in 1 .. l
    <3>1. fs[k] = es[k] /\ Strip!Whole(es[k])  BY <1>1, <1>2, <2>2 DEF AllWhole
    <3> QED  BY <3>1
  <2> QED  BY <2>1, <2>2
<1> QED  BY <1>1, <1>2, <1>3 DEF AllWhole

\* The entries with the samples counted so far, and what they tell.
Flush(o, c) == IF c > 0 THEN Append(o, <<0, c>>) ELSE o

LEMMA FlushTells ==
  ASSUME NEW o \in Seq(Entries), NEW c \in Nat
  PROVE  /\ Flush(o, c) \in Seq(Entries) /\ Strip!Told(o) \in Seq(Kind)
         /\ AllWhole(o) => AllWhole(Flush(o, c))
         /\ Strip!Told(Flush(o, c)) = Strip!Told(o) \o Blank(c)
<1>0. Strip!Told(o) \in Seq(Kind)
  <2>1. 1 \in 1 .. Len(o) + 1  BY LenProperties
  <2> QED  BY <2>1, ToldUnfold, ToldIs
<1>1. CASE c > 0
  <2>1. <<0, c>> \in Entries /\ Part(<<0, c>>) = Blank(c) /\ Strip!Whole(<<0, c>>)
    BY <1>1, BlankPart
  <2>2. PICK e \in Entries : e = <<0, c>> /\ Part(e) = Blank(c) /\ Strip!Whole(e)
    BY <2>1
  <2>6. AllWhole(o) => AllWhole(Append(o, e))  BY <2>2, WholeAppend
  <2>3. Flush(o, c) = Append(o, e)  BY <1>1, <2>2 DEF Flush
  <2>4. Append(o, e) \in Seq(Entries)  BY AppendProperties
  <2>5. Strip!Told(Append(o, e)) = Strip!Told(o) \o Part(e)  BY ToldAppend
  <2> QED  BY <1>0, <2>2, <2>3, <2>4, <2>5, <2>6
<1>2. CASE ~(c > 0)
  <2>1. Flush(o, c) = o  BY <1>2 DEF Flush
  <2>2. Blank(c) = <<>>
    <3>1. Blank(c) \in Seq(Kind) /\ Len(Blank(c)) = 0  BY <1>2, BlankTyped
    <3> QED  BY <3>1, EmptySeq
  <2>3. PICK t \in Seq(Kind) : t = Strip!Told(o)  BY <1>0
  <2>4. t \o <<>> = t  BY ConcatEmptySeq
  <2> QED  BY <1>0, <2>1, <2>2, <2>3, <2>4
<1> QED  BY <1>1, <1>2

LEMMA OtherEntry ==
  ASSUME NEW e, e \in Seq(Int), Len(e) = 5, e[1] = 2
  PROVE  e \in Entries /\ e # <<>> /\ Strip!Whole(e)
<1>1. e # <<>>  BY EmptySeq, SMTT(30)
<1>2. Len(e) >= 1  OBVIOUS
<1>3. Strip!Whole(e)  BY WholeIs
<1> QED  BY <1>1, <1>2, <1>3 DEF Entries

\* The entry of a control frame tells of that frame.
LEMMA EntryTells ==
  ASSUME NEW f \in Seq(Int), Len(f) = 4
  PROVE  /\ Strip!Entry(f) \in Entries /\ Part(Strip!Entry(f)) = <<f>>
         /\ Strip!Whole(Strip!Entry(f))
<1>1. f[1] \in Int /\ f[2] \in Int /\ f[3] \in Int /\ f[4] \in Int
  <2>1. 1 \in 1 .. Len(f) /\ 2 \in 1 .. Len(f) /\ 3 \in 1 .. Len(f) /\ 4 \in 1 .. Len(f)
    OBVIOUS
  <2> QED  BY <2>1, ElementOfSeq
<1>2. CASE Strip!IsTime(f)
  <2>1. f[1] = 1 /\ f[4] = 0  BY <1>2 DEF Strip!IsTime
  <2>2. PICK e : e = <<1, f[2], f[3]>>  OBVIOUS
  <2>3. e \in Seq(Int) /\ Len(e) = 3 /\ e[1] = 1 /\ e[2] = f[2] /\ e[3] = f[3]
    BY <1>1, <2>2
  <2>4. e \in Entries /\ Strip!Whole(e)  BY <2>3, WholeIs DEF Entries
  <2>5. PICK g : g = <<1, e[2], e[3], 0>>  OBVIOUS
  <2>6. /\ g \in Seq(Int) /\ Len(g) = 4
        /\ g[1] = f[1] /\ g[2] = f[2] /\ g[3] = f[3] /\ g[4] = f[4]
    BY <1>1, <2>1, <2>3, <2>5
  <2>7. \A k \in 1 .. 4 : g[k] = f[k]
    <3>1. \A k \in 1 .. 4 : k = 1 \/ k = 2 \/ k = 3 \/ k = 4  OBVIOUS
    <3> QED  BY <2>6, <3>1
  <2>8. g = f  BY <2>6, <2>7, SeqEqual
  <2>9. Part(e) = <<g>>  BY <2>3, <2>5, PartIs
  <2>10. Strip!Entry(f) = e  BY <1>2, <2>2 DEF Strip!Entry
  <2> QED  BY <2>4, <2>8, <2>9, <2>10
<1>3. CASE ~Strip!IsTime(f)
  <2>1. PICK e : e = <<2>> \o f  OBVIOUS
  <2>2. PICK two \in Seq(Int) : two = <<2>> /\ two[1] = 2 /\ Len(two) = 1
    <3>1. <<2>> \in Seq(Int) /\ <<2>>[1] = 2 /\ Len(<<2>>) = 1
      BY ONLY 2 \in Int, OneInt
    <3> QED  BY ONLY <3>1
  <2>3. /\ e \in Seq(Int) /\ Len(e) = 5 /\ e[1] = 2
        /\ \A k \in 1 .. 4 : e[k + 1] = f[k]
    <3>1. /\ two \o f \in Seq(Int) /\ Len(two \o f) = Len(two) + Len(f)
          /\ \A k \in 1 .. Len(two) + Len(f) :
               (two \o f)[k] = IF k <= Len(two) THEN two[k] ELSE f[k - Len(two)]
      BY ONLY two \in Seq(Int), f \in Seq(Int), ConcatProperties
    <3>2. e = two \o f  BY <2>1, <2>2
    <3>3. \A k \in 1 .. 5 : e[k] = IF k <= 1 THEN two[k] ELSE f[k - 1]
      BY <2>2, <3>1, <3>2
    <3>4. ASSUME NEW k \in 1 .. 4 PROVE e[k + 1] = f[k]
      <4>1. k + 1 \in 1 .. 5 /\ ~(k + 1 <= 1) /\ k + 1 - 1 = k  OBVIOUS
      <4> QED  BY <3>3, <4>1
    <3> QED  BY <2>2, <3>1, <3>2, <3>3, <3>4
  <2>8. e \in Seq(Int) /\ Len(e) = 5 /\ e[1] = 2  BY ONLY <2>3
  <2>4. e \in Entries /\ e # <<>> /\ Strip!Whole(e)  BY ONLY <2>8, OtherEntry
  <2>5. Tail(e) = f
    <3>1. e # <<>>  BY <2>4
    <3>2. PICK g : g = Tail(e)  OBVIOUS
    <3>3. g \in Seq(Int) /\ Len(g) = Len(e) - 1 /\ \A k \in 1 .. Len(g) : g[k] = e[k + 1]
      BY ONLY <2>8, <3>1, <3>2, HeadTailProperties
    <3>4. Len(g) = 4  BY ONLY <2>8, <3>3
    <3>5. \A k \in 1 .. 4 : g[k] = f[k]  BY ONLY <2>3, <3>3, <3>4
    <3>6. g = f  BY ONLY <3>3, <3>4, <3>5, f \in Seq(Int), Len(f) = 4, SeqEqual
    <3> QED  BY <3>2, <3>6
  <2>6. Part(e) = <<Tail(e)>>  BY <2>3, PartIs
  <2>7. Strip!Entry(f) = e  BY <1>3, <2>1 DEF Strip!Entry
  <2> QED  BY <2>4, <2>5, <2>6, <2>7
<1> QED  BY <1>2, <1>3

LEMMA ToldTyped == ASSUME NEW es \in Seq(Entries) PROVE Strip!Told(es) \in Seq(Kind)
<1>1. 1 \in 1 .. Len(es) + 1  BY LenProperties
<1> QED  BY <1>1, ToldUnfold, ToldIs

\* Entries tell a beginning of what they tell with others behind them.
LEMMA ToldBeginning ==
  ASSUME NEW es \in Seq(Entries), NEW upto \in Nat, upto <= Len(es)
  PROVE  /\ SubSeq(es, 1, upto) \in Seq(Entries) /\ Len(SubSeq(es, 1, upto)) = upto
         /\ \A k \in 1 .. upto : SubSeq(es, 1, upto)[k] = es[k]
         /\ IsPrefix(Strip!Told(SubSeq(es, 1, upto)), Strip!Told(es))
<1>1. PICK l \in Nat : l = Len(es)  BY LenProperties
<1> DEFINE b(m) == SubSeq(es, 1, m)
           T == {d \in Nat : d <= l => IsPrefix(Strip!Told(b(l - d)), Strip!Told(es))}
<1>2. ASSUME NEW m \in Nat, m <= l
      PROVE  /\ b(m) \in Seq(Entries) /\ Len(b(m)) = m
             /\ \A k \in 1 .. m : b(m)[k] = es[k]
  BY ONLY <1>1, <1>2, es \in Seq(Entries)
<1>3. b(l) = es  BY <1>1, SubSeqFull
<1>4. Strip!Told(es) \in Seq(Kind)  BY ToldTyped
<1>5. 0 \in T
  <2>1. IsPrefix(Strip!Told(es), Strip!Told(es))
    BY ONLY <1>4, PrefixSelf
  <2>2. l - 0 = l  OBVIOUS
  <2> QED  BY <1>3, <2>1, <2>2
<1>6. ASSUME NEW d \in Nat, d \in T PROVE d + 1 \in T
  <2> SUFFICES ASSUME d + 1 <= l
               PROVE  IsPrefix(Strip!Told(b(l - (d + 1))), Strip!Told(es))
    OBVIOUS
  <2>1. PICK m \in Nat : m = l - (d + 1) /\ m + 1 = l - d /\ m + 1 <= l /\ m <= l
    OBVIOUS
  <2>2. b(m) \in Seq(Entries) /\ b(m + 1) \in Seq(Entries)  BY <1>2, <2>1
  <2>3. PICK e \in Entries : e = es[m + 1]
    <3>1. m + 1 \in 1 .. Len(es)  BY <1>1, <2>1
    <3> QED  BY <3>1, ElementOfSeq
  <2>4. b(m + 1) = Append(b(m), e)
    <3>1. PICK x \in Seq(Entries), y \in Seq(Entries) : x = b(m) /\ y = b(m + 1)
      BY <2>2
    <3>2. /\ Len(x) = m /\ \A k \in 1 .. m : x[k] = es[k]
          /\ Len(y) = m + 1 /\ \A k \in 1 .. m + 1 : y[k] = es[k]
      <4>1. Len(x) = m /\ \A k \in 1 .. m : x[k] = es[k]  BY <1>2, <2>1, <3>1
      <4>2. m + 1 \in Nat /\ m + 1 <= l  BY <2>1
      <4>3. Len(y) = m + 1 /\ \A k \in 1 .. m + 1 : y[k] = es[k]  BY <1>2, <3>1, <4>2
      <4> QED  BY <4>1, <4>3
    <3>3. PICK z : z = Append(x, e)  OBVIOUS
    <3>4. /\ z \in Seq(Entries) /\ Len(z) = m + 1 /\ z[m + 1] = e
          /\ \A k \in 1 .. m : z[k] = x[k]
      <4>1. /\ z \in Seq(Entries) /\ Len(z) = Len(x) + 1 /\ z[Len(x) + 1] = e
            /\ \A k \in 1 .. Len(x) : z[k] = x[k]
        BY ONLY <3>3, x \in Seq(Entries), e \in Entries, AppendProperties
      <4> QED  BY <3>2, <4>1
    <3>5. \A k \in 1 .. m + 1 : y[k] = z[k]
      <4> SUFFICES ASSUME NEW k \in 1 .. m + 1 PROVE y[k] = z[k]  OBVIOUS
      <4>1. CASE k = m + 1  BY <2>3, <3>2, <3>4, <4>1
      <4>2. CASE k \in 1 .. m  BY <3>2, <3>4, <4>2
      <4> QED  BY <4>1, <4>2
    <3>6. y = z  BY <3>2, <3>4, <3>5, SeqEqual
    <3> QED  BY <3>1, <3>3, <3>6
  <2> HIDE DEF b
  <2>5. PICK s \in Seq(Kind), x \in Seq(Kind) : s = Strip!Told(b(m)) /\ x = Part(e)
    BY <2>2, ToldTyped, PartTyped
  <2>6. Strip!Told(b(m + 1)) = s \o x  BY <2>2, <2>4, <2>5, ToldAppend
  <2>7. s \o x \in Seq(Kind)  BY ConcatKinds
  <2>8. IsPrefix(s, s \o x)  BY PrefixConcat
  <2>9. IsPrefix(s \o x, Strip!Told(es))
    <3>1. d <= l  BY <1>1
    <3>2. IsPrefix(Strip!Told(b(l - d)), Strip!Told(es))  BY <1>6, <3>1
    <3> QED  BY <2>1, <2>6, <3>2
  <2>10. IsPrefix(s, Strip!Told(es))
    BY ONLY <1>4, <2>7, <2>8, <2>9, s \in Seq(Kind), PrefixTransitive
  <2> QED  BY <2>1, <2>5, <2>10
<1>7. Nat \subseteq T
  <2> HIDE DEF T
  <2> QED  BY <1>5, <1>6, SetInduction
<1>8. IsPrefix(Strip!Told(b(upto)), Strip!Told(es))
  <2>1. l - upto \in T /\ l - upto <= l /\ l - (l - upto) = upto  BY <1>1, <1>7
  <2> HIDE DEF b
  <2> QED  BY <2>1
<1> QED  BY <1>1, <1>2, <1>8

\* What a failing write may leave: a beginning is told, and at most the last
\* entry is torn.
Torn(ws, o) ==
  /\ IsPrefix(Strip!Told(o), Strip!Frames(ws))
  /\ \A k \in 1 .. Len(o) : Strip!Whole(o[k]) \/ k = Len(o)

LEMMA TornEntry ==
  ASSUME NEW e \in Entries, Strip!Whole(e), NEW c \in Seq(Int), NEW m \in Nat,
         Len(c) = m, 1 <= m, m < Len(e), c[1] = e[1]
  PROVE  c \in Entries /\ ~Strip!Whole(c)
<1>1. e[1] = 0 \/ e[1] = 1 \/ e[1] = 2  BY DEF Entries
<1>2. ~Strip!Whole(c)
  <2>1. CASE e[1] = 0
    <3>0. Len(e) = 2  BY ONLY <2>1, Strip!Whole(e), WholeIs
    <3>1. Len(c) # 2  BY <3>0
    <3>2. Strip!Whole(c) <=> Len(c) = 2  BY <2>1, WholeIs
    <3> QED  BY <3>1, <3>2
  <2>2. CASE e[1] = 1
    <3>0. Len(e) = 3  BY ONLY <2>2, Strip!Whole(e), WholeIs
    <3>1. Len(c) # 3  BY <3>0
    <3>2. Strip!Whole(c) <=> Len(c) = 3  BY <2>2, WholeIs
    <3> QED  BY <3>1, <3>2
  <2>3. CASE e[1] = 2
    <3>0. Len(e) = 5  BY ONLY <2>3, Strip!Whole(e), WholeIs
    <3>1. Len(c) # 5  BY <3>0
    <3>2. Strip!Whole(c) <=> Len(c) = 5  BY <2>3, WholeIs
    <3> QED  BY <3>1, <3>2
  <2> QED  BY <1>1, <2>1, <2>2, <2>3
<1>3. ~(Len(c) = 2 /\ c[1] = 0)  BY <1>2, WholeIs
<1> QED  BY <1>1, <1>2, <1>3 DEF Entries

LEMMA WriteTells ==
  ASSUME NEW es \in Seq(Entries), AllWhole(es), NEW next, Strip!Write(es, next),
         NEW ws, Strip!Frames(ws) = Strip!Told(es)
  PROVE  (output' = es /\ pc' = next) \/ (pc' = "failed" /\ Torn(ws, output'))
<1> SUFFICES ASSUME ~(output' = es /\ pc' = next)
             PROVE  pc' = "failed" /\ Torn(ws, output')
  OBVIOUS
<1>0. PICK k \in 1 .. Len(es) :
        /\ pc' = "failed"
        /\ \E m \in 0 .. Len(es[k]) - 1 :
             output' = SubSeq(es, 1, k - 1)
                       \o (IF m = 0 THEN <<>> ELSE <<SubSeq(es[k], 1, m)>>)
  BY DEF Strip!Write
<1>1. PICK m \in 0 .. Len(es[k]) - 1 :
        /\ pc' = "failed"
        /\ output' = SubSeq(es, 1, k - 1)
                     \o (IF m = 0 THEN <<>> ELSE <<SubSeq(es[k], 1, m)>>)
  BY <1>0
<1>2. PICK l \in Nat : l = Len(es)  BY LenProperties
<1>3. k - 1 \in Nat /\ k - 1 <= Len(es)  BY <1>2
<1>4. PICK b \in Seq(Entries) :
        /\ b = SubSeq(es, 1, k - 1) /\ Len(b) = k - 1
        /\ \A a \in 1 .. k - 1 : b[a] = es[a]
        /\ IsPrefix(Strip!Told(b), Strip!Told(es))
  BY <1>3, ToldBeginning
<1>5. AllWhole(b)
  <2> SUFFICES ASSUME NEW a \in 1 .. Len(b) PROVE Strip!Whole(b[a])  BY DEF AllWhole
  <2>1. a \in 1 .. Len(es) /\ b[a] = es[a]  BY <1>2, <1>4
  <2>2. Strip!Whole(es[a])  BY <2>1 DEF AllWhole
  <2> QED  BY <2>1, <2>2
<1>6. CASE m = 0
  <2>1. output' = b  BY <1>1, <1>4, <1>6, ConcatEmptySeq
  <2>2. IsPrefix(Strip!Told(output'), Strip!Frames(ws))  BY <1>4, <2>1
  <2>3. \A a \in 1 .. Len(output') : Strip!Whole(output'[a])  BY <1>5, <2>1 DEF AllWhole
  <2> QED  BY <1>1, <2>2, <2>3 DEF Torn
<1>7. CASE m # 0
  <2>1. PICK e \in Entries : e = es[k] /\ Strip!Whole(e) /\ Len(e) \in Nat
    <3>1. es[k] \in Entries  BY ElementOfSeq
    <3>2. Strip!Whole(es[k])  BY DEF AllWhole
    <3>3. Len(es[k]) \in Nat  BY <3>1, LenProperties DEF Entries
    <3> QED  BY <3>1, <3>2, <3>3
  <2>2. PICK c : c = SubSeq(e, 1, m)  OBVIOUS
  <2>3. m \in Nat /\ 1 <= m /\ m < Len(e)  BY <1>7, <2>1
  <2>4. c \in Seq(Int) /\ Len(c) = m /\ c[1] = e[1]
    <3>1. e \in Seq(Int)  BY DEF Entries
    <3> QED  BY ONLY <2>1, <2>2, <2>3, <3>1
  <2>5. c \in Entries /\ ~Strip!Whole(c)
    BY ONLY <2>1, <2>3, <2>4, e \in Entries, TornEntry
  <2>6. output' = b \o <<c>>  BY <1>1, <1>4, <1>7, <2>1, <2>2
  <2>7. PICK p \in Seq(Entries) :
          /\ p = Append(b, c) /\ Len(p) = Len(b) + 1
          /\ \A a \in 1 .. Len(b) : p[a] = b[a]
    <3>1. PICK p : p = Append(b, c)  OBVIOUS
    <3>2. /\ p \in Seq(Entries) /\ Len(p) = Len(b) + 1
          /\ \A a \in 1 .. Len(b) : p[a] = b[a]
      BY ONLY <2>5, <3>1, b \in Seq(Entries), AppendProperties
    <3> QED  BY <3>1, <3>2
  <2>8. output' = p
    <3>1. Append(b, c) = b \o <<c>>  BY ONLY <2>5, b \in Seq(Entries), AppendIsConcat
    <3> QED  BY <2>6, <2>7, <3>1
  <2>9. Strip!Told(p) = Strip!Told(b)
    <3>1. Part(c) = <<>>  BY <2>5, PartIs
    <3>2. Strip!Told(p) = Strip!Told(b) \o <<>>  BY <2>5, <2>7, <3>1, ToldAppend
    <3>3. PICK s \in Seq(Kind) : s = Strip!Told(b)  BY ToldTyped
    <3>4. s \o <<>> = s  BY ConcatEmptySeq
    <3> QED  BY <3>2, <3>3, <3>4
  <2>10. IsPrefix(Strip!Told(output'), Strip!Frames(ws))  BY <1>4, <2>8, <2>9
  <2>11. ASSUME NEW a \in 1 .. Len(output')
         PROVE  Strip!Whole(output'[a]) \/ a = Len(output')
    <3>1. PICK h \in Nat : h = Len(b)  BY LenProperties
    <3>2. a \in 1 .. h + 1 /\ Len(output') = h + 1  BY <2>7, <2>8, <3>1
    <3>3. CASE a = h + 1  BY <3>2, <3>3
    <3>4. CASE a \in 1 .. h
      <4>1. output'[a] = b[a] /\ Strip!Whole(b[a])
        BY <1>5, <2>7, <2>8, <3>1, <3>4 DEF AllWhole
      <4> QED  BY <4>1
    <3> QED  BY <3>2, <3>3, <3>4
  <2> QED  BY <1>1, <2>10, <2>11 DEF Torn
<1> QED  BY <1>6, <1>7

\* The entries and the samples counted tell the frames of the words so far; a
\* failing write leaves a beginning.
StripSoFar(ws, o, c, fr, rem, at) ==
  /\ o \in Seq(Entries) /\ AllWhole(o) /\ c \in Nat
  /\ FramesSoFar(ws, Strip!Told(o) \o Blank(c), fr, rem)
  /\ at = "done" => c = 0
StripInv ==
  IF pc = "failed" THEN Torn(words, output)
  ELSE StripSoFar(words, output, frame_counter, frame, remaining, pc)

LEMMA SoFarTorn ==
  ASSUME NEW ws, NEW o, NEW c, NEW fr, NEW rem, NEW at,
         StripSoFar(ws, o, c, fr, rem, at)
  PROVE  /\ Torn(ws, o) /\ Strip!Frames(ws) = Strip!Told(o) \o Blank(c)
         /\ c = 0 => Strip!Frames(ws) = Strip!Told(o)
<1>1. /\ o \in Seq(Entries) /\ AllWhole(o) /\ c \in Nat
      /\ FramesSoFar(ws, Strip!Told(o) \o Blank(c), fr, rem)
  BY DEF StripSoFar
<1>2. PICK s \in Seq(Kind), b \in Seq(Kind) :
        s = Strip!Told(o) /\ b = Blank(c) /\ (c = 0 => b = <<>>)
  BY <1>1, ToldTyped, BlankTyped, EmptySeq
<1>3. Strip!Frames(ws) = s \o b  BY <1>1, <1>2, FramesAll
<1>4. IsPrefix(s, s \o b)  BY PrefixConcat
<1>5. s \o <<>> = s  BY ConcatEmptySeq
<1>6. Torn(ws, o)  BY <1>1, <1>2, <1>3, <1>4 DEF Torn, AllWhole
<1> QED  BY <1>2, <1>3, <1>5, <1>6

LEMMA StripInit == ASSUME tool = "6d6strip", Init PROVE StripInv
<1>1. /\ words = <<>> /\ output = <<>> /\ frame_counter = 0 /\ frame = <<>>
      /\ remaining = 0
  BY DEF Init, Strip!Init
<1>2. <<>> \in Seq(Entries) /\ Len(<<>>) = 0  BY EmptySeq
<1>3. Strip!Told(<<>>) = <<>>
  <2>1. 1 \in 1 .. Len(<<>>) + 1 /\ 1 = Len(<<>>) + 1  BY <1>2
  <2>2. ToldFrom(<<>>)[1] = <<>>  BY <1>2, <2>1, ToldUnfold
  <2> QED  BY <2>2, ToldIs
<1>4. Blank(0) = <<>>
  <2>1. Blank(0) \in Seq(Kind) /\ Len(Blank(0)) = 0  BY BlankTyped
  <2> QED  BY <2>1, EmptySeq
<1>5. <<>> \o <<>> = <<>>  BY <1>2, ConcatEmptySeq
<1>6. FramesSoFar(<<>>, Strip!Told(<<>>) \o Blank(0), <<>>, 0)
  BY <1>3, <1>4, <1>5, FramesInit
<1>7. AllWhole(<<>>)  BY <1>2 DEF AllWhole
<1>8. \A at : StripSoFar(<<>>, <<>>, 0, <<>>, 0, at)
  BY <1>2, <1>6, <1>7 DEF StripSoFar
<1>9. Torn(<<>>, <<>>)  BY <1>8, SoFarTorn
<1> QED  BY <1>1, <1>8, <1>9 DEF StripInv

\* What a word more makes of the entries.
WordStripped(ws, o, c, fr, rem, word) ==
  \E w \in Seq(Int), f \in Seq(Int), left \in Nat :
    /\ w = Append(ws, word) /\ f = Longer(fr, rem, word) /\ left = Missing(rem, word)
    /\ left # 0 => StripSoFar(w, o, c, f, left, "data")
    /\ left = 0 /\ Strip!Odd(f[1]) =>
         StripSoFar(w, Append(Flush(o, c), Strip!Entry(f)), 0, f, left, "data")
    /\ left = 0 /\ ~Strip!Odd(f[1]) => StripSoFar(w, o, c + 1, f, left, "data")

LEMMA StrippedWord ==
  ASSUME NEW ws \in Seq(Int), NEW o \in Seq(Entries), NEW c \in Nat,
         NEW fr \in Seq(Int), NEW rem \in Nat, StripSoFar(ws, o, c, fr, rem, "data"),
         NEW word \in Int
  PROVE  WordStripped(ws, o, c, fr, rem, word)
<1>0. AllWhole(o)  BY DEF StripSoFar
<1>1. PICK q \in Seq(Entries) :
        q = Flush(o, c) /\ Strip!Told(q) = Strip!Told(o) \o Blank(c) /\ AllWhole(q)
  BY <1>0, FlushTells
<1>2. PICK t \in Seq(Kind), b \in Seq(Kind) : t = Strip!Told(o) /\ b = Blank(c)
  BY BlankTyped, FlushTells
<1>3. PICK k \in Seq(Kind) : k = t \o b  BY ConcatProperties
<1>4. FramesSoFar(ws, k, fr, rem)  BY <1>2, <1>3 DEF StripSoFar
<1>5. WordTold(ws, k, fr, rem, word)  BY <1>4, FramesWord
<1>6. PICK w \in Seq(Int), f \in Seq(Int), left \in Nat :
        /\ w = Append(ws, word) /\ f = Longer(fr, rem, word) /\ left = Missing(rem, word)
        /\ left # 0 => FramesSoFar(w, k, f, left)
        /\ left = 0 => /\ FramesSoFar(w, k \o <<KeptOf(f)>>, f, left)
                       /\ KeptOf(f) \in Kind /\ f[1] \in Int
                       /\ f[1] % 2 = 1 => Len(f) = 4
  BY <1>5 DEF WordTold
<1>7. left # 0 => StripSoFar(w, o, c, f, left, "data")
  BY <1>0, <1>2, <1>3, <1>6 DEF StripSoFar
<1>8. ASSUME left = 0, Strip!Odd(f[1])
      PROVE  StripSoFar(w, Append(Flush(o, c), Strip!Entry(f)), 0, f, left, "data")
  <2>1. f[1] % 2 = 1 /\ Len(f) = 4  BY <1>6, <1>8 DEF Strip!Odd
  <2>2. PICK e \in Entries : e = Strip!Entry(f) /\ Part(e) = <<f>> /\ Strip!Whole(e)
    BY <2>1, EntryTells
  <2>3. PICK p \in Seq(Entries) : p = Append(q, e) /\ AllWhole(p)
    BY <1>1, <2>2, WholeAppend, AppendProperties
  <2>4. Strip!Told(p) \in Seq(Kind)
    <3>1. 1 \in 1 .. Len(p) + 1  BY LenProperties
    <3> QED  BY <3>1, ToldUnfold, ToldIs
  <2>5. Strip!Told(p) = k \o <<KeptOf(f)>>
    <3>1. Strip!Told(p) = Strip!Told(q) \o Part(e)  BY <2>3, ToldAppend
    <3>2. Strip!Told(q) = k  BY <1>1, <1>2, <1>3
    <3>3. KeptOf(f) = f  BY <2>1 DEF KeptOf
    <3> QED  BY <2>2, <3>1, <3>2, <3>3
  <2>6. Strip!Told(p) \o Blank(0) = Strip!Told(p)
    <3>1. Blank(0) \in Seq(Kind) /\ Len(Blank(0)) = 0  BY BlankTyped
    <3>2. Blank(0) = <<>>  BY <3>1, EmptySeq
    <3> QED  BY <2>4, <3>2, ConcatEmptySeq
  <2>7. FramesSoFar(w, Strip!Told(p) \o Blank(0), f, left)  BY <1>6, <1>8, <2>5, <2>6
  <2>8. StripSoFar(w, p, 0, f, left, "data")  BY <2>3, <2>7 DEF StripSoFar
  <2> QED  BY <1>1, <2>2, <2>3, <2>8
<1>9. ASSUME left = 0, ~Strip!Odd(f[1])
      PROVE  StripSoFar(w, o, c + 1, f, left, "data")
  <2>1. KeptOf(f) = <<>>  BY <1>9 DEF Strip!Odd, KeptOf
  <2>2. (t \o Blank(c)) \o <<<<>>>> = t \o Blank(c + 1)  BY BlankTold
  <2>5. Strip!Told(o) \o Blank(c + 1) = k \o <<KeptOf(f)>>
    BY <1>2, <1>3, <2>1, <2>2
  <2>6. FramesSoFar(w, Strip!Told(o) \o Blank(c + 1), f, left)  BY <1>6, <1>9, <2>5
  <2> QED  BY <1>0, <2>6 DEF StripSoFar
<1> QED  BY <1>6, <1>7, <1>8, <1>9 DEF WordStripped

LEMMA StripWord ==
  ASSUME StripInv, NEW word \in StripWords, Strip!TakeWord(word)
  PROVE  StripInv'
<1>1. word \in Int  BY ToolsAssumption DEF Strip!StripAssumption
<1>2. pc = "data"  BY DEF Strip!TakeWord
<1>3. /\ words \in Seq(Int) /\ output \in Seq(Entries) /\ frame_counter \in Nat
      /\ frame \in Seq(Int) /\ remaining \in Nat
  BY <1>2 DEF StripInv, StripSoFar, FramesSoFar
<1>4. PICK ws \in Seq(Int), o \in Seq(Entries), c \in Nat, fr \in Seq(Int), rem \in Nat :
        /\ ws = words /\ o = output /\ c = frame_counter /\ fr = frame
        /\ rem = remaining
  BY <1>3
<1>5. StripSoFar(ws, o, c, fr, rem, "data")  BY <1>2, <1>4 DEF StripInv
<1>6. WordStripped(ws, o, c, fr, rem, word)  BY <1>1, <1>5, StrippedWord
<1>7. PICK w \in Seq(Int), f \in Seq(Int), left \in Nat :
        /\ w = Append(ws, word) /\ f = Longer(fr, rem, word) /\ left = Missing(rem, word)
        /\ left # 0 => StripSoFar(w, o, c, f, left, "data")
        /\ left = 0 /\ Strip!Odd(f[1]) =>
             StripSoFar(w, Append(Flush(o, c), Strip!Entry(f)), 0, f, left, "data")
        /\ left = 0 /\ ~Strip!Odd(f[1]) => StripSoFar(w, o, c + 1, f, left, "data")
  BY <1>6 DEF WordStripped
<1>8. /\ words' = w /\ frame' = f /\ remaining' = left
  <2>1. words' = w  BY <1>4, <1>7 DEF Strip!TakeWord
  <2>2. frame' = f  BY <1>4, <1>7 DEF Strip!TakeWord, Longer
  <2>3. remaining' = left
    <3>1. remaining' = IF rem > 0 THEN rem - 1
                       ELSE IF word % 2 = 1 THEN 3 ELSE Channels - 1
      BY <1>4 DEF Strip!TakeWord, Strip!Odd
    <3>2. left = IF rem = 0 THEN (IF word % 2 = 1 THEN 3 ELSE Channels - 1) ELSE rem - 1
      BY <1>7 DEF Missing, Mseed!Following, Mseed!Odd
    <3> QED  BY <3>1, <3>2
  <2> QED  BY <2>1, <2>2, <2>3
<1>9. /\ Strip!Write(IF left = 0 /\ Strip!Odd(f[1])
                     THEN Append(Strip!Flushed, Strip!Entry(f)) ELSE output, "data")
      /\ frame_counter' = IF left = 0 /\ Strip!Odd(f[1]) THEN 0
                          ELSE IF left = 0 THEN frame_counter + 1 ELSE frame_counter
  BY <1>8 DEF Strip!TakeWord
<1>10. Strip!Flushed = Flush(o, c)  BY <1>4 DEF Strip!Flushed, Flush
<1>14. ~(left = 0 /\ Strip!Odd(f[1])) => output' = o /\ pc' = "data"
  <2> SUFFICES ASSUME ~(left = 0 /\ Strip!Odd(f[1])) PROVE output' = o /\ pc' = "data"
    OBVIOUS
  <2>1. Strip!Write(output, "data")  BY <1>9
  <2> QED  BY <1>4, <2>1 DEF Strip!Write
<1>11. CASE left # 0
  <2>1. output' = o /\ frame_counter' = c /\ pc' = "data"  BY <1>4, <1>9, <1>11, <1>14
  <2> QED  BY <1>7, <1>8, <1>11, <2>1 DEF StripInv
<1>12. CASE left = 0 /\ Strip!Odd(f[1])
  <2>1. PICK es : es = Append(Flush(o, c), Strip!Entry(f))  OBVIOUS
  <2>2. Strip!Write(es, "data") /\ frame_counter' = 0  BY <1>9, <1>10, <1>12, <2>1
  <2>3. StripSoFar(w, es, 0, f, left, "data")  BY <1>7, <1>12, <2>1
  <2>4. es \in Seq(Entries) /\ AllWhole(es)  BY <2>3 DEF StripSoFar
  <2>5. Strip!Frames(w) = Strip!Told(es)  BY <2>3, SoFarTorn
  <2>6. \/ output' = es /\ pc' = "data"
        \/ pc' = "failed" /\ Torn(w, output')
    BY <2>2, <2>4, <2>5, WriteTells
  <2> QED  BY <1>8, <2>2, <2>3, <2>6 DEF StripInv
<1>13. CASE left = 0 /\ ~Strip!Odd(f[1])
  <2>1. output' = o /\ frame_counter' = c + 1 /\ pc' = "data"
    BY <1>4, <1>9, <1>13, <1>14
  <2> QED  BY <1>7, <1>8, <1>13, <2>1 DEF StripInv
<1> QED  BY <1>11, <1>12, <1>13

\* The last samples are written.
LEMMA StripFinish == ASSUME StripInv, Strip!Finish PROVE StripInv'
<1>1. /\ Strip!Write(Strip!Flushed, "done") /\ frame_counter' = 0 /\ pc = "data"
      /\ UNCHANGED <<frame, remaining, words>>
  BY DEF Strip!Finish
<1>2. output \in Seq(Entries) /\ frame_counter \in Nat /\ AllWhole(output)
  BY <1>1 DEF StripInv, StripSoFar
<1>3. PICK o \in Seq(Entries), c \in Nat :
        o = output /\ c = frame_counter /\ AllWhole(o)
  BY <1>2
<1>4. PICK q \in Seq(Entries) :
        q = Flush(o, c) /\ Strip!Told(q) = Strip!Told(o) \o Blank(c) /\ AllWhole(q)
  BY <1>3, FlushTells
<1>5. Strip!Write(q, "done")  BY <1>1, <1>3, <1>4 DEF Strip!Flushed, Flush
<1>6. PICK t \in Seq(Kind) : t = Strip!Told(q)  BY ToldTyped
<1>7. Strip!Told(q) \o Blank(0) = Strip!Told(q)
  <2>1. Blank(0) \in Seq(Kind) /\ Len(Blank(0)) = 0  BY BlankTyped
  <2>2. Blank(0) = <<>>  BY <2>1, EmptySeq
  <2> QED  BY <1>6, <2>2, ConcatEmptySeq
<1>8. FramesSoFar(words, Strip!Told(q) \o Blank(0), frame, remaining)
  BY <1>1, <1>3, <1>4, <1>7 DEF StripInv, StripSoFar
<1>9. StripSoFar(words, q, 0, frame, remaining, "done")  BY <1>4, <1>8 DEF StripSoFar
<1>10. Strip!Frames(words) = Strip!Told(q)  BY <1>9, SoFarTorn
<1>11. \/ output' = q /\ pc' = "done"
       \/ pc' = "failed" /\ Torn(words, output')
  BY <1>4, <1>5, <1>10, WriteTells
<1> QED  BY <1>1, <1>9, <1>11 DEF StripInv

LEMMA StripStep == ASSUME StripInv, Strip!Next PROVE StripInv'
<1>1. CASE \E word \in StripWords : Strip!TakeWord(word)  BY <1>1, StripWord
<1>2. CASE Strip!Finish  BY <1>2, StripFinish
<1>3. CASE Strip!Skip \/ Strip!StartData \/ Strip!ReadBlock
  <2>1. /\ UNCHANGED <<words, output, frame_counter, frame, remaining>>
        /\ pc # "failed" /\ pc' # "done"
    BY <1>3 DEF Strip!Skip, Strip!StartData, Strip!ReadBlock
  <2>2. StripSoFar(words, output, frame_counter, frame, remaining, pc)
    BY <2>1 DEF StripInv
  <2>3. StripSoFar(words, output, frame_counter, frame, remaining, pc')
    BY <2>1, <2>2 DEF StripSoFar
  <2>4. Torn(words, output)  BY <2>2, SoFarTorn
  <2> QED  BY <2>1, <2>3, <2>4 DEF StripInv
<1> QED  BY <1>1, <1>2, <1>3 DEF Strip!Next

LEMMA StrippedAll == ASSUME StripInv PROVE Strip!OnlySamplesStripped
<1>1. CASE pc = "failed"
  <2>1. Torn(words, output)  BY <1>1 DEF StripInv
  <2>2. IsPrefix(Strip!Told(output), Strip!Frames(words))  BY <2>1 DEF Torn
  <2>3. Strip!IsPrefix(Strip!Told(output), Strip!Frames(words))
    BY <2>2 DEF Strip!IsPrefix, IsPrefix
  <2> QED  BY <1>1, <2>1, <2>3 DEF Torn, Strip!OnlySamplesStripped
<1>2. CASE pc # "failed"
  <2>1. PICK o \in Seq(Entries), c \in Nat :
          /\ o = output /\ c = frame_counter /\ AllWhole(o)
          /\ StripSoFar(words, o, c, frame, remaining, pc)
    BY <1>2 DEF StripInv, StripSoFar
  <2>2. Strip!Told(Flush(o, c)) = Strip!Told(o) \o Blank(c)  BY FlushTells
  <2>3. Strip!Frames(words) = Strip!Told(o) \o Blank(c)  BY <2>1, SoFarTorn
  <2>4. Strip!Flushed = Flush(o, c)  BY <2>1 DEF Strip!Flushed, Flush
  <2>5. pc = "done" => Flush(o, c) = output  BY <2>1 DEF Flush, StripSoFar
  <2>6. \A k \in 1 .. Len(output) : Strip!Whole(output[k])  BY <2>1 DEF AllWhole
  <2>7. CASE pc = "done"
    <3>1. Strip!Told(output) = Strip!Frames(words)  BY <2>2, <2>3, <2>5, <2>7
    <3> QED  BY <2>6, <2>7, <3>1 DEF Strip!OnlySamplesStripped
  <2>8. CASE pc # "done"
    <3>1. Strip!Told(Strip!Flushed) = Strip!Frames(words)  BY <2>2, <2>3, <2>4
    <3> QED  BY <1>2, <2>6, <2>8, <3>1 DEF Strip!OnlySamplesStripped
  <2> QED  BY <2>7, <2>8
<1> QED  BY <1>1, <1>2

\* What 6d6strip has written at any word tells exactly which frames it read, and
\* after a failing write a beginning of them with at most one torn entry behind,
\* for every number of channels and every recording (6d6strip.c, its loop).
THEOREM NothingElseStripped == Spec => []OnlySamplesStripped
<1> DEFINE Inv == tool = "6d6strip" => StripInv
<1>1. Init => Inv  BY StripInit
<1>2. Inv /\ [Next]_vars => Inv'
  <2> SUFFICES ASSUME StripInv, tool = "6d6strip", [Next]_vars PROVE StripInv'
    BY StepsOf
  <2>1. CASE Strip!Next  BY <2>1, StripStep
  <2>2. CASE UNCHANGED vars
    <3>1. UNCHANGED <<words, output, frame_counter, frame, remaining, pc>>
      BY <2>2 DEF vars, frameVars
    <3> QED  BY <3>1 DEF StripInv
  <2> QED  BY <2>1, <2>2, StepsOf
<1>3. Inv => OnlySamplesStripped
  BY StrippedAll DEF OnlySamplesStripped
<1> QED  BY <1>1, <1>2, <1>3, PTL DEF Spec

=============================================================================
