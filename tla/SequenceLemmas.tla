--------------------------- MODULE SequenceLemmas ---------------------------
(***************************************************************************)
(* Facts about FlattenSeq and IsPrefix of the community modules, and about *)
(* functions that recur to the end of a sequence, as the reference         *)
(* definitions of the file formats do.  What such a function is follows by *)
(* induction over the set of the lengths it holds for.                     *)
(***************************************************************************)
EXTENDS Integers, Sequences, SequencesExt, SequenceTheorems, WellFoundedInduction, TLAPS

\* Induction over a set of naturals: the least number outside would have a
\* predecessor inside.
LEMMA SetInduction ==
  ASSUME NEW T, 0 \in T, \A n \in Nat : n \in T => n + 1 \in T
  PROVE  Nat \subseteq T
<1> DEFINE U == Nat \ T
           R == OpToRel(<, Nat)
<1> SUFFICES ASSUME U # {} PROVE FALSE
  OBVIOUS
<1>1. PICK x \in U : \A y \in U : ~(<<y, x>> \in R)
  <2>1. U \subseteq Nat  OBVIOUS
  <2>2. IsWellFoundedOn(R, Nat)  BY NatLessThanWellFounded
  <2> HIDE DEF U, R
  <2> QED  BY <2>1, <2>2, WFMin
<1>2. x \in Nat /\ x # 0 /\ x \notin T  BY <1>1
<1>3. x - 1 \in Nat /\ x - 1 < x /\ x = (x - 1) + 1  BY <1>2
<1>4. <<x - 1, x>> \in R  BY <1>2, <1>3 DEF OpToRel
<1>5. x - 1 \notin U  BY <1>1, <1>4
<1>6. x - 1 \in T  BY <1>3, <1>5
<1> HIDE DEF U, R
<1>7. (x - 1) + 1 \in T  BY <1>3, <1>6
<1>8. x \in T  BY <1>3, <1>7
<1> QED  BY <1>2, <1>8

-----------------------------------------------------------------------------
\* FlattenSeq

\* What the definition of FlattenSeq asks of its function.
Flattens(f, s) ==
  \A i \in 1 .. Len(s) : f[i] = IF i = 1 THEN s[i] ELSE f[i - 1] \o s[i]

LEMMA FlattensExists ==
  ASSUME NEW S, NEW s \in Seq(Seq(S))
  PROVE  \E f \in [1 .. Len(s) -> Seq(S)] : Flattens(f, s)
<1> DEFINE Holds(n) == \E f \in [1 .. n -> Seq(S)] :
             \A i \in 1 .. n : f[i] = IF i = 1 THEN s[i] ELSE f[i - 1] \o s[i]
           T == {n \in Nat : n <= Len(s) => Holds(n)}
<1>1. Len(s) \in Nat /\ \A i \in 1 .. Len(s) : s[i] \in Seq(S)
  BY ElementOfSeq, LenProperties
<1>2. 0 \in T
  <2> DEFINE f == [i \in 1 .. 0 |-> <<>>]
  <2>1. f \in [1 .. 0 -> Seq(S)]  OBVIOUS
  <2>2. \A i \in 1 .. 0 : f[i] = IF i = 1 THEN s[i] ELSE f[i - 1] \o s[i]  OBVIOUS
  <2>3. Holds(0)  BY <2>1, <2>2
  <2> QED  BY <2>3
<1>3. ASSUME NEW n \in Nat, n \in T PROVE n + 1 \in T
  <2> SUFFICES ASSUME n + 1 <= Len(s) PROVE Holds(n + 1)
    <3> HIDE DEF Holds
    <3> QED  OBVIOUS
  <2>1. n <= Len(s) /\ n + 1 \in 1 .. Len(s)  BY <1>1
  <2>2. PICK f \in [1 .. n -> Seq(S)] :
          \A i \in 1 .. n : f[i] = IF i = 1 THEN s[i] ELSE f[i - 1] \o s[i]
    BY <1>3, <2>1
  <2> DEFINE last == IF n = 0 THEN s[n + 1] ELSE f[n] \o s[n + 1]
             g == [i \in 1 .. n + 1 |-> IF i = n + 1 THEN last ELSE f[i]]
  <2>3. last \in Seq(S)
    <3>1. s[n + 1] \in Seq(S)  BY <1>1, <2>1
    <3>2. n # 0 => f[n] \in Seq(S)  OBVIOUS
    <3> QED  BY <3>1, <3>2, ConcatProperties
  <2> HIDE DEF last
  <2>4. \A i \in 1 .. n + 1 : i # n + 1 => i \in 1 .. n  OBVIOUS
  <2>5. g \in [1 .. n + 1 -> Seq(S)]  BY <2>3, <2>4
  <2>6. ASSUME NEW i \in 1 .. n + 1
        PROVE  g[i] = IF i = 1 THEN s[i] ELSE g[i - 1] \o s[i]
    <3>1. CASE i = n + 1
      <4>1. g[i] = last  BY <3>1
      <4>2. i # 1 => n # 0 /\ i - 1 = n /\ g[i - 1] = f[n]  BY <3>1
      <4>3. i = 1 <=> n = 0  BY <3>1
      <4> QED  BY <3>1, <4>1, <4>2, <4>3 DEF last
    <3>2. CASE i # n + 1
      <4>1. i \in 1 .. n /\ g[i] = f[i]  BY <2>4, <3>2
      <4>2. i # 1 => i - 1 \in 1 .. n /\ i - 1 # n + 1  BY <4>1
      <4>3. i # 1 => g[i - 1] = f[i - 1]  BY <4>2
      <4> QED  BY <2>2, <4>1, <4>3
    <3> QED  BY <3>1, <3>2
  <2> QED  BY <2>5, <2>6
<1>4. Nat \subseteq T
  <2> HIDE DEF T
  <2> QED  BY <1>2, <1>3, SetInduction
<1>5. Holds(Len(s))
  <2> HIDE DEF Holds
  <2>1. Len(s) \in T /\ Len(s) <= Len(s)  BY <1>1, <1>4
  <2> QED  BY <2>1
<1> QED  BY <1>5 DEF Flattens

\* Two such functions agree as far as their sequences do.
LEMMA FlattensAgree ==
  ASSUME NEW s, NEW t, NEW f, NEW g, Flattens(f, s), Flattens(g, t),
         NEW n \in Nat, n <= Len(s), n <= Len(t), Len(s) \in Nat, Len(t) \in Nat,
         \A i \in 1 .. n : s[i] = t[i]
  PROVE  \A i \in 1 .. n : f[i] = g[i]
<1> DEFINE T == {i \in Nat : i \in 1 .. n => f[i] = g[i]}
<1>1. 0 \in T  OBVIOUS
<1>2. ASSUME NEW i \in Nat, i \in T PROVE i + 1 \in T
  <2> SUFFICES ASSUME i + 1 \in 1 .. n PROVE f[i + 1] = g[i + 1]  OBVIOUS
  <2>1. i + 1 \in 1 .. Len(s) /\ i + 1 \in 1 .. Len(t) /\ i + 1 - 1 = i
    OBVIOUS
  <2>2. f[i + 1] = (IF i + 1 = 1 THEN s[i + 1] ELSE f[i] \o s[i + 1])
        /\ g[i + 1] = (IF i + 1 = 1 THEN t[i + 1] ELSE g[i] \o t[i + 1])
    BY <2>1 DEF Flattens
  <2>3. s[i + 1] = t[i + 1]  OBVIOUS
  <2>4. i + 1 # 1 => i \in 1 .. n  OBVIOUS
  <2>5. i + 1 # 1 => f[i] = g[i]  BY <1>2, <2>4
  <2> QED  BY <2>2, <2>3, <2>5
<1>3. Nat \subseteq T
  <2> HIDE DEF T
  <2> QED  BY <1>1, <1>2, SetInduction
<1> QED  BY <1>3

LEMMA FlattenIs ==
  ASSUME NEW S, NEW s \in Seq(Seq(S))
  PROVE  \E f :
           /\ f \in [1 .. Len(s) -> Seq(S)] /\ Flattens(f, s)
           /\ FlattenSeq(s) = IF Len(s) = 0 THEN <<>> ELSE f[Len(s)]
<1> DEFINE Solves(f) == f = [i \in 1 .. Len(s) |->
                               IF i = 1 THEN s[i] ELSE f[i - 1] \o s[i]]
           f0 == CHOOSE f : Solves(f)
<1>1. PICK f1 : f1 \in [1 .. Len(s) -> Seq(S)] /\ Flattens(f1, s)
  BY FlattensExists
<1>2. Solves(f1)  BY <1>1 DEF Flattens
<1>3. Solves(f0)  BY <1>2
<1>4. FlattenSeq(s) = IF Len(s) = 0 THEN s ELSE f0[Len(s)]  BY DEF FlattenSeq
<1> HIDE DEF f0
<1>5. Flattens(f0, s) /\ f0 = [i \in 1 .. Len(s) |-> f0[i]]
  BY <1>3 DEF Flattens
<1>6. Len(s) \in Nat  BY LenProperties
<1>7. \A i \in 1 .. Len(s) : f0[i] = f1[i]
  <2>1. Len(s) <= Len(s) /\ \A i \in 1 .. Len(s) : s[i] = s[i]  BY <1>6
  <2>2. Flattens(f0, s) /\ Flattens(f1, s)  BY <1>1, <1>5
  <2> HIDE DEF Solves
  <2> QED  BY <1>6, <2>1, <2>2, FlattensAgree
<1>8. f0 \in [1 .. Len(s) -> Seq(S)]
  <2>1. \A i \in 1 .. Len(s) : f0[i] \in Seq(S)  BY <1>1, <1>7
  <2> HIDE DEF Solves
  <2> QED  BY <1>5, <2>1
<1>9. Len(s) = 0 => s = <<>>  BY EmptySeq
<1> QED  BY <1>4, <1>5, <1>8, <1>9

LEMMA FlattenEmpty == FlattenSeq(<<>>) = <<>>
BY DEF FlattenSeq

LEMMA FlattenTyped ==
  ASSUME NEW S, NEW s \in Seq(Seq(S))
  PROVE  FlattenSeq(s) \in Seq(S)
<1>1. PICK f :
        /\ f \in [1 .. Len(s) -> Seq(S)]
        /\ FlattenSeq(s) = IF Len(s) = 0 THEN <<>> ELSE f[Len(s)]
  BY FlattenIs
<1>2. <<>> \in Seq(S) /\ (Len(s) # 0 => Len(s) \in 1 .. Len(s))
  BY LenProperties
<1>3. Len(s) # 0 => f[Len(s)] \in Seq(S)  BY <1>1, <1>2
<1> QED  BY <1>1, <1>2, <1>3

LEMMA FlattenAppend ==
  ASSUME NEW S, NEW s \in Seq(Seq(S)), NEW x \in Seq(S)
  PROVE  FlattenSeq(Append(s, x)) = FlattenSeq(s) \o x
<1> DEFINE n == Len(s)
           t == Append(s, x)
<1>1. /\ n \in Nat /\ t \in Seq(Seq(S)) /\ Len(t) = n + 1 /\ t[n + 1] = x
      /\ \A i \in 1 .. n : t[i] = s[i]
  BY LenProperties, AppendProperties
<1> HIDE DEF t, n
<1>2. PICK f : /\ f \in [1 .. n -> Seq(S)] /\ Flattens(f, s)
               /\ FlattenSeq(s) = IF n = 0 THEN <<>> ELSE f[n]
  BY FlattenIs DEF n
<1>3. PICK g : /\ g \in [1 .. n + 1 -> Seq(S)] /\ Flattens(g, t)
               /\ FlattenSeq(t) = IF n + 1 = 0 THEN <<>> ELSE g[n + 1]
  BY <1>1, FlattenIs
<1>4. \A i \in 1 .. n : f[i] = g[i]
  <2>1. n <= Len(s) /\ n <= Len(t) /\ Len(s) \in Nat /\ Len(t) \in Nat
    BY <1>1 DEF n
  <2>2. \A i \in 1 .. n : s[i] = t[i]  BY <1>1
  <2>3. Flattens(f, s) /\ Flattens(g, t) /\ n \in Nat  BY <1>1, <1>2, <1>3
  <2>4. PICK q : q = s  OBVIOUS
  <2>5. /\ n <= Len(q) /\ Len(q) \in Nat /\ Flattens(f, q)
        /\ \A i \in 1 .. n : q[i] = t[i]
    BY <2>1, <2>2, <2>3, <2>4
  <2> QED  BY <2>1, <2>3, <2>5, FlattensAgree
<1>5. g[n + 1] = IF n + 1 = 1 THEN t[n + 1] ELSE g[n] \o t[n + 1]
  <2>1. n + 1 \in 1 .. Len(t) /\ n + 1 - 1 = n  BY <1>1
  <2>2. \A i \in 1 .. Len(t) : g[i] = IF i = 1 THEN t[i] ELSE g[i - 1] \o t[i]
    BY <1>3 DEF Flattens
  <2> DEFINE m == n + 1
  <2>3. m \in 1 .. Len(t) /\ m - 1 = n  BY <1>1
  <2> HIDE DEF m
  <2>4. g[m] = IF m = 1 THEN t[m] ELSE g[m - 1] \o t[m]  BY <2>2, <2>3
  <2>5. g[m] = IF m = 1 THEN t[m] ELSE g[n] \o t[m]  BY <2>3, <2>4
  <2> QED  BY <2>5 DEF m
<1>6. CASE n = 0
  <2>1. FlattenSeq(t) = x  BY <1>1, <1>3, <1>5, <1>6
  <2>2. FlattenSeq(s) = <<>>  BY <1>2, <1>6
  <2> QED  BY <2>1, <2>2, ConcatEmptySeq DEF t
<1>7. CASE n # 0
  <2>1. n \in 1 .. n  BY <1>1, <1>7
  <2>2. FlattenSeq(t) = g[n + 1] /\ n + 1 # 1  BY <1>1, <1>3, <1>7
  <2>3. g[n + 1] = g[n] \o t[n + 1]  BY <1>5, <2>2
  <2>4. g[n] = f[n] /\ t[n + 1] = x  BY <1>1, <1>4, <2>1
  <2>5. FlattenSeq(t) = f[n] \o x  BY <2>2, <2>3, <2>4
  <2> QED  BY <1>2, <1>7, <2>5 DEF t
<1> QED  BY <1>6, <1>7

\* Append and concatenation.
LEMMA ConcatAppend ==
  ASSUME NEW S, NEW s \in Seq(S), NEW t \in Seq(S), NEW x \in S
  PROVE  s \o Append(t, x) = Append(s \o t, x)
OBVIOUS

LEMMA FlattenConcat ==
  ASSUME NEW S, NEW s \in Seq(Seq(S)), NEW t \in Seq(Seq(S))
  PROVE  FlattenSeq(s \o t) = FlattenSeq(s) \o FlattenSeq(t)
<1> DEFINE u(n) == SubSeq(t, 1, n)
           T == {n \in Nat : n <= Len(t) =>
                   FlattenSeq(s \o u(n)) = FlattenSeq(s) \o FlattenSeq(u(n))}
<1>1. Len(t) \in Nat /\ FlattenSeq(s) \in Seq(S)  BY LenProperties, FlattenTyped
<1>2. 0 \in T
  <2>1. u(0) = <<>>  BY SubSeqEmpty
  <2>2. s \o u(0) = s /\ FlattenSeq(u(0)) = <<>>
    BY <2>1, ConcatEmptySeq, FlattenEmpty
  <2>3. FlattenSeq(s) \o <<>> = FlattenSeq(s)  BY <1>1, ConcatEmptySeq
  <2> QED  BY <2>2, <2>3
<1>3. ASSUME NEW n \in Nat, n \in T PROVE n + 1 \in T
  <2> SUFFICES ASSUME n + 1 <= Len(t)
               PROVE  FlattenSeq(s \o u(n + 1)) = FlattenSeq(s) \o FlattenSeq(u(n + 1))
    OBVIOUS
  <2>1. t[n + 1] \in Seq(S)  BY <1>1, ElementOfSeq
  <2>2. u(n) \in Seq(Seq(S)) /\ u(n + 1) = Append(u(n), t[n + 1])
    BY <1>1
  <2>3. FlattenSeq(u(n + 1)) = FlattenSeq(u(n)) \o t[n + 1]
        /\ FlattenSeq(u(n)) \in Seq(S)
    BY <2>1, <2>2, FlattenAppend, FlattenTyped
  <2>4. s \o u(n) \in Seq(Seq(S))  BY <2>2, ConcatProperties
  <2>5. s \o u(n + 1) = Append(s \o u(n), t[n + 1])
    <3> DEFINE v == u(n)
               x == t[n + 1]
    <3>1. v \in Seq(Seq(S)) /\ x \in Seq(S)  BY <2>1, <2>2
    <3> HIDE DEF v, x, T
    <3>2. s \o Append(v, x) = Append(s \o v, x)  BY <3>1, ConcatAppend
    <3> QED  BY <2>2, <3>2 DEF v, x
  <2>6. FlattenSeq(s \o u(n + 1)) = FlattenSeq(s \o u(n)) \o t[n + 1]
    BY <2>1, <2>4, <2>5, FlattenAppend
  <2>7. FlattenSeq(s \o u(n)) = FlattenSeq(s) \o FlattenSeq(u(n))
    BY <1>1, <1>3
  <2>8. (FlattenSeq(s) \o FlattenSeq(u(n))) \o t[n + 1]
        = FlattenSeq(s) \o (FlattenSeq(u(n)) \o t[n + 1])
    <3>1. PICK a \in Seq(S) : a = FlattenSeq(s)  BY <1>1
    <3>2. PICK b \in Seq(S) : b = FlattenSeq(u(n))  BY <2>3
    <3>3. PICK c \in Seq(S) : c = t[n + 1]  BY <2>1
    <3> HIDE DEF T, u
    <3>4. (a \o b) \o c = a \o (b \o c)  BY SMTT(30)
    <3> QED  BY <3>1, <3>2, <3>3, <3>4
  <2> HIDE DEF u
  <2> QED  BY <2>3, <2>6, <2>7, <2>8
<1>4. Nat \subseteq T
  <2> HIDE DEF T
  <2> QED  BY <1>2, <1>3, SetInduction
<1>5. u(Len(t)) = t  BY SubSeqFull
<1>6. Len(t) \in T /\ Len(t) <= Len(t)  BY <1>1, <1>4
<1>7. FlattenSeq(s \o u(Len(t))) = FlattenSeq(s) \o FlattenSeq(u(Len(t)))  BY <1>6
<1> QED  BY <1>5, <1>7

-----------------------------------------------------------------------------
\* IsPrefix

LEMMA SplitAt ==
  ASSUME NEW S, NEW s \in Seq(S), NEW n \in Nat, n <= Len(s)
  PROVE  /\ SubSeq(s, 1, n) \in Seq(S) /\ SubSeq(s, n + 1, Len(s)) \in Seq(S)
         /\ s = SubSeq(s, 1, n) \o SubSeq(s, n + 1, Len(s))
<1>1. Len(s) \in Nat /\ \A i \in 1 .. Len(s) : s[i] \in S
  BY ElementOfSeq, LenProperties
<1>2. SubSeq(s, 1, n) \in Seq(S)
  <2>1. \A i \in 1 .. n : s[i] \in S  BY <1>1
  <2> QED  BY <2>1, SubSeqProperties
<1>3. SubSeq(s, n + 1, Len(s)) \in Seq(S)
  <2>1. \A i \in n + 1 .. Len(s) : s[i] \in S  BY <1>1
  <2> QED  BY <1>1, <2>1, SubSeqProperties
<1>4. SubSeq(s, 1, n) \o SubSeq(s, n + 1, Len(s)) = SubSeq(s, 1, Len(s))
  <2>1. 1 \in 1 .. Len(s) + 1 /\ n \in 1 - 1 .. Len(s) /\ Len(s) \in n .. Len(s)
    BY <1>1
  <2> QED  BY <2>1, ConcatAdjacentSubSeq
<1> QED  BY <1>2, <1>3, <1>4, SubSeqFull

LEMMA PrefixConcat ==
  ASSUME NEW S, NEW s \in Seq(S), NEW t \in Seq(S)
  PROVE  IsPrefix(s, s \o t)
BY DEF IsPrefix

LEMMA PrefixSelf ==
  ASSUME NEW S, NEW s \in Seq(S)
  PROVE  IsPrefix(s, s)
BY DEF IsPrefix

LEMMA PrefixTransitive ==
  ASSUME NEW S, NEW s \in Seq(S), NEW t \in Seq(S), NEW u \in Seq(S),
         IsPrefix(s, t), IsPrefix(t, u)
  PROVE  IsPrefix(s, u)
<1>1. Len(s) \in Nat /\ Len(t) \in Nat /\ Len(u) \in Nat  BY LenProperties
<1>2. Len(s) <= Len(t) /\ Len(t) <= Len(u)  BY DEF IsPrefix
<1>3. SubSeq(s, 1, Len(s)) = s /\ SubSeq(t, 1, Len(t)) = t
  BY SubSeqFull
<1>4. s = SubSeq(t, 1, Len(s)) /\ t = SubSeq(u, 1, Len(t))
  BY <1>3 DEF IsPrefix
<1>5. \A i \in 1 .. Len(s) : s[i] = t[i] /\ t[i] = u[i]
  BY <1>1, <1>2, <1>4
<1>6. SubSeq(u, 1, Len(s)) = s
  BY <1>1, <1>2, <1>5
<1> QED  BY <1>1, <1>2, <1>3, <1>6 DEF IsPrefix

-----------------------------------------------------------------------------
\* Recursion to the end: f[x] is what x has, followed by f of what comes next.

TailEquation(f, X, stop, head, next) ==
  \A x \in X : f[x] = IF x \in stop THEN <<>> ELSE head[x] \o f[next[x]]

\* Recursion along a measure that decreases has a solution.
LEMMA TailRecursion ==
  ASSUME NEW S, NEW X, NEW N \in Nat, NEW m, \A x \in X : m[x] \in 0 .. N,
         NEW stop, NEW head, NEW next,
         \A x \in X \ stop : head[x] \in Seq(S) /\ next[x] \in X /\ m[next[x]] < m[x]
  PROVE  \E f \in [X -> Seq(S)] : TailEquation(f, X, stop, head, next)
<1> DEFINE Value(f, x) == IF x \in stop THEN <<>> ELSE head[x] \o f[next[x]]
           Solves(f, k) == \A x \in X : m[x] < k => f[x] = Value(f, x)
           T == {k \in Nat : \E f \in [X -> Seq(S)] : Solves(f, k)}
<1>1. 0 \in T
  <2> DEFINE f == [x \in X |-> <<>>]
  <2>1. <<>> \in Seq(S)  BY EmptySeq
  <2>2. f \in [X -> Seq(S)]  BY <2>1
  <2>3. Solves(f, 0)  OBVIOUS
  <2> HIDE DEF f, Solves
  <2> QED  BY <2>2, <2>3
<1>2. ASSUME NEW k \in Nat, k \in T PROVE k + 1 \in T
  <2>1. PICK f : f \in [X -> Seq(S)] /\ Solves(f, k)  BY <1>2
  <2> DEFINE g == [x \in X |-> IF m[x] < k THEN f[x] ELSE
                                 IF m[x] = k THEN Value(f, x) ELSE <<>>]
  <2>2. \A x \in X : x \notin stop => f[next[x]] \in Seq(S)  BY <2>1
  <2>3. \A x \in X : Value(f, x) \in Seq(S)
    <3> SUFFICES ASSUME NEW x \in X PROVE Value(f, x) \in Seq(S)  OBVIOUS
    <3>1. CASE x \in stop  BY <3>1, EmptySeq
    <3>2. CASE x \notin stop
      <4>1. head[x] \in Seq(S) /\ f[next[x]] \in Seq(S)  BY <2>2, <3>2
      <4>2. head[x] \o f[next[x]] \in Seq(S)  BY <4>1, ConcatProperties
      <4> QED  BY <3>2, <4>2
    <3> QED  BY <3>1, <3>2
  <2>4. g \in [X -> Seq(S)]
    <3>1. <<>> \in Seq(S)  BY EmptySeq
    <3> HIDE DEF Value
    <3> QED  BY <2>1, <2>3, <3>1
  <2>5. ASSUME NEW x \in X, m[x] < k + 1 PROVE g[x] = Value(g, x)
    <3>1. g[x] = Value(f, x)
      <4>1. CASE m[x] < k
        <5>1. f[x] = Value(f, x)  BY <2>1, <4>1
        <5> HIDE DEF Value
        <5> QED  BY <4>1, <5>1
      <4>2. CASE m[x] = k
        <5> HIDE DEF Value
        <5> QED  BY <4>2
      <4> QED  BY <2>5, <4>1, <4>2
    <3>2. CASE x \in stop  BY <3>1, <3>2
    <3>3. CASE x \notin stop
      <4>1. next[x] \in X /\ m[next[x]] < k  BY <2>5, <3>3
      <4>2. g[next[x]] = f[next[x]]  BY <4>1
      <4> HIDE DEF g
      <4> QED  BY <3>1, <3>3, <4>2
    <3> QED  BY <3>2, <3>3
  <2>6. Solves(g, k + 1)
    <3> HIDE DEF g, Value
    <3> QED  BY <2>5
  <2> HIDE DEF g, Solves
  <2> QED  BY <2>4, <2>6
<1>3. Nat \subseteq T
  <2> HIDE DEF T
  <2> QED  BY <1>1, <1>2, SetInduction
<1>4. N + 1 \in T
  <2> HIDE DEF T
  <2> QED  BY <1>3
<1>5. PICK f : f \in [X -> Seq(S)] /\ Solves(f, N + 1)  BY <1>4
<1>6. \A x \in X : m[x] < N + 1  OBVIOUS
<1>7. TailEquation(f, X, stop, head, next)  BY <1>5, <1>6 DEF TailEquation
<1> QED  BY <1>5, <1>7

\* Every solution has sequences for its values.
LEMMA TailTyped ==
  ASSUME NEW S, NEW X, NEW N \in Nat, NEW m, \A x \in X : m[x] \in 0 .. N,
         NEW stop, NEW head, NEW next,
         \A x \in X \ stop : head[x] \in Seq(S) /\ next[x] \in X /\ m[next[x]] < m[x],
         NEW f, TailEquation(f, X, stop, head, next)
  PROVE  \A x \in X : f[x] \in Seq(S)
<1> DEFINE T == {k \in Nat : \A x \in X : m[x] < k => f[x] \in Seq(S)}
<1>1. 0 \in T  OBVIOUS
<1>2. ASSUME NEW k \in Nat, k \in T PROVE k + 1 \in T
  <2> SUFFICES ASSUME NEW x \in X, m[x] < k + 1 PROVE f[x] \in Seq(S)  OBVIOUS
  <2>1. f[x] = IF x \in stop THEN <<>> ELSE head[x] \o f[next[x]]
    BY DEF TailEquation
  <2>2. CASE x \in stop  BY <2>1, <2>2, EmptySeq
  <2>3. CASE x \notin stop
    <3>1. head[x] \in Seq(S) /\ next[x] \in X /\ m[next[x]] < k  BY <2>3
    <3>2. f[next[x]] \in Seq(S)  BY <1>2, <3>1
    <3>3. head[x] \o f[next[x]] \in Seq(S)  BY <3>1, <3>2, ConcatProperties
    <3> QED  BY <2>1, <2>3, <3>3
  <2> QED  BY <2>2, <2>3
<1>3. Nat \subseteq T
  <2> HIDE DEF T
  <2> QED  BY <1>1, <1>2, SetInduction
<1>4. N + 1 \in T /\ \A x \in X : m[x] < N + 1  BY <1>3
<1> QED  BY <1>4

=============================================================================
