----------------------------- MODULE ListLemmas -----------------------------
(* Facts about lists: what FlattenSeq puts together, and what is left of a     *)
(* list from which elements are taken out (Only).  The library's induction     *)
(* over sequences takes an operator; here it is over a set of sequences.       *)
EXTENDS SequencesExt, Lists, SequenceTheorems, WellFoundedInduction, FiniteSetTheorems, TLAPS

-----------------------------------------------------------------------------
(* Induction over the natural numbers, over sets of them.                      *)

\* A set of numbers has a least one.
LEMMA Least ==
  ASSUME NEW S \in SUBSET Nat, S # {}
  PROVE  \E x \in S : \A y \in S : x <= y
<1> DEFINE R == OpToRel(<, Nat)
<1>1. IsWellFoundedOn(R, Nat)
  BY NatLessThanWellFounded, Zenon
<1> HIDE DEF R
<1>2. PICK x \in S : \A y \in S : <<y, x>> \notin R
  BY <1>1, WFMin
<1> USE DEF R
<1>3. ASSUME NEW y \in S, y < x PROVE FALSE
  <2>1. <<y, x>> \in R
    BY <1>3 DEF OpToRel
  <2> QED BY <2>1, <1>2
<1>4. x \in Nat /\ \A y \in S : y \in Nat
  OBVIOUS
<1> QED BY <1>3, <1>4

\* So a set that holds 0 and, with a number, the next holds them all.
LEMMA Steps ==
  ASSUME NEW S, 0 \in S, \A n \in Nat : n \in S => n + 1 \in S
  PROVE  \A n \in Nat : n \in S
<1> DEFINE T == {n \in Nat : n \notin S}
<1>1. CASE T = {}
  BY <1>1
<1>2. CASE T # {}
  <2>1. T \in SUBSET Nat
    OBVIOUS
  <2> HIDE DEF T
  <2>2. PICK x \in T : \A y \in T : x <= y
    BY <1>2, <2>1, Least
  <2> USE DEF T
  <2>3. x \in Nat /\ x # 0 /\ x - 1 \in Nat /\ (x - 1) + 1 = x
    OBVIOUS
  <2>4. x - 1 \in T
    BY <2>3
  <2> QED BY <2>2, <2>3, <2>4
<1> QED BY <1>1, <1>2

-----------------------------------------------------------------------------
(* What FlattenSeq makes of a longer sequence.                                 *)

\* What FlattenSeq computes on the way: f[i] is the first i elements, put together.
IsFlat(f, s, n) == f = [i \in 1..n |-> IF i = 1 THEN s[i] ELSE f[i - 1] \o s[i]]
Flat(s) == CHOOSE f : IsFlat(f, s, Len(s))

LEMMA FlattenIs ==
  ASSUME NEW s, Len(s) # 0
  PROVE  FlattenSeq(s) = Flat(s)[Len(s)]
BY Zenon DEF FlattenSeq, Flat, IsFlat

LEMMA FlatEqual ==
  ASSUME NEW f, NEW s, NEW n, IsFlat(f, s, n), NEW i \in 1..n
  PROVE  f[i] = IF i = 1 THEN s[i] ELSE f[i - 1] \o s[i]
BY DEF IsFlat

LEMMA FlatExists ==
  ASSUME NEW s
  PROVE  \A n \in Nat : \E f : IsFlat(f, s, n)
<1> DEFINE S == {n \in Nat : \E f : IsFlat(f, s, n)}
<1>1. 0 \in S
  <2>1. IsFlat([i \in 1..0 |-> <<>>], s, 0)
    BY DEF IsFlat
  <2> QED BY <2>1
<1>2. ASSUME NEW n \in Nat, n \in S PROVE n + 1 \in S
  <2>1. PICK f : IsFlat(f, s, n)
    BY <1>2
  <2> DEFINE g == [i \in 1..(n + 1) |-> IF i \in 1..n THEN f[i] ELSE IF i = 1 THEN s[i] ELSE f[i - 1] \o s[i]]
  <2>2. \A i \in 1..n : f[i] = IF i = 1 THEN s[i] ELSE f[i - 1] \o s[i]
    BY <2>1 DEF IsFlat
  <2>3. \A i \in 1..n : g[i] = f[i]
    OBVIOUS
  <2>4. ASSUME NEW i \in 1..(n + 1)
        PROVE  g[i] = IF i = 1 THEN s[i] ELSE g[i - 1] \o s[i]
    <3>1. i # 1 => i - 1 \in 1..n
      OBVIOUS
    <3>2. i # 1 => g[i - 1] = f[i - 1]
      BY <2>3, <3>1
    <3>3. g[i] = IF i = 1 THEN s[i] ELSE f[i - 1] \o s[i]
      BY <2>2
    <3> QED BY <3>2, <3>3
  <2>5. g = [i \in 1..(n + 1) |-> g[i]]
    OBVIOUS
  <2> HIDE DEF g
  <2>6. IsFlat(g, s, n + 1)
    BY <2>4, <2>5 DEF IsFlat
  <2> QED BY <2>6
<1> HIDE DEF S
<1>3. \A n \in Nat : n \in S
  BY <1>1, <1>2, Steps
<1> QED BY <1>3 DEF S

LEMMA FlatUnique ==
  ASSUME NEW s, NEW t, NEW n \in Nat, NEW m \in Nat, n <= m, NEW f, NEW g,
         IsFlat(f, s, n), IsFlat(g, t, m), \A i \in 1..n : s[i] = t[i]
  PROVE  \A i \in 1..n : f[i] = g[i]
<1> DEFINE S == {i \in Nat : i \in 1..n => f[i] = g[i]}
<1>1. 0 \in S
  OBVIOUS
<1>2. ASSUME NEW i \in Nat, i \in S PROVE i + 1 \in S
  <2>1. CASE i + 1 \in 1..n
    <3>1. i + 1 \in 1..m /\ (i + 1) - 1 = i
      BY <2>1
    <3>2. f[i + 1] = IF i + 1 = 1 THEN s[i + 1] ELSE f[i] \o s[i + 1]
      <4>1. f[i + 1] = IF i + 1 = 1 THEN s[i + 1] ELSE f[(i + 1) - 1] \o s[i + 1]
        BY <2>1, FlatEqual
      <4> QED BY <3>1, <4>1
    <3>3. g[i + 1] = IF i + 1 = 1 THEN t[i + 1] ELSE g[i] \o t[i + 1]
      <4>1. g[i + 1] = IF i + 1 = 1 THEN t[i + 1] ELSE g[(i + 1) - 1] \o t[i + 1]
        BY <3>1, FlatEqual
      <4> QED BY <3>1, <4>1
    <3>4. i + 1 # 1 => i \in 1..n
      BY <2>1
    <3>5. i + 1 # 1 => f[i] = g[i]
      BY <1>2, <3>4
    <3>6. s[i + 1] = t[i + 1]
      BY <2>1
    <3> QED BY <3>2, <3>3, <3>5, <3>6
  <2> QED BY <2>1
<1> HIDE DEF S
<1>3. \A i \in Nat : i \in S
  BY <1>1, <1>2, Steps
<1> QED BY <1>3 DEF S

LEMMA FlatOf ==
  ASSUME NEW s, Len(s) \in Nat
  PROVE  IsFlat(Flat(s), s, Len(s))
BY FlatExists DEF Flat

\* A sequence with one more element is flattened to what it was, and that.
LEMMA FlattenMore ==
  ASSUME NEW s, NEW t, Len(s) \in Nat, Len(t) = Len(s) + 1,
         \A i \in 1..Len(s) : t[i] = s[i]
  PROVE  /\ Len(s) = 0 => FlattenSeq(t) = t[1]
         /\ Len(s) # 0 => FlattenSeq(t) = FlattenSeq(s) \o t[Len(t)]
<1> DEFINE f == Flat(s)
           g == Flat(t)
           n == Len(s)
<1>1. IsFlat(f, s, n) /\ IsFlat(g, t, n + 1)
  BY FlatOf
<1>2. FlattenSeq(t) = g[n + 1]
  BY FlattenIs
<1> HIDE DEF f, g
<1>3. g[n + 1] = IF n + 1 = 1 THEN t[n + 1] ELSE g[n] \o t[n + 1]
  <2>1. n + 1 \in 1..(n + 1) /\ (n + 1) - 1 = n
    OBVIOUS
  <2> QED BY <1>1, <2>1 DEF IsFlat
<1>4. CASE n = 0
  BY <1>2, <1>3, <1>4
<1>5. CASE n # 0
  <2>1. n \in 1..n /\ n + 1 # 1
    BY <1>5
  <2>2. f[n] = g[n]
    <3> DEFINE m == n + 1
    <3>1. n \in Nat /\ m \in Nat /\ n <= m /\ \A i \in 1..n : s[i] = t[i]
      OBVIOUS
    <3>2. IsFlat(f, s, n) /\ IsFlat(g, t, m)
      BY <1>1
    <3> HIDE DEF m, n
    <3>3. \A i \in 1..n : f[i] = g[i]
      BY <3>1, <3>2, FlatUnique, SMT
    <3> QED BY <2>1, <3>3
  <2>3. FlattenSeq(s) = f[n]
    BY <1>5, FlattenIs DEF f
  <2> QED BY <1>2, <1>3, <1>5, <2>1, <2>2, <2>3
<1> QED BY <1>4, <1>5

LEMMA FlattenShort == FlattenSeq(<<>>) = <<>> /\ \A b : FlattenSeq(<<b>>) = b
<1>1. FlattenSeq(<<>>) = <<>>
  BY DEF FlattenSeq
<1>2. ASSUME NEW b PROVE FlattenSeq(<<b>>) = b
  <2>1. /\ Len(<<>>) = 0 /\ Len(<<b>>) = Len(<<>>) + 1 /\ <<b>>[1] = b
        /\ \A i \in 1..Len(<<>>) : <<b>>[i] = <<>>[i]
    OBVIOUS
  <2>2. FlattenSeq(<<b>>) = <<b>>[1]
    BY <2>1, FlattenMore
  <2> QED BY <2>1, <2>2
<1> QED BY <1>1, <1>2

\* The first k of the sequences w, one after the other.
FirstOf(w, k) == FlattenSeq([j \in 1..k |-> w[j]])

LEMMA FirstNone == ASSUME NEW w PROVE FirstOf(w, 0) = <<>>
<1>1. [j \in 1..0 |-> w[j]] = <<>>
  OBVIOUS
<1> QED BY <1>1, FlattenShort DEF FirstOf

LEMMA FirstOne ==
  ASSUME NEW w, NEW k \in Nat
  PROVE  /\ k = 0 => FirstOf(w, k + 1) = w[k + 1]
         /\ k # 0 => FirstOf(w, k + 1) = FirstOf(w, k) \o w[k + 1]
<1> DEFINE s == [j \in 1..k |-> w[j]]
           t == [j \in 1..(k + 1) |-> w[j]]
<1>1. Len(s) = k /\ Len(t) = k + 1
  OBVIOUS
<1>2. t[1] = w[1] /\ t[k + 1] = w[k + 1] /\ \A i \in 1..k : t[i] = s[i]
  <2>1. 1 \in 1..(k + 1) /\ k + 1 \in 1..(k + 1) /\ \A i \in 1..k : i \in 1..(k + 1)
    OBVIOUS
  <2> QED BY <2>1
<1>3. FirstOf(w, k) = FlattenSeq(s) /\ FirstOf(w, k + 1) = FlattenSeq(t)
  BY DEF FirstOf
<1> HIDE DEF s, t
<1>4. /\ k = 0 => FlattenSeq(t) = t[1]
      /\ k # 0 => FlattenSeq(t) = FlattenSeq(s) \o t[k + 1]
  <2>1. /\ Len(s) \in Nat /\ Len(t) = Len(s) + 1 /\ t[Len(t)] = t[k + 1]
        /\ \A i \in 1..Len(s) : t[i] = s[i]
    BY <1>1, <1>2
  <2>2. /\ Len(s) = 0 => FlattenSeq(t) = t[1]
        /\ Len(s) # 0 => FlattenSeq(t) = FlattenSeq(s) \o t[Len(t)]
    BY <2>1, FlattenMore
  <2> QED BY <1>1, <2>1, <2>2
<1>5. CASE k = 0
  <2>1. k + 1 = 1
    BY <1>5
  <2> QED BY <1>2, <1>3, <1>4, <1>5, <2>1
<1>6. CASE k # 0
  BY <1>2, <1>3, <1>4, <1>6
<1> QED BY <1>5, <1>6

LEMMA FirstMore ==
  ASSUME NEW D, NEW w, NEW n \in Nat, \A j \in 1..n : w[j] \in Seq(D)
  PROVE  \A k \in Nat : k <= n =>
           /\ FirstOf(w, k) \in Seq(D)
           /\ k > 0 => FirstOf(w, k) = FirstOf(w, k - 1) \o w[k]
<1> DEFINE G(k) == k <= n =>
             /\ FirstOf(w, k) \in Seq(D)
             /\ k > 0 => FirstOf(w, k) = FirstOf(w, k - 1) \o w[k]
           S == {k \in Nat : G(k)}
<1>1. 0 \in S
  <2>1. FirstOf(w, 0) \in Seq(D)
    BY FirstNone, EmptySeq
  <2>2. ~(0 > 0)
    OBVIOUS
  <2> QED BY <2>1, <2>2
<1>2. ASSUME NEW k \in Nat, k \in S PROVE k + 1 \in S
  <2>1. SUFFICES ASSUME k + 1 <= n PROVE G(k + 1)
    OBVIOUS
  <2>2. k + 1 \in 1..n /\ (k + 1) - 1 = k /\ k <= n
    BY <2>1
  <2>3. w[k + 1] \in Seq(D)
    BY <2>2
  <2>4. FirstOf(w, k) \in Seq(D)
    BY <1>2, <2>2
  <2>5. FirstOf(w, k + 1) = FirstOf(w, k) \o w[k + 1]
    <3>1. CASE k = 0
      <4>1. FirstOf(w, k) = <<>>
        BY <3>1, FirstNone
      <4>2. <<>> \o w[k + 1] = w[k + 1]
        BY <2>3, ConcatEmptySeq
      <4> QED BY <3>1, <4>1, <4>2, FirstOne
    <3>2. CASE k # 0
      BY <3>2, FirstOne
    <3> QED BY <3>1, <3>2
  <2>6. FirstOf(w, k + 1) \in Seq(D)
    BY <2>3, <2>4, <2>5, ConcatProperties
  <2> QED BY <2>2, <2>5, <2>6
<1> HIDE DEF S
<1>3. \A k \in Nat : k \in S
  BY <1>1, <1>2, Steps
<1> QED BY <1>3 DEF S

Each(w, n, D) == \A j \in 1..n : w[j] \in Seq(D)

\* The first k of them begin the first m.
LEMMA FirstBegins ==
  ASSUME NEW D, NEW w, NEW n \in Nat, Each(w, n, D)
  PROVE  \A k, m \in Nat : k <= m /\ m <= n =>
           /\ Len(FirstOf(w, k)) <= Len(FirstOf(w, m))
           /\ \A i \in 1..Len(FirstOf(w, k)) : FirstOf(w, m)[i] = FirstOf(w, k)[i]
<1> SUFFICES ASSUME NEW k \in Nat
             PROVE  \A m \in Nat : k <= m /\ m <= n =>
                                 /\ Len(FirstOf(w, k)) <= Len(FirstOf(w, m))
                      /\ \A i \in 1..Len(FirstOf(w, k)) : FirstOf(w, m)[i] = FirstOf(w, k)[i]
  OBVIOUS
<1> DEFINE G(m) == k <= m /\ m <= n =>
             /\ Len(FirstOf(w, k)) <= Len(FirstOf(w, m))
             /\ \A i \in 1..Len(FirstOf(w, k)) : FirstOf(w, m)[i] = FirstOf(w, k)[i]
           S == {m \in Nat : G(m)}
<1>0. \A m \in Nat : m <= n => FirstOf(w, m) \in Seq(D) /\ Len(FirstOf(w, m)) \in Nat
  BY FirstMore, LenProperties DEF Each
<1>1. 0 \in S
  <2>1. k <= 0 => k = 0
    OBVIOUS
  <2> QED BY <1>0, <2>1
<1>2. ASSUME NEW m \in Nat, m \in S PROVE m + 1 \in S
  <2>1. SUFFICES ASSUME k <= m + 1, m + 1 <= n PROVE G(m + 1)
    OBVIOUS
  <2>2. CASE k = m + 1
    BY <1>0, <2>1, <2>2
  <2>3. CASE k <= m
    <3> DEFINE a == FirstOf(w, k)
               b == FirstOf(w, m)
               c == w[m + 1]
    <3>1. m + 1 \in 1..n /\ m <= n /\ (m + 1) - 1 = m /\ m + 1 > 0 /\ k <= n
      BY <2>1, <2>3
    <3>2. FirstOf(w, m + 1) = b \o c
      <4>1. FirstOf(w, m + 1) = FirstOf(w, (m + 1) - 1) \o w[m + 1]
        <5>1. m + 1 \in Nat /\ m + 1 <= n /\ m + 1 > 0
          BY <3>1
        <5> QED BY <5>1, FirstMore DEF Each
      <4> QED BY <3>1, <4>1
    <3>3. b \in Seq(D) /\ c \in Seq(D) /\ Len(a) \in Nat
      BY <1>0, <3>1 DEF Each
    <3>4. Len(a) <= Len(b) /\ \A i \in 1..Len(a) : b[i] = a[i]
      BY <1>2, <2>3, <3>1
    <3> HIDE DEF a, b, c
    <3>5. /\ Len(b \o c) = Len(b) + Len(c) /\ Len(b) \in Nat /\ Len(c) \in Nat
          /\ \A i \in 1..Len(b) : (b \o c)[i] = b[i]
      BY <3>3, ConcatProperties, LenProperties
    <3>6. Len(a) <= Len(b \o c) /\ \A i \in 1..Len(a) : (b \o c)[i] = a[i]
      BY <3>3, <3>4, <3>5
    <3> QED BY <3>2, <3>6 DEF a
  <2> QED BY <2>1, <2>2, <2>3
<1> HIDE DEF S
<1>3. \A m \in Nat : m \in S
  BY <1>1, <1>2, Steps
<1> QED BY <1>3 DEF S

\* Sequences that begin alike have the same first ones.
LEMMA FirstSame ==
  ASSUME NEW w, NEW x, NEW m \in Nat, \A k \in 1..m : x[k] = w[k]
  PROVE  FirstOf(x, m) = FirstOf(w, m)
<1>1. [j \in 1..m |-> x[j]] = [j \in 1..m |-> w[j]]
  OBVIOUS
<1> QED BY <1>1 DEF FirstOf

-----------------------------------------------------------------------------
(* Induction over sequences: a set that holds the empty one and, with a        *)
(* sequence, that with one more element, holds them all.                       *)

LEMMA Grow ==
  ASSUME NEW T, NEW P, <<>> \in P, \A s \in Seq(T), x \in T : s \in P => Append(s, x) \in P
  PROVE  \A s \in Seq(T) : s \in P
<1> DEFINE S == {n \in Nat : \A s \in Seq(T) : Len(s) = n => s \in P}
<1>1. 0 \in S
  <2>1. ASSUME NEW s \in Seq(T), Len(s) = 0 PROVE s = <<>>
    BY <2>1, EmptySeq
  <2> QED BY <2>1
<1>2. ASSUME NEW n \in Nat, n \in S PROVE n + 1 \in S
  <2>1. ASSUME NEW s \in Seq(T), Len(s) = n + 1 PROVE s \in P
    <3>1. s # <<>>
      BY <2>1, EmptySeq
    <3>2. PICK t \in Seq(T), x \in T : s = Append(t, x)
      BY <3>1, SequenceEmptyOrAppend
    <3>3. Len(t) \in Nat /\ Len(s) = Len(t) + 1
      BY <3>2, AppendProperties, LenProperties
    <3>4. Len(t) = n
      BY <3>3, <2>1
    <3>5. t \in P
      BY <3>4, <1>2
    <3> QED BY <3>5, <3>2
  <2> QED BY <2>1
<1> HIDE DEF S
<1>3. \A n \in Nat : n \in S
  BY <1>1, <1>2, Steps
<1>4. ASSUME NEW s \in Seq(T) PROVE s \in P
  <2>1. Len(s) \in Nat
    BY LenProperties
  <2>2. Len(s) \in S
    BY <2>1, <1>3
  <2> QED BY <2>2 DEF S
<1> QED BY <1>4

-----------------------------------------------------------------------------
(* What Only computes on the way.                                              *)

IsKept(f, s, stays, n) ==
  f = [k \in 0..n |-> IF k = 0 THEN <<>> ELSE IF s[k] \in stays THEN Append(f[k - 1], s[k]) ELSE f[k - 1]]
KeptOf(s, stays) == CHOOSE f : IsKept(f, s, stays, Len(s))

LEMMA OnlyIs ==
  ASSUME NEW s, NEW stays
  PROVE  Only(s, stays) = KeptOf(s, stays)[Len(s)]
BY Zenon DEF Only, KeptOf, IsKept

LEMMA KeptStep ==
  ASSUME NEW f, NEW s, NEW stays, NEW n \in Nat, IsKept(f, s, stays, n), NEW k \in 0..n
  PROVE  /\ k = 0 => f[k] = <<>>
         /\ k # 0 => f[k] = IF s[k] \in stays THEN Append(f[k - 1], s[k]) ELSE f[k - 1]
<1>1. f[k] = IF k = 0 THEN <<>> ELSE IF s[k] \in stays THEN Append(f[k - 1], s[k]) ELSE f[k - 1]
  BY Zenon DEF IsKept
<1> QED BY <1>1, Zenon

LEMMA KeptExists ==
  ASSUME NEW s, NEW stays
  PROVE  \A n \in Nat : \E f : IsKept(f, s, stays, n)
<1> DEFINE S == {n \in Nat : \E f : IsKept(f, s, stays, n)}
<1>1. 0 \in S
  <2> DEFINE f == [k \in 0..0 |-> <<>>]
  <2>1. IsKept(f, s, stays, 0)
    BY DEF IsKept
  <2> QED BY <2>1
<1>2. ASSUME NEW n \in Nat, n \in S PROVE n + 1 \in S
  <2>1. PICK f : IsKept(f, s, stays, n)
    BY <1>2
  <2> DEFINE g == [k \in 0..(n + 1) |-> IF k \in 0..n THEN f[k] ELSE IF s[k] \in stays THEN Append(f[k - 1], s[k]) ELSE f[k - 1]]
  <2>2. \A k \in 0..n : g[k] = f[k]
    OBVIOUS
  <2>3. ASSUME NEW k \in 0..(n + 1)
        PROVE  g[k] = IF k = 0 THEN <<>> ELSE IF s[k] \in stays THEN Append(g[k - 1], s[k]) ELSE g[k - 1]
    <3>1. k # 0 => k - 1 \in 0..n
      OBVIOUS
    <3>2. k # 0 => g[k - 1] = f[k - 1]
      BY <2>2, <3>1
    <3>3. CASE k \in 0..n
      <4>1. g[k] = f[k]
        BY <3>3, <2>2
      <4>2. /\ k = 0 => f[k] = <<>>
            /\ k # 0 => f[k] = IF s[k] \in stays THEN Append(f[k - 1], s[k]) ELSE f[k - 1]
        BY <2>1, <3>3, KeptStep
      <4> HIDE DEF g
      <4> QED BY <4>1, <4>2, <3>2
    <3>4. CASE k \notin 0..n
      <4>1. k # 0
        BY <3>4
      <4>2. g[k] = IF s[k] \in stays THEN Append(f[k - 1], s[k]) ELSE f[k - 1]
        BY <3>4
      <4> HIDE DEF g
      <4> QED BY <4>1, <4>2, <3>2
    <3> QED BY <3>3, <3>4
  <2>4. g = [k \in 0..(n + 1) |-> g[k]]
    OBVIOUS
  <2> HIDE DEF g
  <2>5. IsKept(g, s, stays, n + 1)
    BY <2>3, <2>4 DEF IsKept
  <2> QED BY <2>5
<1> HIDE DEF S
<1>3. \A n \in Nat : n \in S
  BY <1>1, <1>2, Steps
<1> QED BY <1>3 DEF S

LEMMA KeptUnique ==
  ASSUME NEW s, NEW t, NEW stays, NEW n \in Nat, NEW m \in Nat, n <= m, NEW f, NEW g,
         IsKept(f, s, stays, n), IsKept(g, t, stays, m), \A i \in 1..n : s[i] = t[i]
  PROVE  \A i \in 0..n : f[i] = g[i]
<1> DEFINE S == {i \in Nat : i \in 0..n => f[i] = g[i]}
<1>1. 0 \in S
  <2>1. 0 \in 0..n /\ 0 \in 0..m
    OBVIOUS
  <2>2. f[0] = <<>>
    BY <2>1, KeptStep
  <2>3. g[0] = <<>>
    BY <2>1, KeptStep
  <2> QED BY <2>2, <2>3
<1>2. ASSUME NEW i \in Nat, i \in S PROVE i + 1 \in S
  <2>1. CASE i + 1 \in 0..n
    <3> DEFINE j == i + 1
    <3>1. j \in 0..n /\ j \in 0..m /\ j # 0 /\ j - 1 = i /\ i \in 0..n /\ j \in 1..n
      BY <2>1
    <3> HIDE DEF j
    <3>2. f[j] = IF s[j] \in stays THEN Append(f[j - 1], s[j]) ELSE f[j - 1]
      BY <3>1, KeptStep
    <3>3. g[j] = IF t[j] \in stays THEN Append(g[j - 1], t[j]) ELSE g[j - 1]
      BY <3>1, KeptStep
    <3>4. f[i] = g[i] /\ s[j] = t[j]
      BY <3>1, <1>2
    <3>5. f[j] = g[j]
      BY <3>1, <3>2, <3>3, <3>4
    <3> QED BY <3>5 DEF j
  <2> QED BY <2>1
<1> HIDE DEF S
<1>3. \A i \in Nat : i \in S
  BY <1>1, <1>2, Steps
<1> QED BY <1>3 DEF S

LEMMA KeptIs ==
  ASSUME NEW s, NEW stays, Len(s) \in Nat
  PROVE  IsKept(KeptOf(s, stays), s, stays, Len(s))
BY KeptExists DEF KeptOf

-----------------------------------------------------------------------------
(* Only, element by element.                                                   *)

LEMMA OnlyNone == ASSUME NEW stays PROVE Only(<<>>, stays) = <<>>
<1>1. Len(<<>>) \in Nat /\ Len(<<>>) = 0 /\ 0 \in 0..0
  OBVIOUS
<1>2. IsKept(KeptOf(<<>>, stays), <<>>, stays, Len(<<>>))
  BY <1>1, KeptIs
<1>3. KeptOf(<<>>, stays)[0] = <<>>
  BY <1>1, <1>2, KeptStep
<1> QED BY <1>1, <1>3, OnlyIs

LEMMA OnlyMore ==
  ASSUME NEW T, NEW s \in Seq(T), NEW x \in T, NEW stays
  PROVE  Only(Append(s, x), stays) = IF x \in stays THEN Append(Only(s, stays), x) ELSE Only(s, stays)
<1> DEFINE t == Append(s, x)
           n == Len(s)
           f == KeptOf(s, stays)
           g == KeptOf(t, stays)
<1>1. /\ n \in Nat /\ n + 1 \in Nat /\ Len(t) = n + 1
      /\ \A i \in 1..n : s[i] = t[i]
      /\ t[n + 1] = x
  BY AppendProperties, LenProperties
<1>2. IsKept(f, s, stays, n) /\ IsKept(g, t, stays, n + 1)
  <2>1. Len(t) \in Nat
    BY <1>1
  <2>2. IsKept(KeptOf(t, stays), t, stays, Len(t))
    BY <2>1, KeptIs
  <2> QED BY <1>1, <2>2, KeptIs
<1>3. Only(s, stays) = f[n] /\ Only(t, stays) = g[n + 1]
  BY <1>1, OnlyIs
<1> HIDE DEF f, g, t
<1>4. n \in 0..n /\ n + 1 \in 0..(n + 1) /\ n + 1 # 0 /\ (n + 1) - 1 = n /\ n <= n + 1
  BY <1>1
<1> HIDE DEF n
<1> DEFINE m == n + 1
<1>5. f[n] = g[n]
  <2>1. m \in Nat /\ n <= m /\ IsKept(g, t, stays, m)
    BY <1>1, <1>2, <1>4
  <2> HIDE DEF m
  <2>2. \A i \in 0..n : f[i] = g[i]
    BY <1>1, <1>2, <2>1, KeptUnique
  <2> QED BY <2>2, <1>4
<1>6. g[m] = IF t[m] \in stays THEN Append(g[m - 1], t[m]) ELSE g[m - 1]
  <2>1. m \in Nat /\ m \in 0..m /\ m # 0 /\ IsKept(g, t, stays, m)
    BY <1>1, <1>2, <1>4
  <2> HIDE DEF m
  <2> QED BY <2>1, KeptStep
<1>7. Only(t, stays) = IF x \in stays THEN Append(Only(s, stays), x) ELSE Only(s, stays)
  BY <1>1, <1>3, <1>4, <1>5, <1>6, Zenon
<1> QED BY <1>7 DEF t

LEMMA OnlyType ==
  ASSUME NEW T, NEW stays
  PROVE  \A s \in Seq(T) : Only(s, stays) \in Seq(T \cap stays)
<1> DEFINE P == {s \in Seq(T) : Only(s, stays) \in Seq(T \cap stays)}
<1>1. <<>> \in P
  BY OnlyNone, EmptySeq
<1>2. ASSUME NEW s \in Seq(T), NEW x \in T, s \in P PROVE Append(s, x) \in P
  <2>1. Append(s, x) \in Seq(T)
    BY AppendProperties
  <2>2. Only(s, stays) \in Seq(T \cap stays)
    BY <1>2
  <2>3. CASE x \in stays
    <3>1. x \in T \cap stays
      BY <2>3
    <3>2. Append(Only(s, stays), x) \in Seq(T \cap stays)
      BY <2>2, <3>1, AppendProperties
    <3>3. Only(Append(s, x), stays) = Append(Only(s, stays), x)
      BY <2>3, OnlyMore
    <3> QED BY <2>1, <3>2, <3>3, Zenon
  <2>4. CASE x \notin stays
    BY <2>1, <2>2, <2>4, OnlyMore
  <2> QED BY <2>3, <2>4
<1> HIDE DEF P
<1>3. \A s \in Seq(T) : s \in P
  BY <1>1, <1>2, Grow
<1> QED BY <1>3 DEF P

LEMMA OnlyIn ==
  ASSUME NEW T, NEW stays, NEW s \in Seq(T)
  PROVE  Only(s, stays) \in Seq(T) /\ Only(s, stays) \in Seq(T \cap stays)
<1>1. Only(s, stays) \in Seq(T \cap stays)
  BY OnlyType
<1>2. T \cap stays \subseteq T
  OBVIOUS
<1> HIDE DEF Only
<1> DEFINE U == T \cap stays
<1>3. Only(s, stays) \in Seq(U) /\ U \subseteq T
  BY <1>1, <1>2
<1> HIDE DEF U
<1> QED BY <1>1, <1>3, SeqMonotonic

LEMMA OnlyCat ==
  ASSUME NEW T, NEW stays, NEW s \in Seq(T)
  PROVE  \A t \in Seq(T) : Only(s \o t, stays) = Only(s, stays) \o Only(t, stays)
<1> DEFINE P == {t \in Seq(T) : Only(s \o t, stays) = Only(s, stays) \o Only(t, stays)}
<1>0. Only(s, stays) \in Seq(T)
  BY OnlyIn
<1>1. <<>> \in P
  <2>1. s \o <<>> = s /\ Only(s, stays) \o <<>> = Only(s, stays)
    BY <1>0, ConcatEmptySeq
  <2> QED BY <2>1, OnlyNone, EmptySeq
<1>2. ASSUME NEW t \in Seq(T), NEW x \in T, t \in P PROVE Append(t, x) \in P
  <2> DEFINE st == s \o t
             a == Only(s, stays)
             b == Only(t, stays)
  <2>1. Append(t, x) \in Seq(T) /\ st \in Seq(T)
    BY AppendProperties, ConcatProperties
  <2>2. a \in Seq(T) /\ b \in Seq(T)
    BY OnlyIn
  <2>3. Only(st, stays) = a \o b
    BY <1>2
  <2>4. s \o Append(t, x) = Append(st, x)
    OBVIOUS
  <2>5. Only(Append(t, x), stays) = IF x \in stays THEN Append(b, x) ELSE b
    BY OnlyMore
  <2> HIDE DEF a, b, st
  <2>6. Only(Append(st, x), stays) = IF x \in stays THEN Append(Only(st, stays), x) ELSE Only(st, stays)
    BY <2>1, OnlyMore
  <2>7. Append(a \o b, x) = a \o Append(b, x)
    <3> DEFINE c == <<x>>
    <3>1. a \o b \in Seq(T) /\ Append(b, x) = b \o c /\ c \in Seq(T)
      BY <2>2, ConcatProperties, AppendIsConcat
    <3>2. Append(a \o b, x) = (a \o b) \o c
      BY <3>1, AppendIsConcat
    <3> HIDE DEF c
    <3>3. (a \o b) \o c = a \o (b \o c)
      BY <2>2, <3>1, ConcatAssociative
    <3> QED BY <3>1, <3>2, <3>3, Zenon
  <2>8. Only(s \o Append(t, x), stays) = a \o Only(Append(t, x), stays)
    BY <2>3, <2>4, <2>5, <2>6, <2>7, Zenon
  <2> QED BY <2>1, <2>8 DEF a
<1> HIDE DEF P
<1>3. \A t \in Seq(T) : t \in P
  BY <1>1, <1>2, Grow
<1> QED BY <1>3 DEF P

\* Which elements stay is what counts.
LEMMA OnlySame ==
  ASSUME NEW T, NEW S, NEW R, T \cap S = T \cap R
  PROVE  \A s \in Seq(T) : Only(s, S) = Only(s, R)
<1> DEFINE P == {s \in Seq(T) : Only(s, S) = Only(s, R)}
<1>1. <<>> \in P
  BY OnlyNone, EmptySeq
<1>2. ASSUME NEW s \in Seq(T), NEW x \in T, s \in P PROVE Append(s, x) \in P
  <2>1. Append(s, x) \in Seq(T)
    BY AppendProperties
  <2>2. Only(s, S) = Only(s, R)
    BY <1>2
  <2>3. /\ Only(Append(s, x), S) = IF x \in S THEN Append(Only(s, S), x) ELSE Only(s, S)
        /\ Only(Append(s, x), R) = IF x \in R THEN Append(Only(s, R), x) ELSE Only(s, R)
    BY OnlyMore
  <2>4. x \in S <=> x \in R
    OBVIOUS
  <2>5. Only(Append(s, x), S) = Only(Append(s, x), R)
    BY <2>2, <2>3, <2>4
  <2> QED BY <2>1, <2>5
<1> HIDE DEF P
<1>3. \A s \in Seq(T) : s \in P
  BY <1>1, <1>2, Grow
<1> QED BY <1>3 DEF P

LEMMA OnlyAll ==
  ASSUME NEW T, NEW S, T \subseteq S
  PROVE  \A s \in Seq(T) : Only(s, S) = s
<1> DEFINE P == {s \in Seq(T) : Only(s, S) = s}
<1>1. <<>> \in P
  BY OnlyNone, EmptySeq
<1>2. ASSUME NEW s \in Seq(T), NEW x \in T, s \in P PROVE Append(s, x) \in P
  <2>1. Append(s, x) \in Seq(T) /\ Only(s, S) = s /\ x \in S
    BY <1>2, AppendProperties
  <2>2. Only(Append(s, x), S) = Append(s, x)
    BY <2>1, OnlyMore
  <2> QED BY <2>1, <2>2
<1> HIDE DEF P
<1>3. \A s \in Seq(T) : s \in P
  BY <1>1, <1>2, Grow
<1> QED BY <1>3 DEF P

LEMMA OnlyNothing ==
  ASSUME NEW T, NEW S, T \cap S = {}
  PROVE  \A s \in Seq(T) : Only(s, S) = <<>>
<1> DEFINE P == {s \in Seq(T) : Only(s, S) = <<>>}
<1>1. <<>> \in P
  BY OnlyNone, EmptySeq
<1>2. ASSUME NEW s \in Seq(T), NEW x \in T, s \in P PROVE Append(s, x) \in P
  <2>1. Append(s, x) \in Seq(T) /\ Only(s, S) = <<>> /\ x \notin S
    BY <1>2, AppendProperties
  <2>2. Only(Append(s, x), S) = <<>>
    BY <2>1, OnlyMore
  <2> QED BY <2>1, <2>2
<1> HIDE DEF P
<1>3. \A s \in Seq(T) : s \in P
  BY <1>1, <1>2, Grow
<1> QED BY <1>3 DEF P

LEMMA OnlyTwice ==
  ASSUME NEW T, NEW S, NEW R
  PROVE  \A s \in Seq(T) : Only(Only(s, S), R) = Only(s, S \cap R)
<1> DEFINE P == {s \in Seq(T) : Only(Only(s, S), R) = Only(s, S \cap R)}
<1>1. <<>> \in P
  BY OnlyNone, EmptySeq
<1>2. ASSUME NEW s \in Seq(T), NEW x \in T, s \in P PROVE Append(s, x) \in P
  <2>1. Append(s, x) \in Seq(T) /\ Only(s, S) \in Seq(T)
    BY AppendProperties, OnlyIn
  <2>2. Only(Only(s, S), R) = Only(s, S \cap R)
    BY <1>2
  <2>3. Only(Append(s, x), S) = IF x \in S THEN Append(Only(s, S), x) ELSE Only(s, S)
    BY OnlyMore
  <2>4. Only(Append(s, x), S \cap R) = IF x \in S \cap R THEN Append(Only(s, S \cap R), x) ELSE Only(s, S \cap R)
    BY OnlyMore
  <2>5. Only(Append(Only(s, S), x), R) = IF x \in R THEN Append(Only(Only(s, S), R), x) ELSE Only(Only(s, S), R)
    BY <2>1, OnlyMore
  <2>6. Only(Only(Append(s, x), S), R) = Only(Append(s, x), S \cap R)
    <3>1. CASE x \in S
      <4>1. x \in S \cap R <=> x \in R
        BY <3>1
      <4> QED BY <2>2, <2>3, <2>4, <2>5, <3>1, <4>1, Zenon
    <3>2. CASE x \notin S
      <4>1. x \notin S \cap R
        BY <3>2
      <4> QED BY <2>2, <2>3, <2>4, <3>2, <4>1, Zenon
    <3> QED BY <3>1, <3>2
  <2> QED BY <2>1, <2>6
<1> HIDE DEF P
<1>3. \A s \in Seq(T) : s \in P
  BY <1>1, <1>2, Grow
<1> QED BY <1>3 DEF P

\* What is taken out, and what is left.
TakenOut(s, stays) == {i \in DOMAIN s : s[i] \notin stays}

LEMMA OnlyCounts ==
  ASSUME NEW T, NEW stays
  PROVE  \A s \in Seq(T) : /\ IsFiniteSet(TakenOut(s, stays))
                           /\ Len(Only(s, stays)) + Cardinality(TakenOut(s, stays)) = Len(s)
<1> DEFINE P == {s \in Seq(T) : /\ IsFiniteSet(TakenOut(s, stays))
                                /\ Len(Only(s, stays)) + Cardinality(TakenOut(s, stays)) = Len(s)}
<1>1. <<>> \in P
  <2>1. TakenOut(<<>>, stays) = {}
    BY DEF TakenOut
  <2>2. IsFiniteSet({}) /\ Cardinality({}) = 0
    BY FS_EmptySet
  <2>3. <<>> \in Seq(T) /\ Len(<<>>) = 0
    BY EmptySeq
  <2>4. Only(<<>>, stays) = <<>>
    BY OnlyNone
  <2>5. Len(Only(<<>>, stays)) + Cardinality(TakenOut(<<>>, stays)) = Len(<<>>)
    <3>1. Len(Only(<<>>, stays)) = 0 /\ Cardinality(TakenOut(<<>>, stays)) = 0 /\ Len(<<>>) = 0
      BY <2>1, <2>2, <2>3, <2>4, Zenon
    <3>2. 0 + 0 = 0
      OBVIOUS
    <3> QED BY <3>1, <3>2, Zenon
  <2>6. IsFiniteSet(TakenOut(<<>>, stays))
    BY <2>1, <2>2
  <2> QED BY <2>3, <2>5, <2>6, Zenon
<1>2. ASSUME NEW s \in Seq(T), NEW x \in T, s \in P PROVE Append(s, x) \in P
  <2> DEFINE t == Append(s, x)
             A == TakenOut(s, stays)
             n == Len(s)
             o == Only(s, stays)
  <2>1. t \in Seq(T) /\ Len(t) = n + 1 /\ n \in Nat /\ \A i \in 1..n : t[i] = s[i]
    BY AppendProperties, LenProperties
  <2>2. t[n + 1] = x /\ DOMAIN s = 1..n /\ DOMAIN t = 1..(n + 1)
    BY <2>1, AppendProperties, LenProperties
  <2>3. IsFiniteSet(A) /\ Len(o) + Cardinality(A) = n
    BY <1>2
  <2>4. o \in Seq(T) /\ Len(o) \in Nat
    BY OnlyIn, LenProperties
  <2>5. Cardinality(A) \in Nat
    BY <2>3, FS_CardinalityType
  <2>6. Only(t, stays) = IF x \in stays THEN Append(o, x) ELSE o
    BY OnlyMore
  <2>7. A \subseteq 1..n
    BY <2>2 DEF TakenOut
  <2> HIDE DEF o, A
  <2>8. CASE x \in stays
    <3>1. TakenOut(t, stays) = A
      <4> HIDE DEF t
      <4> QED BY <2>1, <2>2, <2>8 DEF TakenOut, A
    <3>2. Len(Append(o, x)) = Len(o) + 1
      BY <2>4, AppendProperties
    <3>4. IsFiniteSet(TakenOut(t, stays))
      BY <2>3, <3>1
    <3>5. Len(Only(t, stays)) + Cardinality(TakenOut(t, stays)) = Len(t)
      <4> DEFINE l == Len(o)
                 c == Cardinality(A)
      <4>1. Len(Only(t, stays)) = l + 1 /\ Cardinality(TakenOut(t, stays)) = c /\ Len(t) = n + 1
        BY <2>1, <2>6, <2>8, <3>1, <3>2, Zenon
      <4>2. l \in Nat /\ c \in Nat /\ n \in Nat /\ l + c = n
        BY <2>1, <2>3, <2>4, <2>5, Zenon
      <4> HIDE DEF l, c, n, t
      <4>3. (l + 1) + c = n + 1
        BY <4>2
      <4> QED BY <4>1, <4>3, Zenon
    <3> QED BY <2>1, <3>4, <3>5, Zenon
  <2>9. CASE x \notin stays
    <3>1. TakenOut(t, stays) = A \cup {n + 1}
      <4> HIDE DEF t
      <4> QED BY <2>1, <2>2, <2>9 DEF TakenOut, A
    <3>2. n + 1 \notin A
      BY <2>1, <2>7
    <3>3. IsFiniteSet(A \cup {n + 1}) /\ Cardinality(A \cup {n + 1}) = Cardinality(A) + 1
      BY <2>3, <3>2, FS_AddElement
    <3>4. IsFiniteSet(TakenOut(t, stays))
      BY <3>1, <3>3
    <3>5. Len(Only(t, stays)) + Cardinality(TakenOut(t, stays)) = Len(t)
      <4> DEFINE l == Len(o)
                 c == Cardinality(A)
      <4>1. Len(Only(t, stays)) = l /\ Cardinality(TakenOut(t, stays)) = c + 1 /\ Len(t) = n + 1
        BY <2>1, <2>6, <2>9, <3>1, <3>3, Zenon
      <4>2. l \in Nat /\ c \in Nat /\ n \in Nat /\ l + c = n
        BY <2>1, <2>3, <2>4, <2>5, Zenon
      <4> HIDE DEF l, c, n, t
      <4>3. l + (c + 1) = n + 1
        BY <4>2
      <4> QED BY <4>1, <4>3, Zenon
    <3> QED BY <2>1, <3>4, <3>5, Zenon
  <2> QED BY <2>8, <2>9
<1> HIDE DEF P
<1>3. \A s \in Seq(T) : s \in P
  BY <1>1, <1>2, Grow
<1> QED BY <1>3 DEF P

\* What is left of the end of a list, where the first k have gone by: c of them
\* are taken out.
LEMMA OnlyRest ==
  ASSUME NEW T, NEW stays, NEW s \in Seq(T), NEW k \in 0..Len(s), NEW c,
         c = Cardinality({i \in TakenOut(s, stays) : i <= k})
  PROVE  /\ c \in 0..k /\ k - c <= Len(Only(s, stays))
         /\ Only(SubSeq(s, k + 1, Len(s)), stays) = SubSeq(Only(s, stays), k - c + 1, Len(Only(s, stays)))
<1> DEFINE n == Len(s)
           a == SubSeq(s, 1, k)
           b == SubSeq(s, k + 1, n)
           p == Only(a, stays)
           q == Only(b, stays)
<1>1. n \in Nat /\ k \in Nat /\ k <= n /\ DOMAIN s = 1..n /\ \A i \in 1..n : s[i] \in T
  BY LenProperties, ElementOfSeq
<1>2. a \in Seq(T) /\ Len(a) = k /\ \A i \in 1..k : a[i] = s[i]
  <2>1. 1 \in Int /\ k \in Int /\ \A i \in 1..k : s[i] \in T
    BY <1>1
  <2>2. /\ SubSeq(s, 1, k) \in Seq(T) /\ Len(SubSeq(s, 1, k)) = IF 1 <= k THEN k - 1 + 1 ELSE 0
        /\ \A i \in 1..(k - 1 + 1) : SubSeq(s, 1, k)[i] = s[1 + i - 1]
    BY <2>1, SubSeqProperties
  <2> QED BY <1>1, <2>2
<1>3. b \in Seq(T) /\ Len(b) = n - k
  <2>1. k + 1 \in Int /\ n \in Int /\ \A i \in (k + 1)..n : s[i] \in T
    BY <1>1
  <2>2. SubSeq(s, k + 1, n) \in Seq(T) /\ Len(SubSeq(s, k + 1, n)) = IF k + 1 <= n THEN n - (k + 1) + 1 ELSE 0
    BY <2>1, SubSeqProperties
  <2> DEFINE l == Len(b)
  <2>3. b \in Seq(T) /\ l = IF k + 1 <= n THEN n - (k + 1) + 1 ELSE 0
    BY <2>2
  <2> HIDE DEF n, l, b
  <2>4. l = n - k
    BY <1>1, <2>3
  <2> QED BY <2>3, <2>4 DEF l
<1>4. a \o b = s
  <2>1. 1 \in 1..(n + 1) /\ k \in (1 - 1)..n /\ n \in k..n
    BY <1>1
  <2>2. SubSeq(s, 1, k) \o SubSeq(s, k + 1, n) = SubSeq(s, 1, n)
    BY <2>1, ConcatAdjacentSubSeq
  <2> QED BY <2>2, SubSeqFull
<1>5. p \in Seq(T) /\ q \in Seq(T) /\ Len(p) \in Nat /\ Len(q) \in Nat
  BY <1>2, <1>3, OnlyIn, LenProperties
<1>6. TakenOut(a, stays) = {i \in TakenOut(s, stays) : i <= k}
  <2>1. DOMAIN a = 1..k
    BY <1>2, LenProperties
  <2> HIDE DEF a
  <2> QED BY <1>1, <1>2, <2>1 DEF TakenOut
<1>7. IsFiniteSet(TakenOut(a, stays)) /\ Len(p) + Cardinality(TakenOut(a, stays)) = k
  BY <1>2, OnlyCounts
<1>8. c \in Nat /\ Len(p) + c = k
  <2>1. Cardinality(TakenOut(a, stays)) \in Nat
    BY <1>7, FS_CardinalityType
  <2> QED BY <1>6, <1>7, <2>1
<1>9. Only(s, stays) = p \o q
  BY <1>2, <1>3, <1>4, OnlyCat
<1> HIDE DEF a, b, p, q
<1>10. Len(p \o q) = Len(p) + Len(q) /\ p \o q \in Seq(T)
  BY <1>5, ConcatProperties
<1>11. SubSeq(p \o q, Len(p) + 1, Len(p) + Len(q)) = q
  <2>1. CASE Len(q) = 0
    <3>1. q = <<>>
      BY <1>5, <2>1, EmptySeq
    <3>2. Len(p) + Len(q) < Len(p) + 1 /\ Len(p) + 1 \in Int /\ Len(p) + Len(q) \in Int
      BY <1>5, <2>1
    <3> QED BY <3>1, <3>2, SubSeqEmpty
  <2>2. CASE Len(q) # 0
    <3> DEFINE m == Len(p) + 1
               e == Len(p) + Len(q)
    <3>1. m \in Len(p)+1 .. Len(p)+Len(q) /\ e \in Len(p)+1 .. Len(p)+Len(q) /\ m - Len(p) = 1 /\ e - Len(p) = Len(q)
      BY <1>5, <2>2
    <3> HIDE DEF m, e
    <3>2. SubSeq(p \o q, m, e) = SubSeq(q, m - Len(p), e - Len(p))
      BY <1>5, <3>1, SubSeqOfConcat2
    <3>3. SubSeq(q, 1, Len(q)) = q
      BY <1>5, SubSeqFull
    <3>4. SubSeq(p \o q, m, e) = q
      BY <3>1, <3>2, <3>3, Zenon
    <3> QED BY <3>4 DEF m, e
  <2> QED BY <2>1, <2>2
<1>12. k - c = Len(p) /\ c \in 0..k
  BY <1>1, <1>5, <1>8
<1>13. Len(p) <= Len(p) + Len(q)
  BY <1>5
<1>14. Only(b, stays) = SubSeq(Only(s, stays), k - c + 1, Len(Only(s, stays)))
  BY <1>9, <1>10, <1>11, <1>12, Zenon DEF q
<1> QED BY <1>9, <1>10, <1>12, <1>13, <1>14, Zenon DEF b, n

-----------------------------------------------------------------------------
(* A function of every element of a list.                                      *)

Mapped(s, f) == [k \in DOMAIN s |-> f[s[k]]]
Maps(f, T, U) == \A x \in T : f[x] \in U

LEMMA MappedType ==
  ASSUME NEW T, NEW U, NEW f, Maps(f, T, U)
  PROVE  \A s \in Seq(T) :
           /\ Mapped(s, f) \in Seq(U) /\ Len(Mapped(s, f)) = Len(s)
           /\ DOMAIN Mapped(s, f) = 1..Len(s)
           /\ \A k \in 1..Len(s) : Mapped(s, f)[k] = f[s[k]]
<1> TAKE s \in Seq(T)
<1>1. Len(s) \in Nat /\ DOMAIN s = 1..Len(s) /\ \A k \in 1..Len(s) : s[k] \in T
  BY LenProperties, ElementOfSeq
<1>2. Mapped(s, f) = [k \in 1..Len(s) |-> f[s[k]]]
  BY <1>1 DEF Mapped
<1>3. \A k \in 1..Len(s) : f[s[k]] \in U
  BY <1>1 DEF Maps
<1> QED BY <1>1, <1>2, <1>3

LEMMA MappedNone == ASSUME NEW f PROVE Mapped(<<>>, f) = <<>>
BY DEF Mapped

LEMMA MappedMore ==
  ASSUME NEW T, NEW U, NEW f, Maps(f, T, U), NEW s \in Seq(T), NEW x \in T
  PROVE  Mapped(Append(s, x), f) = Append(Mapped(s, f), f[x])
<1> DEFINE t == Append(s, x)
           m == Mapped(s, f)
           o == Append(m, f[x])
           n == Len(s)
<1>0. \A r \in Seq(T) : /\ Mapped(r, f) \in Seq(U) /\ Len(Mapped(r, f)) = Len(r)
                         /\ \A k \in 1..Len(r) : Mapped(r, f)[k] = f[r[k]]
  BY MappedType
<1>1. t \in Seq(T) /\ Len(t) = n + 1 /\ n \in Nat /\ (\A i \in 1..n : t[i] = s[i]) /\ t[n + 1] = x
  BY AppendProperties, LenProperties
<1>2. m \in Seq(U) /\ Len(m) = n /\ \A k \in 1..n : m[k] = f[s[k]]
  BY <1>0
<1>3. f[x] \in U
  BY DEF Maps
<1> HIDE DEF t, m
<1> DEFINE y == f[x]
<1>4. o \in Seq(U) /\ Len(o) = n + 1 /\ (\A i \in 1..n : o[i] = m[i]) /\ o[n + 1] = y
  <2> HIDE DEF y
  <2>1. y \in U
    BY <1>3 DEF y
  <2>2. /\ Append(m, y) \in Seq(U) /\ Len(Append(m, y)) = Len(m) + 1
        /\ \A i \in 1..Len(m) : Append(m, y)[i] = m[i]
        /\ Append(m, y)[Len(m) + 1] = y
    BY <1>2, <2>1, AppendProperties
  <2> QED BY <1>2, <2>2 DEF y
<1>5. Mapped(t, f) \in Seq(U) /\ Len(Mapped(t, f)) = n + 1 /\ \A k \in 1..(n + 1) : Mapped(t, f)[k] = f[t[k]]
  BY <1>0, <1>1
<1> HIDE DEF o
<1>6. \A k \in 1..(n + 1) : Mapped(t, f)[k] = o[k]
  <2> TAKE k \in 1..(n + 1)
  <2>1. CASE k \in 1..n
    BY <1>1, <1>2, <1>4, <1>5, <2>1
  <2>2. CASE k = n + 1
    BY <1>1, <1>4, <1>5, <2>2
  <2> QED BY <1>1, <2>1, <2>2
<1>7. Mapped(t, f) = o
  <2> DEFINE r == Mapped(t, f)
  <2>1. r \in Seq(U) /\ o \in Seq(U) /\ Len(r) = Len(o) /\ \A i \in 1..Len(r) : r[i] = o[i]
    BY <1>4, <1>5, <1>6
  <2> HIDE DEF r
  <2>2. r = o
    BY <2>1, SeqEqual
  <2> QED BY <2>2 DEF r
<1> QED BY <1>7 DEF o, m, t

LEMMA MappedCat ==
  ASSUME NEW T, NEW U, NEW f, Maps(f, T, U), NEW s \in Seq(T), NEW t \in Seq(T)
  PROVE  Mapped(s \o t, f) = Mapped(s, f) \o Mapped(t, f)
<1> DEFINE st == s \o t
           a == Mapped(s, f)
           b == Mapped(t, f)
           c == Mapped(st, f)
           n == Len(s)
           m == Len(t)
<1>0. \A r \in Seq(T) : /\ Mapped(r, f) \in Seq(U) /\ Len(Mapped(r, f)) = Len(r)
                         /\ \A k \in 1..Len(r) : Mapped(r, f)[k] = f[r[k]]
  BY MappedType
<1>1. /\ st \in Seq(T) /\ Len(st) = n + m /\ n \in Nat /\ m \in Nat
      /\ \A i \in 1..(n + m) : st[i] = IF i <= n THEN s[i] ELSE t[i - n]
  BY ConcatProperties, LenProperties
<1>2. a \in Seq(U) /\ Len(a) = n /\ \A k \in 1..n : a[k] = f[s[k]]
  BY <1>0
<1>3. b \in Seq(U) /\ Len(b) = m /\ \A k \in 1..m : b[k] = f[t[k]]
  BY <1>0
<1>4. c \in Seq(U) /\ Len(c) = n + m /\ \A k \in 1..(n + m) : c[k] = f[st[k]]
  BY <1>0, <1>1
<1> HIDE DEF st, a, b, c
<1>5. /\ a \o b \in Seq(U) /\ Len(a \o b) = n + m
      /\ \A i \in 1..(n + m) : (a \o b)[i] = IF i <= n THEN a[i] ELSE b[i - n]
  <2>1. /\ a \o b \in Seq(U) /\ Len(a \o b) = Len(a) + Len(b)
        /\ \A i \in 1..(Len(a) + Len(b)) : (a \o b)[i] = IF i <= Len(a) THEN a[i] ELSE b[i - Len(a)]
    BY <1>2, <1>3, ConcatProperties
  <2>2. Len(a) = n /\ Len(b) = m
    BY <1>2, <1>3
  <2> HIDE DEF n, m
  <2> QED BY <2>1, <2>2, Zenon
<1> DEFINE d == a \o b
<1> HIDE DEF d
<1>6. /\ d \in Seq(U) /\ Len(d) = n + m
      /\ \A i \in 1..(n + m) : d[i] = IF i <= n THEN a[i] ELSE b[i - n]
  BY <1>5 DEF d
<1> HIDE DEF n, m
<1>7. \A i \in 1..(n + m) : c[i] = d[i]
  <2> TAKE i \in 1..(n + m)
  <2>1. CASE i <= n
    <3>1. i \in 1..n
      BY <1>1, <2>1
    <3> QED BY <1>1, <1>2, <1>4, <1>6, <2>1, <3>1
  <2>2. CASE ~(i <= n)
    <3>1. i - n \in 1..m
      BY <1>1, <2>2
    <3> QED BY <1>1, <1>3, <1>4, <1>6, <2>2, <3>1
  <2> QED BY <2>1, <2>2
<1>8. c = d
  BY <1>4, <1>6, <1>7, SeqEqual
<1> QED BY <1>8 DEF a, b, c, d, st

\* Taking out before or after.
LEMMA MappedOnly ==
  ASSUME NEW T, NEW U, NEW f, Maps(f, T, U), NEW S, NEW R, R = {x \in T : f[x] \in S}
  PROVE  \A s \in Seq(T) : Only(Mapped(s, f), S) = Mapped(Only(s, R), f)
<1>0. \A r \in Seq(T) : /\ Mapped(r, f) \in Seq(U) /\ Len(Mapped(r, f)) = Len(r)
                         /\ \A k \in 1..Len(r) : Mapped(r, f)[k] = f[r[k]]
  BY MappedType
<1> DEFINE P == {s \in Seq(T) : Only(Mapped(s, f), S) = Mapped(Only(s, R), f)}
<1>1. <<>> \in P
  <2>1. Mapped(<<>>, f) = <<>> /\ Only(<<>>, S) = <<>> /\ Only(<<>>, R) = <<>>
    BY MappedNone, OnlyNone
  <2> QED BY <2>1, EmptySeq, Zenon
<1>2. ASSUME NEW s \in Seq(T), NEW x \in T, s \in P PROVE Append(s, x) \in P
  <2> DEFINE m == Mapped(s, f)
             o == Only(s, R)
             y == f[x]
  <2>1. Append(s, x) \in Seq(T) /\ m \in Seq(U) /\ o \in Seq(T) /\ y \in U
    BY <1>0, AppendProperties, OnlyIn DEF Maps
  <2>2. Only(m, S) = Mapped(o, f)
    BY <1>2
  <2>3. Mapped(Append(s, x), f) = Append(m, y)
    BY MappedMore
  <2>4. Only(Append(s, x), R) = IF x \in R THEN Append(o, x) ELSE o
    BY OnlyMore
  <2>5. x \in R <=> y \in S
    OBVIOUS
  <2>6. Mapped(Append(o, x), f) = Append(Mapped(o, f), y)
    <3> HIDE DEF o
    <3> QED BY <2>1, MappedMore DEF y
  <2> HIDE DEF m, o, y
  <2>7. Only(Append(m, y), S) = IF y \in S THEN Append(Only(m, S), y) ELSE Only(m, S)
    BY <2>1, OnlyMore
  <2>8. Only(Mapped(Append(s, x), f), S) = Mapped(Only(Append(s, x), R), f)
    <3>1. CASE x \in R
      BY <2>2, <2>3, <2>4, <2>5, <2>6, <2>7, <3>1, Zenon
    <3>2. CASE x \notin R
      BY <2>2, <2>3, <2>4, <2>5, <2>7, <3>2, Zenon
    <3> QED BY <3>1, <3>2
  <2> QED BY <2>1, <2>8, Zenon
<1> HIDE DEF P
<1>3. \A s \in Seq(T) : s \in P
  BY <1>1, <1>2, Grow
<1> QED BY <1>3 DEF P
=============================================================================
