--------------------------- MODULE SequenceFacts ---------------------------
(***************************************************************************)
(* Facts about naturals and sequences that the proofs of several           *)
(* components rest on.                                                     *)
(***************************************************************************)
EXTENDS Integers, Sequences, FiniteSets, TLAPS,
        WellFoundedInduction, FiniteSetTheorems, SequenceTheorems

\* Every set of naturals that is not empty has a least element.
LEMMA LeastNatural ==
  ASSUME NEW T \in SUBSET Nat, T # {}
  PROVE  \E x \in T : \A y \in T : x <= y
<1>1. \E x \in T : \A y \in T : ~(<<y, x>> \in OpToRel(<, Nat))
  <2>1. T \subseteq Nat
    OBVIOUS
  <2> QED BY <2>1, NatLessThanWellFounded, WFMin
<1>2. PICK x \in T : \A y \in T : ~(<<y, x>> \in OpToRel(<, Nat))
  BY <1>1
<1>3. ASSUME NEW y \in T PROVE x <= y
  <2>1. ~(<<y, x>> \in OpToRel(<, Nat)) BY <1>2
  <2>2. ~(y < x) BY <2>1 DEF OpToRel
  <2> QED BY <2>2
<1> QED BY <1>3

\* Every bounded set of naturals that is not empty has a greatest element.
LEMMA GreatestNatural ==
  ASSUME NEW b \in Nat, NEW S \in SUBSET (0..b), S # {}
  PROVE  \E x \in S : \A y \in S : x >= y
<1> DEFINE T == {b - y : y \in S}
<1>1. T \in SUBSET Nat /\ T # {}
  <2>1. \A y \in S : b - y \in Nat
    OBVIOUS
  <2>2. PICK y \in S : TRUE
    OBVIOUS
  <2> QED BY <2>1, <2>2
<1>2. PICK z \in T : \A y \in T : z <= y
  BY <1>1, LeastNatural
<1>3. PICK x \in S : z = b - x
  BY <1>2
<1>4. \A y \in S : x >= y
  <2> TAKE y \in S
  <2>1. b - y \in T
    OBVIOUS
  <2>2. b - x <= b - y
    BY <2>1, <1>2, <1>3
  <2> QED BY <2>2
<1> QED BY <1>4

\* A set of naturals that has 0, and with each number the next, has them all:
\* induction, for a property written as the set of the numbers that have it.
LEMMA Inductive ==
  ASSUME NEW T \in SUBSET Nat, 0 \in T, \A n \in T : n + 1 \in T
  PROVE  \A n \in Nat : n \in T
<1> SUFFICES ASSUME Nat \ T # {} PROVE FALSE
  OBVIOUS
<1>1. PICK x \in Nat \ T : \A y \in Nat \ T : x <= y
  <2>1. Nat \ T \in SUBSET Nat
    OBVIOUS
  <2> QED BY <2>1, LeastNatural
<1>2. x - 1 \in Nat /\ (x - 1) + 1 = x /\ ~(x <= x - 1)
  OBVIOUS
<1> QED BY <1>1, <1>2

\* Where a sequence holds an element of A.
PlacesIn(s, A) == {i \in 1 .. Len(s) : s[i] \in A}

\* The positions of a concatenation are those of its first part and, shifted,
\* those of its second: what is counted there is the sum.
LEMMA CountConcat ==
  ASSUME NEW S, NEW s \in Seq(S), NEW t \in Seq(S), NEW A
  PROVE  /\ IsFiniteSet(PlacesIn(s, A))
         /\ Cardinality(PlacesIn(s \o t, A))
              = Cardinality(PlacesIn(s, A)) + Cardinality(PlacesIn(t, A))
<1> DEFINE PS == {i \in 1 .. Len(s) : s[i] \in A}
           PT == {i \in 1 .. Len(t) : t[i] \in A}
           Shifted == {i \in (Len(s) + 1) .. (Len(s) + Len(t)) : t[i - Len(s)] \in A}
           Both == {i \in 1 .. Len(s \o t) : (s \o t)[i] \in A}
<1>1. /\ Len(s) \in Nat /\ Len(t) \in Nat
  BY LenProperties
<1>2. /\ Len(s \o t) = Len(s) + Len(t)
      /\ \A i \in 1 .. (Len(s) + Len(t)) :
           (s \o t)[i] = IF i <= Len(s) THEN s[i] ELSE t[i - Len(s)]
  BY ConcatProperties, LenProperties
<1>3. Both = PS \union Shifted
  BY <1>1, <1>2
<1>4. PS \intersect Shifted = {}
  BY <1>1
<1>5. IsFiniteSet(PS) /\ IsFiniteSet(PT) /\ IsFiniteSet(Shifted)
  <2>1. IsFiniteSet(1 .. Len(s)) /\ IsFiniteSet(1 .. Len(t))
        /\ IsFiniteSet((Len(s) + 1) .. (Len(s) + Len(t)))
    BY <1>1, FS_Interval
  <2>2. /\ PS \in SUBSET (1 .. Len(s)) /\ PT \in SUBSET (1 .. Len(t))
        /\ Shifted \in SUBSET ((Len(s) + 1) .. (Len(s) + Len(t)))
    BY <1>1
  <2> QED BY <2>1, <2>2, FS_Subset
<1>6. Cardinality(Shifted) = Cardinality(PT)
  <2> DEFINE shift == [i \in PT |-> i + Len(s)]
  <2>1. shift \in Bijection(PT, Shifted)
    <3>1. shift \in [PT -> Shifted]
      BY <1>1
    <3>2. \A i, j \in PT : shift[i] = shift[j] => i = j
      BY <1>1
    <3>3. \A k \in Shifted : \E i \in PT : shift[i] = k
      <4> SUFFICES ASSUME NEW k \in Shifted PROVE \E i \in PT : shift[i] = k
        OBVIOUS
      <4>1. k - Len(s) \in PT
        BY <1>1
      <4>2. shift[k - Len(s)] = k
        BY <1>1, <4>1
      <4> QED BY <4>1, <4>2
    <3> QED BY <3>1, <3>2, <3>3 DEF Bijection, Injection, Surjection, IsInjective
  <2>2. ExistsBijection(PT, Shifted)
    BY <2>1 DEF ExistsBijection
  <2> QED BY <2>2, <1>5, FS_Bijection
<1>7. Cardinality(PS \union Shifted)
        = Cardinality(PS) + Cardinality(Shifted) - Cardinality(PS \intersect Shifted)
  BY <1>5, FS_Union
<1>8. Cardinality(PS) \in Nat /\ Cardinality(PT) \in Nat /\ Cardinality({}) = 0
  BY <1>5, FS_CardinalityType, FS_EmptySet
<1>9. Cardinality(Both) = Cardinality(PS) + Cardinality(PT)
  <2> HIDE DEF PS, PT, Shifted, Both
  <2>1. Cardinality(Both) = Cardinality(PS \union Shifted)
    BY <1>3
  <2>2. Cardinality(PS \intersect Shifted) = 0
    BY <1>4, <1>8
  <2> QED BY <2>1, <2>2, <1>6, <1>7, <1>8
<1> QED BY <1>5, <1>9 DEF PlacesIn

-----------------------------------------------------------------------------
(* Stacks                                                                  *)

\* A sequence with one more element at its end.
LEMMA WithLast ==
  ASSUME NEW S, NEW s \in Seq(S), NEW e \in S
  PROVE  /\ Append(s, e) \in Seq(S) /\ Len(s) \in Nat
         /\ Len(Append(s, e)) = Len(s) + 1
         /\ \A i \in 1 .. Len(s) : Append(s, e)[i] = s[i]
         /\ Append(s, e)[Len(s) + 1] = e
BY AppendProperties, LenProperties

\* A sequence without its last element.
LEMMA WithoutLast ==
  ASSUME NEW S, NEW s \in Seq(S), s # <<>>
  PROVE  LET t == SubSeq(s, 1, Len(s) - 1)
         IN  /\ t \in Seq(S) /\ Len(s) \in Nat \ {0}
             /\ Len(t) = Len(s) - 1
             /\ \A i \in 1 .. (Len(s) - 1) : t[i] = s[i]
<1> DEFINE n == Len(s) - 1
           t == SubSeq(s, 1, n)
<1>1. Len(s) \in Nat \ {0} /\ n \in Nat
  BY EmptySeq
<1>2. \A i \in 1 .. n : s[i] \in S
  BY <1>1, ElementOfSeq
<1> HIDE DEF n
<1>3. /\ t \in Seq(S)
      /\ Len(t) = IF 1 <= n THEN n - 1 + 1 ELSE 0
      /\ \A i \in 1 .. (n - 1 + 1) : t[i] = s[1 + i - 1]
  BY <1>1, <1>2, SubSeqProperties
<1>4. Len(t) = n /\ \A i \in 1 .. n : t[i] = s[i]
  BY <1>1, <1>3
<1> QED BY <1>1, <1>3, <1>4 DEF n

LEMMA AppendTwice ==
  ASSUME NEW S, NEW s \in Seq(S), NEW a \in S, NEW b \in S
  PROVE  s \o <<a, b>> = Append(Append(s, a), b)
BY SMTT(30)

\* A sequence with another last element.
LEMMA AnotherLast ==
  ASSUME NEW S, NEW s \in Seq(S), s # <<>>, NEW e \in S
  PROVE  LET t == [s EXCEPT ![Len(s)] = e]
         IN  /\ t \in Seq(S) /\ Len(s) \in Nat \ {0}
             /\ Len(t) = Len(s)
             /\ \A i \in 1 .. (Len(s) - 1) : t[i] = s[i]
             /\ t[Len(s)] = e
<1> DEFINE n == Len(s)
           t == [s EXCEPT ![n] = e]
<1>1. n \in Nat \ {0}
  BY EmptySeq
<1>2. /\ t \in Seq(S) /\ Len(t) = n
      /\ \A i \in 1 .. n : t[i] = IF i = n THEN e ELSE s[i]
  BY <1>1, ExceptSeq
<1> HIDE DEF t
<1>3. t[n] = e /\ \A i \in 1 .. (n - 1) : t[i] = s[i]
  BY <1>1, <1>2
<1> QED BY <1>1, <1>2, <1>3 DEF t

LEMMA LenExcept ==
  ASSUME NEW S, NEW s \in Seq(S), NEW i, NEW e
  PROVE  Len([s EXCEPT ![i] = e]) = Len(s)
OBVIOUS

LEMMA WiderSeq ==
  ASSUME NEW S, NEW T, S \subseteq T, NEW s \in Seq(S)
  PROVE  s \in Seq(T)
OBVIOUS

-----------------------------------------------------------------------------
(* Increasing sequences, and sequences put together                       *)

Increases(s) == \A i, j \in 1 .. Len(s) : i < j => s[i] < s[j]

Ascending(s, a) == \A i, j \in 1 .. a : i < j => s[i] < s[j]
Included(s, a, t, b) == \A i \in 1 .. a : \E j \in 1 .. b : t[j] = s[i]

\* Two increasing sequences that hold the same are the same.
LEMMA SameIncreasing ==
  ASSUME NEW a \in Nat, NEW b \in Nat, NEW s \in [1 .. a -> Nat],
         NEW t \in [1 .. b -> Nat],
         Ascending(s, a), Ascending(t, b), Included(s, a, t, b), Included(t, b, s, a)
  PROVE  a = b /\ \A i \in 1 .. a : s[i] = t[i]
<1> DEFINE T == {n \in Nat : /\ n <= a <=> n <= b
                             /\ n <= a => \A i \in 1 .. n : s[i] = t[i]}
<1>a. /\ \A i, j \in 1 .. a : i < j => s[i] < s[j]
      /\ \A i, j \in 1 .. b : i < j => t[i] < t[j]
      /\ \A i \in 1 .. a : \E j \in 1 .. b : s[i] = t[j]
      /\ \A j \in 1 .. b : \E i \in 1 .. a : s[i] = t[j]
  BY DEF Ascending, Included
<1>0. (\A i \in 1 .. a : s[i] \in Nat) /\ (\A i \in 1 .. b : t[i] \in Nat)
  OBVIOUS
<1>1. 0 \in T
  OBVIOUS
<1>2. ASSUME NEW n \in T PROVE n + 1 \in T
  <2>0. PICK m \in Nat : m = n + 1
    OBVIOUS
  <2>1. /\ n \in Nat /\ m = n + 1 /\ (n <= a <=> n <= b)
        /\ n <= a => \A i \in 1 .. n : s[i] = t[i]
    BY <2>0
  <2> HIDE DEF T
  <2>2. ASSUME m <= a PROVE m <= b /\ t[m] <= s[m]
    <3>1. m \in 1 .. a /\ n <= a /\ n <= b
      BY <2>1, <2>2
    <3>2. PICK j \in 1 .. b : s[m] = t[j]
      BY <1>a, <3>1
    <3>3. ~(j <= n)
      <4> SUFFICES ASSUME j <= n PROVE FALSE
        OBVIOUS
      <4>1. j \in 1 .. n /\ j \in 1 .. a /\ j < m
        BY <2>1, <3>1
      <4>2. s[j] < s[m] /\ s[j] = t[j]
        BY <1>a, <2>1, <3>1, <4>1
      <4>3. s[j] \in Nat
        BY <1>0, <4>1
      <4> QED BY <3>2, <4>2, <4>3
    <3>4. m \in 1 .. b /\ m <= b /\ (j = m \/ m < j)
      BY <2>1, <3>3
    <3>5. t[m] \in Nat /\ t[j] \in Nat
      BY <1>0, <3>2, <3>4
    <3>6. m < j => t[m] < t[j]
      BY <1>a, <3>2, <3>4
    <3> QED BY ONLY <3>2, <3>4, <3>5, <3>6
  <2>3. ASSUME m <= b PROVE m <= a /\ s[m] <= t[m]
    <3>1. m \in 1 .. b /\ n <= b /\ n <= a
      BY <2>1, <2>3
    <3>2. PICK j \in 1 .. a : t[m] = s[j]
      BY <1>a, <3>1
    <3>3. ~(j <= n)
      <4> SUFFICES ASSUME j <= n PROVE FALSE
        OBVIOUS
      <4>1. j \in 1 .. n /\ j \in 1 .. b /\ j < m
        BY <2>1, <3>1
      <4>2. t[j] < t[m] /\ t[j] = s[j]
        BY <1>a, <2>1, <3>1, <4>1
      <4>3. t[j] \in Nat
        BY <1>0, <4>1
      <4> QED BY <3>2, <4>2, <4>3
    <3>4. m \in 1 .. a /\ m <= a /\ (j = m \/ m < j)
      BY <2>1, <3>3
    <3>5. s[m] \in Nat /\ s[j] \in Nat
      BY <1>0, <3>2, <3>4
    <3>6. m < j => s[m] < s[j]
      BY <1>a, <3>2, <3>4
    <3> QED BY ONLY <3>2, <3>4, <3>5, <3>6
  <2>4. m <= a => s[m] = t[m]
    <3> SUFFICES ASSUME m <= a PROVE s[m] = t[m]
      OBVIOUS
    <3>1. m \in 1 .. a /\ m \in 1 .. b
      BY <2>1, <2>2
    <3>2. t[m] <= s[m] /\ s[m] <= t[m]
      BY <2>2, <2>3, <3>1
    <3>3. s[m] \in Nat /\ t[m] \in Nat
      BY <1>0, <3>1
    <3> QED BY ONLY <3>2, <3>3
  <2>5. ASSUME m <= a, NEW i \in 1 .. m PROVE s[i] = t[i]
    <3>1. i \in 1 .. n \/ i = m
      BY <2>1
    <3>2. n <= a
      BY <2>1, <2>5
    <3> QED BY <2>1, <2>4, <2>5, <3>1, <3>2
  <2>6. (m <= a <=> m <= b) /\ (m <= a => \A i \in 1 .. m : s[i] = t[i])
    BY <2>2, <2>3, <2>5
  <2> QED BY <2>0, <2>6 DEF T
<1>3. \A n \in Nat : n \in T
  <2>1. T \in SUBSET Nat
    OBVIOUS
  <2> HIDE DEF T
  <2> QED BY <1>1, <1>2, <2>1, Inductive
<1> QED
  <2>1. a \in T /\ b \in T
    BY <1>3
  <2> QED BY <2>1

\* Sequences put together one after another.
Gathers(f, N, parts) ==
  f[0] = <<>> /\ \A n \in 1 .. N : f[n] = f[n - 1] \o parts[n]

LEMMA GatheredExists ==
  ASSUME NEW N \in Nat, NEW A, NEW parts, \A n \in 1 .. N : parts[n] \in Seq(A)
  PROVE  \E f \in [0 .. N -> Seq(A)] : Gathers(f, N, parts)
<1> DEFINE T == {n \in Nat : n <= N =>
                  \E g \in [0 .. n -> Seq(A)] : Gathers(g, n, parts)}
<1>1. 0 \in T
  <2> DEFINE g == [i \in 0 .. 0 |-> <<>>]
  <2>1. g \in [0 .. 0 -> Seq(A)] /\ Gathers(g, 0, parts)
    BY DEF Gathers
  <2> QED BY <2>1
<1>2. \A n \in T : n + 1 \in T
  <2> TAKE n \in T
  <2>0. n \in Nat
    OBVIOUS
  <2>1. PICK m \in Nat : m = n + 1 /\ m - 1 = n
    BY <2>0
  <2>2. ASSUME m <= N PROVE \E g \in [0 .. m -> Seq(A)] : Gathers(g, m, parts)
    <3>1. PICK g \in [0 .. n -> Seq(A)] : Gathers(g, n, parts)
      BY <2>0, <2>1, <2>2
    <3>2. PICK p \in Seq(A) : p = parts[m]
      BY <2>0, <2>1, <2>2
    <3> HIDE DEF T
    <3> DEFINE h == [i \in 0 .. m |-> IF i = m THEN g[n] \o p ELSE g[i]]
    <3>3. g[n] \in Seq(A) /\ g[n] \o p \in Seq(A)
      BY <2>0, <3>1, ConcatProperties
    <3>4. \A i \in 0 .. m : i # m => i \in 0 .. n
      BY <2>0, <2>1
    <3>5. h \in [0 .. m -> Seq(A)]
      BY <3>1, <3>3, <3>4
    <3>6. h[m] = g[n] \o p /\ \A i \in 0 .. n : h[i] = g[i]
      BY <2>0, <2>1
    <3> HIDE DEF h
    <3>7. ASSUME NEW i \in 1 .. m PROVE h[i] = h[i - 1] \o parts[i]
      <4>1. CASE i = m
        <5>1. h[i - 1] = g[n] /\ h[i] = g[n] \o parts[i]
          BY <2>0, <2>1, <3>2, <3>6, <4>1
        <5> QED BY <5>1
      <4>2. CASE i # m
        <5>1. i \in 1 .. n /\ i \in 0 .. n /\ i - 1 \in 0 .. n
          BY <2>0, <2>1, <4>2
        <5>2. g[i] = g[i - 1] \o parts[i]
          BY <3>1, <5>1 DEF Gathers
        <5> QED BY <3>6, <5>1, <5>2
      <4> QED BY <4>1, <4>2
    <3>8. h[0] = <<>>
      BY <2>0, <3>1, <3>6 DEF Gathers
    <3> QED BY <3>5, <3>7, <3>8 DEF Gathers
  <2> QED BY <2>1, <2>2
<1>3. T \in SUBSET Nat
  OBVIOUS
<1> HIDE DEF T
<1>4. N \in T
  BY <1>1, <1>2, <1>3, Inductive
<1> QED BY <1>4 DEF T

\* The members of two sequences put together.
Joined(s, t) ==
  /\ Len(s) \in Nat /\ Len(t) \in Nat /\ Len(s \o t) = Len(s) + Len(t)
  /\ \A i \in 1 .. Len(s) : (s \o t)[i] = s[i]
  /\ \A k \in 1 .. Len(t) : (s \o t)[Len(s) + k] = t[k]

LEMMA JoinedIs ==
  ASSUME NEW S, NEW s \in Seq(S), NEW t \in Seq(S)
  PROVE  Joined(s, t)
<1>1. /\ s \o t \in Seq(S) /\ Len(s) \in Nat /\ Len(t) \in Nat
      /\ Len(s \o t) = Len(s) + Len(t)
  BY ConcatProperties, LenProperties
<1>2. ASSUME NEW i \in 1 .. Len(s) PROVE (s \o t)[i] = s[i]
  <2>1. i \in 1 .. (Len(s) + Len(t)) /\ i <= Len(s)
    BY <1>1
  <2> QED BY <2>1, ConcatProperties
<1>3. ASSUME NEW k \in 1 .. Len(t) PROVE (s \o t)[Len(s) + k] = t[k]
  <2>1. PICK i \in 1 .. (Len(s) + Len(t)) : i = Len(s) + k
    BY <1>1
  <2>2. ~(i <= Len(s)) /\ i - Len(s) = k
    BY <1>1, <2>1
  <2>3. (s \o t)[i] = t[i - Len(s)]
    BY <2>2, ConcatProperties
  <2> QED BY <2>1, <2>2, <2>3
<1> QED BY <1>1, <1>2, <1>3 DEF Joined

\* Each member of a part is found after the parts before it.
Gathering(f, N, A, parts) ==
  /\ N \in Nat /\ f \in [0 .. N -> Seq(A)] /\ Gathers(f, N, parts)
  /\ \A n \in 1 .. N : parts[n] \in Seq(A)
Laid(f, N, parts) ==
  /\ \A n \in 1 .. N : Len(f[n]) = Len(f[n - 1]) + Len(parts[n])
  /\ \A n \in 1 .. N : \A k \in 1 .. Len(parts[n]) :
       /\ Len(f[n - 1]) + k \in 1 .. Len(f[N])
       /\ f[N][Len(f[n - 1]) + k] = parts[n][k]
  /\ \A i \in 1 .. Len(f[N]) :
       \E n \in 1 .. N : \E k \in 1 .. Len(parts[n]) : i = Len(f[n - 1]) + k

LEMMA GatheredAt ==
  ASSUME NEW N, NEW A, NEW parts, NEW f, Gathering(f, N, A, parts)
  PROVE  Laid(f, N, parts)
<1>0. /\ N \in Nat /\ f \in [0 .. N -> Seq(A)] /\ Gathers(f, N, parts)
      /\ \A n \in 1 .. N : parts[n] \in Seq(A)
  BY DEF Gathering
<1> DEFINE Found(m) ==
             \A n \in 1 .. m : \A k \in 1 .. Len(parts[n]) :
               /\ Len(f[n - 1]) + k \in 1 .. Len(f[m])
               /\ f[m][Len(f[n - 1]) + k] = parts[n][k]
           All(m) ==
             \A i \in 1 .. Len(f[m]) :
               \E n \in 1 .. m : \E k \in 1 .. Len(parts[n]) : i = Len(f[n - 1]) + k
           T == {m \in Nat : m <= N => Found(m) /\ All(m)}
<1> HIDE DEF T, Found, All
<1>1. /\ f[0] = <<>> /\ 0 \in 0 .. N
      /\ \A n \in 1 .. N : n - 1 \in 0 .. N /\ n \in 0 .. N /\ f[n] = f[n - 1] \o parts[n]
      /\ \A n \in 0 .. N : f[n] \in Seq(A)
  <2>1. 0 \in 0 .. N /\ \A n \in 1 .. N : n - 1 \in 0 .. N /\ n \in 0 .. N
    BY <1>0
  <2>2. f[0] = <<>> /\ \A n \in 1 .. N : f[n] = f[n - 1] \o parts[n]
    BY <1>0 DEF Gathers
  <2>3. \A n \in 0 .. N : f[n] \in Seq(A)
    BY <1>0
  <2> QED BY <2>1, <2>2, <2>3
<1>2. ASSUME NEW n \in 1 .. N
      PROVE  /\ Len(f[n]) = Len(f[n - 1]) + Len(parts[n])
             /\ Len(f[n - 1]) \in Nat /\ Len(parts[n]) \in Nat
             /\ \A i \in 1 .. Len(f[n - 1]) : f[n][i] = f[n - 1][i]
             /\ \A k \in 1 .. Len(parts[n]) : f[n][Len(f[n - 1]) + k] = parts[n][k]
  <2>1. PICK a \in Seq(A), b \in Seq(A) : a = f[n - 1] /\ b = parts[n]
    BY <1>0, <1>1
  <2>2. f[n] = a \o b
    BY <1>1, <2>1
  <2>3. Joined(a, b)
    BY JoinedIs
  <2> QED BY ONLY <2>1, <2>2, <2>3, Zenon DEF Joined
<1>4. 0 \in T
  <2>1. Len(f[0]) = 0
    BY <1>1
  <2> QED BY <2>1 DEF T, Found, All
<1>5. \A m \in T : m + 1 \in T
  <2> TAKE m \in T
  <2>0. m \in Nat
    BY DEF T
  <2>1. PICK n \in Nat : n = m + 1 /\ n - 1 = m
    BY <2>0
  <2>2. ASSUME n <= N PROVE Found(n) /\ All(n)
    <3>1. n \in 1 .. N /\ m <= N /\ m \in 0 .. N /\ m \in Nat
      BY <1>0, <2>0, <2>1, <2>2
    <3>2. Found(m) /\ All(m)
      BY <3>1 DEF T
    <3>3. /\ Len(f[n]) = Len(f[m]) + Len(parts[n])
          /\ Len(f[m]) \in Nat /\ Len(parts[n]) \in Nat
      <4>1. f[n - 1] = f[m]
        BY <2>1
      <4> QED BY ONLY <1>2, <3>1, <4>1, Zenon
    <3>3a. \E a \in Nat, b \in Nat, c \in Nat : a = Len(f[m]) /\ b = Len(parts[n]) /\ c = Len(f[n])
      <4>1. PICK a \in Nat, b \in Nat : a = Len(f[m]) /\ b = Len(parts[n])
        BY <3>3
      <4>2. Len(f[n]) = a + b
        BY <3>3, <4>1
      <4>3. a + b \in Nat
        OBVIOUS
      <4> QED BY ONLY <4>1, <4>2, <4>3, Zenon
    <3>4. /\ \A i \in 1 .. Len(f[m]) : f[n][i] = f[m][i]
          /\ \A k \in 1 .. Len(parts[n]) : f[n][Len(f[m]) + k] = parts[n][k]
      <4>1. f[n - 1] = f[m]
        BY <2>1
      <4>2. /\ \A i \in 1 .. Len(f[n - 1]) : f[n][i] = f[n - 1][i]
            /\ \A k \in 1 .. Len(parts[n]) : f[n][Len(f[n - 1]) + k] = parts[n][k]
        BY ONLY <1>2, <3>1, Zenon
      <4> QED BY ONLY <4>1, <4>2
    <3>5. Found(n)
      <4> SUFFICES ASSUME NEW j \in 1 .. n, NEW k \in 1 .. Len(parts[j])
                   PROVE  /\ Len(f[j - 1]) + k \in 1 .. Len(f[n])
                          /\ f[n][Len(f[j - 1]) + k] = parts[j][k]
        BY DEF Found
      <4>1. CASE j = n
        <5>1. f[j - 1] = f[m] /\ k \in 1 .. Len(parts[n])
          BY <2>1, <4>1
        <5>2. Len(f[m]) + k \in 1 .. Len(f[n])
          <6>1. PICK a \in Nat, b \in Nat, c \in Nat : a = Len(f[m]) /\ b = Len(parts[n]) /\ c = Len(f[n])
            BY <3>3a
          <6>2. k \in 1 .. b /\ c = a + b
            BY <3>3, <5>1, <6>1
          <6>3. a + k \in 1 .. c
            BY ONLY <6>2, a \in Nat, b \in Nat
          <6> QED BY <6>1, <6>3
        <5> QED BY <3>4, <4>1, <5>1, <5>2
      <4>2. CASE j # n
        <5>1. j \in 1 .. m
          BY <2>1, <3>1, <4>2
        <5>2. PICK i : i = Len(f[j - 1]) + k
          OBVIOUS
        <5>3. i \in 1 .. Len(f[m]) /\ f[m][i] = parts[j][k]
          BY <3>2, <5>1, <5>2 DEF Found
        <5>4. i \in 1 .. Len(f[n]) /\ f[n][i] = f[m][i]
          <6>0. PICK a \in Nat, b \in Nat, c \in Nat : a = Len(f[m]) /\ b = Len(parts[n]) /\ c = Len(f[n])
            BY <3>3a
          <6>2. i \in 1 .. a /\ c = a + b
            BY <3>3, <5>3, <6>0
          <6>3. i \in 1 .. c
            BY ONLY <6>2, a \in Nat, b \in Nat
          <6>1. i \in 1 .. Len(f[n])
            BY <6>0, <6>3
          <6> QED BY <3>4, <5>3, <6>1
        <5> QED BY <5>2, <5>3, <5>4
      <4> QED BY <4>1, <4>2
    <3>6. All(n)
      <4> SUFFICES ASSUME NEW i \in 1 .. Len(f[n])
                   PROVE  \E j \in 1 .. n : \E k \in 1 .. Len(parts[j]) : i = Len(f[j - 1]) + k
        BY DEF All
      <4>1. CASE i <= Len(f[m])
        <5>1. i \in 1 .. Len(f[m])
          BY <3>3, <4>1
        <5>2. PICK j \in 1 .. m : \E k \in 1 .. Len(parts[j]) : i = Len(f[j - 1]) + k
          BY <3>2, <5>1 DEF All
        <5>2a. PICK k \in 1 .. Len(parts[j]) : i = Len(f[j - 1]) + k
          BY <5>2
        <5>3. j \in 1 .. n
          BY <2>1, <3>1
        <5> QED BY <5>2a, <5>3
      <4>2. CASE ~(i <= Len(f[m]))
        <5>1. PICK k \in 1 .. Len(parts[n]) : i = Len(f[m]) + k
          <6>1. PICK a \in Nat, b \in Nat, c \in Nat : a = Len(f[m]) /\ b = Len(parts[n]) /\ c = Len(f[n])
            BY <3>3a
          <6>2. i \in 1 .. c /\ c = a + b /\ ~(i <= a)
            BY <3>3, <4>2, <6>1
          <6>3. i - a \in 1 .. b /\ i = a + (i - a)
            BY ONLY <6>2, a \in Nat, b \in Nat
          <6> QED BY <6>1, <6>3
        <5>2. n \in 1 .. n /\ f[n - 1] = f[m]
          BY <2>1, <3>1
        <5> QED BY <5>1, <5>2
      <4> QED BY <4>1, <4>2
    <3> QED BY <3>5, <3>6
  <2> QED BY <2>1, <2>2 DEF T
<1>6. T \in SUBSET Nat
  BY DEF T
<1>7. N \in T
  BY <1>0, <1>4, <1>5, <1>6, Inductive
<1>8. Found(N) /\ All(N)
  BY <1>0, <1>7 DEF T
<1> QED BY <1>2, <1>8 DEF Found, All, Laid
=============================================================================
