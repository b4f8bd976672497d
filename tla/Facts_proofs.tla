---------------------------- MODULE Facts_proofs ----------------------------
(***************************************************************************)
(* Facts about naturals and sequences that the proofs share: induction and *)
(* recursion over the naturals; what is left of a sequence when elements   *)
(* are taken from an end of it; a stack whose top is replaced; prefixes;   *)
(* sums of finite functions.  And facts about varints: the conversion of   *)
(* signed words to the unsigned ones on the wire loses nothing, for every  *)
(* width, and an integer is written digit by digit.                        *)
(***************************************************************************)
EXTENDS Varints, SequencesExt, SequenceTheorems, FiniteSetTheorems, WellFoundedInduction, TLAPS

\* Every set of naturals has a least element: induction, for a property that is
\* membership in a set.
LEMMA LeastNatural ==
    ASSUME NEW T \in SUBSET Nat, T # {}
    PROVE  \E n \in T : \A m \in T : n <= m
<1> DEFINE R == {r \in Nat \X Nat : r[1] < r[2]}
<1>1. IsWellFoundedOn(R, Nat)
  BY NatLessThanWellFounded DEF OpToRel
<1>2. PICK n \in T : \A m \in T : ~(<<m, n>> \in R)
  <2> HIDE DEF R
  <2>1. QED
    BY <1>1, WFMin
<1>3. \A m \in T : n <= m
  <2>1. ASSUME NEW m \in T, m < n
        PROVE  FALSE
    <3>1. <<m, n>> \in Nat \X Nat /\ <<m, n>>[1] < <<m, n>>[2]
      BY <2>1
    <3>2. <<m, n>> \in R
      BY <3>1
    <3>3. QED
      BY <1>2, <3>2
  <2>2. QED
    BY <2>1
<1>4. QED
  BY <1>3

LEMMA InductionBySet ==
    ASSUME NEW S, 0 \in S, \A n \in Nat : n \in S => n + 1 \in S
    PROVE  Nat \subseteq S
<1>1. SUFFICES ASSUME NEW k \in Nat, k \notin S
               PROVE  FALSE
  OBVIOUS
<1> DEFINE T == {n \in Nat : n \notin S}
<1>2. PICK n \in T : \A m \in T : n <= m
  <2>1. T \in SUBSET Nat /\ T # {}
    BY <1>1
  <2> HIDE DEF T
  <2>2. QED
    BY <2>1, LeastNatural
<1>3. n - 1 \in Nat /\ n - 1 \in S
  BY <1>2
<1>4. QED
  BY <1>2, <1>3

\* A function of the naturals can be defined from one value to the next.
Iterates(S, a, f, g) == g \in [Nat -> S] /\ g[0] = a /\ \A n \in Nat : g[n + 1] = f[g[n]]

LEMMA Iterated ==
    ASSUME NEW S, NEW a \in S, NEW f \in [S -> S]
    PROVE  \E g : Iterates(S, a, f, g)
<1> DEFINE Goes(n, g) == g \in [0 .. n -> S] /\ g[0] = a /\ \A i \in 0 .. n - 1 : g[i + 1] = f[g[i]]
           T == {n \in Nat : \E g : Goes(n, g)}
<1>1. 0 \in T
  <2>1. Goes(0, [i \in 0 .. 0 |-> a])
    OBVIOUS
  <2>2. QED
    BY <2>1
<1>2. ASSUME NEW n \in Nat, n \in T
      PROVE  n + 1 \in T
  <2>1. PICK g : Goes(n, g)
    BY <1>2
  <2> DEFINE x == [i \in 0 .. n + 1 |-> IF i = n + 1 THEN f[g[n]] ELSE g[i]]
  <2>2. Goes(n + 1, x)
    BY <2>1
  <2> HIDE DEF x, Goes
  <2>3. n + 1 \in Nat /\ \E h : Goes(n + 1, h)
    BY <2>2
  <2>4. QED
    BY <2>3
<1>3. Nat \subseteq T
  <2> HIDE DEF T
  <2>1. QED
    BY <1>1, <1>2, InductionBySet
<1> DEFINE G == [n \in Nat |-> CHOOSE g : Goes(n, g)]
<1>4. \A n \in Nat : Goes(n, G[n])
  BY <1>3
<1> HIDE DEF G
<1>5. ASSUME NEW n \in Nat
      PROVE  G[n + 1][n] = G[n][n]
  <2> DEFINE U == {i \in Nat : i <= n => G[n + 1][i] = G[n][i]}
  <2>1. 0 \in U
    BY <1>4
  <2>2. ASSUME NEW i \in Nat, i \in U
        PROVE  i + 1 \in U
    <3>1. SUFFICES ASSUME i + 1 <= n PROVE G[n + 1][i + 1] = G[n][i + 1]
      OBVIOUS
    <3>2. G[n + 1][i + 1] = f[G[n + 1][i]] /\ G[n][i + 1] = f[G[n][i]]
      BY <1>4, <3>1
    <3>3. QED
      BY <2>2, <3>1, <3>2
  <2>3. n \in U
    <3> HIDE DEF U
    <3>1. QED
      BY <2>1, <2>2, InductionBySet
  <2>4. QED
    BY <2>3
<1> DEFINE h == [n \in Nat |-> G[n][n]]
<1>6. h \in [Nat -> S] /\ h[0] = a
  BY <1>4
<1>7. ASSUME NEW n \in Nat
      PROVE  h[n + 1] = f[h[n]]
  <2>1. G[n + 1][n + 1] = f[G[n + 1][n]]
    BY <1>4
  <2>2. QED
    BY <1>5, <2>1
<1>8. Iterates(S, a, f, h)
  <2> HIDE DEF h
  <2>1. QED
    BY <1>6, <1>7 DEF Iterates
<1>9. QED
  BY <1>8

LEMMA FrontProperties ==
    ASSUME NEW S, NEW s \in Seq(S), Len(s) > 0
    PROVE  /\ Front(s) \in Seq(S)
           /\ Len(Front(s)) = Len(s) - 1
           /\ \A i \in 1 .. Len(s) - 1 : Front(s)[i] = s[i]
           /\ Last(s) \in S
<1>1. Len(s) \in Nat /\ \A i \in 1 .. Len(s) : s[i] \in S
  BY LenProperties, ElementOfSeq
<1>2. \A i \in 1 .. Len(s) - 1 : s[i] \in S
  BY <1>1
<1>3. /\ SubSeq(s, 1, Len(s) - 1) \in Seq(S)
      /\ Len(SubSeq(s, 1, Len(s) - 1)) = IF 1 <= Len(s) - 1 THEN Len(s) - 1 - 1 + 1 ELSE 0
      /\ \A i \in 1 .. Len(s) - 1 - 1 + 1 : SubSeq(s, 1, Len(s) - 1)[i] = s[1 + i - 1]
  <2>1. 1 \in Int /\ Len(s) - 1 \in Int
    BY <1>1
  <2>2. QED
    BY <1>2, <2>1, SubSeqProperties
<1>4. Len(s) \in Nat \ {0} /\ s[Len(s)] \in S
  BY <1>1
<1>5. \A i \in 1 .. Len(s) - 1 : i \in 1 .. Len(s) - 1 - 1 + 1 /\ 1 + i - 1 = i
  BY <1>4
<1>6. \A n \in Nat \ {0} : (IF 1 <= n - 1 THEN n - 1 - 1 + 1 ELSE 0) = n - 1
  OBVIOUS
<1>7. /\ Len(Front(s)) = Len(s) - 1
      /\ Front(s) \in Seq(S)
  BY <1>3, <1>4, <1>6 DEF Front
<1>8. \A i \in 1 .. Len(s) - 1 : Front(s)[i] = s[i]
  BY <1>3, <1>5 DEF Front
<1>9. QED
  BY <1>4, <1>7, <1>8 DEF Last

LEMMA LastReplaced ==
    ASSUME NEW S, NEW s \in Seq(S), Len(s) > 0, NEW e \in S
    PROVE  /\ [s EXCEPT ![Len(s)] = e] \in Seq(S)
           /\ Len([s EXCEPT ![Len(s)] = e]) = Len(s)
           /\ [s EXCEPT ![Len(s)] = e][Len(s)] = e
           /\ \A i \in 1 .. Len(s) - 1 : [s EXCEPT ![Len(s)] = e][i] = s[i]
<1> DEFINE n == Len(s)
           r == [s EXCEPT ![n] = e]
<1>1. n \in Nat /\ n \in 1 .. Len(s)
  BY LenProperties
<1>2. /\ r \in Seq(S) /\ Len(r) = Len(s)
      /\ \A j \in 1 .. Len(s) : r[j] = IF j = n THEN e ELSE s[j]
  BY <1>1, ExceptSeq
<1> HIDE DEF r
<1>3. r[n] = e /\ \A i \in 1 .. n - 1 : r[i] = s[i]
  BY <1>1, <1>2
<1>4. QED
  BY <1>2, <1>3 DEF r

LEMMA TailOfSeq ==
    ASSUME NEW S, NEW s \in Seq(S), NEW n \in Nat
    PROVE  /\ SubSeq(s, n + 1, Len(s)) \in Seq(S)
           /\ Len(SubSeq(s, n + 1, Len(s))) = IF n < Len(s) THEN Len(s) - n ELSE 0
<1>1. Len(s) \in Nat /\ \A i \in n + 1 .. Len(s) : s[i] \in S
  BY LenProperties, ElementOfSeq
<1>2. /\ SubSeq(s, n + 1, Len(s)) \in Seq(S)
      /\ Len(SubSeq(s, n + 1, Len(s))) =
            IF n + 1 <= Len(s) THEN Len(s) - (n + 1) + 1 ELSE 0
  <2>1. n + 1 \in Int /\ Len(s) \in Int
    BY <1>1
  <2>2. QED
    BY <1>1, <2>1, SubSeqProperties
<1>3. \A m \in Nat : (IF n + 1 <= m THEN m - (n + 1) + 1 ELSE 0)
                        = IF n < m THEN m - n ELSE 0
  OBVIOUS
<1>4. QED
  BY <1>1, <1>2, <1>3

LEMMA PrefixOfSeq ==
    ASSUME NEW S, NEW s \in Seq(S), NEW n \in 0 .. Len(s)
    PROVE  SubSeq(s, 1, n) \in Seq(S) /\ Len(SubSeq(s, 1, n)) = n
<1>1. Len(s) \in Nat /\ \A i \in 1 .. Len(s) : s[i] \in S
  BY LenProperties, ElementOfSeq
<1>2. 1 \in Int /\ n \in Int /\ \A i \in 1 .. n : s[i] \in S
  BY <1>1
<1>3. /\ SubSeq(s, 1, n) \in Seq(S)
      /\ Len(SubSeq(s, 1, n)) = IF 1 <= n THEN n - 1 + 1 ELSE 0
  BY <1>2, SubSeqProperties
<1>4. n \in Nat /\ \A m \in Nat : (IF 1 <= m THEN m - 1 + 1 ELSE 0) = m
  BY <1>1
<1>5. QED
  BY <1>3, <1>4

\* A prefix is one element by element, and prefixes are ordered.
LEMMA PrefixElements ==
    ASSUME NEW S, NEW s \in Seq(S), NEW t \in Seq(S)
    PROVE  IsPrefix(s, t) <=> Len(s) <= Len(t) /\ \A i \in 1 .. Len(s) : s[i] = t[i]
<1>1. Len(s) \in Nat /\ Len(t) \in Nat
  OBVIOUS
<1>2. ASSUME Len(s) <= Len(t)
      PROVE  SubSeq(s, 1, Len(s)) = SubSeq(t, 1, Len(s)) <=> \A i \in 1 .. Len(s) : s[i] = t[i]
  <2>1. /\ Len(SubSeq(s, 1, Len(s))) = Len(s)
        /\ \A i \in 1 .. Len(s) : SubSeq(s, 1, Len(s))[i] = s[i]
    BY <1>1, PrefixOfSeq
  <2>2. /\ Len(SubSeq(t, 1, Len(s))) = Len(s)
        /\ \A i \in 1 .. Len(s) : SubSeq(t, 1, Len(s))[i] = t[i]
    BY <1>1, <1>2, PrefixOfSeq
  <2>3. SubSeq(s, 1, Len(s)) \in Seq(S) /\ SubSeq(t, 1, Len(s)) \in Seq(S)
    BY <1>1, <1>2, PrefixOfSeq
  <2> DEFINE a == SubSeq(s, 1, Len(s))
             b == SubSeq(t, 1, Len(s))
  <2>4. a \in Seq(S) /\ b \in Seq(S) /\ Len(a) = Len(s) /\ Len(b) = Len(s)
        /\ (\A i \in 1 .. Len(s) : a[i] = s[i]) /\ (\A i \in 1 .. Len(s) : b[i] = t[i])
    BY <2>1, <2>2, <2>3
  <2> HIDE DEF a, b
  <2>5. a = b <=> \A i \in 1 .. Len(s) : s[i] = t[i]
    <3>1. ASSUME a = b
          PROVE  \A i \in 1 .. Len(s) : s[i] = t[i]
      BY <2>4, <3>1
    <3>2. ASSUME \A i \in 1 .. Len(s) : s[i] = t[i]
          PROVE  a = b
      <4>1. \A i \in 1 .. Len(a) : a[i] = b[i]
        BY <2>4, <3>2
      <4>2. QED
        BY ONLY <2>4, <4>1, SeqEqual
    <3>3. QED
      BY <3>1, <3>2
  <2>6. QED
    BY <2>5 DEF a, b
<1>3. QED
  BY <1>1, <1>2 DEF IsPrefix

LEMMA PrefixOrder ==
    ASSUME NEW S, NEW s \in Seq(S), NEW t \in Seq(S), NEW u \in Seq(S)
    PROVE  /\ IsPrefix(s, s)
           /\ IsPrefix(s, t) /\ IsPrefix(t, u) => IsPrefix(s, u)
           /\ IsPrefix(<<>>, s)
<1>1. Len(s) \in Nat /\ Len(t) \in Nat /\ Len(u) \in Nat
  OBVIOUS
<1>2. IsPrefix(s, s)
  BY <1>1, PrefixElements
<1>3. IsPrefix(s, t) /\ IsPrefix(t, u) => IsPrefix(s, u)
  <2>1. /\ IsPrefix(s, t) <=> Len(s) <= Len(t) /\ \A i \in 1 .. Len(s) : s[i] = t[i]
        /\ IsPrefix(t, u) <=> Len(t) <= Len(u) /\ \A i \in 1 .. Len(t) : t[i] = u[i]
        /\ IsPrefix(s, u) <=> Len(s) <= Len(u) /\ \A i \in 1 .. Len(s) : s[i] = u[i]
    BY PrefixElements
  <2>2. QED
    BY ONLY <1>1, <2>1
<1>4. PICK e \in Seq(S) : e = <<>> /\ Len(e) = 0
  BY EmptySeq
<1>5. IsPrefix(e, s)
  <2>1. IsPrefix(e, s) <=> Len(e) <= Len(s) /\ \A i \in 1 .. Len(e) : e[i] = s[i]
    BY PrefixElements
  <2>2. QED
    BY <1>1, <1>4, <2>1
<1>6. QED
  BY <1>2, <1>3, <1>4, <1>5

\* What is appended, whole or in part, keeps what was there.
LEMMA PrefixAppended ==
    ASSUME NEW S, NEW s \in Seq(S), NEW w \in Seq(S), NEW n \in 0 .. Len(w)
    PROVE  /\ SubSeq(w, 1, n) \in Seq(S)
           /\ IsPrefix(s, s \o SubSeq(w, 1, n))
           /\ IsPrefix(s \o SubSeq(w, 1, n), s \o w)
           /\ n = Len(w) => s \o SubSeq(w, 1, n) = s \o w
           /\ IsPrefix(s, s \o w)
<1> DEFINE v == SubSeq(w, 1, n)
<1>1. /\ v \in Seq(S) /\ Len(v) = n
      /\ \A i \in 1 .. n : v[i] = w[i]
      /\ Len(s) \in Nat /\ Len(w) \in Nat
  BY PrefixOfSeq
<1>2. n = Len(w) => v = w
  <2>1. ASSUME n = Len(w)
        PROVE  v = w
    <3>1. Len(v) = Len(w) /\ \A i \in 1 .. Len(v) : v[i] = w[i]
      BY <1>1, <2>1
    <3> HIDE DEF v
    <3>2. QED
      BY ONLY <1>1, <3>1, w \in Seq(S), SeqEqual
  <2>2. QED
    BY <2>1
<1> HIDE DEF v
<1>3. /\ s \o v \in Seq(S) /\ Len(s \o v) = Len(s) + n
      /\ \A i \in 1 .. Len(s) + n : (s \o v)[i] = IF i <= Len(s) THEN s[i] ELSE v[i - Len(s)]
  BY <1>1
<1>4. /\ s \o w \in Seq(S) /\ Len(s \o w) = Len(s) + Len(w)
      /\ \A i \in 1 .. Len(s) + Len(w) : (s \o w)[i] = IF i <= Len(s) THEN s[i] ELSE w[i - Len(s)]
  BY <1>1
<1>5. IsPrefix(s, s \o v)
  <2>1. Len(s) <= Len(s \o v) /\ \A i \in 1 .. Len(s) : s[i] = (s \o v)[i]
    BY <1>1, <1>3
  <2>2. QED
    BY <1>3, <2>1, PrefixElements
<1>6. IsPrefix(s \o v, s \o w)
  <2>1. Len(s \o v) <= Len(s \o w) /\ \A i \in 1 .. Len(s \o v) : (s \o v)[i] = (s \o w)[i]
    BY <1>1, <1>3, <1>4
  <2>2. QED
    BY <1>3, <1>4, <2>1, PrefixElements
<1>7. IsPrefix(s, s \o w)
  <2>1. Len(s) <= Len(s \o w) /\ \A i \in 1 .. Len(s) : s[i] = (s \o w)[i]
    BY <1>1, <1>4
  <2>2. QED
    BY <1>4, <2>1, PrefixElements
<1>8. QED
  BY <1>1, <1>2, <1>5, <1>6, <1>7 DEF v

-----------------------------------------------------------------------------
(***************************************************************************)
(* Sums of the values of a function.                                       *)
(***************************************************************************)
Some(T) == CHOOSE x \in T : TRUE

\* What SumFunction unfolds to: g has the sum over every part of S.
Sums(S, F, g) == g = [T \in SUBSET S |-> IF T = {} THEN 0 ELSE F[Some(T)] + g[T \ {Some(T)}]]

\* The same for the parts of up to n elements.
SumsTo(S, F, n, g) ==
    /\ g \in [{T \in SUBSET S : Cardinality(T) <= n} -> Nat]
    /\ \A T \in SUBSET S : Cardinality(T) <= n =>
           g[T] = IF T = {} THEN 0 ELSE F[Some(T)] + g[T \ {Some(T)}]

LEMMA SumIs ==
    ASSUME NEW F
    PROVE  SumFunction(F) = (CHOOSE g : Sums(DOMAIN F, F, g))[DOMAIN F]
  BY DEF SumFunction, SumFunctionOnSet, FoldFunctionOnSet, MapThenFoldSet, Sums, Some

LEMMA PartsSmaller ==
    ASSUME NEW S, IsFiniteSet(S), NEW T \in SUBSET S, NEW x \in T
    PROVE  /\ IsFiniteSet(T) /\ Cardinality(T) \in Nat \ {0} /\ T # {}
           /\ T \ {x} \in SUBSET S
           /\ Cardinality(T \ {x}) \in Nat /\ Cardinality(T \ {x}) = Cardinality(T) - 1
<1>1. IsFiniteSet(T)
  BY FS_Subset
<1>2. Cardinality(T) \in Nat
  BY <1>1, FS_CardinalityType
<1>3. Cardinality(T) # 0
  BY <1>1, FS_EmptySet
<1>4. Cardinality(T \ {x}) = Cardinality(T) - 1
  BY <1>1, FS_RemoveElement
<1>5. QED
  BY <1>1, <1>2, <1>3, <1>4

LEMMA SumsExist ==
    ASSUME NEW S, IsFiniteSet(S), NEW F \in [S -> Nat]
    PROVE  \E g : g \in [SUBSET S -> Nat] /\ Sums(S, F, g)
<1> DEFINE U == {n \in Nat : \E g : SumsTo(S, F, n, g)}
<1>0. \A T \in SUBSET S : IsFiniteSet(T) /\ Cardinality(T) \in Nat /\ (Cardinality(T) = 0 <=> T = {})
  <2>1. ASSUME NEW T \in SUBSET S
        PROVE  IsFiniteSet(T) /\ Cardinality(T) \in Nat /\ (Cardinality(T) = 0 <=> T = {})
    <3>1. IsFiniteSet(T)
      BY FS_Subset
    <3>2. QED
      BY <3>1, FS_CardinalityType, FS_EmptySet
  <2>2. QED
    BY <2>1
<1>00. \A T \in SUBSET S : T # {} => Some(T) \in T
  BY DEF Some
<1>1. 0 \in U
  <2> DEFINE g == [T \in {T \in SUBSET S : Cardinality(T) <= 0} |-> 0]
  <2>1. SumsTo(S, F, 0, g)
    BY <1>0 DEF SumsTo
  <2> HIDE DEF g
  <2>2. QED
    BY <2>1
<1>2. ASSUME NEW n \in Nat, n \in U
      PROVE  n + 1 \in U
  <2>1. PICK g : SumsTo(S, F, n, g)
    BY <1>2
  <2> DEFINE D == {T \in SUBSET S : Cardinality(T) <= n + 1}
             Sum(T) == IF T = {} THEN 0 ELSE F[Some(T)] + g[T \ {Some(T)}]
             h == [T \in D |-> Sum(T)]
  <2>2. ASSUME NEW T \in SUBSET S, T # {}, Cardinality(T) <= n + 1
        PROVE  /\ T \ {Some(T)} \in SUBSET S /\ Cardinality(T \ {Some(T)}) <= n
               /\ Some(T) \in S
    <3>1. Some(T) \in T
      BY <1>00, <2>2
    <3>2. Cardinality(T \ {Some(T)}) = Cardinality(T) - 1 /\ Cardinality(T) \in Nat
      BY <1>0, <3>1, PartsSmaller
    <3>3. QED
      BY <2>2, <3>1, <3>2
  <2>3. ASSUME NEW T \in SUBSET S, Cardinality(T) <= n + 1
        PROVE  Sum(T) \in Nat
    <3>1. CASE T = {}
      BY <3>1
    <3>2. CASE T # {}
      <4>1. F[Some(T)] \in Nat
        BY <2>2, <2>3, <3>2
      <4>2. g[T \ {Some(T)}] \in Nat
        BY <2>1, <2>2, <2>3, <3>2 DEF SumsTo
      <4>3. QED
        BY <3>2, <4>1, <4>2
    <3>3. QED
      BY <3>1, <3>2
  <2>4. h \in [D -> Nat] /\ \A T \in D : h[T] = Sum(T)
    BY <2>3
  <2>5. ASSUME NEW T \in SUBSET S, Cardinality(T) <= n
        PROVE  T \in D /\ h[T] = g[T]
    <3>1. T \in D
      BY <1>0, <2>5
    <3>2. g[T] = Sum(T)
      BY <2>1, <2>5 DEF SumsTo
    <3>3. QED
      BY <2>4, <3>1, <3>2
  <2> HIDE DEF h
  <2>6. ASSUME NEW T \in SUBSET S, Cardinality(T) <= n + 1
        PROVE  h[T] = IF T = {} THEN 0 ELSE F[Some(T)] + h[T \ {Some(T)}]
    <3>1. CASE T = {}
      BY <2>4, <2>6, <3>1
    <3>2. CASE T # {}
      <4>1. h[T \ {Some(T)}] = g[T \ {Some(T)}]
        BY <2>2, <2>5, <2>6, <3>2
      <4>2. h[T] = F[Some(T)] + g[T \ {Some(T)}]
        BY <2>4, <2>6, <3>2
      <4>3. QED
        BY <3>2, <4>1, <4>2
    <3>3. QED
      BY <3>1, <3>2
  <2>7. SumsTo(S, F, n + 1, h)
    BY <2>4, <2>6 DEF SumsTo
  <2>8. QED
    BY <2>7
<1>3. Cardinality(S) \in U
  <2> HIDE DEF U
  <2>1. QED
    BY <1>0, <1>1, <1>2, InductionBySet
<1>4. PICK g : SumsTo(S, F, Cardinality(S), g)
  BY <1>3
<1>5. \A T \in SUBSET S : Cardinality(T) <= Cardinality(S)
  BY FS_Subset
<1>6. {T \in SUBSET S : Cardinality(T) <= Cardinality(S)} = SUBSET S
  BY <1>5
<1>7. g \in [SUBSET S -> Nat]
  BY <1>4, <1>6 DEF SumsTo
<1>8. \A T \in SUBSET S : g[T] = IF T = {} THEN 0 ELSE F[Some(T)] + g[T \ {Some(T)}]
  BY <1>4, <1>5 DEF SumsTo
<1>9. g = [T \in SUBSET S |-> IF T = {} THEN 0 ELSE F[Some(T)] + g[T \ {Some(T)}]]
  BY <1>7, <1>8
<1>10. Sums(S, F, g)
  BY <1>9 DEF Sums
<1>11. QED
  BY <1>7, <1>10

PartSums(S, F, g) == F \in [S -> Nat] /\ g \in [SUBSET S -> Nat] /\ Sums(S, F, g)

Removable(S, F, g) == \A T \in SUBSET S : \A x \in T : g[T] = F[x] + g[T \ {x}]

Agree(R, g, h) == \A T \in SUBSET R : h[T] = g[T]

\* The order of summation does not matter.
LEMMA SumRemoved ==
    ASSUME NEW S, IsFiniteSet(S), NEW F, NEW g, PartSums(S, F, g)
    PROVE  Removable(S, F, g)
<1> USE DEF PartSums, Removable
<1> DEFINE U == {n \in Nat : \A T \in SUBSET S : Cardinality(T) = n => \A x \in T : g[T] = F[x] + g[T \ {x}]}
<1>0. \A T \in SUBSET S : g[T] = IF T = {} THEN 0 ELSE F[Some(T)] + g[T \ {Some(T)}]
  BY DEF Sums
<1>1. 0 \in U
  <2>1. \A T \in SUBSET S : \A x \in T : Cardinality(T) # 0
    BY PartsSmaller
  <2>2. QED
    BY <2>1
<1>2. ASSUME NEW n \in Nat, n \in U
      PROVE  n + 1 \in U
  <2>1. SUFFICES ASSUME NEW T \in SUBSET S, Cardinality(T) = n + 1, NEW x \in T
                 PROVE  g[T] = F[x] + g[T \ {x}]
    OBVIOUS
  <2>2. Some(T) \in T /\ T # {}
    BY DEF Some
  <2> DEFINE c == Some(T)
  <2>3. c \in T /\ c \in S /\ x \in S /\ g[T] = F[c] + g[T \ {c}]
    BY <1>0, <2>2
  <2> HIDE DEF c
  <2>4. CASE x = c
    BY <2>3, <2>4
  <2>5. CASE x # c
    <3>1. /\ T \ {c} \in SUBSET S /\ Cardinality(T \ {c}) = n /\ x \in T \ {c}
          /\ T \ {x} \in SUBSET S /\ Cardinality(T \ {x}) = n /\ c \in T \ {x}
      BY <2>1, <2>3, <2>5, PartsSmaller
    <3>2. g[T \ {c}] = F[x] + g[(T \ {c}) \ {x}]
      BY <1>2, <3>1
    <3>3. g[T \ {x}] = F[c] + g[(T \ {x}) \ {c}]
      BY <1>2, <3>1
    <3>4. (T \ {c}) \ {x} = (T \ {x}) \ {c} /\ (T \ {x}) \ {c} \in SUBSET S
      OBVIOUS
    <3>5. F[x] \in Nat /\ F[c] \in Nat /\ g[(T \ {x}) \ {c}] \in Nat
      BY <2>3, <3>4
    <3>6. \A p, q, y \in Nat : p + (q + y) = q + (p + y)
      OBVIOUS
    <3>7. F[c] + (F[x] + g[(T \ {x}) \ {c}]) = F[x] + (F[c] + g[(T \ {x}) \ {c}])
      BY <3>5, <3>6
    <3>8. QED
      BY <2>3, <3>2, <3>3, <3>4, <3>7
  <2>6. QED
    BY <2>4, <2>5
<1>3. SUFFICES ASSUME NEW T \in SUBSET S PROVE \A x \in T : g[T] = F[x] + g[T \ {x}]
  OBVIOUS
<1>4. Cardinality(T) \in Nat
  BY FS_Subset, FS_CardinalityType
<1>5. Cardinality(T) \in U
  <2> HIDE DEF U
  <2>1. QED
    BY <1>1, <1>2, <1>4, InductionBySet
<1>6. QED
  BY <1>5

\* Nor does what is not summed.
LEMMA SumsAgree ==
    ASSUME NEW S, IsFiniteSet(S), NEW F, NEW g, PartSums(S, F, g),
           NEW R \in SUBSET S, NEW G, NEW h, PartSums(R, G, h),
           \A x \in R : G[x] = F[x]
    PROVE  Agree(R, g, h)
<1> USE DEF PartSums, Agree
<1> DEFINE U == {n \in Nat : \A T \in SUBSET R : Cardinality(T) = n => h[T] = g[T]}
<1>0. /\ \A T \in SUBSET S : g[T] = IF T = {} THEN 0 ELSE F[Some(T)] + g[T \ {Some(T)}]
      /\ \A T \in SUBSET R : h[T] = IF T = {} THEN 0 ELSE G[Some(T)] + h[T \ {Some(T)}]
  BY DEF Sums
<1>1. 0 \in U
  <2>1. ASSUME NEW T \in SUBSET R, Cardinality(T) = 0
        PROVE  h[T] = g[T]
    <3>1. T = {}
      BY <2>1, FS_Subset, FS_EmptySet
    <3>2. QED
      BY <1>0, <3>1
  <2>2. QED
    BY <2>1
<1>2. ASSUME NEW n \in Nat, n \in U
      PROVE  n + 1 \in U
  <2>1. SUFFICES ASSUME NEW T \in SUBSET R, Cardinality(T) = n + 1
                 PROVE  h[T] = g[T]
    OBVIOUS
  <2>2. T # {}
    <3>1. Cardinality({}) = 0 /\ n + 1 # 0
      BY FS_EmptySet
    <3>2. QED
      BY <2>1, <3>1
  <2>3. Some(T) \in T /\ IsFiniteSet(R)
    BY <2>2, FS_Subset DEF Some
  <2>4. T \in SUBSET S /\ T \ {Some(T)} \in SUBSET R /\ Cardinality(T \ {Some(T)}) = n
    BY <2>1, <2>3, PartsSmaller
  <2>5. h[T \ {Some(T)}] = g[T \ {Some(T)}]
    BY <1>2, <2>4
  <2>6. G[Some(T)] = F[Some(T)]
    BY <2>3
  <2>7. QED
    BY <1>0, <2>2, <2>4, <2>5, <2>6
<1>3. SUFFICES ASSUME NEW T \in SUBSET R PROVE h[T] = g[T]
  OBVIOUS
<1>4. Cardinality(T) \in Nat
  BY FS_Subset, FS_CardinalityType
<1>5. Cardinality(T) \in U
  <2> HIDE DEF U
  <2>1. QED
    BY <1>1, <1>2, <1>4, InductionBySet
<1>6. QED
  BY <1>5

LEMMA SumFound ==
    ASSUME NEW S, IsFiniteSet(S), NEW F \in [S -> Nat]
    PROVE  \E g : PartSums(S, F, g) /\ SumFunction(F) = g[S]
<1> DEFINE g == CHOOSE g : Sums(S, F, g)
<1>1. \E q : q \in [SUBSET S -> Nat] /\ Sums(S, F, q)
  BY SumsExist
<1>2. Sums(S, F, g)
  BY <1>1
<1> HIDE DEF g
<1>3. PICK q : q \in [SUBSET S -> Nat] /\ Sums(S, F, q)
  BY <1>1
<1>4. g \in [SUBSET S -> Nat]
  <2> DEFINE U == {n \in Nat : \A T \in SUBSET S : Cardinality(T) = n => g[T] = q[T]}
  <2>0. /\ \A T \in SUBSET S : g[T] = IF T = {} THEN 0 ELSE F[Some(T)] + g[T \ {Some(T)}]
        /\ \A T \in SUBSET S : q[T] = IF T = {} THEN 0 ELSE F[Some(T)] + q[T \ {Some(T)}]
    BY <1>2, <1>3 DEF Sums
  <2>1. 0 \in U
    <3>1. ASSUME NEW T \in SUBSET S, Cardinality(T) = 0
          PROVE  g[T] = q[T]
      <4>1. T = {}
        BY <3>1, FS_Subset, FS_EmptySet
      <4>2. QED
        BY <2>0, <4>1
    <3>2. QED
      BY <3>1
  <2>2. ASSUME NEW n \in Nat, n \in U
        PROVE  n + 1 \in U
    <3>1. SUFFICES ASSUME NEW T \in SUBSET S, Cardinality(T) = n + 1
                   PROVE  g[T] = q[T]
      OBVIOUS
    <3>2. T # {}
      BY <3>1, FS_EmptySet
    <3>3. Some(T) \in T
      BY <3>2 DEF Some
    <3>4. T \ {Some(T)} \in SUBSET S /\ Cardinality(T \ {Some(T)}) = n
      BY <3>1, <3>3, PartsSmaller
    <3>5. g[T \ {Some(T)}] = q[T \ {Some(T)}]
      BY <2>2, <3>4
    <3>6. QED
      BY <2>0, <3>2, <3>5
  <2>3. ASSUME NEW T \in SUBSET S
        PROVE  g[T] = q[T]
    <3>1. Cardinality(T) \in Nat
      BY FS_Subset, FS_CardinalityType
    <3>2. Cardinality(T) \in U
      <4> HIDE DEF U
      <4>1. QED
        BY <2>1, <2>2, <3>1, InductionBySet
    <3>3. QED
      BY <3>2
  <2>4. g = [T \in SUBSET S |-> IF T = {} THEN 0 ELSE F[Some(T)] + g[T \ {Some(T)}]]
    BY <1>2 DEF Sums
  <2>5. DOMAIN g = SUBSET S /\ g = [T \in SUBSET S |-> g[T]]
    BY <2>4, Zenon
  <2>6. \A T \in SUBSET S : g[T] \in Nat
    BY <1>3, <2>3
  <2>7. QED
    BY <2>5, <2>6
<1>5. DOMAIN F = S
  OBVIOUS
<1>6. SumFunction(F) = g[S]
  BY <1>5, SumIs DEF g
<1>7. PartSums(S, F, g)
  BY <1>2, <1>4 DEF PartSums
<1>8. QED
  BY <1>6, <1>7

\* A sum over an interval of naturals, one element longer.
LEMMA SumOfInterval ==
    ASSUME NEW a \in Nat, NEW b \in Nat, a <= b, NEW F \in [a + 1 .. b + 1 -> Nat]
    PROVE  /\ SumFunction(F) \in Nat
           /\ SumFunction(F) = SumFunction([k \in a + 1 .. b |-> F[k]]) + F[b + 1]
           /\ SumFunction([k \in a + 1 .. b |-> F[k]]) \in Nat
<1> DEFINE S == a + 1 .. b + 1
           R == a + 1 .. b
           G == [k \in R |-> F[k]]
<1>1. IsFiniteSet(S) /\ IsFiniteSet(R)
  BY FS_Interval
<1>2. R \in SUBSET S /\ b + 1 \in S /\ S \ {b + 1} = R
  OBVIOUS
<1>3. G \in [R -> Nat] /\ \A k \in R : G[k] = F[k]
  BY <1>2
<1> HIDE DEF S, R, G
<1>4. F \in [S -> Nat]
  BY DEF S
<1>5. PICK g : PartSums(S, F, g) /\ SumFunction(F) = g[S]
  BY <1>1, <1>4, SumFound
<1>6. PICK h : PartSums(R, G, h) /\ SumFunction(G) = h[R]
  BY <1>1, <1>3, SumFound
<1>7. Agree(R, g, h)
  BY <1>1, <1>2, <1>3, <1>5, <1>6, SumsAgree
<1>8. Removable(S, F, g)
  BY <1>1, <1>5, SumRemoved
<1>9. g[S] = F[b + 1] + g[R]
  BY <1>2, <1>8 DEF Removable
<1>10. F[b + 1] \in Nat /\ g[R] \in Nat /\ g[S] \in Nat /\ h[R] = g[R]
  BY <1>2, <1>4, <1>5, <1>7 DEF PartSums, Agree
<1>11. SumFunction(F) \in Nat /\ SumFunction(G) \in Nat /\ SumFunction(F) = SumFunction(G) + F[b + 1]
  BY <1>5, <1>6, <1>9, <1>10
<1>12. QED
  BY <1>11 DEF G, R

LEMMA SumOfNothing ==
    ASSUME NEW F, DOMAIN F = {}
    PROVE  SumFunction(F) = 0
<1> DEFINE g == CHOOSE g : Sums({}, F, g)
           q == [T \in SUBSET {} |-> 0]
<1>1. Sums({}, F, q)
  BY DEF Sums
<1>2. Sums({}, F, g)
  BY <1>1
<1>3. g[{}] = 0
  BY <1>2 DEF Sums
<1>4. QED
  BY <1>3, SumIs

-----------------------------------------------------------------------------
(* FlattenSeq: where the elements of its argument are in its result.        *)

\* The function FlattenSeq computes, and where each element of ws ends.
Joined(ws) ==
    CHOOSE F : F = [i \in 1 .. Len(ws) |-> IF i = 1 THEN ws[i] ELSE F[i - 1] \o ws[i]]

JoinEnds(ws) == [i \in 0 .. Len(ws) |-> IF i = 0 THEN 0 ELSE Len(Joined(ws)[i])]

Joins(ws, n, F) == \A i \in 1 .. n : F[i] = IF i = 1 THEN ws[i] ELSE F[i - 1] \o ws[i]

LEMMA JoinedExists ==
    ASSUME NEW S, NEW ws \in Seq(Seq(S))
    PROVE  /\ Joined(ws) \in [1 .. Len(ws) -> Seq(S)]
           /\ Joins(ws, Len(ws), Joined(ws))
<1> DEFINE T == {n \in Nat : n <= Len(ws) => \E F \in [1 .. n -> Seq(S)] : Joins(ws, n, F)}
<1>1. Len(ws) \in Nat /\ \A i \in 1 .. Len(ws) : ws[i] \in Seq(S)
  BY LenProperties, ElementOfSeq
<1>2. 0 \in T
  <2>1. [i \in 1 .. 0 |-> <<>>] \in [1 .. 0 -> Seq(S)] /\ Joins(ws, 0, [i \in 1 .. 0 |-> <<>>])
    BY DEF Joins
  <2>2. QED
    BY <2>1
<1>3. ASSUME NEW n \in Nat, n \in T, n + 1 <= Len(ws)
      PROVE  \E F \in [1 .. n + 1 -> Seq(S)] : Joins(ws, n + 1, F)
  <2>1. PICK F \in [1 .. n -> Seq(S)] : Joins(ws, n, F)
    BY <1>1, <1>3
  <2> DEFINE x == IF n = 0 THEN ws[1] ELSE F[n] \o ws[n + 1]
             G == [i \in 1 .. n + 1 |-> IF i = n + 1 THEN x ELSE F[i]]
  <2>2. x \in Seq(S)
    <3>1. ws[n + 1] \in Seq(S)
      BY <1>1, <1>3
    <3>2. CASE n = 0
      BY <3>1, <3>2
    <3>3. CASE n # 0
      <4>1. F[n] \in Seq(S)
        BY <1>3, <3>3
      <4>2. F[n] \o ws[n + 1] \in Seq(S)
        BY <3>1, <4>1, ConcatProperties
      <4>3. QED
        BY <3>3, <4>2
    <3>4. QED
      BY <3>2, <3>3
  <2>3. x = IF n + 1 = 1 THEN ws[n + 1] ELSE F[n] \o ws[n + 1]
    BY <1>3
  <2> HIDE DEF x
  <2>4. G \in [1 .. n + 1 -> Seq(S)]
    BY <1>3, <2>2
  <2>5. G[n + 1] = x /\ \A i \in 1 .. n : G[i] = F[i]
    BY <1>3
  <2> HIDE DEF G
  <2>6. ASSUME NEW i \in 1 .. n + 1
        PROVE  G[i] = IF i = 1 THEN ws[i] ELSE G[i - 1] \o ws[i]
    <3>1. CASE i = n + 1
      <4>1. CASE n = 0
        BY <2>3, <2>5, <3>1, <4>1
      <4>2. CASE n # 0
        <5>1. G[n] = F[n] /\ (n + 1) - 1 = n /\ ~(n + 1 = 1)
          BY <1>3, <2>5, <4>2
        <5>2. G[n + 1] = F[n] \o ws[n + 1]
          BY <2>3, <2>5, <5>1
        <5>3. G[n + 1] = G[n] \o ws[n + 1]
          BY <5>1, <5>2
        <5>4. i - 1 = n /\ ~(i = 1)
          BY <3>1, <5>1
        <5>5. QED
          BY <3>1, <5>3, <5>4
      <4>3. QED
        BY <4>1, <4>2
    <3>2. CASE i # n + 1
      <4>1. i \in 1 .. n /\ (i # 1 => i - 1 \in 1 .. n)
        BY <1>3, <3>2
      <4>2. F[i] = IF i = 1 THEN ws[i] ELSE F[i - 1] \o ws[i]
        BY <2>1, <4>1 DEF Joins
      <4>3. QED
        BY <2>5, <4>1, <4>2
    <3>3. QED
      BY <3>1, <3>2
  <2>7. QED
    BY <2>4, <2>6 DEF Joins
<1>4. \A n \in Nat : n \in T => n + 1 \in T
  BY <1>3
<1>5. Nat \subseteq T
  <2> HIDE DEF T
  <2>1. QED
    BY <1>2, <1>4, InductionBySet
<1>6. PICK F \in [1 .. Len(ws) -> Seq(S)] : Joins(ws, Len(ws), F)
  BY <1>1, <1>5
<1>7. F = [i \in 1 .. Len(ws) |-> IF i = 1 THEN ws[i] ELSE F[i - 1] \o ws[i]]
  BY <1>6 DEF Joins
<1>8. Joined(ws) = [i \in 1 .. Len(ws) |-> IF i = 1 THEN ws[i] ELSE Joined(ws)[i - 1] \o ws[i]]
  BY ONLY <1>7, Zenon DEF Joined
<1>9. Joins(ws, Len(ws), Joined(ws)) /\ DOMAIN Joined(ws) = 1 .. Len(ws)
  <2>1. PICK J : J = Joined(ws)
    OBVIOUS
  <2>2. J = [i \in 1 .. Len(ws) |-> IF i = 1 THEN ws[i] ELSE J[i - 1] \o ws[i]]
    BY <1>8, <2>1
  <2>3. Joins(ws, Len(ws), J) /\ DOMAIN J = 1 .. Len(ws)
    BY ONLY <2>2 DEF Joins
  <2>4. QED
    BY <2>1, <2>3
<1>10. PICK J : J = Joined(ws)
  OBVIOUS
<1> DEFINE U == {n \in Nat : n + 1 <= Len(ws) => J[n + 1] \in Seq(S)}
<1>11. \A i \in 1 .. Len(ws) : J[i] = IF i = 1 THEN ws[i] ELSE J[i - 1] \o ws[i]
  BY <1>9, <1>10 DEF Joins
<1>12. 0 \in U
  <2>1. ASSUME 1 <= Len(ws)
        PROVE  J[1] \in Seq(S)
    <3>1. 1 \in 1 .. Len(ws)
      BY <1>1, <2>1
    <3>2. J[1] = ws[1]
      BY <1>11, <3>1
    <3>3. QED
      BY <1>1, <3>1, <3>2
  <2>2. QED
    BY <2>1
<1>13. ASSUME NEW n \in Nat, n \in U, n + 2 <= Len(ws)
       PROVE  J[n + 2] \in Seq(S)
  <2>1. J[n + 1] \in Seq(S)
    BY <1>1, <1>13
  <2>2. n + 2 \in 1 .. Len(ws) /\ ~(n + 2 = 1) /\ (n + 2) - 1 = n + 1
    BY <1>1, <1>13
  <2>3. J[n + 2] = J[n + 1] \o ws[n + 2]
    BY <1>11, <2>2
  <2>4. ws[n + 2] \in Seq(S)
    BY <1>1, <2>2
  <2>5. QED
    BY <2>1, <2>3, <2>4, ConcatProperties
<1>14. \A n \in Nat : n \in U => n + 1 \in U
  <2>1. ASSUME NEW n \in Nat, n \in U, (n + 1) + 1 <= Len(ws)
        PROVE  J[(n + 1) + 1] \in Seq(S)
    <3>1. (n + 1) + 1 = n + 2
      OBVIOUS
    <3>2. QED
      BY <1>13, <2>1, <3>1
  <2>2. QED
    BY <2>1
<1>15. Nat \subseteq U
  <2> HIDE DEF U
  <2>1. QED
    BY <1>12, <1>14, InductionBySet
<1>16. ASSUME NEW i \in 1 .. Len(ws)
       PROVE  J[i] \in Seq(S)
  <2>1. i - 1 \in Nat /\ (i - 1) + 1 = i /\ i <= Len(ws)
    BY <1>1
  <2>2. QED
    BY <1>15, <2>1
<1>17. Joined(ws) \in [1 .. Len(ws) -> Seq(S)]
  <2>1. J = [i \in 1 .. Len(ws) |-> J[i]]
    BY <1>8, <1>10
  <2>2. QED
    BY <1>10, <1>16, <2>1
<1>18. QED
  BY <1>9, <1>17

\* Each element follows the one before it.
LEMMA JoinEndsStep ==
    ASSUME NEW S, NEW ws \in Seq(Seq(S))
    PROVE  /\ JoinEnds(ws) \in [0 .. Len(ws) -> Nat]
           /\ JoinEnds(ws)[0] = 0
           /\ \A i \in 1 .. Len(ws) : /\ i - 1 \in 0 .. Len(ws)
                                      /\ JoinEnds(ws)[i] = JoinEnds(ws)[i - 1] + Len(ws[i])
<1>1. /\ Len(ws) \in Nat /\ \A i \in 1 .. Len(ws) : ws[i] \in Seq(S) /\ Len(ws[i]) \in Nat
      /\ \A i \in 1 .. Len(ws) : i - 1 \in 0 .. Len(ws)
  BY LenProperties, ElementOfSeq
<1>2. PICK J : J = Joined(ws)
  OBVIOUS
<1>3. /\ \A i \in 1 .. Len(ws) : J[i] \in Seq(S) /\ Len(J[i]) \in Nat
      /\ \A i \in 1 .. Len(ws) : J[i] = IF i = 1 THEN ws[i] ELSE J[i - 1] \o ws[i]
  <2>1. J \in [1 .. Len(ws) -> Seq(S)]
    BY <1>2, JoinedExists
  <2>2. Joins(ws, Len(ws), J)
    BY <1>2, JoinedExists
  <2>3. \A i \in 1 .. Len(ws) : J[i] \in Seq(S)
    BY <2>1
  <2>4. \A i \in 1 .. Len(ws) : Len(J[i]) \in Nat
    BY <2>3, LenProperties
  <2>5. QED
    BY <2>2, <2>3, <2>4 DEF Joins
<1>4. /\ JoinEnds(ws)[0] = 0 /\ \A i \in 1 .. Len(ws) : JoinEnds(ws)[i] = Len(J[i])
      /\ DOMAIN JoinEnds(ws) = 0 .. Len(ws)
      /\ JoinEnds(ws) = [i \in 0 .. Len(ws) |-> JoinEnds(ws)[i]]
  BY <1>1, <1>2 DEF JoinEnds
<1>5. \A i \in 0 .. Len(ws) : JoinEnds(ws)[i] \in Nat
  <2>1. ASSUME NEW i \in 1 .. Len(ws)
        PROVE  JoinEnds(ws)[i] \in Nat
    BY <1>3, <1>4
  <2>2. \A i \in 0 .. Len(ws) : i = 0 \/ i \in 1 .. Len(ws)
    BY <1>1
  <2>3. JoinEnds(ws)[0] \in Nat
    BY <1>4
  <2>4. QED
    BY <2>1, <2>2, <2>3
<1>6. JoinEnds(ws) \in [0 .. Len(ws) -> Nat]
  BY <1>4, <1>5
<1>7. ASSUME NEW i \in 1 .. Len(ws)
      PROVE  JoinEnds(ws)[i] = JoinEnds(ws)[i - 1] + Len(ws[i])
  <2>1. CASE i = 1
    <3>1. J[1] = ws[1] /\ JoinEnds(ws)[1] = Len(J[1]) /\ JoinEnds(ws)[0] = 0 /\ Len(ws[1]) \in Nat
      BY <1>1, <1>3, <1>4, <2>1
    <3>2. QED
      BY <2>1, <3>1
  <2>2. CASE i # 1
    <3>1. i - 1 \in 1 .. Len(ws)
      BY <1>1, <2>2
    <3>2. J[i] = J[i - 1] \o ws[i] /\ J[i - 1] \in Seq(S) /\ ws[i] \in Seq(S)
      BY <1>1, <1>3, <2>2, <3>1
    <3>3. Len(J[i]) = Len(J[i - 1]) + Len(ws[i])
      BY <3>2, ConcatProperties
    <3>4. QED
      BY <1>4, <3>1, <3>3
  <2>3. QED
    BY <2>1, <2>2
<1>8. QED
  BY <1>1, <1>4, <1>6, <1>7

LEMMA FlattenIsJoined ==
    ASSUME NEW S, NEW ws \in Seq(Seq(S))
    PROVE  FlattenSeq(ws) = IF Len(ws) = 0 THEN <<>> ELSE Joined(ws)[Len(ws)]
<1>1. CASE Len(ws) = 0
  <2>1. ws = <<>>
    BY <1>1, EmptySeq
  <2>2. QED
    BY <1>1, <2>1 DEF FlattenSeq
<1>2. CASE Len(ws) # 0
  <2> DEFINE J(q) == q = [i \in 1 .. Len(ws) |-> IF i = 1 THEN ws[i] ELSE q[i - 1] \o ws[i]]
  <2>1. FlattenSeq(ws) = (CHOOSE q : J(q))[Len(ws)]
    BY <1>2 DEF FlattenSeq
  <2>2. Joined(ws) = CHOOSE q : J(q)
    BY DEF Joined
  <2>3. QED
    BY <1>2, <2>1, <2>2
<1>3. QED
  BY <1>1, <1>2

LEMMA FlattenElements ==
    ASSUME NEW S, NEW ws \in Seq(Seq(S))
    PROVE  /\ FlattenSeq(ws) \in Seq(S)
           /\ Len(FlattenSeq(ws)) = JoinEnds(ws)[Len(ws)]
           /\ \A i \in 1 .. Len(ws) : JoinEnds(ws)[i] <= JoinEnds(ws)[Len(ws)]
           /\ \A i \in 1 .. Len(ws) : \A k \in 1 .. Len(ws[i]) :
                 FlattenSeq(ws)[JoinEnds(ws)[i - 1] + k] = ws[i][k]
<1>1. /\ Len(ws) \in Nat /\ \A i \in 1 .. Len(ws) : ws[i] \in Seq(S) /\ Len(ws[i]) \in Nat
  BY LenProperties, ElementOfSeq
<1>2. PICK J, P : J = Joined(ws) /\ P = JoinEnds(ws)
  OBVIOUS
<1>3. /\ \A i \in 1 .. Len(ws) : J[i] \in Seq(S)
      /\ \A i \in 1 .. Len(ws) : J[i] = IF i = 1 THEN ws[i] ELSE J[i - 1] \o ws[i]
  <2>1. J \in [1 .. Len(ws) -> Seq(S)] /\ Joins(ws, Len(ws), J)
    BY <1>2, JoinedExists
  <2>2. QED
    BY <2>1 DEF Joins
<1>4. /\ P[0] = 0 /\ \A i \in 0 .. Len(ws) : P[i] \in Nat
      /\ \A i \in 1 .. Len(ws) : P[i] = P[i - 1] + Len(ws[i])
  <2>1. P \in [0 .. Len(ws) -> Nat]
    BY <1>2, JoinEndsStep
  <2>2. QED
    BY <1>2, <2>1, JoinEndsStep
<1>5. \A i \in 1 .. Len(ws) : Len(J[i]) = P[i]
  BY <1>1, <1>2 DEF JoinEnds
<1> DEFINE Holds(i, n) == /\ P[i] <= P[n]
                          /\ \A k \in 1 .. Len(ws[i]) : J[n][P[i - 1] + k] = ws[i][k]
           T == {d \in Nat : \A i \in 1 .. Len(ws) : i + d <= Len(ws) => Holds(i, i + d)}
<1>6. ASSUME NEW i \in 1 .. Len(ws)
      PROVE  Holds(i, i)
  <2>1. CASE i = 1
    <3>1. J[1] = ws[1] /\ P[1 - 1] = 0
      BY <1>3, <1>4, <2>1
    <3>2. \A k \in 1 .. Len(ws[1]) : 0 + k = k
      OBVIOUS
    <3>3. P[1] <= P[1]
      BY <1>1, <1>4, <2>1
    <3>4. QED
      BY <2>1, <3>1, <3>2, <3>3
  <2>2. CASE i # 1
    <3>1. i - 1 \in 1 .. Len(ws) /\ i \in 0 .. Len(ws)
      BY <1>1, <2>2
    <3>2. J[i] = J[i - 1] \o ws[i] /\ J[i - 1] \in Seq(S) /\ ws[i] \in Seq(S)
      BY <1>1, <1>3, <2>2, <3>1
    <3>3. P[i - 1] = Len(J[i - 1]) /\ P[i - 1] \in Nat /\ P[i] \in Nat /\ Len(ws[i]) \in Nat
      BY <1>1, <1>4, <1>5, <3>1
    <3>4. ASSUME NEW k \in 1 .. Len(ws[i])
          PROVE  J[i][P[i - 1] + k] = ws[i][k]
      <4>1. /\ P[i - 1] + k \in 1 .. Len(J[i - 1]) + Len(ws[i])
            /\ ~(P[i - 1] + k <= Len(J[i - 1])) /\ (P[i - 1] + k) - Len(J[i - 1]) = k
        <5>1. \A p, l \in Nat : \A x \in 1 .. l : p + x \in 1 .. p + l /\ ~(p + x <= p) /\ (p + x) - p = x
          OBVIOUS
        <5>2. /\ P[i - 1] + k \in 1 .. P[i - 1] + Len(ws[i])
              /\ ~(P[i - 1] + k <= P[i - 1]) /\ (P[i - 1] + k) - P[i - 1] = k
          <6>1. P[i - 1] \in Nat /\ Len(ws[i]) \in Nat
            BY <3>3
          <6>2. QED
            BY ONLY <5>1, <6>1
        <5>3. QED
          BY <3>3, <5>2
      <4>2. (J[i - 1] \o ws[i])[P[i - 1] + k] = ws[i][k]
        BY ONLY <3>2, <4>1, ConcatProperties
      <4>3. QED
        BY <3>2, <4>2
    <3>5. P[i] <= P[i]
      BY <3>3
    <3>6. QED
      BY <3>4, <3>5
  <2>3. QED
    BY <2>1, <2>2
<1>7. ASSUME NEW i \in 1 .. Len(ws), NEW n \in 1 .. Len(ws), i <= n, n + 1 <= Len(ws), Holds(i, n)
      PROVE  Holds(i, n + 1)
  <2>1. n + 1 \in 1 .. Len(ws) /\ (n + 1) - 1 = n /\ ~(n + 1 = 1) /\ i - 1 \in 0 .. Len(ws)
        /\ i \in 0 .. Len(ws) /\ n \in 0 .. Len(ws)
    BY <1>1, <1>7
  <2>2. J[n + 1] = J[n] \o ws[n + 1] /\ J[n] \in Seq(S) /\ ws[n + 1] \in Seq(S)
    BY <1>1, <1>3, <2>1
  <2>3. /\ P[n + 1] = P[n] + Len(ws[n + 1]) /\ P[i] = P[i - 1] + Len(ws[i])
        /\ P[n] \in Nat /\ P[i] \in Nat /\ P[i - 1] \in Nat
        /\ Len(ws[n + 1]) \in Nat /\ Len(ws[i]) \in Nat /\ P[i] <= P[n] /\ Len(J[n]) = P[n]
    BY <1>1, <1>4, <1>5, <1>7, <2>1
  <2>4. ASSUME NEW k \in 1 .. Len(ws[i])
        PROVE  J[n + 1][P[i - 1] + k] = ws[i][k]
    <3>1. P[i - 1] + k \in 1 .. Len(J[n]) + Len(ws[n + 1]) /\ P[i - 1] + k <= Len(J[n])
      <4>1. \A p, l, q, m \in Nat : \A x \in 1 .. l : p + l <= q => p + x \in 1 .. q + m /\ p + x <= q
        OBVIOUS
      <4>2. P[i - 1] + Len(ws[i]) <= P[n]
        BY <2>3
      <4>3. QED
        BY <2>3, <4>1, <4>2
    <3>2. (J[n] \o ws[n + 1])[P[i - 1] + k] = J[n][P[i - 1] + k]
      BY ONLY <2>2, <3>1, ConcatProperties
    <3>3. QED
      BY <1>7, <2>2, <3>2
  <2>5. P[i] <= P[n + 1]
    BY <2>3
  <2>6. QED
    BY <2>4, <2>5
<1>8. 0 \in T
  <2>1. \A i \in 1 .. Len(ws) : i + 0 = i
    OBVIOUS
  <2>2. QED
    BY <1>6, <2>1
<1>9. ASSUME NEW d \in Nat, d \in T, NEW i \in 1 .. Len(ws), i + (d + 1) <= Len(ws)
      PROVE  Holds(i, i + (d + 1))
  <2>1. i + d \in 1 .. Len(ws) /\ i <= i + d /\ (i + d) + 1 <= Len(ws) /\ i + (d + 1) = (i + d) + 1
        /\ i + d <= Len(ws)
    BY <1>1, <1>9
  <2>2. Holds(i, i + d)
    BY <1>9, <2>1
  <2>3. Holds(i, (i + d) + 1)
    <3> HIDE DEF Holds
    <3>1. QED
      BY <1>7, <2>1, <2>2
  <2>4. QED
    BY <2>1, <2>3
<1>10. \A d \in Nat : d \in T => d + 1 \in T
  <2> HIDE DEF Holds
  <2>1. SUFFICES ASSUME NEW d \in Nat, d \in T
                 PROVE  d + 1 \in T
    OBVIOUS
  <2>2. \A i \in 1 .. Len(ws) : i + (d + 1) <= Len(ws) => Holds(i, i + (d + 1))
    BY <1>9, <2>1
  <2>3. QED
    BY <2>2
<1>11. Nat \subseteq T
  <2> HIDE DEF T
  <2>1. QED
    BY <1>8, <1>10, InductionBySet
<1>12. \A i \in 1 .. Len(ws) : Holds(i, Len(ws))
  <2> SUFFICES ASSUME NEW i \in 1 .. Len(ws) PROVE Holds(i, Len(ws))
    OBVIOUS
  <2>1. Len(ws) - i \in Nat /\ i + (Len(ws) - i) = Len(ws)
    BY <1>1
  <2>2. Len(ws) - i \in T
    <3> HIDE DEF T
    <3>1. QED
      BY <1>11, <2>1
  <2> HIDE DEF Holds
  <2>3. i + (Len(ws) - i) <= Len(ws)
    BY <1>1, <2>1
  <2>4. Holds(i, i + (Len(ws) - i))
    BY <2>2, <2>3
  <2>5. QED
    BY <2>1, <2>4
<1>13. CASE Len(ws) = 0
  <2>1. FlattenSeq(ws) = <<>> /\ JoinEnds(ws)[0] = 0
    BY <1>2, <1>4, <1>13, FlattenIsJoined
  <2>2. QED
    BY <1>13, <2>1, EmptySeq
<1>14. CASE Len(ws) # 0
  <2>1. Len(ws) \in 1 .. Len(ws)
    BY <1>1, <1>14
  <2>2. FlattenSeq(ws) = J[Len(ws)]
    BY <1>2, <1>14, FlattenIsJoined
  <2>3. QED
    BY <1>2, <1>3, <1>5, <1>12, <2>1, <2>2
<1>15. QED
  BY <1>13, <1>14
-----------------------------------------------------------------------------
(***************************************************************************)
(* Powers, and folds of sequences whose steps do not look at the element.  *)
(***************************************************************************)
Powers(c, P) == P = CHOOSE q : q = [d \in Nat |-> IF d = 0 THEN 1 ELSE c * q[d - 1]]

LEMMA PowersGo ==
    ASSUME NEW c \in Nat, NEW P, Powers(c, P)
    PROVE  P[0] = 1 /\ \A d \in Nat : P[d] \in Nat /\ P[d + 1] = c * P[d]
<1> DEFINE f == [x \in Nat |-> c * x]
           R(q) == q = [d \in Nat |-> IF d = 0 THEN 1 ELSE c * q[d - 1]]
<1>1. f \in [Nat -> Nat]
  OBVIOUS
<1>2. PICK g : Iterates(Nat, 1, f, g)
  <2> HIDE DEF f
  <2>1. QED
    BY <1>1, Iterated
<1>3. g \in [Nat -> Nat] /\ g[0] = 1 /\ \A n \in Nat : g[n + 1] = c * g[n]
  BY <1>2 DEF Iterates
<1>4. R(g)
  <2>1. \A d \in Nat : d # 0 => d - 1 \in Nat /\ g[(d - 1) + 1] = c * g[d - 1] /\ (d - 1) + 1 = d
    BY <1>3
  <2>2. \A d \in Nat : g[d] = IF d = 0 THEN 1 ELSE c * g[d - 1]
    BY <1>3, <2>1
  <2>3. QED
    BY <1>3, <2>2
<1>5. R(P)
  <2>1. P = CHOOSE q : R(q)
    BY DEF Powers
  <2> HIDE DEF R
  <2>2. QED
    BY <1>4, <2>1
<1>6. \A d \in Nat : P[d] = IF d = 0 THEN 1 ELSE c * P[d - 1]
  <2> DEFINE F == [d \in Nat |-> IF d = 0 THEN 1 ELSE c * P[d - 1]]
  <2>1. \A d \in Nat : F[d] = IF d = 0 THEN 1 ELSE c * P[d - 1]
    OBVIOUS
  <2>2. P = F
    BY <1>5
  <2> HIDE DEF F
  <2>3. QED
    BY <2>1, <2>2
<1>7. P[0] = 1 /\ \A d \in Nat : P[d + 1] = c * P[d]
  <2>1. ASSUME NEW d \in Nat PROVE P[d + 1] = c * P[d]
    <3>1. d + 1 \in Nat /\ d + 1 # 0 /\ (d + 1) - 1 = d
      OBVIOUS
    <3>2. QED
      BY <1>6, <3>1
  <2>2. QED
    BY <1>6, <2>1
<1> DEFINE T == {d \in Nat : P[d] \in Nat}
<1>8. 0 \in T /\ \A d \in Nat : d \in T => d + 1 \in T
  BY <1>7
<1>9. Nat \subseteq T
  <2> HIDE DEF T
  <2>1. QED
    BY <1>8, InductionBySet
<1>10. QED
  BY <1>7, <1>9

LEMMA GreatestFound ==
    ASSUME NEW n \in Nat, NEW s \in SUBSET (1 .. n), s # {}
    PROVE  Max(s) \in s /\ \A y \in s : y <= Max(s)
<1> DEFINE T == {n - x : x \in s}
<1>1. T \in SUBSET Nat /\ T # {}
  <2>1. \A x \in s : x \in 1 .. n
    OBVIOUS
  <2>2. \A x \in 1 .. n : n - x \in Nat
    OBVIOUS
  <2>3. \A x \in s : n - x \in Nat
    BY <2>1, <2>2
  <2>4. QED
    BY <2>3
<1>2. PICK m \in T : \A y \in T : m <= y
  <2> HIDE DEF T
  <2>1. QED
    BY <1>1, LeastNatural
<1>3. PICK x \in s : m = n - x
  BY <1>2
<1>4. \A y \in s : x >= y
  <2>1. \A y \in s : n - x <= n - y
    BY <1>2, <1>3
  <2>2. QED
    BY <2>1
<1>5. Max(s) \in s /\ \A y \in s : Max(s) >= y
  BY <1>3, <1>4, Zenon DEF Max
<1>6. QED
  BY <1>5

\* What FoldLeft unfolds to over n elements: q has the fold over every part of them.
FoldSteps(T, a, f, n, q) ==
    \A s \in SUBSET (1 .. n) :
        /\ s = {} => q[s] = a
        /\ s # {} /\ q[s \ {Max(s)}] \in T => q[s] = f[q[s \ {Max(s)}]]

Counted(n, h) == [s \in SUBSET (1 .. n) |-> h[Cardinality(s)]]

\* Such a fold exists,
LEMMA FoldExists ==
    ASSUME NEW T, NEW a, NEW f, NEW h, Iterates(T, a, f, h), NEW n \in Nat
    PROVE  /\ Counted(n, h) \in [SUBSET (1 .. n) -> T]
           /\ FoldSteps(T, a, f, n, Counted(n, h))
<1> DEFINE q == Counted(n, h)
<1>1. h \in [Nat -> T] /\ h[0] = a /\ \A k \in Nat : h[k + 1] = f[h[k]]
  BY DEF Iterates
<1>2. \A s \in SUBSET (1 .. n) : q[s] = h[Cardinality(s)]
  BY DEF Counted
<1>3. \A s \in SUBSET (1 .. n) : IsFiniteSet(s) /\ Cardinality(s) \in Nat
  <2>1. IsFiniteSet(1 .. n)
    BY FS_Interval
  <2>2. \A s \in SUBSET (1 .. n) : IsFiniteSet(s)
    BY <2>1, FS_Subset
  <2>3. QED
    BY <2>2, FS_CardinalityType
<1>4. q \in [SUBSET (1 .. n) -> T]
  BY <1>1, <1>3 DEF Counted
<1>5. \A s \in SUBSET (1 .. n) : s = {} => q[s] = a
  BY <1>1, <1>2, FS_EmptySet
<1> HIDE DEF q
<1>6. ASSUME NEW s \in SUBSET (1 .. n), s # {}
      PROVE  q[s] = f[q[s \ {Max(s)}]]
  <2>1. Max(s) \in s
    BY <1>6, GreatestFound
  <2>2. IsFiniteSet(1 .. n)
    BY FS_Interval
  <2>3. PICK m : m = Max(s)
    OBVIOUS
  <2>4. /\ s \ {m} \in SUBSET (1 .. n) /\ Cardinality(s \ {m}) \in Nat
        /\ Cardinality(s \ {m}) = Cardinality(s) - 1
    <3> DEFINE R == 1 .. n
    <3>1. IsFiniteSet(R) /\ s \in SUBSET R /\ m \in s
      BY <2>1, <2>2, <2>3
    <3> HIDE DEF R
    <3>2. /\ s \ {m} \in SUBSET R /\ Cardinality(s \ {m}) \in Nat
          /\ Cardinality(s \ {m}) = Cardinality(s) - 1
      BY <3>1, PartsSmaller
    <3>3. QED
      BY <3>2 DEF R
  <2>5. q[s] = h[Cardinality(s)] /\ q[s \ {m}] = h[Cardinality(s \ {m})]
    BY <1>2, <2>4
  <2>6. Cardinality(s) = Cardinality(s \ {m}) + 1
    BY <1>3, <2>4
  <2>7. QED
    BY <1>1, <2>3, <2>4, <2>5, <2>6
<1>7. FoldSteps(T, a, f, n, q)
  BY <1>5, <1>6 DEF FoldSteps
<1>8. QED
  BY <1>4, <1>7 DEF q

\* and every one takes as many steps as there are elements.
LEMMA FoldIterates ==
    ASSUME NEW T, NEW a, NEW f, NEW h, Iterates(T, a, f, h), NEW n \in Nat,
           NEW q, FoldSteps(T, a, f, n, q)
    PROVE  q[1 .. n] = h[n]
<1>1. h \in [Nat -> T] /\ h[0] = a /\ \A k \in Nat : h[k + 1] = f[h[k]]
  BY DEF Iterates
<1> DEFINE U == {m \in Nat : m <= n => q[1 .. m] = h[m]}
<1>2. 0 \in U
  <2>1. 1 .. 0 = {} /\ 1 .. 0 \in SUBSET (1 .. n)
    OBVIOUS
  <2>2. q[1 .. 0] = a
    BY <2>1 DEF FoldSteps
  <2>3. QED
    BY <1>1, <2>2
<1>3. ASSUME NEW m \in Nat, m \in U, m + 1 <= n
      PROVE  q[1 .. m + 1] = h[m + 1]
  <2> DEFINE s == 1 .. m + 1
  <2>1. s \in SUBSET (1 .. n) /\ s # {} /\ m + 1 \in s
    <3>1. m + 1 \in 1 .. m + 1 /\ \A x \in 1 .. m + 1 : x \in 1 .. n
      BY <1>3
    <3>2. QED
      BY <3>1
  <2>2. Max(s) \in s /\ \A y \in s : y <= Max(s)
    <3> HIDE DEF s
    <3>1. QED
      BY <2>1, GreatestFound
  <2>3. Max(s) = m + 1
    BY <2>1, <2>2
  <2>4. s \ {m + 1} = 1 .. m
    OBVIOUS
  <2>5. q[s \ {Max(s)}] = h[m]
    <3>1. q[1 .. m] = h[m]
      BY <1>3
    <3> HIDE DEF s
    <3>2. s \ {Max(s)} = 1 .. m
      BY <2>3, <2>4
    <3>3. QED
      BY <3>1, <3>2
  <2> HIDE DEF s
  <2>6. h[m] \in T
    BY <1>1
  <2>7. q[s] = f[q[s \ {Max(s)}]]
    BY <2>1, <2>5, <2>6 DEF FoldSteps
  <2>8. QED
    BY <1>1, <2>5, <2>7 DEF s
<1>4. n \in U
  <2>1. \A m \in Nat : m \in U => m + 1 \in U
    BY <1>3
  <2> HIDE DEF U
  <2>2. QED
    BY <1>2, <2>1, InductionBySet
<1>5. QED
  BY <1>4

-----------------------------------------------------------------------------
(* Varints.                                                                 *)

\* The smallest signed word does not overflow: what WriteVarint writes is an unsigned word
\* (encoder.go:144-147).
LEMMA ZigzagType == \A v \in Signed : Zigzag(v) \in Uint
  BY VarintsAssumption DEF Zigzag, Doubled, Word, Uint, Signed

\* ReadVarint returns every signed word that WriteVarint was given, and every unsigned word is
\* written for the signed one it is read as (encoder.go:143-147, reader.go:169).
THEOREM ZigzagInverse ==
    /\ \A v \in Signed : Unzigzag(Zigzag(v)) = v
    /\ \A x \in Uint : Unzigzag(x) \in Signed /\ Zigzag(Unzigzag(x)) = x
<1> USE VarintsAssumption DEF Word, Uint, Signed
<1>1. ASSUME NEW v \in Signed PROVE Unzigzag(Zigzag(v)) = v
  <2>1. CASE v < 0
    <3>1. Zigzag(v) = 2 * (-v - 1) + 1
      BY <2>1 DEF Zigzag, Doubled
    <3>2. (2 * (-v - 1) + 1) % 2 = 1 /\ (2 * (-v - 1) + 1) \div 2 = -v - 1
      BY <2>1
    <3> QED  BY <3>1, <3>2 DEF Unzigzag
  <2>2. CASE v >= 0
    <3>1. Zigzag(v) = 2 * v
      BY <2>2 DEF Zigzag, Doubled
    <3>2. (2 * v) % 2 = 0 /\ (2 * v) \div 2 = v
      BY <2>2
    <3> QED  BY <3>1, <3>2 DEF Unzigzag
  <2> QED  BY <2>1, <2>2
<1>2. ASSUME NEW x \in Uint PROVE Unzigzag(x) \in Signed /\ Zigzag(Unzigzag(x)) = x
  <2> DEFINE h == x \div 2
  <2>1. h \in 0 .. Half - 1 /\ (x = 2 * h \/ x = 2 * h + 1)
    OBVIOUS
  <2>2. CASE x % 2 = 1
    <3>1. Unzigzag(x) = -h - 1 /\ x = 2 * h + 1
      BY <2>1, <2>2 DEF Unzigzag
    <3> HIDE DEF h
    <3> QED  BY <2>1, <3>1 DEF Zigzag, Doubled
  <2>3. CASE x % 2 # 1
    <3>1. Unzigzag(x) = h /\ x = 2 * h
      BY <2>1, <2>3 DEF Unzigzag
    <3> HIDE DEF h
    <3> QED  BY <2>1, <3>1 DEF Zigzag, Doubled
  <2> QED  BY <2>2, <2>3
<1> QED  BY <1>1, <1>2

-----------------------------------------------------------------------------
LEMMA Places == Place[0] = 1 /\ \A d \in Nat : Place[d] \in Nat /\ Place[d + 1] = Base * Place[d]
<1>1. Powers(Base, Place)
  BY DEF Powers, Place
<1>2. Base \in Nat
  BY VarintsAssumption
<1> HIDE DEF Place
<1>3. QED
  BY <1>1, <1>2, PowersGo

-----------------------------------------------------------------------------
\* A remainder and a quotient by Base.
LEMMA DigitOf ==
    ASSUME NEW u \in Nat
    PROVE  /\ u % Base \in 0 .. Base - 1 /\ u \div Base \in Nat
           /\ u = (u % Base) + (u \div Base) * Base
           /\ u >= Base => u \div Base < u /\ u \div Base >= 1
<1>1. Base \in Nat /\ Base > 1
  BY VarintsAssumption
<1>2. \A b \in Nat : b > 1 => /\ u % b \in 0 .. b - 1 /\ u \div b \in Nat
                              /\ u = (u % b) + (u \div b) * b
  OBVIOUS
<1>3. \A b, r, q \in Nat : b > 1 /\ r < b /\ r + q * b >= b => q >= 1 /\ q < r + q * b
  <2>1. SUFFICES ASSUME NEW b \in Nat, NEW r \in Nat, NEW q \in Nat, b > 1, r < b, r + q * b >= b
                 PROVE  q >= 1 /\ q < r + q * b
    OBVIOUS
  <2>2. q # 0
    BY <2>1
  <2>3. q * b = q + q * (b - 1) /\ q * (b - 1) >= q
    BY <2>1
  <2>4. QED
    BY <2>1, <2>2, <2>3
<1>4. /\ u % Base \in 0 .. Base - 1 /\ u \div Base \in Nat
      /\ u = (u % Base) + (u \div Base) * Base
  BY <1>1, <1>2
<1> DEFINE r == u % Base
           q == u \div Base
<1>5. r \in Nat /\ r < Base /\ q \in Nat /\ u = r + q * Base
  BY <1>1, <1>4
<1> HIDE DEF r, q
<1>6. u >= Base => q >= 1 /\ q < u
  BY <1>1, <1>3, <1>5
<1>7. QED
  BY <1>4, <1>6 DEF r, q

\* The encoder writes the lowest digit and then what is left (encoder.go:150-172).
LEMMA WrittenIs ==
    ASSUME NEW x \in Nat
    PROVE  /\ WrittenUvarint(x) \in Seq(Nat) /\ Len(WrittenUvarint(x)) \in Nat \ {0}
           /\ x < Base => WrittenUvarint(x) = <<x>>
           /\ x >= Base => WrittenUvarint(x) = <<Base + (x % Base)>> \o WrittenUvarint(x \div Base)
<1> DEFINE Puts == [Nat -> Seq(Nat)]
           Put(w) == [u \in Nat |-> IF u < Base THEN <<u>> ELSE <<Base + (u % Base)>> \o w[u \div Base]]
           f == [w \in Puts |-> Put(w)]
           none == [u \in Nat |-> <<>>]
<1>0. Base \in Nat /\ Base > 1
  BY VarintsAssumption
<1>1. none \in Puts
  OBVIOUS
<1>2. \A w \in Puts : Put(w) \in Puts
  <2>1. ASSUME NEW w \in Puts, NEW u \in Nat
        PROVE  (IF u < Base THEN <<u>> ELSE <<Base + (u % Base)>> \o w[u \div Base]) \in Seq(Nat)
    <3>1. w[u \div Base] \in Seq(Nat) /\ Base + (u % Base) \in Nat
      <4>1. u \div Base \in Nat /\ u % Base \in Nat
        BY <1>0, DigitOf
      <4>2. QED
        BY <1>0, <4>1
    <3>2. <<u>> \in Seq(Nat) /\ <<Base + (u % Base)>> \in Seq(Nat)
      BY <3>1
    <3>3. <<Base + (u % Base)>> \o w[u \div Base] \in Seq(Nat)
      BY <3>1, <3>2, ConcatProperties
    <3>4. QED
      BY <3>2, <3>3
  <2>2. QED
    BY <2>1
<1>3. f \in [Puts -> Puts]
  <2> HIDE DEF Put, Puts
  <2>1. QED
    BY <1>2
<1>4. PICK g : Iterates(Puts, none, f, g)
  <2> HIDE DEF f, Puts, none
  <2>1. QED
    BY <1>1, <1>3, Iterated
<1>5. /\ g \in [Nat -> Puts]
      /\ \A n \in Nat : g[n + 1] = Put(g[n])
  <2> HIDE DEF Put, Puts
  <2>1. QED
    BY <1>4 DEF Iterates
\* More rounds than u leave nothing of u open.
<1> DEFINE T == {n \in Nat : \A u \in Nat : u < n => g[n + 1][u] = g[n][u]}
<1>6. 0 \in T
  OBVIOUS
<1>7. ASSUME NEW n \in Nat, n \in T
      PROVE  n + 1 \in T
  <2>1. ASSUME NEW u \in Nat, u < n + 1
        PROVE  g[(n + 1) + 1][u] = g[n + 1][u]
    <3>1. /\ g[(n + 1) + 1][u] = IF u < Base THEN <<u>> ELSE <<Base + (u % Base)>> \o g[n + 1][u \div Base]
          /\ g[n + 1][u] = IF u < Base THEN <<u>> ELSE <<Base + (u % Base)>> \o g[n][u \div Base]
      <4>1. n + 1 \in Nat
        OBVIOUS
      <4>2. g[(n + 1) + 1] = Put(g[n + 1]) /\ g[n + 1] = Put(g[n])
        <5> HIDE DEF Put
        <5>1. QED
          BY <1>5, <4>1
      <4>3. QED
        BY <4>2
    <3>2. ~(u < Base) => g[n + 1][u \div Base] = g[n][u \div Base]
      <4>1. ~(u < Base) => u \div Base \in Nat /\ u \div Base < n
        BY <1>0, <2>1, DigitOf
      <4>2. QED
        BY <1>7, <4>1
    <3>3. QED
      BY <3>1, <3>2
  <2>2. QED
    BY <2>1
<1>8. \A n \in Nat : n \in T
  <2> HIDE DEF T
  <2>1. QED
    BY <1>6, <1>7, InductionBySet
<1> DEFINE put == [u \in Nat |-> g[u + 1][u]]
<1>9. ASSUME NEW u \in Nat, NEW n \in Nat, u < n
      PROVE  g[n][u] = put[u]
  <2> DEFINE R == {d \in Nat : g[(u + 1) + d][u] = g[u + 1][u]}
  <2>1. 0 \in R
    OBVIOUS
  <2>2. ASSUME NEW d \in Nat, d \in R
        PROVE  d + 1 \in R
    <3>1. (u + 1) + d \in T /\ u < (u + 1) + d
      BY <1>8
    <3>2. g[((u + 1) + d) + 1][u] = g[(u + 1) + d][u]
      BY <3>1
    <3>3. ((u + 1) + d) + 1 = (u + 1) + (d + 1)
      OBVIOUS
    <3>4. QED
      BY <2>2, <3>2, <3>3
  <2>3. n - (u + 1) \in R
    <3> HIDE DEF R
    <3>1. n - (u + 1) \in Nat
      BY <1>9
    <3>2. QED
      BY <2>1, <2>2, <3>1, InductionBySet
  <2>4. (u + 1) + (n - (u + 1)) = n
    OBVIOUS
  <2>5. QED
    BY <2>3, <2>4
<1>10. put = [u \in Nat |-> IF u < Base THEN <<u>> ELSE <<Base + (u % Base)>> \o put[u \div Base]]
  <2>1. ASSUME NEW u \in Nat
        PROVE  put[u] = IF u < Base THEN <<u>> ELSE <<Base + (u % Base)>> \o put[u \div Base]
    <3>1. put[u] = IF u < Base THEN <<u>> ELSE <<Base + (u % Base)>> \o g[u][u \div Base]
      BY <1>5
    <3>2. ~(u < Base) => u \div Base \in Nat /\ u \div Base < u
      BY <1>0, DigitOf
    <3> HIDE DEF put
    <3>3. ~(u < Base) => g[u][u \div Base] = put[u \div Base]
      BY <1>9, <3>2
    <3>4. QED
      BY <3>1, <3>3
  <2> DEFINE F == [u \in Nat |-> IF u < Base THEN <<u>> ELSE <<Base + (u % Base)>> \o put[u \div Base]]
  <2>2. put = [u \in Nat |-> put[u]]
    OBVIOUS
  <2> HIDE DEF put
  <2>3. QED
    BY <2>1, <2>2
<1> DEFINE Recurs(q) == q = [u \in Nat |-> IF u < Base THEN <<u>> ELSE <<Base + (u % Base)>> \o q[u \div Base]]
           h == CHOOSE q : Recurs(q)
<1>12. \A u : WrittenUvarint(u) = h[u]
  BY DEF WrittenUvarint
<1>13. Recurs(h)
  <2>1. Recurs(put)
    BY <1>10
  <2> HIDE DEF Recurs
  <2>2. QED
    BY <2>1
<1> HIDE DEF h, put
<1>14. \A u \in Nat : h[u] = IF u < Base THEN <<u>> ELSE <<Base + (u % Base)>> \o h[u \div Base]
  <2> DEFINE F == [u \in Nat |-> IF u < Base THEN <<u>> ELSE <<Base + (u % Base)>> \o h[u \div Base]]
  <2>1. \A u \in Nat : F[u] = IF u < Base THEN <<u>> ELSE <<Base + (u % Base)>> \o h[u \div Base]
    OBVIOUS
  <2>2. h = F
    BY <1>13
  <2> HIDE DEF F
  <2>3. QED
    BY <2>1, <2>2
<1> DEFINE Q == {n \in Nat : \A u \in Nat : u < n => h[u] \in Seq(Nat) /\ Len(h[u]) \in Nat \ {0}}
<1>15. 0 \in Q
  OBVIOUS
<1>16. ASSUME NEW n \in Nat, n \in Q
       PROVE  n + 1 \in Q
  <2>1. ASSUME NEW u \in Nat, u < n + 1
        PROVE  h[u] \in Seq(Nat) /\ Len(h[u]) \in Nat \ {0}
    <3>1. CASE u < Base
      <4>1. h[u] = <<u>>
        BY <1>14, <3>1
      <4>2. QED
        BY <4>1
    <3>2. CASE ~(u < Base)
      <4>1. u \div Base \in Nat /\ u \div Base < n /\ Base + (u % Base) \in Nat
        BY <1>0, <2>1, <3>2, DigitOf
      <4>2. h[u] = <<Base + (u % Base)>> \o h[u \div Base]
        BY <1>14, <3>2
      <4>3. h[u \div Base] \in Seq(Nat) /\ Len(h[u \div Base]) \in Nat \ {0}
        BY <1>16, <4>1
      <4>4. <<Base + (u % Base)>> \in Seq(Nat) /\ Len(<<Base + (u % Base)>>) = 1
        BY <4>1
      <4>5. QED
        BY <4>2, <4>3, <4>4, ConcatProperties
    <3>3. QED
      BY <3>1, <3>2
  <2>2. QED
    BY <2>1
<1>17. x + 1 \in Q
  <2> HIDE DEF Q
  <2>1. QED
    BY <1>15, <1>16, InductionBySet
<1>18. h[x] \in Seq(Nat) /\ Len(h[x]) \in Nat \ {0}
  BY <1>17
<1>19. /\ x < Base => h[x] = <<x>>
       /\ x >= Base => h[x] = <<Base + (x % Base)>> \o h[x \div Base]
  <2>1. x >= Base => ~(x < Base)
    BY <1>0
  <2>2. QED
    BY <1>14, <2>1
<1>20. QED
  BY <1>12, <1>18, <1>19


-----------------------------------------------------------------------------
(***************************************************************************)
(* The digits of what was written sum up to it.                            *)
(***************************************************************************)
DigitsIn(s, p, e) == [k \in p + 1 .. e |-> (s[k] % Base) * Place[k - p - 1]]
SumIn(s, p, e)    == SumFunction(DigitsIn(s, p, e))

\* All bytes behind p up to o have the flag.
FlaggedIn(s, p, o) == \A k \in p + 1 .. o : s[k] >= Base

LEMMA DigitTyped ==
    ASSUME NEW s \in Seq(Nat), NEW i \in Nat, i < Len(s)
    PROVE  /\ s[i + 1] \in Nat
           /\ s[i + 1] % Base \in Nat /\ s[i + 1] % Base < Base
<1>1. Len(s) \in Nat
  BY LenProperties
<1>2. s[i + 1] \in Nat
  BY <1>1, ElementOfSeq
<1>3. Base \in Nat /\ Base > 1
  BY VarintsAssumption
<1>4. \A b \in Nat, m \in Nat : m > 1 => b % m \in Nat /\ b % m < m
  OBVIOUS
<1>5. QED
  BY <1>2, <1>3, <1>4

LEMMA SumNoneIn ==
    ASSUME NEW s, NEW p \in Nat
    PROVE  SumIn(s, p, p) = 0
<1>1. DOMAIN DigitsIn(s, p, p) = {}
  BY DEF DigitsIn
<1>2. QED
  BY <1>1, SumOfNothing DEF SumIn

LEMMA SumMoreIn ==
    ASSUME NEW s \in Seq(Nat), NEW p \in Nat, NEW o \in Nat, p <= o, o < Len(s)
    PROVE  /\ SumIn(s, p, o) \in Nat /\ SumIn(s, p, o + 1) \in Nat
           /\ SumIn(s, p, o + 1) = SumIn(s, p, o) + (s[o + 1] % Base) * Place[o - p]
<1>1. Len(s) \in Nat
  BY LenProperties
<1>2. ASSUME NEW k \in p + 1 .. o + 1
      PROVE  (s[k] % Base) * Place[k - p - 1] \in Nat
  <2>1. k - 1 \in Nat /\ k - 1 < Len(s) /\ (k - 1) + 1 = k /\ k - p - 1 \in Nat
    BY <1>1
  <2>2. s[k] % Base \in Nat
    BY <2>1, DigitTyped
  <2>3. Place[k - p - 1] \in Nat
    BY <2>1, Places
  <2>4. \A u, v \in Nat : u * v \in Nat
    OBVIOUS
  <2>5. QED
    BY <2>2, <2>3, <2>4
<1> DEFINE F == DigitsIn(s, p, o + 1)
<1>3. F \in [p + 1 .. o + 1 -> Nat]
  BY <1>2 DEF DigitsIn
<1>4. [k \in p + 1 .. o |-> F[k]] = DigitsIn(s, p, o)
  <2>1. \A k \in p + 1 .. o : k \in p + 1 .. o + 1
    OBVIOUS
  <2>2. \A k \in p + 1 .. o : F[k] = (s[k] % Base) * Place[k - p - 1]
    BY <2>1 DEF DigitsIn
  <2> HIDE DEF F
  <2>3. QED
    BY <2>2 DEF DigitsIn
<1>5. F[o + 1] = (s[o + 1] % Base) * Place[o - p]
  <2>1. o + 1 \in p + 1 .. o + 1 /\ (o + 1) - p - 1 = o - p
    OBVIOUS
  <2>2. QED
    BY <2>1 DEF DigitsIn
<1> HIDE DEF F
<1>6. /\ SumFunction(F) \in Nat /\ SumFunction([k \in p + 1 .. o |-> F[k]]) \in Nat
      /\ SumFunction(F) = SumFunction([k \in p + 1 .. o |-> F[k]]) + F[o + 1]
  BY <1>3, SumOfInterval
<1>7. QED
  BY <1>4, <1>5, <1>6 DEF SumIn, F

\* Digits before a place do not fill it.
LEMMA SumSmallIn ==
    ASSUME NEW s \in Seq(Nat), NEW p \in Nat, NEW n \in Nat, p + n <= Len(s)
    PROVE  SumIn(s, p, p + n) \in Nat /\ SumIn(s, p, p + n) < Place[n]
<1> DEFINE T == {m \in Nat : p + m <= Len(s) => SumIn(s, p, p + m) \in Nat /\ SumIn(s, p, p + m) < Place[m]}
<1>0. Len(s) \in Nat
  BY LenProperties
<1>1. 0 \in T
  <2>1. SumIn(s, p, p + 0) = 0 /\ Place[0] = 1
    BY SumNoneIn, Places
  <2>2. QED
    BY <2>1
<1>2. ASSUME NEW m \in Nat, m \in T
      PROVE  m + 1 \in T
  <2>1. SUFFICES ASSUME p + (m + 1) <= Len(s)
                 PROVE  SumIn(s, p, p + (m + 1)) \in Nat /\ SumIn(s, p, p + (m + 1)) < Place[m + 1]
    OBVIOUS
  <2>2. /\ p + m \in Nat /\ p <= p + m /\ p + m < Len(s) /\ (p + m) + 1 = p + (m + 1)
        /\ (p + m) - p = m /\ p + m <= Len(s)
    BY <1>0, <2>1
  <2>3. SumIn(s, p, p + m) \in Nat /\ SumIn(s, p, p + m) < Place[m]
    BY <1>2, <2>2
  <2> DEFINE d == s[(p + m) + 1] % Base
  <2>4. /\ SumIn(s, p, (p + m) + 1) \in Nat
        /\ SumIn(s, p, (p + m) + 1) = SumIn(s, p, p + m) + d * Place[m]
    BY <2>2, SumMoreIn
  <2>5. d \in Nat /\ d < Base
    BY <2>2, DigitTyped
  <2>6. Place[m] \in Nat /\ Place[m + 1] = Base * Place[m]
    BY Places
  <2> HIDE DEF d
  <2>7. \A u, q, b, c \in Nat : u < q /\ c < b => u + c * q < b * q
    <3>1. SUFFICES ASSUME NEW u \in Nat, NEW q \in Nat, NEW b \in Nat, NEW c \in Nat, u < q, c < b
                   PROVE  u + c * q < b * q
      OBVIOUS
    <3>2. b * q = c * q + (b - c) * q /\ (b - c) * q >= q
      BY <3>1
    <3>3. c * q \in Nat /\ b * q \in Nat
      BY <3>1
    <3>4. QED
      BY ONLY <3>1, <3>2, <3>3
  <2>8. SumIn(s, p, p + m) + d * Place[m] < Base * Place[m]
    BY <2>3, <2>5, <2>6, <2>7, VarintsAssumption
  <2>9. QED
    BY <2>2, <2>4, <2>6, <2>8
<1>3. n \in T
  <2> HIDE DEF T
  <2>1. QED
    BY <1>1, <1>2, InductionBySet
<1>4. QED
  BY <1>3

\* Places grow.
LEMMA PlacesGrow ==
    ASSUME NEW m \in Nat, NEW n \in Nat, m <= n
    PROVE  Place[m] <= Place[n]
<1> DEFINE T == {d \in Nat : Place[m] <= Place[m + d]}
<1>1. 0 \in T
  BY Places
<1>2. ASSUME NEW d \in Nat, d \in T
      PROVE  d + 1 \in T
  <2>1. Place[(m + d) + 1] = Base * Place[m + d] /\ Place[m + d] \in Nat /\ Place[m] \in Nat
    BY Places
  <2>2. \A b, q \in Nat : b > 1 => q <= b * q
    OBVIOUS
  <2>3. Place[m + d] <= Base * Place[m + d] /\ (m + d) + 1 = m + (d + 1)
    BY <2>1, <2>2, VarintsAssumption
  <2>4. Base * Place[m + d] \in Nat
    BY <2>1, VarintsAssumption
  <2>5. QED
    BY <1>2, <2>1, <2>3, <2>4
<1>3. n - m \in T /\ m + (n - m) = n
  <2> HIDE DEF T
  <2>1. n - m \in Nat
    OBVIOUS
  <2>2. QED
    BY <1>1, <1>2, <2>1, InductionBySet
<1>4. QED
  BY <1>3

\* The bytes of y stand behind o.
WrittenIn(s, o, y) ==
    /\ o + Len(WrittenUvarint(y)) <= Len(s)
    /\ \A i \in 1 .. Len(WrittenUvarint(y)) : s[o + i] = WrittenUvarint(y)[i]

\* The digits from o to e complete the sum with y.
CompletesIn(s, p, o, y, e) ==
    /\ o < e /\ e <= Len(s)
    /\ FlaggedIn(s, p, e - 1)
    /\ s[e] < Base
    /\ y > 0 => s[e] > 0
    /\ SumIn(s, p, e - 1) + s[e] * Place[(e - 1) - p] = SumIn(s, p, o) + y * Place[o - p]

LEMMA WrittenShortIn ==
    ASSUME NEW s \in Seq(Nat), NEW p \in Nat, NEW o \in Nat, p <= o, NEW y \in Nat, y < Base,
           FlaggedIn(s, p, o), WrittenIn(s, o, y)
    PROVE  CompletesIn(s, p, o, y, o + Len(WrittenUvarint(y)))
<1>1. WrittenUvarint(y) = <<y>>
  BY WrittenIs
<1>2. Len(WrittenUvarint(y)) = 1 /\ WrittenUvarint(y)[1] = y
  BY <1>1
<1>3. s[o + 1] = y /\ o + 1 <= Len(s) /\ (o + 1) - 1 = o
  BY <1>2 DEF WrittenIn
<1>4. QED
  BY <1>2, <1>3 DEF CompletesIn

LEMMA WrittenLongerIn ==
    ASSUME NEW s \in Seq(Nat), NEW p \in Nat, NEW o \in Nat, p <= o, NEW y \in Nat, y >= Base,
           FlaggedIn(s, p, o), WrittenIn(s, o, y)
    PROVE  /\ y \div Base \in Nat /\ y \div Base > 0 /\ y \div Base < y
           /\ FlaggedIn(s, p, o + 1) /\ WrittenIn(s, o + 1, y \div Base)
           /\ o + Len(WrittenUvarint(y)) = (o + 1) + Len(WrittenUvarint(y \div Base))
           /\ SumIn(s, p, o + 1) + (y \div Base) * Place[(o + 1) - p] = SumIn(s, p, o) + y * Place[o - p]
<1> DEFINE r == y % Base
           q == y \div Base
           w == WrittenUvarint(q)
<1>0. Base \in Nat /\ Base > 1 /\ Len(s) \in Nat
  BY VarintsAssumption, LenProperties
<1>1. r \in Nat /\ r < Base /\ q \in Nat /\ q > 0 /\ q < y /\ y = r + q * Base
  <2>1. /\ r \in 0 .. Base - 1 /\ q \in Nat /\ y = r + q * Base
        /\ q < y /\ q >= 1
    BY DigitOf
  <2> HIDE DEF r, q
  <2>2. QED
    BY <1>0, <2>1
<1>2. WrittenUvarint(y) = <<Base + r>> \o w
  BY WrittenIs
<1>3. w \in Seq(Nat) /\ Len(w) \in Nat \ {0}
  BY <1>1, WrittenIs
<1> HIDE DEF r, q, w
<1>4. <<Base + r>> \in Seq(Nat) /\ Len(<<Base + r>>) = 1
  BY <1>0, <1>1
<1>5. /\ Len(WrittenUvarint(y)) = 1 + Len(w)
      /\ WrittenUvarint(y)[1] = Base + r
      /\ \A i \in 1 .. Len(w) : WrittenUvarint(y)[1 + i] = w[i]
  <2>1. /\ Len(<<Base + r>> \o w) = 1 + Len(w)
        /\ \A i \in 1 .. 1 + Len(w) : (<<Base + r>> \o w)[i] = IF i <= 1 THEN <<Base + r>>[i] ELSE w[i - 1]
    BY <1>3, <1>4, ConcatProperties
  <2>2. (<<Base + r>> \o w)[1] = Base + r
    BY <1>3, <2>1
  <2>3. ASSUME NEW i \in 1 .. Len(w)
        PROVE  (<<Base + r>> \o w)[1 + i] = w[i]
    <3>1. 1 + i \in 1 .. 1 + Len(w) /\ ~(1 + i <= 1) /\ (1 + i) - 1 = i
      BY <1>3
    <3>2. QED
      BY <2>1, <3>1
  <2>4. QED
    BY <1>2, <2>1, <2>2, <2>3
<1>6. o + (1 + Len(w)) = (o + 1) + Len(w) /\ o < Len(s) /\ (o + 1) + Len(w) <= Len(s)
  BY <1>0, <1>3, <1>5 DEF WrittenIn
<1>7. s[o + 1] = Base + r
  <2>1. 1 \in 1 .. Len(WrittenUvarint(y))
    BY <1>3, <1>5
  <2>2. QED
    BY <1>5, <2>1 DEF WrittenIn
<1>8. FlaggedIn(s, p, o + 1)
  <2>1. ASSUME NEW k \in p + 1 .. o + 1
        PROVE  s[k] >= Base
    <3>1. CASE k = o + 1
      BY <1>0, <1>1, <1>7, <3>1
    <3>2. CASE k # o + 1
      <4>1. k \in p + 1 .. o
        BY <3>2
      <4>2. QED
        BY <4>1 DEF FlaggedIn
    <3>3. QED
      BY <3>1, <3>2
  <2>2. QED
    BY <2>1 DEF FlaggedIn
<1>9. WrittenIn(s, o + 1, q)
  <2>1. ASSUME NEW i \in 1 .. Len(w)
        PROVE  s[(o + 1) + i] = w[i]
    <3>1. 1 + i \in 1 .. Len(WrittenUvarint(y)) /\ o + (1 + i) = (o + 1) + i
      BY <1>3, <1>5
    <3>2. s[o + (1 + i)] = WrittenUvarint(y)[1 + i]
      BY <3>1 DEF WrittenIn
    <3>3. QED
      BY <1>5, <3>1, <3>2
  <2>2. QED
    BY <1>6, <2>1 DEF WrittenIn, w
<1>10. SumIn(s, p, o + 1) + q * Place[(o + 1) - p] = SumIn(s, p, o) + y * Place[o - p]
  <2> DEFINE d == o - p
  <2>1. d \in Nat /\ (o + 1) - p = d + 1
    OBVIOUS
  <2>2. s[o + 1] % Base = r
    <3>1. \A b, c \in Nat : c < b => (b + c) % b = c
      OBVIOUS
    <3>2. QED
      BY <1>0, <1>1, <1>7, <3>1
  <2>3. /\ SumIn(s, p, o) \in Nat
        /\ SumIn(s, p, o + 1) = SumIn(s, p, o) + r * Place[d]
    BY <1>6, <2>2, SumMoreIn
  <2> HIDE DEF d
  <2>4. Place[d] \in Nat /\ Place[d + 1] = Base * Place[d]
    BY <2>1, Places
  <2>5. \A c, t, v, a, b \in Nat : (c + t * a) + v * (b * a) = c + (t + v * b) * a
    OBVIOUS
  <2>6. (SumIn(s, p, o) + r * Place[d]) + q * (Base * Place[d]) = SumIn(s, p, o) + (r + q * Base) * Place[d]
    BY <1>0, <1>1, <2>3, <2>4, <2>5
  <2>7. QED
    BY <1>1, <2>1, <2>3, <2>4, <2>6 DEF d
<1>11. QED
  BY <1>1, <1>5, <1>6, <1>8, <1>9, <1>10 DEF q, w

LEMMA WrittenCompletesIn ==
    ASSUME NEW s \in Seq(Nat), NEW p \in Nat, NEW x \in Nat, WrittenIn(s, p, x)
    PROVE  CompletesIn(s, p, p, x, p + Len(WrittenUvarint(x)))
<1> DEFINE T == {n \in Nat : \A y, o \in Nat :
                     y < n /\ p <= o /\ FlaggedIn(s, p, o) /\ WrittenIn(s, o, y) =>
                         CompletesIn(s, p, o, y, o + Len(WrittenUvarint(y)))}
<1>1. 0 \in T
  OBVIOUS
<1>2. ASSUME NEW n \in Nat, n \in T
      PROVE  n + 1 \in T
  <2>1. ASSUME NEW y \in Nat, NEW o \in Nat, y < n + 1, p <= o, FlaggedIn(s, p, o), WrittenIn(s, o, y)
        PROVE  CompletesIn(s, p, o, y, o + Len(WrittenUvarint(y)))
    <3>1. CASE y < Base
      BY <2>1, <3>1, WrittenShortIn
    <3>2. CASE ~(y < Base)
      <4> DEFINE q == y \div Base
                 e == o + Len(WrittenUvarint(y))
      <4>1. y >= Base
        BY <3>2, VarintsAssumption
      <4>2. /\ q \in Nat /\ q > 0 /\ q < y
            /\ FlaggedIn(s, p, o + 1) /\ WrittenIn(s, o + 1, q)
            /\ e = (o + 1) + Len(WrittenUvarint(q))
            /\ SumIn(s, p, o + 1) + q * Place[(o + 1) - p] = SumIn(s, p, o) + y * Place[o - p]
        BY <2>1, <4>1, WrittenLongerIn
      <4> HIDE DEF q, e
      <4>3. q < n /\ p <= o + 1 /\ o + 1 \in Nat
        BY <2>1, <4>2
      <4>4. CompletesIn(s, p, o + 1, q, e)
        BY <1>2, <4>2, <4>3
      <4>5. e \in Nat /\ o < e
        <5>1. Len(WrittenUvarint(q)) \in Nat
          BY <4>2, WrittenIs
        <5>2. QED
          BY <4>2, <5>1
      <4>6. CompletesIn(s, p, o, y, e)
        BY <4>2, <4>4, <4>5 DEF CompletesIn
      <4>7. QED
        BY <4>6 DEF e
    <3>3. QED
      BY <3>1, <3>2
  <2>2. QED
    BY <2>1
<1>3. x + 1 \in T
  <2> HIDE DEF T
  <2>1. QED
    BY <1>1, <1>2, InductionBySet
<1>4. FlaggedIn(s, p, p)
  BY DEF FlaggedIn
<1>5. QED
  BY <1>3, <1>4


\* Where the varint behind p ends.
EndsIn(s, p) == {k \in p + 1 .. Len(s) : s[k] < Base}

\* The bytes of a word end with the first without the flag, they are not too many, and their digits
\* sum up to the word, which is the varint's value for every reader (encoder.go:150-172).
LEMMA WordWritten ==
    ASSUME NEW s \in Seq(Nat), NEW p \in Nat, NEW x \in Uint, WrittenIn(s, p, x),
           NEW max \in Nat \ {0}, Half = Place[max - 1],
           NEW e, e = p + Len(WrittenUvarint(x))
    PROVE  /\ e \in p + 1 .. Len(s) /\ s[e] < Base /\ FlaggedIn(s, p, e - 1)
           /\ e \in EndsIn(s, p) /\ \A k \in EndsIn(s, p) : k \in Nat /\ e <= k
           /\ e - p <= max
           /\ SumIn(s, p, e) = x
<1> DEFINE o == e - 1
           d == o - p
           b == s[o + 1]
<1>0. /\ Half \in Nat /\ Half > 0 /\ Word = 2 * Half
      /\ Base \in Nat /\ Base > 1 /\ Len(s) \in Nat
  BY VarintsAssumption, LenProperties DEF Word
<1>1. x \in Nat /\ x < Word
  BY <1>0 DEF Uint
<1>2. CompletesIn(s, p, p, x, e)
  BY <1>1, WrittenCompletesIn
<1>3. e \in Nat
  <2>1. Len(WrittenUvarint(x)) \in Nat
    BY <1>1, WrittenIs
  <2>2. QED
    BY <2>1
<1>4. /\ o \in Nat /\ p <= o /\ o < Len(s) /\ o + 1 = e /\ d \in Nat /\ p + d = o
      /\ FlaggedIn(s, p, o) /\ b < Base /\ (x > 0 => b > 0)
      /\ SumIn(s, p, o) + b * Place[d] = SumIn(s, p, p) + x * Place[p - p]
  <2>1. o \in Nat /\ p <= o /\ o < Len(s) /\ o + 1 = e /\ d \in Nat /\ p + d = o
    BY <1>0, <1>2, <1>3 DEF CompletesIn
  <2>2. QED
    BY <1>2, <2>1 DEF CompletesIn
<1>5. SumIn(s, p, o) \in Nat /\ Place[d] \in Nat /\ b \in Nat
  <2>1. SumIn(s, p, p + d) \in Nat
    BY <1>0, <1>4, SumSmallIn
  <2>2. b \in Nat
    BY <1>4, DigitTyped
  <2>3. QED
    BY <1>4, <2>1, <2>2, Places
<1>6. SumIn(s, p, o) + b * Place[d] = x
  <2>1. SumIn(s, p, p) = 0 /\ p - p = 0 /\ Place[0] = 1
    BY SumNoneIn, Places
  <2>2. QED
    BY <1>1, <1>4, <2>1
<1>7. SumIn(s, p, e) = x
  <2>1. SumIn(s, p, o + 1) = SumIn(s, p, o) + (s[o + 1] % Base) * Place[o - p]
    BY <1>4, SumMoreIn
  <2>2. s[o + 1] % Base = b
    <3>1. \A u, v \in Nat : u < v => u % v = u
      OBVIOUS
    <3>2. QED
      BY <1>0, <1>4, <1>5, <3>1
  <2>3. QED
    BY <1>4, <1>6, <2>1, <2>2
<1>8. e \in EndsIn(s, p) /\ \A k \in EndsIn(s, p) : k \in Nat /\ e <= k
  <2>1. e \in p + 1 .. Len(s) /\ s[e] < Base
    BY <1>0, <1>3, <1>4
  <2>2. ASSUME NEW k \in EndsIn(s, p)
        PROVE  k \in Nat /\ e <= k
    <3>1. k \in p + 1 .. Len(s) /\ s[k] < Base
      BY DEF EndsIn
    <3>2. k \in 1 .. Len(s)
      BY <3>1
    <3>3. s[k] \in Nat
      BY <3>2, ElementOfSeq
    <3>4. ~(s[k] >= Base)
      BY <1>0, <3>1, <3>3
    <3>5. ~(k \in p + 1 .. o)
      BY <1>4, <3>4 DEF FlaggedIn
    <3>6. QED
      BY <1>3, <1>4, <3>1, <3>5
  <2>3. QED
    BY <2>1, <2>2 DEF EndsIn
<1> HIDE DEF b, o
<1>9. b * Place[d] <= x /\ b * Place[d] \in Nat
  <2>1. \A u, v \in Nat : u * v \in Nat
    OBVIOUS
  <2>2. b * Place[d] \in Nat
    BY <1>5, <2>1
  <2>3. QED
    BY <1>1, <1>5, <1>6, <2>2
<1>10. d <= max - 1
  <2> SUFFICES ASSUME d > max - 1
               PROVE  FALSE
    BY <1>4
  <2> DEFINE m == max - 1
  <2>1. m \in Nat /\ m + 1 \in Nat /\ m + 1 <= d
    BY <1>4
  <2>2. Place[m + 1] = Base * Half /\ Place[m + 1] <= Place[d]
    BY <1>0, <1>4, <2>1, Places, PlacesGrow
  <2>3. Place[d] >= Word
    <3>1. \A u, h \in Nat : u > 1 => u * h >= 2 * h /\ u * h \in Nat
      OBVIOUS
    <3>2. Base * Half >= 2 * Half /\ Base * Half \in Nat
      BY <1>0, <3>1
    <3>3. QED
      BY <1>0, <1>5, <2>2, <3>2
  <2>4. x > 0
    <3>1. ASSUME x = 0
          PROVE  FALSE
      <4>1. WrittenUvarint(x) = <<x>>
        <5>1. x < Base
          BY <1>0, <3>1
        <5>2. QED
          BY <1>1, <5>1, WrittenIs
      <4>2. Len(WrittenUvarint(x)) = 1
        BY <4>1
      <4>3. d = 0
        BY <4>2 DEF o
      <4>4. QED
        BY <2>1, <4>3
    <3>2. QED
      BY <1>1, <3>1
  <2>5. b > 0
    BY <1>4, <2>4
  <2>6. \A u, v \in Nat : u > 0 => u * v >= v
    OBVIOUS
  <2>7. b * Place[d] >= Place[d]
    BY <1>5, <2>5, <2>6
  <2>8. QED
    BY <1>0, <1>1, <1>5, <1>9, <2>3, <2>7
<1>11. e - p <= max
  BY <1>4, <1>10
<1>12. e \in p + 1 .. Len(s) /\ s[e] < Base
  BY <1>8 DEF EndsIn
<1>13. QED
  BY <1>4, <1>7, <1>8, <1>11, <1>12 DEF o

=============================================================================
