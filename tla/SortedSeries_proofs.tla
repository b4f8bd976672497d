------------------------ MODULE SortedSeries_proofs ------------------------
(***************************************************************************)
(* The differences of words are undone exactly, for every width, no decode *)
(* claims or writes more than there is memory for, and the columns of a    *)
(* destination stay of one length.  What was encoded is decoded as the     *)
(* same elements in order, and encoded again as the same bytes.            *)
(***************************************************************************)
EXTENDS SortedSeries, Facts_proofs

-----------------------------------------------------------------------------
\* The remainder of an integer less than one modulus away from the remainders.
LEMMA ModCases ==
    ASSUME NEW w \in Nat \ {0}
    PROVE  /\ \A x \in 0 .. w - 1 : x % w = x
           /\ \A x \in -w .. -1 : x % w = x + w
           /\ \A x \in w .. 2 * w - 1 : x % w = x - w
  OBVIOUS

\* The same for words.
LEMMA WordCases ==
    /\ Word \in Nat \ {0}
    /\ \A x \in 0 .. Word - 1 : x % Word = x
    /\ \A x \in -Word .. -1 : x % Word = x + Word
    /\ \A x \in Word .. 2 * Word - 1 : x % Word = x - Word
<1>1. Word \in Nat \ {0}
  BY VarintsAssumption DEF Word
<1> QED  BY <1>1, ModCases

\* readDelta and decodeUintDeltas add up to the unsigned words appendDelta took the differences
\* of, sorted or not: both wrap around alike (sorted/timeseries.go:99-121,
\* sorted/codecs.go:52-60,74-86).
THEOREM UintDeltaInverse ==
    \A v, prev \in Uint : PlusUint(prev, AsUint(v - prev)) = v
<1> SUFFICES ASSUME NEW v \in Uint, NEW prev \in Uint
             PROVE  PlusUint(prev, AsUint(v - prev)) = v
  OBVIOUS
<1>0. Word \in Nat \ {0} /\ v \in 0 .. Word - 1 /\ prev \in 0 .. Word - 1
  BY WordCases DEF Uint
<1>1. CASE v >= prev
  <2>1. v - prev \in 0 .. Word - 1
    BY <1>0, <1>1
  <2>2. AsUint(v - prev) = v - prev
    BY <2>1, WordCases DEF AsUint
  <2>3. prev + (v - prev) = v
    BY <1>0
  <2> QED  BY <1>0, <2>2, <2>3, WordCases DEF PlusUint, AsUint
<1>2. CASE v < prev
  <2>1. v - prev \in -Word .. -1
    BY <1>0, <1>2
  <2>2. AsUint(v - prev) = (v - prev) + Word
    BY <2>1, WordCases DEF AsUint
  <2>3. prev + ((v - prev) + Word) = v + Word /\ v + Word \in Word .. 2 * Word - 1
    BY <1>0
  <2>4. (v + Word) % Word = (v + Word) - Word
    BY <2>3, WordCases
  <2> QED  BY <1>0, <2>2, <2>3, <2>4 DEF PlusUint, AsUint
<1> QED  BY <1>0, <1>1, <1>2

-----------------------------------------------------------------------------
\* Wrapping an integer to a signed word gives one, which differs by a multiple of Word.
LEMMA AsSignedCases ==
    ASSUME NEW x \in -Word .. Word - 1
    PROVE  /\ AsSigned(x) \in Signed
           /\ \/ AsSigned(x) = x
              \/ x >= Half /\ AsSigned(x) = x - Word
              \/ x < -Half /\ AsSigned(x) = x + Word
<1>0. Half \in Nat \ {0} /\ Word = 2 * Half /\ Signed = -Half .. Half - 1
  BY VarintsAssumption DEF Word, Signed
<1>1. CASE x \in -Half .. Half - 1
  <2>1. x + Half \in 0 .. Word - 1
    BY <1>0, <1>1
  <2>2. (x + Half) % Word = x + Half
    BY <2>1, WordCases
  <2> QED  BY <1>0, <1>1, <2>2 DEF AsSigned
<1>2. CASE x >= Half
  <2>1. x + Half \in Word .. 2 * Word - 1
    BY <1>0, <1>2
  <2>2. (x + Half) % Word = (x + Half) - Word
    BY <2>1, WordCases
  <2> QED  BY <1>0, <1>2, <2>2 DEF AsSigned
<1>3. CASE x < -Half
  <2>1. x + Half \in -Word .. -1
    BY <1>0, <1>3
  <2>2. (x + Half) % Word = (x + Half) + Word
    BY <2>1, WordCases
  <2> QED  BY <1>0, <1>3, <2>2 DEF AsSigned
<1> QED  BY <1>0, <1>1, <1>2, <1>3

\* decodeIntDeltas adds up to the signed words appendIntDeltas took the differences of, although
\* a difference of two words need not fit in one (sorted/codecs.go:43-51,61-73).
THEOREM IntDeltaInverse ==
    \A v, prev \in Signed : PlusInt(prev, Unzigzag(Zigzag(AsSigned(v - prev)))) = v
<1> SUFFICES ASSUME NEW v \in Signed, NEW prev \in Signed
             PROVE  PlusInt(prev, Unzigzag(Zigzag(AsSigned(v - prev)))) = v
  OBVIOUS
<1> DEFINE d == AsSigned(v - prev)
<1>0. Half \in Nat \ {0} /\ Word = 2 * Half /\ Signed = -Half .. Half - 1
  BY VarintsAssumption DEF Word, Signed
<1>1. v - prev \in -Word .. Word - 1
  BY <1>0
<1>2. d \in Signed /\ (d = v - prev \/ d = v - prev - Word \/ d = v - prev + Word)
  BY <1>0, <1>1, AsSignedCases
<1>3. Unzigzag(Zigzag(d)) = d
  BY <1>2, ZigzagInverse
<1> HIDE DEF d
<1>4. AsSigned(prev + d) = v
  <2>1. prev + d \in -Word .. Word - 1
    BY <1>0, <1>2
  <2>2. AsSigned(prev + d) \in Signed
    BY <2>1, AsSignedCases
  <2> QED  BY <1>0, <1>2, <2>1, <2>2, AsSignedCases
<1> QED  BY <1>3, <1>4 DEF PlusInt, d

-----------------------------------------------------------------------------
(***************************************************************************)
(* Words as sets of bits.                                                  *)
(***************************************************************************)

LEMMA Weights == Weight[0] = 1 /\ \A b \in Nat : Weight[b] \in Nat /\ Weight[b + 1] = 2 * Weight[b]
<1>1. Powers(2, Weight)
  BY DEF Powers, Weight
<1> HIDE DEF Weight
<1>2. QED
  BY <1>1, PowersGo

LEMMA WeightsGrow ==
    ASSUME NEW m \in Nat, NEW n \in Nat, m <= n
    PROVE  1 <= Weight[m] /\ Weight[m] <= Weight[n]
<1> DEFINE T == {d \in Nat : 1 <= Weight[d]}
           U == {d \in Nat : Weight[m] <= Weight[m + d]}
<1>1. 0 \in T /\ \A d \in Nat : d \in T => d + 1 \in T
  BY Weights
<1>2. 0 \in U
  BY Weights
<1>3. ASSUME NEW d \in Nat, d \in U
      PROVE  d + 1 \in U
  <2>1. Weight[(m + d) + 1] = 2 * Weight[m + d] /\ Weight[m + d] \in Nat /\ Weight[m] \in Nat
    BY Weights
  <2>2. (m + d) + 1 = m + (d + 1)
    OBVIOUS
  <2>3. QED
    BY <1>3, <2>1, <2>2
<1>4. m \in T
  <2> HIDE DEF T
  <2>1. QED
    BY <1>1, InductionBySet
<1>5. n - m \in U /\ m + (n - m) = n
  <2> HIDE DEF U
  <2>1. n - m \in Nat
    OBVIOUS
  <2>2. QED
    BY <1>2, <1>3, <2>1, InductionBySet
<1>6. QED
  BY <1>4, <1>5

\* A set of bits is a natural.
LEMMA NumberType ==
    ASSUME NEW S \in SUBSET Nat, IsFiniteSet(S)
    PROVE  Number(S) \in Nat
<1> DEFINE F == [b \in S |-> Weight[b]]
<1>1. F \in [S -> Nat]
  BY Weights
<1> HIDE DEF F
<1>2. PICK g : PartSums(S, F, g) /\ SumFunction(F) = g[S]
  BY <1>1, SumFound
<1>3. SumFunction(F) \in Nat
  BY <1>2 DEF PartSums
<1>4. QED
  BY <1>3 DEF Number, F

LEMMA BitsType ==
    ASSUME NEW x
    PROVE  Bits(x) \in SUBSET Nat /\ IsFiniteSet(Bits(x))
<1>1. Word \in Nat
  BY WordCases
<1>2. Bits(x) \subseteq 0 .. Word - 1
  BY DEF Bits
<1>3. IsFiniteSet(0 .. Word - 1)
  BY <1>1, FS_Interval
<1>4. IsFiniteSet(Bits(x))
  BY <1>2, <1>3, FS_Subset
<1>5. 0 .. Word - 1 \subseteq Nat
  OBVIOUS
<1>6. QED
  BY <1>2, <1>4, <1>5

\* A number has no bits from its width on.
LEMMA BitsBelow ==
    ASSUME NEW n \in Nat, NEW x \in Nat, x < Weight[n]
    PROVE  \A b \in Bits(x) : b < n
<1> SUFFICES ASSUME NEW b \in Bits(x), b >= n
             PROVE  FALSE
  BY BitsType
<1>1. b \in Nat /\ (x \div Weight[b]) % 2 = 1
  BY BitsType DEF Bits
<1>2. Weight[b] \in Nat /\ x < Weight[b] /\ Weight[b] >= 1
  BY <1>1, Weights, WeightsGrow
<1>3. \A w \in Nat : x < w => x \div w = 0
  OBVIOUS
<1>4. (x \div Weight[b]) % 2 = 0
  BY <1>2, <1>3
<1>5. QED
  BY <1>1, <1>4

LEMMA XorType ==
    ASSUME NEW x, NEW y
    PROVE  Xor(x, y) \in Nat
<1>1. SymDiff(Bits(x), Bits(y)) \in SUBSET (Bits(x) \cup Bits(y))
  BY DEF SymDiff
<1>2. Bits(x) \cup Bits(y) \in SUBSET Nat /\ IsFiniteSet(Bits(x) \cup Bits(y))
  BY BitsType, FS_Union
<1>3. SymDiff(Bits(x), Bits(y)) \in SUBSET Nat /\ IsFiniteSet(SymDiff(Bits(x), Bits(y)))
  BY <1>1, <1>2, FS_Subset
<1>4. QED
  BY <1>3, NumberType DEF Xor

LEMMA ReversedType ==
    ASSUME NEW x \in Int
    PROVE  Reversed(x % Weight[FloatBits]) \in Nat
<1> DEFINE y == x % Weight[FloatBits]
           f == [b \in Bits(y) |-> FloatBits - 1 - b]
           S == {FloatBits - 1 - b : b \in Bits(y)}
<1>0. FloatBits \in Nat /\ Weight[FloatBits] \in Nat /\ Weight[FloatBits] >= 1
  BY SortedAssumption, Weights, WeightsGrow
<1>1. y \in Nat /\ y < Weight[FloatBits]
  BY <1>0
<1> HIDE DEF y
<1>2. \A b \in Bits(y) : b \in Nat /\ b < FloatBits
  BY <1>0, <1>1, BitsType, BitsBelow
<1>3. S \in SUBSET Nat
  <2>1. \A b \in Bits(y) : FloatBits - 1 - b \in Nat
    BY <1>0, <1>2
  <2>2. QED
    BY <2>1
<1>4. IsFiniteSet(S)
  <2>1. IsFiniteSet(Bits(y))
    BY BitsType
  <2>2. \A q \in S : q \in 0 .. FloatBits - 1
    BY <1>0, <1>2
  <2>3. IsFiniteSet(0 .. FloatBits - 1)
    BY <1>0, FS_Interval
  <2> HIDE DEF S
  <2>4. S \subseteq 0 .. FloatBits - 1
    BY <2>2
  <2>5. QED
    BY <2>3, <2>4, FS_Subset
<1> HIDE DEF S
<1>5. Number(S) \in Nat
  BY <1>3, <1>4, NumberType
<1>6. QED
  BY <1>5 DEF Reversed, S, y

LEMMA NumberStep ==
    ASSUME NEW S \in SUBSET Nat, IsFiniteSet(S)
    PROVE  /\ Number({}) = 0
           /\ \A b \in S : Number(S \ {b}) \in Nat /\ Number(S) = Weight[b] + Number(S \ {b})
<1>1. Number({}) = 0
  <2>1. DOMAIN [b \in {} |-> Weight[b]] = {}
    OBVIOUS
  <2>2. QED
    BY <2>1, SumOfNothing DEF Number
<1>2. ASSUME NEW b \in S
      PROVE  Number(S \ {b}) \in Nat /\ Number(S) = Weight[b] + Number(S \ {b})
  <2> DEFINE F == [x \in S |-> Weight[x]]
             R == S \ {b}
             G == [x \in R |-> Weight[x]]
  <2>1. R \in SUBSET S /\ R \in SUBSET Nat /\ IsFiniteSet(R)
    BY FS_Subset
  <2>2. F \in [S -> Nat] /\ G \in [R -> Nat] /\ F[b] = Weight[b] /\ \A x \in R : G[x] = F[x]
    BY <2>1, Weights
  <2>3. Number(S) = SumFunction(F) /\ Number(R) = SumFunction(G)
    BY DEF Number
  <2> HIDE DEF F, G
  <2>4. PICK g : PartSums(S, F, g) /\ SumFunction(F) = g[S]
    BY <2>2, SumFound
  <2>5. PICK h : PartSums(R, G, h) /\ SumFunction(G) = h[R]
    BY <2>1, <2>2, SumFound
  <2>6. h[R] = g[R]
    <3>1. Agree(R, g, h)
      <4>1. \A x \in R : G[x] = F[x]
        BY <2>2
      <4> HIDE DEF R
      <4>2. QED
        BY <2>1, <2>4, <2>5, <4>1, SumsAgree
    <3>2. QED
      BY <3>1 DEF Agree
  <2>7. g[S] = F[b] + g[R]
    <3>1. Removable(S, F, g)
      BY <2>4, SumRemoved
    <3>2. QED
      BY <3>1 DEF Removable
  <2>8. h[R] \in Nat
    BY <2>5 DEF PartSums
  <2>9. QED
    BY <2>2, <2>3, <2>4, <2>5, <2>6, <2>7, <2>8
<1>3. QED
  BY <1>1, <1>2

\* A bit counts an even number of times a lower one.
LEMMA WeightDivides ==
    ASSUME NEW m \in Nat, NEW n \in Nat, m < n
    PROVE  \E k \in Nat : Weight[n] = (2 * k) * Weight[m]
<1> DEFINE T == {d \in Nat : \E k \in Nat : Weight[(m + 1) + d] = (2 * k) * Weight[m]}
<1>1. 0 \in T
  <2>1. Weight[m + 1] = (2 * 1) * Weight[m] /\ (m + 1) + 0 = m + 1
    BY Weights
  <2>2. QED
    BY <2>1
<1>2. ASSUME NEW d \in Nat, d \in T
      PROVE  d + 1 \in T
  <2>1. PICK k \in Nat : Weight[(m + 1) + d] = (2 * k) * Weight[m]
    BY <1>2
  <2>2. Weight[((m + 1) + d) + 1] = 2 * Weight[(m + 1) + d] /\ Weight[m] \in Nat
    BY Weights
  <2>3. ((m + 1) + d) + 1 = (m + 1) + (d + 1)
    OBVIOUS
  <2>4. \A w \in Nat : 2 * ((2 * k) * w) = (2 * (2 * k)) * w
    OBVIOUS
  <2>5. Weight[(m + 1) + (d + 1)] = (2 * (2 * k)) * Weight[m]
    BY <2>1, <2>2, <2>3, <2>4
  <2>6. 2 * k \in Nat
    OBVIOUS
  <2>7. PICK j \in Nat : j = 2 * k
    BY <2>6
  <2>8. Weight[(m + 1) + (d + 1)] = (2 * j) * Weight[m]
    BY <2>5, <2>7
  <2>9. QED
    BY <2>8
<1>3. n - (m + 1) \in T /\ (m + 1) + (n - (m + 1)) = n
  <2> HIDE DEF T
  <2>1. n - (m + 1) \in Nat
    OBVIOUS
  <2>2. QED
    BY <1>1, <1>2, <2>1, InductionBySet
<1>4. QED
  BY <1>3

\* A higher bit does not change a lower one.
LEMMA HigherBit ==
    ASSUME NEW w \in Nat \ {0}, NEW k \in Nat, NEW x \in Nat
    PROVE  (((2 * k) * w + x) \div w) % 2 = (x \div w) % 2
<1> DEFINE q == x \div w
           r == x % w
<1>1. q \in Nat /\ r \in Nat /\ r < w /\ x = q * w + r
  OBVIOUS
<1> HIDE DEF q, r
<1>2. (2 * k) * w + x = (2 * k + q) * w + r
  <2>1. \A a, b, c \in Nat : a * c + (b * c + r) = (a + b) * c + r
    BY <1>1
  <2>2. QED
    BY <1>1, <2>1
<1>3. ((2 * k + q) * w + r) \div w = 2 * k + q
  <2>1. \A a \in Nat : (a * w + r) \div w = a
    BY <1>1
  <2>2. QED
    BY <1>1, <2>1
<1>4. (2 * k + q) % 2 = q % 2
  BY <1>1
<1>5. QED
  BY <1>2, <1>3, <1>4 DEF q

Bit(x, b) == (x \div Weight[b]) % 2 = 1

\* A number of n bits has the bits it was made of.
LEMMA NumberBits ==
    ASSUME NEW n \in Nat, NEW S \in SUBSET (0 .. n - 1)
    PROVE  /\ Number(S) \in Nat /\ Number(S) < Weight[n]
           /\ \A b \in Nat : Bit(Number(S), b) <=> b \in S
<1> DEFINE Good(m, R) == /\ Number(R) \in Nat /\ Number(R) < Weight[m]
                         /\ \A b \in Nat : Bit(Number(R), b) <=> b \in R
           T == {m \in Nat : \A R \in SUBSET (0 .. m - 1) : Good(m, R)}
<1>1. \A m \in Nat : \A x \in Nat : x < Weight[m] => \A b \in Nat : b >= m => ~Bit(x, b)
  <2>1. SUFFICES ASSUME NEW m \in Nat, NEW x \in Nat, x < Weight[m], NEW b \in Nat, b >= m
                 PROVE  ~Bit(x, b)
    OBVIOUS
  <2>2. Weight[m] \in Nat /\ Weight[b] \in Nat /\ x < Weight[b]
    BY <2>1, Weights, WeightsGrow
  <2>3. \A w \in Nat : x < w => x \div w = 0
    OBVIOUS
  <2>4. QED
    BY <2>2, <2>3 DEF Bit
<1>2. 0 \in T
  <2>1. Number({}) = 0 /\ Weight[0] = 1
    <3>1. {} \in SUBSET Nat /\ IsFiniteSet({})
      BY FS_EmptySet
    <3>2. QED
      BY <3>1, NumberStep, Weights
  <2>2. ASSUME NEW R \in SUBSET (0 .. 0 - 1)
        PROVE  Good(0, R)
    <3>1. R = {}
      OBVIOUS
    <3>2. Number(R) = 0 /\ 0 < Weight[0]
      BY <2>1, <3>1
    <3>3. \A b \in Nat : ~Bit(Number(R), b)
      BY <1>1, <3>2
    <3>4. QED
      BY <3>1, <3>2, <3>3
  <2>3. QED
    BY <2>2
<1>3. ASSUME NEW m \in Nat, m \in T
      PROVE  m + 1 \in T
  <2>1. ASSUME NEW R \in SUBSET (0 .. (m + 1) - 1)
        PROVE  Good(m + 1, R)
    <3>0. Weight[m] \in Nat /\ Weight[m + 1] = 2 * Weight[m] /\ 1 <= Weight[m]
      BY Weights, WeightsGrow
    <3>1. CASE m \notin R
      <4>1. R \in SUBSET (0 .. m - 1)
        BY <3>1
      <4>2. Good(m, R)
        BY <1>3, <4>1
      <4>3. QED
        BY <3>0, <4>2
    <3>2. CASE m \in R
      <4> DEFINE Q == R \ {m}
      <4>1. Q \in SUBSET (0 .. m - 1)
        OBVIOUS
      <4>2. Good(m, Q)
        BY <1>3, <4>1
      <4>3. Number(R) = Weight[m] + Number(Q)
        <5>1. R \in SUBSET Nat
          OBVIOUS
        <5>2. IsFiniteSet(0 .. (m + 1) - 1)
          BY FS_Interval
        <5>3. IsFiniteSet(R)
          BY <5>2, FS_Subset
        <5>4. QED
          BY <3>2, <5>1, <5>3, NumberStep
      <4>4. Number(R) \in Nat /\ Number(R) < Weight[m + 1]
        BY <3>0, <4>2, <4>3
      <4>5. ASSUME NEW b \in Nat
            PROVE  Bit(Number(R), b) <=> b \in R
        <5>1. CASE b < m
          <6>1. PICK k \in Nat : Weight[m] = (2 * k) * Weight[b]
            BY <5>1, WeightDivides
          <6>2. Weight[b] \in Nat \ {0}
            BY Weights, WeightsGrow
          <6>3. Bit(Number(R), b) <=> Bit(Number(Q), b)
            <7>1. (((2 * k) * Weight[b] + Number(Q)) \div Weight[b]) % 2 = (Number(Q) \div Weight[b]) % 2
              BY <4>2, <6>2, HigherBit
            <7>2. Number(R) = (2 * k) * Weight[b] + Number(Q)
              BY <4>3, <6>1
            <7>3. QED
              BY <7>1, <7>2, Zenon DEF Bit
          <6>4. QED
            BY <4>2, <5>1, <6>3
        <5>2. CASE b = m
          <6>1. \A w, x \in Nat : x < w => (w + x) \div w = 1
            <7>1. SUFFICES ASSUME NEW w \in Nat, NEW x \in Nat, x < w
                           PROVE  (w + x) \div w = 1
              OBVIOUS
            <7>2. (1 * w + x) \div w = 1
              BY <7>1
            <7>3. QED
              BY <7>2
          <6>2. Number(R) \div Weight[m] = 1
            BY <3>0, <4>2, <4>3, <6>1
          <6>3. QED
            BY <3>2, <5>2, <6>2 DEF Bit
        <5>3. CASE b > m
          <6>1. ~Bit(Number(R), b)
            BY <1>1, <4>4, <5>3
          <6>2. b \notin R
            BY <5>3
          <6>3. QED
            BY <6>1, <6>2
        <5>4. QED
          BY <5>1, <5>2, <5>3
      <4>6. QED
        BY <4>4, <4>5
    <3>3. QED
      BY <3>1, <3>2
  <2>2. QED
    BY <2>1
<1>4. n \in T
  <2> HIDE DEF T
  <2>1. QED
    BY <1>2, <1>3, InductionBySet
<1>5. QED
  BY <1>4

BitsTo(n, x) == {b \in 0 .. n - 1 : Bit(x, b)}

\* A number is the sum of its bits.
LEMMA NumberOfBits ==
    ASSUME NEW n \in Nat, NEW x \in Nat, x < Weight[n]
    PROVE  Number(BitsTo(n, x)) = x
<1> DEFINE T == {m \in Nat : \A y \in Nat : y < Weight[m] => Number(BitsTo(m, y)) = y}
<1>1. 0 \in T
  <2>1. ASSUME NEW y \in Nat, y < Weight[0]
        PROVE  Number(BitsTo(0, y)) = y
    <3>1. y = 0 /\ BitsTo(0, y) = {}
      BY <2>1, Weights DEF BitsTo
    <3>2. {} \in SUBSET Nat /\ IsFiniteSet({})
      BY FS_EmptySet
    <3>3. QED
      BY <3>1, <3>2, NumberStep
  <2>2. QED
    BY <2>1
<1>2. ASSUME NEW m \in Nat, m \in T
      PROVE  m + 1 \in T
  <2>0. Weight[m] \in Nat /\ Weight[m + 1] = 2 * Weight[m] /\ 1 <= Weight[m]
    BY Weights, WeightsGrow
  <2>1. ASSUME NEW y \in Nat, y < Weight[m + 1]
        PROVE  Number(BitsTo(m + 1, y)) = y
    <3>1. CASE y < Weight[m]
      <4>1. y \div Weight[m] = 0
        <5>1. \A w \in Nat : y < w => y \div w = 0
          OBVIOUS
        <5>2. QED
          BY <2>0, <3>1, <5>1
      <4>2. ~Bit(y, m)
        BY <4>1 DEF Bit
      <4>3. BitsTo(m + 1, y) = BitsTo(m, y)
        BY <4>2 DEF BitsTo
      <4>4. QED
        BY <1>2, <3>1, <4>3
    <3>2. CASE ~(y < Weight[m])
      <4>1. PICK z \in Nat : z = y - Weight[m]
        BY <2>0, <3>2
      <4>2. z < Weight[m] /\ y = Weight[m] + z
        BY <2>0, <2>1, <4>1
      <4>3. Bit(y, m)
        <5>1. \A w \in Nat : z < w => (1 * w + z) \div w = 1
          OBVIOUS
        <5>2. (1 * Weight[m] + z) \div Weight[m] = 1
          BY <2>0, <4>2, <5>1
        <5>3. 1 * Weight[m] + z = y
          BY <2>0, <4>2
        <5>4. QED
          BY <5>2, <5>3 DEF Bit
      <4>4. ASSUME NEW b \in 0 .. m - 1
            PROVE  Bit(y, b) <=> Bit(z, b)
        <5>1. b \in Nat /\ b < m
          OBVIOUS
        <5>2. PICK k \in Nat : Weight[m] = (2 * k) * Weight[b]
          BY <5>1, WeightDivides
        <5>3. Weight[b] \in Nat \ {0}
          BY <5>1, Weights, WeightsGrow
        <5>4. QED
          <6>1. (((2 * k) * Weight[b] + z) \div Weight[b]) % 2 = (z \div Weight[b]) % 2
            BY <5>3, HigherBit
          <6>2. y = (2 * k) * Weight[b] + z
            BY <4>2, <5>2
          <6>3. QED
            BY <6>1, <6>2, Zenon DEF Bit
      <4>5. /\ m \in BitsTo(m + 1, y)
            /\ BitsTo(m + 1, y) \ {m} = BitsTo(m, z)
        <5>1. m \in 0 .. (m + 1) - 1 /\ \A b \in 0 .. (m + 1) - 1 : b # m <=> b \in 0 .. m - 1
          OBVIOUS
        <5>2. \A b \in 0 .. m - 1 : b \in 0 .. (m + 1) - 1
          OBVIOUS
        <5>3. QED
          BY <4>3, <4>4, <5>1, <5>2 DEF BitsTo
      <4>6. BitsTo(m + 1, y) \in SUBSET Nat /\ IsFiniteSet(BitsTo(m + 1, y))
        <5>1. BitsTo(m + 1, y) \subseteq 0 .. (m + 1) - 1 /\ IsFiniteSet(0 .. (m + 1) - 1)
          BY FS_Interval DEF BitsTo
        <5>2. IsFiniteSet(BitsTo(m + 1, y))
          BY <5>1, FS_Subset
        <5>3. QED
          BY <5>1, <5>2
      <4>7. Number(BitsTo(m + 1, y)) = Weight[m] + Number(BitsTo(m, z))
        BY <4>5, <4>6, NumberStep
      <4>8. QED
        BY <1>2, <4>2, <4>7
    <3>3. QED
      BY <3>1, <3>2
  <2>2. QED
    BY <2>1
<1>3. n \in T
  <2> HIDE DEF T
  <2>1. QED
    BY <1>1, <1>2, InductionBySet
<1>4. QED
  BY <1>3

\* The width of a float is less than what it counts.
LEMMA FloatFits ==
    /\ FloatBits \in Nat /\ Weight[FloatBits] \in Nat /\ 0 < Weight[FloatBits]
    /\ FloatBits < Word /\ Weight[FloatBits] <= Word /\ Word \in Nat
<1> DEFINE T == {n \in Nat : n < Weight[n]}
<1>1. 0 \in T
  BY Weights
<1>2. ASSUME NEW n \in Nat, n \in T
      PROVE  n + 1 \in T
  <2>1. Weight[n + 1] = 2 * Weight[n] /\ Weight[n] \in Nat
    BY Weights
  <2>2. QED
    BY <1>2, <2>1
<1>3. FloatBits \in T
  <2>1. FloatBits \in Nat
    BY SortedAssumption
  <2> HIDE DEF T
  <2>2. QED
    BY <1>1, <1>2, <2>1, InductionBySet
<1>4. /\ FloatBits \in Nat /\ Weight[FloatBits] \in Nat /\ FloatBits < Weight[FloatBits]
      /\ Weight[FloatBits] <= Word /\ Word \in Nat
  BY <1>3, SortedAssumption, Weights, WordCases
<1>5. QED
  BY <1>4

\* The numbers a float's bits are.
Float == {x \in Nat : x < Weight[FloatBits]}

LEMMA FloatWords == Float \subseteq Uint /\ 0 \in Float
<1>1. \A x \in Nat : x < Weight[FloatBits] => x \in 0 .. Word - 1
  BY FloatFits
<1>2. QED
  BY <1>1, FloatFits DEF Float, Uint

LEMMA BitsOfFloat ==
    ASSUME NEW x \in Float
    PROVE  Bits(x) \in SUBSET (0 .. FloatBits - 1) /\ Number(Bits(x)) = x
<1>1. x \in Nat /\ x < Weight[FloatBits]
  BY DEF Float
<1>2. \A b \in Bits(x) : b < FloatBits
  BY <1>1, FloatFits, BitsBelow
<1>3. Bits(x) = {b \in 0 .. Word - 1 : Bit(x, b)}
  BY DEF Bits, Bit
<1>4. Bits(x) = BitsTo(FloatBits, x)
  <2>1. \A b \in 0 .. FloatBits - 1 : b \in 0 .. Word - 1
    BY FloatFits
  <2>2. \A b \in Bits(x) : b \in 0 .. FloatBits - 1
    <3>1. \A b \in Bits(x) : b \in Nat
      BY BitsType
    <3>2. QED
      BY <1>2, <3>1, FloatFits
  <2>3. QED
    BY <1>3, <2>1, <2>2 DEF BitsTo
<1>5. Number(BitsTo(FloatBits, x)) = x
  BY <1>1, FloatFits, NumberOfBits
<1>6. QED
  BY <1>4, <1>5 DEF BitsTo

LEMMA FloatOfBits ==
    ASSUME NEW S \in SUBSET (0 .. FloatBits - 1)
    PROVE  Number(S) \in Float /\ Bits(Number(S)) = S
<1>1. /\ Number(S) \in Nat /\ Number(S) < Weight[FloatBits]
      /\ \A b \in Nat : Bit(Number(S), b) <=> b \in S
  BY FloatFits, NumberBits
<1>2. \A b \in 0 .. Word - 1 : b \in Nat
  BY FloatFits
<1>3. \A b \in S : b \in 0 .. Word - 1
  BY FloatFits
<1>4. Bits(Number(S)) = {b \in 0 .. Word - 1 : Bit(Number(S), b)}
  BY DEF Bits, Bit
<1>5. Bits(Number(S)) = S
  BY <1>1, <1>2, <1>3, <1>4
<1>6. QED
  BY <1>1, <1>5 DEF Float

\* The loop at the end of tszCodec.DecodeTo undoes the exclusive or the encoder made
\* (sorted/timeseries.go:35-42,74-86).
LEMMA XorInverse ==
    \A x, prev \in Float : Xor(x, prev) \in Float /\ Xor(prev, Xor(x, prev)) = x
<1> SUFFICES ASSUME NEW x \in Float, NEW y \in Float
             PROVE  Xor(x, y) \in Float /\ Xor(y, Xor(x, y)) = x
  OBVIOUS
<1>1. PICK A, B : A = Bits(x) /\ B = Bits(y)
  OBVIOUS
<1>2. /\ A \in SUBSET (0 .. FloatBits - 1) /\ B \in SUBSET (0 .. FloatBits - 1)
      /\ Number(A) = x /\ Number(B) = y
  BY <1>1, BitsOfFloat
<1>3. SymDiff(A, B) \in SUBSET (0 .. FloatBits - 1) /\ SymDiff(B, SymDiff(A, B)) = A
  BY <1>2 DEF SymDiff
<1>4. Number(SymDiff(A, B)) \in Float /\ Bits(Number(SymDiff(A, B))) = SymDiff(A, B)
  BY <1>3, FloatOfBits
<1>5. Xor(x, y) = Number(SymDiff(A, B))
  BY <1>1 DEF Xor
<1>6. Xor(y, Xor(x, y)) = Number(SymDiff(B, SymDiff(A, B)))
  BY <1>1, <1>4, <1>5 DEF Xor
<1>7. QED
  BY <1>2, <1>3, <1>4, <1>5, <1>6

\* bits.Reverse32 is its own inverse.
LEMMA ReversedInverse ==
    \A x \in Float : Reversed(x) \in Float /\ Reversed(Reversed(x)) = x
<1> SUFFICES ASSUME NEW x \in Float
             PROVE  Reversed(x) \in Float /\ Reversed(Reversed(x)) = x
  OBVIOUS
<1> DEFINE R(S) == {FloatBits - 1 - b : b \in S}
<1>1. PICK A : A = Bits(x)
  OBVIOUS
<1>2. A \in SUBSET (0 .. FloatBits - 1) /\ Number(A) = x
  BY <1>1, BitsOfFloat
<1>3. \A b \in 0 .. FloatBits - 1 : FloatBits - 1 - b \in 0 .. FloatBits - 1 /\ FloatBits - 1 - (FloatBits - 1 - b) = b
  BY FloatFits
<1>4. R(A) \in SUBSET (0 .. FloatBits - 1)
  BY <1>2, <1>3
<1>5. R(R(A)) = A
  BY <1>2, <1>3
<1>6. Number(R(A)) \in Float /\ Bits(Number(R(A))) = R(A)
  <2> HIDE DEF R
  <2>1. QED
    BY <1>4, FloatOfBits
<1>7. \A y : Reversed(y) = Number(R(Bits(y)))
  BY DEF Reversed
<1> HIDE DEF R
<1>8. Reversed(x) = Number(R(A))
  BY <1>1, <1>7
<1>9. Reversed(Reversed(x)) = Number(R(R(A)))
  BY <1>6, <1>7, <1>8
<1>10. QED
  BY <1>2, <1>5, <1>6, <1>8, <1>9

\* A float64 made of a float32 loses nothing when it is rounded.
LEMMA SingleDouble ==
    /\ \A v \in Int : Single(v) \in Float /\ Double(Single(v)) \in Int
    /\ \A f \in Float : Single(Double(f)) = f /\ f % Weight[FloatBits] = f
<1>1. ASSUME NEW v \in Int
      PROVE  Single(v) \in Float /\ Double(Single(v)) \in Int
  <2>1. v \div 2 \in Int
    OBVIOUS
  <2>2. \A z \in Int, w \in Nat : w > 0 => z % w \in Nat /\ z % w < w
    OBVIOUS
  <2>3. (v \div 2) % Weight[FloatBits] \in Float
    BY <2>1, <2>2, FloatFits DEF Float
  <2>4. QED
    BY <2>3 DEF Single, Double, Float
<1>2. ASSUME NEW f \in Float
      PROVE  Single(Double(f)) = f /\ f % Weight[FloatBits] = f
  <2>1. f \in Nat /\ f < Weight[FloatBits]
    BY DEF Float
  <2>2. (2 * f) \div 2 = f
    BY <2>1
  <2>3. \A w \in Nat : f < w => f % w = f
    BY <2>1
  <2>4. f % Weight[FloatBits] = f
    BY <2>1, <2>3, FloatFits
  <2>5. QED
    BY <2>2, <2>4 DEF Single, Double
<1>3. QED
  BY <1>1, <1>2

-----------------------------------------------------------------------------
(***************************************************************************)
(* What is written are bytes, and a sort keeps the columns' lengths.       *)
(***************************************************************************)
Columns == [time : Seq(Times(kind)), data : Seq(Data(kind))]
Wires   == [count : Nat, size : Nat, bytes : Seq(Nat)]

LEMMA NumbersGiven ==
    \A k : /\ 0 \in Times(k) /\ Times(k) \subseteq Int
          /\ 0 \in Data(k) /\ Data(k) \subseteq Int
<1>1. /\ HalfElem \in Nat /\ HalfElem > 0 /\ Half \in Nat /\ Half > 0 /\ Word = 2 * Half
  BY SortedAssumption, VarintsAssumption DEF Word
<1>2. /\ Uint \subseteq Int /\ Signed \subseteq Int /\ 0 \in Uint /\ 0 \in Signed
      /\ -HalfElem .. HalfElem - 1 \subseteq Int /\ 0 \in -HalfElem .. HalfElem - 1
      /\ 0 .. 2 * HalfElem - 1 \subseteq Int /\ 0 \in 0 .. 2 * HalfElem - 1
  BY <1>1 DEF Uint, Signed
<1>3. QED
  BY <1>2, Zenon DEF Times, Data

LEMMA ColumnsGiven ==
    ASSUME NEW v \in Columns
    PROVE  v.time \in Seq(Int) /\ v.data \in Seq(Int)
<1>1. v.time \in Seq(Times(kind)) /\ v.data \in Seq(Data(kind))
  BY DEF Columns
<1>2. Times(kind) \subseteq Int /\ Data(kind) \subseteq Int
  BY NumbersGiven
<1>3. QED
  BY <1>1, <1>2, SeqMonotonic

\* A column of varints, whatever they are of.
LEMMA Varying ==
    ASSUME NEW n \in Nat, NEW F \in [1 .. n -> Nat]
    PROVE  FlattenSeq([i \in 1 .. n |-> WrittenUvarint(F[i])]) \in Seq(Nat)
<1> DEFINE ws == [i \in 1 .. n |-> WrittenUvarint(F[i])]
<1>1. \A i \in 1 .. n : F[i] \in Nat
  OBVIOUS
<1>2. \A i \in 1 .. n : WrittenUvarint(F[i]) \in Seq(Nat)
  BY <1>1, WrittenIs
<1>3. ws \in Seq(Seq(Nat))
  BY <1>2
<1> HIDE DEF ws
<1>4. FlattenSeq(ws) \in Seq(Nat)
  BY <1>3, FlattenElements
<1>5. QED
  BY <1>4 DEF ws

LEMMA UintDeltasType ==
    ASSUME NEW s \in Seq(Int)
    PROVE  AppendUintDeltas(s) \in Seq(Nat)
<1> DEFINE F == [i \in 1 .. Len(s) |-> AsUint(s[i] - (IF i = 1 THEN 0 ELSE s[i - 1]))]
<1>1. Len(s) \in Nat /\ DOMAIN s = 1 .. Len(s)
  BY LenProperties
<1>2. ASSUME NEW i \in 1 .. Len(s)
      PROVE  AsUint(s[i] - (IF i = 1 THEN 0 ELSE s[i - 1])) \in Nat
  <2>1. s[i] \in Int
    BY <1>1, ElementOfSeq
  <2>2. (IF i = 1 THEN 0 ELSE s[i - 1]) \in Int
    <3>1. i # 1 => i - 1 \in 1 .. Len(s)
      BY <1>1
    <3>2. i # 1 => s[i - 1] \in Int
      BY <1>1, <3>1, ElementOfSeq
    <3>3. QED
      BY <3>2
  <2>3. \A x, y \in Int : \A w \in Nat \ {0} : (x - y) % w \in Nat
    OBVIOUS
  <2>4. QED
    BY <2>1, <2>2, <2>3, WordCases DEF AsUint
<1>3. F \in [1 .. Len(s) -> Nat]
  BY <1>2
<1>4. AppendUintDeltas(s) = FlattenSeq([i \in 1 .. Len(s) |-> WrittenUvarint(F[i])])
  <2>1. AppendUintDeltas(s) =
            FlattenSeq([i \in DOMAIN s |-> WrittenUvarint(AsUint(s[i] - (IF i = 1 THEN 0 ELSE s[i - 1])))])
    BY DEF AppendUintDeltas, Deltas
  <2>2. [i \in DOMAIN s |-> WrittenUvarint(AsUint(s[i] - (IF i = 1 THEN 0 ELSE s[i - 1])))]
            = [i \in 1 .. Len(s) |-> WrittenUvarint(F[i])]
    BY <1>1
  <2>3. QED
    BY <2>1, <2>2
<1> HIDE DEF F
<1>5. QED
  BY <1>1, <1>3, <1>4, Varying

LEMMA IntDeltasType ==
    ASSUME NEW s \in Seq(Int)
    PROVE  AppendIntDeltas(s) \in Seq(Nat)
<1> DEFINE Put(x)  == Zigzag(AsSigned(x))
           F == [i \in 1 .. Len(s) |-> Put(s[i] - (IF i = 1 THEN 0 ELSE s[i - 1]))]
<1>1. Len(s) \in Nat /\ DOMAIN s = 1 .. Len(s)
  BY LenProperties
<1>2. \A x \in Int : Put(x) \in Nat
  <2>1. ASSUME NEW x \in Int
        PROVE  AsSigned(x) \in Signed
    <3>1. \A w \in Nat \ {0} : (x + Half) % w \in 0 .. w - 1
      BY VarintsAssumption
    <3>2. (x + Half) % Word \in 0 .. Word - 1
      BY <3>1, WordCases
    <3>3. QED
      BY <3>2, VarintsAssumption DEF AsSigned, Signed, Word
  <2>2. Uint \subseteq Nat
    BY WordCases DEF Uint
  <2>3. QED
    BY <2>1, <2>2, ZigzagType
<1>3. ASSUME NEW i \in 1 .. Len(s)
      PROVE  s[i] - (IF i = 1 THEN 0 ELSE s[i - 1]) \in Int
  <2>1. s[i] \in Int
    BY <1>1, ElementOfSeq
  <2>2. (IF i = 1 THEN 0 ELSE s[i - 1]) \in Int
    <3>1. i # 1 => i - 1 \in 1 .. Len(s)
      BY <1>1
    <3>2. i # 1 => s[i - 1] \in Int
      BY <1>1, <3>1, ElementOfSeq
    <3>3. QED
      BY <3>2
  <2>3. QED
    BY <2>1, <2>2
<1>4. AppendIntDeltas(s) = FlattenSeq([i \in 1 .. Len(s) |-> WrittenUvarint(F[i])])
  <2>1. AppendIntDeltas(s) =
            FlattenSeq([i \in DOMAIN s |-> WrittenUvarint(Put(s[i] - (IF i = 1 THEN 0 ELSE s[i - 1])))])
    BY DEF AppendIntDeltas, Deltas
  <2> HIDE DEF Put
  <2>2. [i \in DOMAIN s |-> WrittenUvarint(Put(s[i] - (IF i = 1 THEN 0 ELSE s[i - 1])))]
            = [i \in 1 .. Len(s) |-> WrittenUvarint(F[i])]
    BY <1>1
  <2>3. QED
    BY <2>1, <2>2
<1> HIDE DEF Put
<1>5. F \in [1 .. Len(s) -> Nat]
  BY <1>2, <1>3
<1> HIDE DEF F
<1>6. QED
  BY <1>1, <1>4, <1>5, Varying

LEMMA XorsType ==
    ASSUME NEW s \in Seq(Int)
    PROVE  AppendXors(s) \in Seq(Nat)
<1> DEFINE r == [i \in DOMAIN s |-> Reversed(Single(s[i]))]
           F == [i \in 1 .. Len(s) |-> Xor(r[i], IF i = 1 THEN 0 ELSE r[i - 1])]
<1>1. Len(s) \in Nat /\ DOMAIN s = 1 .. Len(s)
  BY LenProperties
<1>2. F \in [1 .. Len(s) -> Nat]
  BY XorType
<1>3. AppendXors(s) = FlattenSeq([i \in 1 .. Len(s) |-> WrittenUvarint(F[i])])
  <2>1. AppendXors(s) =
            FlattenSeq([i \in DOMAIN r |-> WrittenUvarint(Xor(r[i], IF i = 1 THEN 0 ELSE r[i - 1]))])
    BY DEF AppendXors, Deltas
  <2>2. DOMAIN r = 1 .. Len(s)
    BY <1>1
  <2> HIDE DEF r
  <2>3. [i \in DOMAIN r |-> WrittenUvarint(Xor(r[i], IF i = 1 THEN 0 ELSE r[i - 1]))]
            = [i \in 1 .. Len(s) |-> WrittenUvarint(F[i])]
    BY <2>2
  <2>4. QED
    BY <2>1, <2>3
<1> HIDE DEF F
<1>4. QED
  BY <1>1, <1>2, <1>3, Varying

LEMMA FramedType ==
    ASSUME NEW v \in Columns
    PROVE  Framed(v) \in Wires /\ Framed(v).size = Len(Framed(v).bytes)
<1>1. v.time \in Seq(Int) /\ v.data \in Seq(Int)
  BY ColumnsGiven
<1>2. /\ AppendIntDeltas(v.time) \in Seq(Nat) /\ AppendUintDeltas(v.time) \in Seq(Nat)
      /\ AppendUintDeltas(v.data) \in Seq(Nat) /\ AppendXors(v.data) \in Seq(Nat)
  BY <1>1, IntDeltasType, UintDeltasType, XorsType
<1>3. EncodedBytes(v) \in Seq(Nat)
  <2>1. /\ AppendUintDeltas(v.time) \o AppendUintDeltas(v.data) \in Seq(Nat)
        /\ AppendUintDeltas(v.time) \o AppendXors(v.data) \in Seq(Nat)
    BY <1>2, ConcatProperties
  <2>2. QED
    BY <1>2, <2>1, Zenon DEF EncodedBytes
<1>4. Len(EncodedBytes(v)) \in Nat /\ Len(v.time) \in Nat
  BY <1>1, <1>3, LenProperties
<1>5. QED
  BY <1>3, <1>4 DEF Framed, Wires

LEMMA SortsType ==
    ASSUME NEW v \in Columns, Len(v.data) = Len(v.time) \/ v.data = <<>>, NEW u \in Sorts(v)
    PROVE  u \in Columns /\ Len(u.time) = Len(v.time) /\ Len(u.data) = Len(v.data)
<1>1. v.time \in Seq(Times(kind)) /\ v.data \in Seq(Data(kind))
  BY DEF Columns
<1>2. CASE u = v
  BY <1>2
<1>3. ASSUME NEW p \in Bijection(DOMAIN v.time, DOMAIN v.time), u = Permuted(v, p)
      PROVE  u \in Columns /\ Len(u.time) = Len(v.time) /\ Len(u.data) = Len(v.data)
  <2>0. /\ Len(v.time) \in Nat /\ DOMAIN v.time = 1 .. Len(v.time)
        /\ Len(v.data) \in Nat /\ DOMAIN v.data = 1 .. Len(v.data)
    BY <1>1, LenProperties
  <2>1. p \in [1 .. Len(v.time) -> 1 .. Len(v.time)]
    BY <2>0 DEF Bijection, Injection
  <2>2. /\ u.time = [i \in 1 .. Len(v.time) |-> v.time[p[i]]]
        /\ u.data = [i \in 1 .. Len(v.data) |-> v.data[p[i]]]
        /\ u = [time |-> u.time, data |-> u.data]
    BY <1>3, <2>0 DEF Permuted
  <2>3. ASSUME NEW i \in 1 .. Len(v.time)
        PROVE  v.time[p[i]] \in Times(kind)
    BY <1>1, <2>0, <2>1, ElementOfSeq
  <2>4. ASSUME NEW i \in 1 .. Len(v.data)
        PROVE  v.data[p[i]] \in Data(kind)
    <3>1. Len(v.data) = Len(v.time)
      <4>1. v.data # <<>>
        BY <2>0
      <4>2. QED
        BY <4>1
    <3>2. p[i] \in 1 .. Len(v.data)
      BY <2>1, <3>1
    <3>3. QED
      BY <1>1, <3>2, ElementOfSeq
  <2>5. u.time \in Seq(Times(kind)) /\ Len(u.time) = Len(v.time)
    BY <2>0, <2>2, <2>3
  <2>6. u.data \in Seq(Data(kind)) /\ Len(u.data) = Len(v.data)
    BY <2>0, <2>2, <2>4
  <2>7. QED
    BY <2>2, <2>5, <2>6 DEF Columns
<1>4. QED
  BY <1>2, <1>3 DEF Sorts

-----------------------------------------------------------------------------
(***************************************************************************)
(* Reading: a loop is a step taken again and again.                        *)
(***************************************************************************)
Forms    == {"uint", "int", "xor"}
\* What the decoders make of differences.
Results(form)  == IF form = "uint" THEN Uint ELSE IF form = "int" THEN Signed ELSE Nat
Readings(form) == [values : Seq(Results(form)), prev : Results(form), at : Nat, ok : BOOLEAN]

LEMMA ResultsGiven ==
    ASSUME NEW form \in Forms
    PROVE  0 \in Results(form) /\ Results(form) \subseteq Int
<1>1. Half \in Nat /\ Half > 0 /\ Word = 2 * Half
  BY VarintsAssumption DEF Word
<1>2. Uint \subseteq Int /\ Signed \subseteq Int /\ Nat \subseteq Int
  BY <1>1 DEF Uint, Signed
<1>3. 0 \in Uint /\ 0 \in Signed
  BY <1>1 DEF Uint, Signed
<1>4. QED
  BY <1>2, <1>3 DEF Results


\* A varint ends inside the bytes, with one below Base.
LEMMA UvarintType ==
    ASSUME NEW bytes \in Seq(Nat), NEW at \in Nat
    PROVE  /\ Uvarint(bytes, at).n \in Nat /\ Uvarint(bytes, at).value \in Uint
           /\ Uvarint(bytes, at).n > 0 =>
                 /\ at + Uvarint(bytes, at).n \in at + 1 .. Len(bytes)
                 /\ bytes[at + Uvarint(bytes, at).n] < Base
<1> DEFINE ends == {k \in at + 1 .. Len(bytes) : bytes[k] < Base}
           e    == Min(ends)
           F    == [k \in at + 1 .. e |-> (bytes[k] % Base) * Place[k - at - 1]]
           sum  == SumFunction(F)
           u    == IF ends = {} \/ e - at > MaxLen \/ sum >= Word
                   THEN [n |-> 0, value |-> 0] ELSE [n |-> e - at, value |-> sum]
<1>1. Uvarint(bytes, at) = u
  BY DEF Uvarint
<1>2. Word \in Nat \ {0} /\ Len(bytes) \in Nat /\ 0 \in Uint
  BY WordCases, LenProperties DEF Uint
<1>3. CASE ends = {} \/ e - at > MaxLen \/ sum >= Word
  <2>1. u = [n |-> 0, value |-> 0]
    BY <1>3, Zenon
  <2> HIDE DEF u
  <2>2. u.n = 0 /\ u.value = 0
    BY <2>1
  <2>3. QED
    BY <1>1, <1>2, <2>2
<1>4. CASE ~(ends = {} \/ e - at > MaxLen \/ sum >= Word)
  <2>1. u = [n |-> e - at, value |-> sum]
    BY <1>4, Zenon
  <2>2. e \in ends
    <3>1. ends \in SUBSET Nat /\ ends # {}
      <4>1. \A k \in at + 1 .. Len(bytes) : k \in Nat
        OBVIOUS
      <4>2. QED
        BY <1>4, <4>1
    <3> HIDE DEF ends
    <3>2. PICK m \in ends : \A k \in ends : m <= k
      BY <3>1, LeastNatural
    <3>3. QED
      BY <3>2 DEF Min
  <2>3. e \in at + 1 .. Len(bytes) /\ bytes[e] < Base
    <3> HIDE DEF e
    <3>1. QED
      BY <2>2
  <2> HIDE DEF e, ends
  <2>4. ASSUME NEW k \in at + 1 .. e
        PROVE  (bytes[k] % Base) * Place[k - at - 1] \in Nat
    <3>1. k \in 1 .. Len(bytes) /\ k - at - 1 \in Nat
      BY <1>2, <2>3
    <3>2. bytes[k] \in Nat
      BY <3>1, ElementOfSeq
    <3>3. bytes[k] % Base \in Nat
      <4>1. \A x \in Nat : \A y \in Nat \ {0} : x % y \in Nat
        OBVIOUS
      <4>2. QED
        BY <3>2, <4>1, VarintsAssumption
    <3>4. Place[k - at - 1] \in Nat
      BY <3>1, Places
    <3>5. \A x, y \in Nat : x * y \in Nat
      OBVIOUS
    <3>6. QED
      BY <3>3, <3>4, <3>5
  <2>5. F \in [at + 1 .. e -> Nat]
    BY <2>4
  <2>6. sum \in Nat
    <3> DEFINE S == at + 1 .. e
    <3>1. IsFiniteSet(S) /\ F \in [S -> Nat]
      <4>1. at + 1 \in Int /\ e \in Int
        BY <1>2, <2>3
      <4> HIDE DEF F
      <4>2. QED
        BY <2>5, <4>1, FS_Interval
    <3> HIDE DEF F, S
    <3>2. PICK g : PartSums(S, F, g) /\ SumFunction(F) = g[S]
      BY <3>1, SumFound
    <3>3. QED
      BY <3>2 DEF PartSums
  <2> HIDE DEF sum
  <2>7. sum \in Uint
    BY <1>2, <1>4, <2>6 DEF Uint
  <2>8. e - at \in Nat /\ at + (e - at) = e
    BY <1>2, <2>3
  <2>9. u.n = e - at /\ u.value = sum
    BY <2>1
  <2> HIDE DEF u
  <2>10. QED
    BY <1>1, <2>3, <2>7, <2>8, <2>9
<1>5. QED
  BY <1>3, <1>4

LEMMA UndoneType ==
    ASSUME NEW form \in Forms, NEW prev \in Results(form), NEW x \in Uint
    PROVE  Undone(form, prev, x) \in Results(form)
<1>0. prev \in Int
  BY ResultsGiven
<1>1. x \in Nat /\ Word \in Nat \ {0}
  BY WordCases DEF Uint
<1>2. PlusUint(prev, x) \in Uint
  <2>1. \A w \in Nat \ {0} : (prev + x) % w \in 0 .. w - 1
    BY <1>0, <1>1
  <2>2. QED
    BY <1>1, <2>1 DEF PlusUint, AsUint, Uint
<1>3. Unzigzag(x) \in Int
  BY <1>1 DEF Unzigzag
<1>4. PlusInt(prev, Unzigzag(x)) \in Signed
  <2>1. \A y, h \in Int : \A w \in Nat \ {0} : (y + h) % w \in 0 .. w - 1
    OBVIOUS
  <2>2. (prev + Unzigzag(x) + Half) % Word \in 0 .. Word - 1
    BY <1>0, <1>1, <1>3, <2>1, VarintsAssumption
  <2>3. \A z \in 0 .. Word - 1 : z - Half \in -Half .. Half - 1
    BY VarintsAssumption DEF Word
  <2>4. QED
    BY <2>2, <2>3 DEF PlusInt, AsSigned, Signed
<1>5. Xor(prev, x) \in Nat
  BY XorType
<1>6. QED
  BY <1>2, <1>4, <1>5 DEF Undone, Forms, Results

\* One more value takes one varint.
LEMMA ExtendedType ==
    ASSUME NEW bytes \in Seq(Nat), NEW form \in Forms, NEW r \in Readings(form), r.ok, NEW x,
           x = Extended(r, Uvarint(bytes, r.at), form)
    PROVE  /\ x \in Readings(form)
           /\ x.ok => /\ x.at \in r.at + 1 .. Len(bytes) /\ bytes[x.at] < Base
                      /\ Len(x.values) = Len(r.values) + 1
           /\ ~x.ok => x.at = r.at /\ x.values = r.values
<1> DEFINE u == Uvarint(bytes, r.at)
           v == Undone(form, r.prev, u.value)
<1>1. /\ r.values \in Seq(Results(form)) /\ r.prev \in Results(form) /\ r.at \in Nat /\ r.ok = TRUE
      /\ r = [values |-> r.values, prev |-> r.prev, at |-> r.at, ok |-> r.ok]
  BY DEF Readings
<1>2. /\ u.n \in Nat /\ u.value \in Uint
      /\ u.n > 0 => r.at + u.n \in r.at + 1 .. Len(bytes) /\ bytes[r.at + u.n] < Base
  BY <1>1, UvarintType
<1>3. v \in Results(form)
  BY <1>1, <1>2, UndoneType
<1>4. x = IF u.n <= 0 THEN [r EXCEPT !.ok = FALSE]
          ELSE [r EXCEPT !.values = Append(@, v), !.prev = v, !.at = @ + u.n]
  BY DEF Extended
<1> HIDE DEF u, v
<1>5. CASE u.n <= 0
  <2>1. x = [values |-> r.values, prev |-> r.prev, at |-> r.at, ok |-> FALSE]
    BY <1>1, <1>4, <1>5
  <2>2. QED
    BY <1>1, <2>1 DEF Readings
<1>6. CASE ~(u.n <= 0)
  <2>1. x = [values |-> Append(r.values, v), prev |-> v, at |-> r.at + u.n, ok |-> TRUE]
    BY <1>1, <1>4, <1>6
  <2>2. Append(r.values, v) \in Seq(Results(form)) /\ Len(Append(r.values, v)) = Len(r.values) + 1
    BY <1>1, <1>3, AppendProperties
  <2>3. r.at + u.n \in Nat /\ u.n > 0
    BY <1>1, <1>2, <1>6
  <2>4. x \in Readings(form) /\ x.ok
    BY <1>3, <2>1, <2>2, <2>3 DEF Readings
  <2>5. x.at = r.at + u.n /\ x.values = Append(r.values, v)
    BY <2>1
  <2>6. QED
    BY <1>2, <2>2, <2>3, <2>4, <2>5
<1>7. QED
  BY <1>5, <1>6

\* The steps of the two loops.
OneOf(bytes, form, r)  == IF r.ok THEN Extended(r, Uvarint(bytes, r.at), form) ELSE r
NextOf(bytes, form, r) == IF r.ok /\ r.at < Len(bytes) THEN Extended(r, Uvarint(bytes, r.at), form) ELSE r

Begun(at) == [values |-> <<>>, prev |-> 0, at |-> at, ok |-> TRUE]

LEMMA StepsType ==
    ASSUME NEW bytes \in Seq(Nat), NEW form \in Forms
    PROVE  /\ \A at \in Nat : Begun(at) \in Readings(form)
           /\ [r \in Readings(form) |-> OneOf(bytes, form, r)] \in [Readings(form) -> Readings(form)]
           /\ [r \in Readings(form) |-> NextOf(bytes, form, r)] \in [Readings(form) -> Readings(form)]
<1>1. \A at \in Nat : Begun(at) \in Readings(form)
  BY ResultsGiven DEF Begun, Readings
<1>2. ASSUME NEW r \in Readings(form)
      PROVE  OneOf(bytes, form, r) \in Readings(form) /\ NextOf(bytes, form, r) \in Readings(form)
  <2>1. r.ok => Extended(r, Uvarint(bytes, r.at), form) \in Readings(form)
    BY ExtendedType
  <2>2. QED
    BY <2>1 DEF OneOf, NextOf
<1>3. QED
  BY <1>1, <1>2

\* What a loop has after count steps.
LEMMA ReadingRuns ==
    ASSUME NEW bytes \in Seq(Nat), NEW at \in Nat, NEW count \in Nat, NEW form \in Forms
    PROVE  \E h : /\ Iterates(Readings(form), Begun(at), [r \in Readings(form) |-> OneOf(bytes, form, r)], h)
                  /\ Reading(bytes, at, count, form) = h[count]
<1> DEFINE f    == [r \in Readings(form) |-> OneOf(bytes, form, r)]
           a    == Begun(at)
           P(q) == q = [s \in SUBSET (1 .. count) |->
                           IF s = {} THEN a ELSE OneOf(bytes, form, q[s \ {Max(s)}])]
           q    == CHOOSE g : P(g)
<1>1. a \in Readings(form) /\ f \in [Readings(form) -> Readings(form)] /\ \A r \in Readings(form) : f[r] = OneOf(bytes, form, r)
  BY StepsType
<1> HIDE DEF f, a
<1>2. PICK h : Iterates(Readings(form), a, f, h)
  BY <1>1, Iterated
<1>3. P(Counted(count, h))
  <2>1. /\ Counted(count, h) \in [SUBSET (1 .. count) -> Readings(form)]
        /\ FoldSteps(Readings(form), a, f, count, Counted(count, h))
    BY <1>2, FoldExists
  <2>2. PICK g : g = Counted(count, h)
    OBVIOUS
  <2>3. ASSUME NEW s \in SUBSET (1 .. count)
        PROVE  g[s] = IF s = {} THEN a ELSE OneOf(bytes, form, g[s \ {Max(s)}])
    <3>1. s \ {Max(s)} \in SUBSET (1 .. count)
      OBVIOUS
    <3>2. g[s \ {Max(s)}] \in Readings(form)
      BY <2>1, <2>2, <3>1
    <3>3. QED
      BY <1>1, <2>1, <2>2, <3>2 DEF FoldSteps
  <2>4. g \in [SUBSET (1 .. count) -> Readings(form)]
    BY <2>1, <2>2
  <2>5. P(g)
    BY <2>3, <2>4
  <2>6. QED
    BY <2>2, <2>5
<1>4. P(q)
  <2> HIDE DEF P
  <2>1. QED
    BY <1>3
<1>5. FoldSteps(Readings(form), a, f, count, q)
  <2> HIDE DEF q
  <2>1. \A s \in SUBSET (1 .. count) : q[s] = IF s = {} THEN a ELSE OneOf(bytes, form, q[s \ {Max(s)}])
    <3> DEFINE G == [s \in SUBSET (1 .. count) |-> IF s = {} THEN a ELSE OneOf(bytes, form, q[s \ {Max(s)}])]
    <3>1. \A s \in SUBSET (1 .. count) : G[s] = IF s = {} THEN a ELSE OneOf(bytes, form, q[s \ {Max(s)}])
      OBVIOUS
    <3>2. q = G
      BY <1>4
    <3> HIDE DEF G
    <3>3. QED
      BY <3>1, <3>2
  <2>2. QED
    BY <1>1, <2>1 DEF FoldSteps
<1>6. Reading(bytes, at, count, form) = q[1 .. count]
  <2>1. DOMAIN [i \in 1 .. count |-> i] = 1 .. count
    OBVIOUS
  <2>2. Reading(bytes, at, count, form) = q[DOMAIN [i \in 1 .. count |-> i]]
    BY DEF Reading, FoldLeft, MapThenFoldSet, OneOf, a, Begun
  <2>3. QED
    BY <2>1, <2>2
<1> HIDE DEF q, P
<1>7. q[1 .. count] = h[count]
  BY <1>2, <1>5, FoldIterates
<1>8. Iterates(Readings(form), a, f, h) /\ Reading(bytes, at, count, form) = h[count]
  BY <1>2, <1>6, <1>7
<1>9. QED
  BY <1>8 DEF a, f

LEMMA ReadingAllRuns ==
    ASSUME NEW bytes \in Seq(Nat), NEW form \in Forms
    PROVE  \E h : /\ Iterates(Readings(form), Begun(0), [r \in Readings(form) |-> NextOf(bytes, form, r)], h)
                  /\ ReadingAll(bytes, form) = h[Len(bytes)]
<1> DEFINE n    == Len(bytes)
           f    == [r \in Readings(form) |-> NextOf(bytes, form, r)]
           a    == Begun(0)
           P(q) == q = [s \in SUBSET (1 .. n) |->
                           IF s = {} THEN a ELSE NextOf(bytes, form, q[s \ {Max(s)}])]
           Q(q) == q = [s \in SUBSET DOMAIN bytes |->
                           IF s = {} THEN a ELSE NextOf(bytes, form, q[s \ {Max(s)}])]
           q    == CHOOSE g : Q(g)
<1>0. n \in Nat /\ DOMAIN bytes = 1 .. n
  BY LenProperties
<1>1. a \in Readings(form) /\ f \in [Readings(form) -> Readings(form)] /\ \A r \in Readings(form) : f[r] = NextOf(bytes, form, r)
  BY StepsType
<1> HIDE DEF f, a, n
<1>2. PICK h : Iterates(Readings(form), a, f, h)
  BY <1>1, Iterated
<1>3. P(Counted(n, h))
  <2>1. /\ Counted(n, h) \in [SUBSET (1 .. n) -> Readings(form)]
        /\ FoldSteps(Readings(form), a, f, n, Counted(n, h))
    BY <1>0, <1>2, FoldExists
  <2>2. PICK g : g = Counted(n, h)
    OBVIOUS
  <2>3. ASSUME NEW s \in SUBSET (1 .. n)
        PROVE  g[s] = IF s = {} THEN a ELSE NextOf(bytes, form, g[s \ {Max(s)}])
    <3>1. s \ {Max(s)} \in SUBSET (1 .. n)
      OBVIOUS
    <3>2. g[s \ {Max(s)}] \in Readings(form)
      BY <2>1, <2>2, <3>1
    <3>3. QED
      BY <1>1, <2>1, <2>2, <3>2 DEF FoldSteps
  <2>4. g \in [SUBSET (1 .. n) -> Readings(form)]
    BY <2>1, <2>2
  <2>5. P(g)
    BY <2>3, <2>4
  <2>6. QED
    BY <2>2, <2>5
<1>4. P(q)
  <2>1. Q(Counted(n, h))
    BY <1>0, <1>3
  <2>2. Q(q)
    <3> HIDE DEF Q
    <3>1. QED
      BY <2>1
  <2> HIDE DEF q
  <2>3. QED
    BY <1>0, <2>2
<1>5. FoldSteps(Readings(form), a, f, n, q)
  <2> HIDE DEF q
  <2>1. \A s \in SUBSET (1 .. n) : q[s] = IF s = {} THEN a ELSE NextOf(bytes, form, q[s \ {Max(s)}])
    <3> DEFINE G == [s \in SUBSET (1 .. n) |-> IF s = {} THEN a ELSE NextOf(bytes, form, q[s \ {Max(s)}])]
    <3>1. \A s \in SUBSET (1 .. n) : G[s] = IF s = {} THEN a ELSE NextOf(bytes, form, q[s \ {Max(s)}])
      OBVIOUS
    <3>2. q = G
      BY <1>4
    <3> HIDE DEF G
    <3>3. QED
      BY <3>1, <3>2
  <2>2. QED
    BY <1>1, <2>1 DEF FoldSteps
<1>6. ReadingAll(bytes, form) = q[DOMAIN bytes]
  BY DEF ReadingAll, FoldLeft, MapThenFoldSet, NextOf, a, Begun
<1> HIDE DEF q, P
<1>7. q[1 .. n] = h[n]
  BY <1>0, <1>2, <1>5, FoldIterates
<1>8. Iterates(Readings(form), a, f, h) /\ ReadingAll(bytes, form) = h[n]
  BY <1>0, <1>2, <1>6, <1>7
<1>9. QED
  BY <1>8 DEF a, f, n

LEMMA ReadingType ==
    ASSUME NEW bytes \in Seq(Nat), NEW at \in Nat, NEW count \in Nat, NEW form \in Forms
    PROVE  Reading(bytes, at, count, form) \in Readings(form)
<1>1. PICK h : /\ Iterates(Readings(form), Begun(at), [r \in Readings(form) |-> OneOf(bytes, form, r)], h)
               /\ Reading(bytes, at, count, form) = h[count]
  BY ReadingRuns
<1>2. QED
  BY <1>1 DEF Iterates

\* The bytes without the flag, up to the n-th; every value read has taken one.
Ending(bytes, n) == {i \in 1 .. n : bytes[i] < Base}
Paid(bytes, r)   == r.at <= Len(bytes) /\ Len(r.values) <= Cardinality(Ending(bytes, r.at))

LEMMA EndingCounted ==
    ASSUME NEW bytes
    PROVE  /\ \A n \in Nat : IsFiniteSet(Ending(bytes, n)) /\ Cardinality(Ending(bytes, n)) \in Nat
           /\ \A m, n \in Nat : m <= n => Cardinality(Ending(bytes, m)) <= Cardinality(Ending(bytes, n))
           /\ \A m, n \in Nat : m < n /\ bytes[n] < Base =>
                 Cardinality(Ending(bytes, m)) + 1 <= Cardinality(Ending(bytes, n))
<1>1. ASSUME NEW n \in Nat
      PROVE  IsFiniteSet(Ending(bytes, n)) /\ Cardinality(Ending(bytes, n)) \in Nat
  <2>1. IsFiniteSet(1 .. n) /\ Ending(bytes, n) \in SUBSET (1 .. n)
    BY FS_Interval DEF Ending
  <2>2. IsFiniteSet(Ending(bytes, n))
    BY <2>1, FS_Subset
  <2>3. QED
    BY <2>2, FS_CardinalityType
<1>2. ASSUME NEW m \in Nat, NEW n \in Nat, m <= n
      PROVE  Cardinality(Ending(bytes, m)) <= Cardinality(Ending(bytes, n))
  <2>1. Ending(bytes, m) \in SUBSET Ending(bytes, n)
    BY <1>2 DEF Ending
  <2>2. QED
    BY <1>1, <2>1, FS_Subset
<1>3. ASSUME NEW m \in Nat, NEW n \in Nat, m < n, bytes[n] < Base
      PROVE  Cardinality(Ending(bytes, m)) + 1 <= Cardinality(Ending(bytes, n))
  <2>1. n \notin Ending(bytes, m) /\ Ending(bytes, m) \cup {n} \in SUBSET Ending(bytes, n)
    BY <1>3 DEF Ending
  <2>2. Cardinality(Ending(bytes, m) \cup {n}) = Cardinality(Ending(bytes, m)) + 1
    BY <1>1, <2>1, FS_AddElement
  <2>3. Cardinality(Ending(bytes, m) \cup {n}) <= Cardinality(Ending(bytes, n))
    BY <1>1, <2>1, FS_Subset
  <2>4. QED
    BY <2>2, <2>3
<1>4. QED
  BY <1>1, <1>2, <1>3

LEMMA NextPaid ==
    ASSUME NEW bytes \in Seq(Nat), NEW form \in Forms, NEW r \in Readings(form), Paid(bytes, r)
    PROVE  Paid(bytes, NextOf(bytes, form, r))
<1>0. Len(bytes) \in Nat /\ r.at \in Nat /\ Len(r.values) \in Nat
  BY LenProperties DEF Readings
<1>1. CASE ~(r.ok /\ r.at < Len(bytes))
  BY <1>1 DEF NextOf
<1>2. CASE r.ok /\ r.at < Len(bytes)
  <2>1. PICK x : x = NextOf(bytes, form, r)
    OBVIOUS
  <2>2. x = Extended(r, Uvarint(bytes, r.at), form)
    BY <1>2, <2>1 DEF NextOf
  <2>3. /\ x \in Readings(form)
        /\ x.ok => /\ x.at \in r.at + 1 .. Len(bytes) /\ bytes[x.at] < Base
                   /\ Len(x.values) = Len(r.values) + 1
        /\ ~x.ok => x.at = r.at /\ x.values = r.values
    BY <1>2, <2>2, ExtendedType
  <2>4. CASE ~x.ok
    BY <2>1, <2>3, <2>4 DEF Paid
  <2>5. CASE x.ok
    <3>1. x.at \in Nat /\ r.at < x.at /\ x.at <= Len(bytes)
      BY <1>0, <2>3, <2>5
    <3>2. Cardinality(Ending(bytes, r.at)) + 1 <= Cardinality(Ending(bytes, x.at))
      BY <1>0, <2>3, <2>5, <3>1, EndingCounted
    <3>3. Cardinality(Ending(bytes, r.at)) \in Nat /\ Cardinality(Ending(bytes, x.at)) \in Nat
      BY <1>0, <3>1, EndingCounted
    <3>4. Len(r.values) <= Cardinality(Ending(bytes, r.at)) /\ Len(x.values) = Len(r.values) + 1
      BY <2>3, <2>5 DEF Paid
    <3>5. Len(x.values) <= Cardinality(Ending(bytes, x.at))
      BY <1>0, <3>2, <3>3, <3>4
    <3>6. QED
      BY <2>1, <3>1, <3>5 DEF Paid
  <2>6. QED
    BY <2>4, <2>5
<1>3. QED
  BY <1>1, <1>2

\* A loop over the bytes returns no more values than countVarints has found.
LEMMA ReadingAllCounted ==
    ASSUME NEW bytes \in Seq(Nat), NEW form \in Forms, NEW r, r = ReadingAll(bytes, form)
    PROVE  r \in Readings(form) /\ Len(r.values) <= CountVarints(bytes) /\ CountVarints(bytes) \in Nat
<1>0. Len(bytes) \in Nat /\ DOMAIN bytes = 1 .. Len(bytes)
  BY LenProperties
<1>1. PICK h : /\ Iterates(Readings(form), Begun(0), [x \in Readings(form) |-> NextOf(bytes, form, x)], h)
               /\ ReadingAll(bytes, form) = h[Len(bytes)]
  BY ReadingAllRuns
<1>2. /\ h \in [Nat -> Readings(form)] /\ h[0] = Begun(0)
      /\ \A n \in Nat : h[n + 1] = NextOf(bytes, form, h[n])
  BY <1>1 DEF Iterates
<1> DEFINE T == {n \in Nat : Paid(bytes, h[n])}
<1>3. 0 \in T
  <2>1. Begun(0).at = 0 /\ Len(Begun(0).values) = 0
    BY DEF Begun
  <2>2. Cardinality(Ending(bytes, 0)) \in Nat
    BY EndingCounted
  <2>3. Paid(bytes, Begun(0))
    BY <1>0, <2>1, <2>2 DEF Paid
  <2>4. QED
    BY <1>2, <2>3
<1>4. \A n \in Nat : n \in T => n + 1 \in T
  BY <1>2, NextPaid
<1>5. Len(bytes) \in T
  <2> HIDE DEF T
  <2>1. QED
    BY <1>0, <1>3, <1>4, InductionBySet
<1>6. r \in Readings(form) /\ Paid(bytes, r)
  BY <1>0, <1>1, <1>2, <1>5
<1>7. r.at \in Nat /\ Len(r.values) \in Nat /\ r.at <= Len(bytes)
  BY <1>6, LenProperties DEF Readings, Paid
<1>8. CountVarints(bytes) = Cardinality(Ending(bytes, Len(bytes)))
  BY <1>0 DEF CountVarints, Ending
<1>9. /\ Cardinality(Ending(bytes, r.at)) <= Cardinality(Ending(bytes, Len(bytes)))
      /\ Cardinality(Ending(bytes, r.at)) \in Nat /\ Cardinality(Ending(bytes, Len(bytes))) \in Nat
  BY <1>0, <1>7, EndingCounted
<1>10. QED
  BY <1>6, <1>7, <1>8, <1>9 DEF Paid

-----------------------------------------------------------------------------
\* Where the bytes of a word stand, Uvarint finds it.
LEMMA UvarintWritten ==
    ASSUME NEW bytes \in Seq(Nat), NEW at \in Nat, NEW x \in Uint, WrittenIn(bytes, at, x)
    PROVE  /\ Uvarint(bytes, at) = [n |-> Len(WrittenUvarint(x)), value |-> x]
           /\ Len(WrittenUvarint(x)) \in Nat \ {0}
<1> DEFINE ends == EndsIn(bytes, at)
           m    == Min(ends)
           sum  == SumIn(bytes, at, m)
<1>1. PICK e : e = at + Len(WrittenUvarint(x))
  OBVIOUS
<1>2. MaxLen \in Nat \ {0} /\ Half = Place[MaxLen - 1]
  BY SortedAssumption
<1>3. /\ e \in at + 1 .. Len(bytes)
      /\ e \in EndsIn(bytes, at) /\ \A k \in EndsIn(bytes, at) : k \in Nat /\ e <= k
      /\ e - at <= MaxLen
      /\ SumIn(bytes, at, e) = x
  BY <1>1, <1>2, WordWritten
<1>4. x \in Nat /\ x < Word /\ Word \in Nat
  BY WordCases DEF Uint
<1>5. Len(WrittenUvarint(x)) \in Nat
  BY <1>4, WrittenIs
<1>6. e \in Nat /\ e > at /\ e - at = Len(WrittenUvarint(x))
  BY <1>1, <1>3, <1>5
<1>7. m = e
  <2>1. m \in ends /\ \A k \in ends : m <= k
    BY <1>3 DEF Min
  <2> HIDE DEF m
  <2>2. m \in Nat /\ e <= m /\ m <= e
    BY <1>3, <2>1
  <2>3. QED
    BY <1>6, <2>2
<1>8. Uvarint(bytes, at) = IF ends = {} \/ m - at > MaxLen \/ sum >= Word
                           THEN [n |-> 0, value |-> 0] ELSE [n |-> m - at, value |-> sum]
  BY DEF Uvarint, EndsIn, SumIn, DigitsIn
<1>9. ~(ends = {} \/ m - at > MaxLen \/ sum >= Word) /\ sum = x /\ m - at = Len(WrittenUvarint(x))
  <2>1. sum = x
    BY <1>3, <1>7
  <2>2. m - at = e - at
    BY <1>7
  <2> HIDE DEF m, sum
  <2>3. ~(sum >= Word)
    BY <1>4, <2>1
  <2>4. ~(m - at > MaxLen)
    BY <1>2, <1>3, <1>6, <2>2
  <2>5. QED
    BY <1>3, <1>6, <2>1, <2>2, <2>3, <2>4
<1> HIDE DEF m, sum, ends
<1>10. QED
  BY <1>5, <1>6, <1>8, <1>9

-----------------------------------------------------------------------------
(***************************************************************************)
(* Reading back a column that was written.                                 *)
(***************************************************************************)
Column(D) == FlattenSeq([i \in 1 .. Len(D) |-> WrittenUvarint(D[i])])

StandsAt(bytes, at, c) == at + Len(c) <= Len(bytes) /\ \A i \in 1 .. Len(c) : bytes[at + i] = c[i]

\* The words D are the differences of the column s.
Differ(form, s, D) ==
    /\ s \in Seq(Results(form)) /\ D \in Seq(Uint) /\ Len(D) = Len(s)
    /\ \A i \in 1 .. Len(s) : Undone(form, IF i = 1 THEN 0 ELSE s[i - 1], D[i]) = s[i]

\* The words stand behind at: the i-th of them ends at P[i].
Placed(bytes, at, D, P) ==
    /\ P \in [0 .. Len(D) -> Nat] /\ P[0] = at /\ P[Len(D)] <= Len(bytes)
    /\ \A i \in 1 .. Len(D) :
          /\ i - 1 \in 0 .. Len(D) /\ P[i - 1] < P[i]
          /\ WrittenIn(bytes, P[i - 1], D[i])
          /\ P[i] = P[i - 1] + Len(WrittenUvarint(D[i]))

LEMMA ColumnPlaced ==
    ASSUME NEW bytes \in Seq(Nat), NEW at \in Nat, NEW D \in Seq(Uint), StandsAt(bytes, at, Column(D))
    PROVE  \E P : Placed(bytes, at, D, P) /\ P[Len(D)] = at + Len(Column(D))
<1> DEFINE words == [i \in 1 .. Len(D) |-> WrittenUvarint(D[i])]
<1>1. Len(D) \in Nat /\ \A i \in 1 .. Len(D) : D[i] \in Nat
  <2>1. Uint \subseteq Nat
    BY WordCases DEF Uint
  <2>2. QED
    BY <2>1, LenProperties, ElementOfSeq
<1>2. \A i \in 1 .. Len(D) : WrittenUvarint(D[i]) \in Seq(Nat) /\ Len(WrittenUvarint(D[i])) \in Nat \ {0}
  BY <1>1, WrittenIs
<1>3. PICK ws : ws = words
  OBVIOUS
<1>4. ws \in Seq(Seq(Nat)) /\ Len(ws) = Len(D) /\ \A i \in 1 .. Len(D) : ws[i] = WrittenUvarint(D[i])
  BY <1>1, <1>2, <1>3
<1>5. PICK c : c = Column(D)
  OBVIOUS
<1>6. c = FlattenSeq(ws)
  BY <1>3, <1>5 DEF Column
<1> HIDE DEF words
<1>7. PICK J : J = JoinEnds(ws)
  OBVIOUS
<1>8. /\ J \in [0 .. Len(D) -> Nat] /\ J[0] = 0
      /\ \A i \in 1 .. Len(D) : i - 1 \in 0 .. Len(D) /\ J[i] = J[i - 1] + Len(ws[i])
  <2>1. /\ JoinEnds(ws) \in [0 .. Len(ws) -> Nat] /\ JoinEnds(ws)[0] = 0
        /\ \A i \in 1 .. Len(ws) : i - 1 \in 0 .. Len(ws) /\ JoinEnds(ws)[i] = JoinEnds(ws)[i - 1] + Len(ws[i])
    BY <1>4, JoinEndsStep
  <2>2. QED
    BY <1>4, <1>7, <2>1
<1>9. /\ c \in Seq(Nat) /\ Len(c) = J[Len(D)]
      /\ \A i \in 1 .. Len(D) : J[i] <= J[Len(D)]
      /\ \A i \in 1 .. Len(D) : \A k \in 1 .. Len(ws[i]) : c[J[i - 1] + k] = ws[i][k]
  <2>1. /\ FlattenSeq(ws) \in Seq(Nat)
        /\ Len(FlattenSeq(ws)) = JoinEnds(ws)[Len(ws)]
        /\ \A i \in 1 .. Len(ws) : JoinEnds(ws)[i] <= JoinEnds(ws)[Len(ws)]
        /\ \A i \in 1 .. Len(ws) : \A k \in 1 .. Len(ws[i]) :
              FlattenSeq(ws)[JoinEnds(ws)[i - 1] + k] = ws[i][k]
    BY <1>4, FlattenElements
  <2>2. QED
    BY <1>4, <1>6, <1>7, <2>1
<1>10. PICK P : P = [i \in 0 .. Len(D) |-> at + J[i]]
  OBVIOUS
<1>11. P \in [0 .. Len(D) -> Nat] /\ \A i \in 0 .. Len(D) : P[i] = at + J[i] /\ J[i] \in Nat
  <2>1. \A i \in 0 .. Len(D) : J[i] \in Nat
    BY <1>8
  <2>2. \A i \in 0 .. Len(D) : at + J[i] \in Nat
    BY <2>1
  <2>3. QED
    BY <1>10, <2>1, <2>2
<1>12. /\ at + Len(c) <= Len(bytes) /\ \A i \in 1 .. Len(c) : bytes[at + i] = c[i]
       /\ Len(bytes) \in Nat /\ Len(c) \in Nat
  BY <1>5, <1>9, LenProperties DEF StandsAt
<1>13. P[0] = at /\ P[Len(D)] = at + Len(c)
  BY <1>1, <1>8, <1>9, <1>11
<1>14. ASSUME NEW i \in 1 .. Len(D)
       PROVE  /\ i - 1 \in 0 .. Len(D) /\ P[i - 1] < P[i]
              /\ WrittenIn(bytes, P[i - 1], D[i])
              /\ P[i] = P[i - 1] + Len(WrittenUvarint(D[i]))
  <2>1. PICK j, l, m : j = J[i - 1] /\ l = Len(ws[i]) /\ m = J[i]
    OBVIOUS
  <2>2. /\ i - 1 \in 0 .. Len(D) /\ i \in 0 .. Len(D) /\ l \in Nat \ {0} /\ m = j + l /\ j \in Nat
        /\ m <= Len(c) /\ P[i - 1] = at + j /\ P[i] = at + m /\ ws[i] = WrittenUvarint(D[i])
    <3>1. i - 1 \in 0 .. Len(D) /\ i \in 0 .. Len(D)
      BY <1>1
    <3>2. ws[i] = WrittenUvarint(D[i]) /\ l \in Nat \ {0}
      BY <1>2, <1>4, <2>1
    <3>3. m = j + l /\ m <= Len(c)
      BY <1>8, <1>9, <2>1
    <3>4. j \in Nat /\ P[i - 1] = at + j /\ P[i] = at + m
      BY <1>11, <2>1, <3>1
    <3>5. QED
      BY <3>1, <3>2, <3>3, <3>4
  <2>3. ASSUME NEW k \in 1 .. l
        PROVE  bytes[(at + j) + k] = WrittenUvarint(D[i])[k]
    <3>1. j + k \in 1 .. Len(c) /\ (at + j) + k = at + (j + k)
      <4>1. j \in Nat /\ l \in Nat /\ m = j + l /\ m <= Len(c) /\ Len(c) \in Nat
        BY <1>12, <2>2
      <4>2. k \in Nat /\ 1 <= k /\ k <= l
        BY <4>1
      <4>3. QED
        BY <4>1, <4>2
    <3>2. c[j + k] = ws[i][k]
      BY <1>9, <2>1
    <3>3. QED
      BY <1>12, <2>2, <3>1, <3>2
  <2>4. (at + j) + l <= Len(bytes)
    BY <1>12, <2>2
  <2>5. WrittenIn(bytes, at + j, D[i])
    BY <2>1, <2>2, <2>3, <2>4 DEF WrittenIn
  <2>6. at + j < at + m /\ at + m = (at + j) + l
    BY <2>2
  <2>7. QED
    BY <2>1, <2>2, <2>5, <2>6
<1>15. Placed(bytes, at, D, P)
  BY <1>11, <1>12, <1>13, <1>14 DEF Placed
<1>16. QED
  BY <1>5, <1>13, <1>15

\* What a loop has when it has read i of them.
Read(s, P, i) == [values |-> [j \in 1 .. i |-> s[j]], prev |-> IF i = 0 THEN 0 ELSE s[i], at |-> P[i], ok |-> TRUE]

LEMMA PlacedStep ==
    ASSUME NEW bytes \in Seq(Nat), NEW at \in Nat, NEW form \in Forms, NEW s, NEW D, NEW P,
           Differ(form, s, D), Placed(bytes, at, D, P), NEW i \in 0 .. Len(D) - 1
    PROVE  /\ OneOf(bytes, form, Read(s, P, i)) = Read(s, P, i + 1)
           /\ NextOf(bytes, form, Read(s, P, i)) = Read(s, P, i + 1)
<1>0. Len(D) \in Nat /\ Len(s) = Len(D)
  BY LenProperties DEF Differ
<1>1. PICK k : k = i + 1
  OBVIOUS
<1>2. k \in 1 .. Len(D) /\ k - 1 = i /\ i \in Nat /\ i \in 0 .. Len(D)
  BY <1>0, <1>1
<1>3. D[k] \in Uint /\ P[i] \in Nat
  BY <1>2, ElementOfSeq DEF Differ, Placed
<1>4. WrittenIn(bytes, P[i], D[k]) /\ P[k] = P[i] + Len(WrittenUvarint(D[k]))
  BY <1>2 DEF Placed
<1>5. PICK r : r = Read(s, P, i)
  OBVIOUS
<1>6. r.ok = TRUE /\ r.at = P[i] /\ r.prev = (IF k = 1 THEN 0 ELSE s[k - 1]) /\ r.values = [j \in 1 .. i |-> s[j]]
      /\ r = [values |-> r.values, prev |-> r.prev, at |-> r.at, ok |-> r.ok]
  BY <1>2, <1>5 DEF Read
<1>7. PICK u : u = Uvarint(bytes, P[i])
  OBVIOUS
<1>8. /\ u.n = Len(WrittenUvarint(D[k])) /\ u.value = D[k] /\ u.n \in Nat \ {0}
  BY <1>3, <1>4, <1>7, UvarintWritten
<1>9. Undone(form, r.prev, u.value) = s[k]
  BY <1>0, <1>2, <1>6, <1>8 DEF Differ
<1>10. PICK x : x = Extended(r, u, form)
  OBVIOUS
<1>11. x = [values |-> Append(r.values, s[k]), prev |-> s[k], at |-> r.at + u.n, ok |-> TRUE]
  <2>1. x = [r EXCEPT !.values = Append(@, s[k]), !.prev = s[k], !.at = @ + u.n]
    BY <1>8, <1>9, <1>10 DEF Extended
  <2>2. QED
    BY <1>6, <2>1
<1>12. Append(r.values, s[k]) = [j \in 1 .. k |-> s[j]]
  <2>1. \A j \in 1 .. k : j = i + 1 \/ j \in 1 .. i
    BY <1>1, <1>2
  <2>2. r.values = [j \in 1 .. i |-> s[j]]
    BY <1>6
  <2>3. Len(r.values) = i /\ DOMAIN r.values = 1 .. i
    BY <1>2, <2>2
  <2>4. Append(r.values, s[k]) = [j \in 1 .. i + 1 |-> IF j = i + 1 THEN s[k] ELSE r.values[j]]
    BY <1>2, <2>3 DEF Append
  <2>5. QED
    BY <1>1, <2>1, <2>2, <2>4
<1>13. x = Read(s, P, k)
  <2>1. r.at + u.n = P[k]
    BY <1>4, <1>6, <1>8
  <2>2. k # 0
    BY <1>2
  <2>3. x = [values |-> [j \in 1 .. k |-> s[j]], prev |-> s[k], at |-> P[k], ok |-> TRUE]
    BY <1>11, <1>12, <2>1
  <2>4. QED
    BY <2>2, <2>3 DEF Read
<1>14. r.at < Len(bytes)
  <2>1. P[i] + Len(WrittenUvarint(D[k])) <= Len(bytes)
    BY <1>4 DEF WrittenIn
  <2>2. Len(bytes) \in Nat
    BY LenProperties
  <2>3. QED
    BY <1>3, <1>6, <1>8, <2>1, <2>2
<1>15. OneOf(bytes, form, r) = x /\ NextOf(bytes, form, r) = x
  BY <1>6, <1>7, <1>10, <1>14 DEF OneOf, NextOf
<1>16. QED
  BY <1>1, <1>5, <1>13, <1>15

\* Every word takes one byte at least, and ends with the one of its bytes that countVarints counts.
LEMMA PlacedCounts ==
    ASSUME NEW bytes \in Seq(Nat), NEW at \in Nat, NEW D \in Seq(Uint), NEW P, Placed(bytes, at, D, P),
           NEW n \in 0 .. Len(D)
    PROVE  /\ P[n] >= at + n
           /\ Cardinality(Ending(bytes, P[n])) = Cardinality(Ending(bytes, at)) + n
<1>0. Len(D) \in Nat
  BY LenProperties
<1> DEFINE T == {i \in Nat : i <= Len(D) =>
                     P[i] >= at + i /\ Cardinality(Ending(bytes, P[i])) = Cardinality(Ending(bytes, at)) + i}
<1>1. 0 \in T
  <2>1. P[0] = at /\ Cardinality(Ending(bytes, at)) \in Nat
    BY EndingCounted DEF Placed
  <2>2. QED
    BY <2>1
<1>2. ASSUME NEW i \in Nat, i \in T
      PROVE  i + 1 \in T
  <2>1. SUFFICES ASSUME i + 1 <= Len(D)
                 PROVE  /\ P[i + 1] >= at + (i + 1)
                        /\ Cardinality(Ending(bytes, P[i + 1])) = Cardinality(Ending(bytes, at)) + (i + 1)
    OBVIOUS
  <2>2. PICK k : k = i + 1
    OBVIOUS
  <2>3. k \in 1 .. Len(D) /\ k - 1 = i /\ i \in 0 .. Len(D) /\ k \in 0 .. Len(D)
    BY <1>0, <2>1, <2>2
  <2>4. PICK p, q : p = P[i] /\ q = P[k]
    OBVIOUS
  <2>5. /\ p \in Nat /\ q \in Nat /\ p < q /\ WrittenIn(bytes, p, D[k])
        /\ q = p + Len(WrittenUvarint(D[k]))
    BY <2>3, <2>4 DEF Placed
  <2>6. D[k] \in Uint
    BY <2>3, ElementOfSeq
  <2>7. q \in p + 1 .. Len(bytes) /\ bytes[q] < Base /\ FlaggedIn(bytes, p, q - 1)
    <3>1. MaxLen \in Nat \ {0} /\ Half = Place[MaxLen - 1]
      BY SortedAssumption
    <3>2. QED
      BY <2>5, <2>6, <3>1, WordWritten
  <2>8. Ending(bytes, q) = Ending(bytes, p) \cup {q} /\ q \notin Ending(bytes, p)
    <3>1. \A b \in 1 .. q : b \in 1 .. p \/ b = q \/ b \in p + 1 .. q - 1
      BY <2>5
    <3>2. \A b \in p + 1 .. q - 1 : bytes[b] >= Base
      BY <2>7 DEF FlaggedIn
    <3>3. \A b \in 1 .. p : b \in 1 .. q /\ b # q
      BY <2>5
    <3>4. q \in 1 .. q
      BY <2>5
    <3>5. \A b \in p + 1 .. q - 1 : ~(bytes[b] < Base)
      <4>1. ASSUME NEW b \in p + 1 .. q - 1
            PROVE  ~(bytes[b] < Base)
        <5>1. Len(bytes) \in Nat
          BY LenProperties
        <5>2. b \in 1 .. Len(bytes)
          BY <2>5, <2>7, <5>1
        <5>3. bytes[b] \in Nat /\ Base \in Nat
          BY <5>2, ElementOfSeq, VarintsAssumption
        <5>4. QED
          BY <3>2, <5>3
      <4>2. QED
        BY <4>1
    <3>6. QED
      BY <2>7, <3>1, <3>3, <3>4, <3>5 DEF Ending
  <2>9. /\ IsFiniteSet(Ending(bytes, p)) /\ Cardinality(Ending(bytes, p)) \in Nat
        /\ Cardinality(Ending(bytes, at)) \in Nat
    BY <2>5, EndingCounted
  <2>10. Cardinality(Ending(bytes, q)) = Cardinality(Ending(bytes, p)) + 1
    BY <2>8, <2>9, FS_AddElement
  <2>11. p >= at + i /\ Cardinality(Ending(bytes, p)) = Cardinality(Ending(bytes, at)) + i
    BY <1>2, <2>3, <2>4
  <2>12. q >= at + (i + 1)
    BY <2>5, <2>11
  <2>13. Cardinality(Ending(bytes, q)) = Cardinality(Ending(bytes, at)) + (i + 1)
    BY <2>9, <2>10, <2>11
  <2>14. QED
    BY <2>2, <2>4, <2>12, <2>13
<1>3. n \in Nat /\ n <= Len(D)
  BY <1>0
<1>4. n \in T
  <2> HIDE DEF T
  <2>1. QED
    BY <1>1, <1>2, <1>3, InductionBySet
<1>5. QED
  BY <1>3, <1>4

\* A loop that counts the values.
LEMMA ColumnRead ==
    ASSUME NEW bytes \in Seq(Nat), NEW at \in Nat, NEW form \in Forms, NEW s, NEW D,
           Differ(form, s, D), StandsAt(bytes, at, Column(D))
    PROVE  /\ Reading(bytes, at, Len(s), form).values = s
           /\ Reading(bytes, at, Len(s), form).ok
           /\ Reading(bytes, at, Len(s), form).at = at + Len(Column(D))
           /\ Len(Column(D)) \in Nat /\ Len(Column(D)) >= Len(s)
<1>0. Len(s) \in Nat /\ Len(D) = Len(s) /\ D \in Seq(Uint) /\ s = [i \in 1 .. Len(s) |-> s[i]]
  BY LenProperties DEF Differ
<1>1. PICK P : Placed(bytes, at, D, P) /\ P[Len(D)] = at + Len(Column(D))
  BY <1>0, ColumnPlaced
<1>2. PICK h : /\ Iterates(Readings(form), Begun(at), [r \in Readings(form) |-> OneOf(bytes, form, r)], h)
               /\ Reading(bytes, at, Len(s), form) = h[Len(s)]
  BY <1>0, ReadingRuns
<1>3. /\ h \in [Nat -> Readings(form)] /\ h[0] = Begun(at)
      /\ \A i \in Nat : h[i + 1] = OneOf(bytes, form, h[i])
  BY <1>2 DEF Iterates
<1> DEFINE T == {i \in Nat : i <= Len(s) => h[i] = Read(s, P, i)}
<1>4. 0 \in T
  <2>1. P[0] = at /\ [j \in 1 .. 0 |-> s[j]] = <<>>
    BY <1>1 DEF Placed
  <2>2. Read(s, P, 0) = Begun(at)
    BY <2>1 DEF Read, Begun
  <2>3. QED
    BY <1>3, <2>2
<1>5. ASSUME NEW i \in Nat, i \in T
      PROVE  i + 1 \in T
  <2>1. SUFFICES ASSUME i + 1 <= Len(s)
                 PROVE  h[i + 1] = Read(s, P, i + 1)
    OBVIOUS
  <2>2. i \in 0 .. Len(D) - 1 /\ i <= Len(s)
    BY <1>0, <2>1
  <2>3. h[i] = Read(s, P, i)
    BY <1>5, <2>2
  <2>4. OneOf(bytes, form, Read(s, P, i)) = Read(s, P, i + 1)
    BY <1>1, <2>2, PlacedStep
  <2>5. QED
    BY <1>3, <2>3, <2>4
<1>6. Len(s) \in T
  <2> HIDE DEF T
  <2>1. QED
    BY <1>0, <1>4, <1>5, InductionBySet
<1>7. Reading(bytes, at, Len(s), form) = Read(s, P, Len(s))
  BY <1>0, <1>2, <1>6
<1>8. Len(Column(D)) \in Nat /\ Len(Column(D)) >= Len(s)
  <2>1. P[Len(D)] >= at + Len(D)
    <3>1. Len(D) \in 0 .. Len(D)
      BY <1>0
    <3>2. QED
      BY <1>0, <1>1, <3>1, PlacedCounts
  <2>2. Len(Column(D)) \in Nat
    <3>1. \A i \in 1 .. Len(D) : D[i] \in Nat
      <4>1. Uint \subseteq Nat
        BY WordCases DEF Uint
      <4>2. QED
        BY <1>0, <4>1, ElementOfSeq
    <3>2. PICK F : F = [i \in 1 .. Len(D) |-> D[i]]
      OBVIOUS
    <3>3. F \in [1 .. Len(D) -> Nat]
      BY <3>1, <3>2
    <3>4. FlattenSeq([i \in 1 .. Len(D) |-> WrittenUvarint(F[i])]) \in Seq(Nat)
      BY <1>0, <3>3, Varying
    <3>5. [i \in 1 .. Len(D) |-> WrittenUvarint(F[i])] = [i \in 1 .. Len(D) |-> WrittenUvarint(D[i])]
      BY <3>2
    <3>6. Column(D) \in Seq(Nat)
      BY <3>4, <3>5 DEF Column
    <3>7. QED
      BY <3>6, LenProperties
  <2>3. QED
    BY <1>0, <1>1, <2>1, <2>2
<1>9. QED
  BY <1>0, <1>1, <1>7, <1>8 DEF Read

\* A loop over the bytes, and how many it finds there.
LEMMA ColumnReadAll ==
    ASSUME NEW bytes \in Seq(Nat), NEW form \in Forms, NEW s, NEW D,
           Differ(form, s, D), bytes = Column(D)
    PROVE  /\ ReadingAll(bytes, form).values = s
           /\ ReadingAll(bytes, form).ok
           /\ CountVarints(bytes) = Len(s)
<1>0. /\ Len(s) \in Nat /\ Len(D) = Len(s) /\ D \in Seq(Uint) /\ s = [i \in 1 .. Len(s) |-> s[i]]
      /\ Len(bytes) \in Nat /\ DOMAIN bytes = 1 .. Len(bytes)
  BY LenProperties DEF Differ
<1>1. PICK P : Placed(bytes, 0, D, P) /\ P[Len(D)] = Len(bytes)
  <2>1. StandsAt(bytes, 0, Column(D))
    BY <1>0 DEF StandsAt
  <2>2. PICK P : Placed(bytes, 0, D, P) /\ P[Len(D)] = 0 + Len(Column(D))
    BY <1>0, <2>1, ColumnPlaced
  <2>3. 0 + Len(Column(D)) = Len(bytes)
    BY <1>0
  <2>4. QED
    BY <2>2, <2>3
<1>2. PICK h : /\ Iterates(Readings(form), Begun(0), [r \in Readings(form) |-> NextOf(bytes, form, r)], h)
               /\ ReadingAll(bytes, form) = h[Len(bytes)]
  BY ReadingAllRuns
<1>3. /\ h \in [Nat -> Readings(form)] /\ h[0] = Begun(0)
      /\ \A i \in Nat : h[i + 1] = NextOf(bytes, form, h[i])
  BY <1>2 DEF Iterates
<1> DEFINE Least(i) == IF i <= Len(s) THEN i ELSE Len(s)
           T == {i \in Nat : h[i] = Read(s, P, Least(i))}
<1>4. 0 \in T
  <2>1. P[0] = 0 /\ [j \in 1 .. 0 |-> s[j]] = <<>>
    BY <1>1 DEF Placed
  <2>2. Read(s, P, 0) = Begun(0)
    BY <2>1 DEF Read, Begun
  <2>3. Least(0) = 0
    BY <1>0
  <2>4. QED
    BY <1>3, <2>2, <2>3
<1>5. ASSUME NEW i \in Nat, i \in T
      PROVE  i + 1 \in T
  <2>1. CASE i + 1 <= Len(s)
    <3>1. i \in 0 .. Len(D) - 1 /\ Least(i) = i /\ Least(i + 1) = i + 1
      BY <1>0, <2>1
    <3>2. NextOf(bytes, form, Read(s, P, i)) = Read(s, P, i + 1)
      BY <1>1, <3>1, PlacedStep
    <3> HIDE DEF Least
    <3>3. QED
      BY <1>3, <1>5, <3>1, <3>2
  <2>2. CASE ~(i + 1 <= Len(s))
    <3>1. Least(i) = Len(s) /\ Least(i + 1) = Len(s)
      BY <1>0, <2>2
    <3>2. Read(s, P, Len(s)).at = Len(bytes)
      BY <1>0, <1>1 DEF Read
    <3>3. NextOf(bytes, form, Read(s, P, Len(s))) = Read(s, P, Len(s))
      BY <1>0, <3>2 DEF NextOf
    <3> HIDE DEF Least
    <3>4. QED
      BY <1>3, <1>5, <3>1, <3>3
  <2>3. QED
    BY <2>1, <2>2
<1>6. Len(bytes) \in T
  <2> HIDE DEF T
  <2>1. QED
    BY <1>0, <1>4, <1>5, InductionBySet
<1>7. /\ P[Len(D)] >= 0 + Len(D)
      /\ Cardinality(Ending(bytes, P[Len(D)])) = Cardinality(Ending(bytes, 0)) + Len(D)
  <2>1. Len(D) \in 0 .. Len(D)
    BY <1>0
  <2>2. QED
    BY <1>0, <1>1, <2>1, PlacedCounts
<1>8. Least(Len(bytes)) = Len(s)
  BY <1>0, <1>1, <1>7
<1>9. ReadingAll(bytes, form) = Read(s, P, Len(s))
  BY <1>2, <1>6, <1>8
<1>10. CountVarints(bytes) = Len(s)
  <2>1. Ending(bytes, 0) = {}
    BY DEF Ending
  <2>2. Cardinality(Ending(bytes, 0)) = 0
    BY <2>1, FS_EmptySet
  <2>3. CountVarints(bytes) = Cardinality(Ending(bytes, Len(bytes)))
    BY <1>0 DEF CountVarints, Ending
  <2>4. QED
    BY <1>0, <1>1, <1>7, <2>2, <2>3
<1>11. QED
  BY <1>0, <1>9, <1>10 DEF Read

-----------------------------------------------------------------------------
(***************************************************************************)
(* What the encoder writes of a column are its differences.                *)
(***************************************************************************)
LEMMA UintColumn ==
    ASSUME NEW s \in Seq(Uint)
    PROVE  \E D : Differ("uint", s, D) /\ AppendUintDeltas(s) = Column(D)
<1>1. Len(s) \in Nat /\ DOMAIN s = 1 .. Len(s)
  BY LenProperties
<1>2. PICK D : D = [i \in 1 .. Len(s) |-> AsUint(s[i] - (IF i = 1 THEN 0 ELSE s[i - 1]))]
  OBVIOUS
<1>3. ASSUME NEW i \in 1 .. Len(s)
      PROVE  D[i] \in Uint /\ Undone("uint", IF i = 1 THEN 0 ELSE s[i - 1], D[i]) = s[i]
  <2>1. PICK p : p = IF i = 1 THEN 0 ELSE s[i - 1]
    OBVIOUS
  <2>2. p \in Uint
    <3>1. i # 1 => i - 1 \in 1 .. Len(s)
      BY <1>1
    <3>2. i # 1 => s[i - 1] \in Uint
      BY <3>1, ElementOfSeq
    <3>3. 0 \in Uint
      BY WordCases DEF Uint
    <3>4. QED
      BY <2>1, <3>2, <3>3
  <2>3. s[i] \in Uint
    BY ElementOfSeq
  <2>4. D[i] = AsUint(s[i] - p)
    BY <1>2, <2>1
  <2>5. D[i] \in Uint
    <3>1. \A x \in Int, w \in Nat \ {0} : x % w \in 0 .. w - 1
      OBVIOUS
    <3>2. s[i] - p \in Int /\ Word \in Nat \ {0}
      BY <2>2, <2>3, WordCases DEF Uint
    <3>3. QED
      BY <2>4, <3>1, <3>2 DEF AsUint, Uint
  <2>6. PlusUint(p, D[i]) = s[i]
    BY <2>2, <2>3, <2>4, UintDeltaInverse
  <2>7. QED
    BY <2>1, <2>5, <2>6 DEF Undone
<1>4. D \in Seq(Uint) /\ Len(D) = Len(s)
  BY <1>1, <1>2, <1>3
<1>5. Differ("uint", s, D)
  BY <1>3, <1>4 DEF Differ, Results
<1>6. AppendUintDeltas(s) = Column(D)
  <2>1. AppendUintDeltas(s) =
            FlattenSeq([i \in DOMAIN s |-> WrittenUvarint(AsUint(s[i] - (IF i = 1 THEN 0 ELSE s[i - 1])))])
    BY DEF AppendUintDeltas, Deltas
  <2>2. [i \in DOMAIN s |-> WrittenUvarint(AsUint(s[i] - (IF i = 1 THEN 0 ELSE s[i - 1])))]
            = [i \in 1 .. Len(D) |-> WrittenUvarint(D[i])]
    BY <1>1, <1>2, <1>4
  <2>3. QED
    BY <2>1, <2>2 DEF Column
<1>7. QED
  BY <1>5, <1>6

LEMMA IntColumn ==
    ASSUME NEW s \in Seq(Signed)
    PROVE  \E D : Differ("int", s, D) /\ AppendIntDeltas(s) = Column(D)
<1> DEFINE Put(x) == Zigzag(AsSigned(x))
<1>0. Half \in Nat \ {0} /\ Word = 2 * Half /\ Signed = -Half .. Half - 1
  BY VarintsAssumption DEF Word, Signed
<1>1. Len(s) \in Nat /\ DOMAIN s = 1 .. Len(s)
  BY LenProperties
<1>2. PICK D : D = [i \in 1 .. Len(s) |-> Put(s[i] - (IF i = 1 THEN 0 ELSE s[i - 1]))]
  OBVIOUS
<1>3. ASSUME NEW i \in 1 .. Len(s)
      PROVE  D[i] \in Uint /\ Undone("int", IF i = 1 THEN 0 ELSE s[i - 1], D[i]) = s[i]
  <2>1. PICK p : p = IF i = 1 THEN 0 ELSE s[i - 1]
    OBVIOUS
  <2>2. p \in Signed
    <3>1. i # 1 => i - 1 \in 1 .. Len(s)
      BY <1>1
    <3>2. i # 1 => s[i - 1] \in Signed
      BY <3>1, ElementOfSeq
    <3>3. 0 \in Signed
      BY <1>0
    <3>4. QED
      BY <2>1, <3>2, <3>3
  <2>3. s[i] \in Signed
    BY ElementOfSeq
  <2>4. D[i] = Zigzag(AsSigned(s[i] - p))
    BY <1>2, <2>1
  <2>5. D[i] \in Uint
    <3>1. s[i] - p \in -Word .. Word - 1
      BY <1>0, <2>2, <2>3
    <3>2. AsSigned(s[i] - p) \in Signed
      BY <3>1, AsSignedCases
    <3>3. QED
      BY <2>4, <3>2, ZigzagType
  <2>6. PlusInt(p, Unzigzag(D[i])) = s[i]
    BY <2>2, <2>3, <2>4, IntDeltaInverse
  <2>7. QED
    BY <2>1, <2>5, <2>6 DEF Undone
<1>4. D \in Seq(Uint) /\ Len(D) = Len(s)
  BY <1>1, <1>2, <1>3
<1>5. Differ("int", s, D)
  BY <1>3, <1>4 DEF Differ, Results
<1>6. AppendIntDeltas(s) = Column(D)
  <2>1. AppendIntDeltas(s) =
            FlattenSeq([i \in DOMAIN s |-> WrittenUvarint(Put(s[i] - (IF i = 1 THEN 0 ELSE s[i - 1])))])
    BY DEF AppendIntDeltas, Deltas
  <2> HIDE DEF Put
  <2>2. [i \in DOMAIN s |-> WrittenUvarint(Put(s[i] - (IF i = 1 THEN 0 ELSE s[i - 1])))]
            = [i \in 1 .. Len(D) |-> WrittenUvarint(D[i])]
    BY <1>1, <1>2, <1>4
  <2>3. QED
    BY <2>1, <2>2 DEF Column
<1>7. QED
  BY <1>5, <1>6

\* The bits of a series, reversed, are the column that is written.
Reverses(v) == [i \in DOMAIN v |-> Reversed(Single(v[i]))]

LEMMA XorColumn ==
    ASSUME NEW v \in Seq(Int)
    PROVE  /\ Reverses(v) \in Seq(Float) /\ Len(Reverses(v)) = Len(v)
           /\ \E D : Differ("xor", Reverses(v), D) /\ AppendXors(v) = Column(D)
<1>1. Len(v) \in Nat /\ DOMAIN v = 1 .. Len(v)
  BY LenProperties
<1>2. PICK s : s = Reverses(v)
  OBVIOUS
<1>3. s \in Seq(Float) /\ Len(s) = Len(v) /\ DOMAIN s = 1 .. Len(v)
  <2>1. ASSUME NEW i \in 1 .. Len(v)
        PROVE  Reversed(Single(v[i])) \in Float
    <3>1. v[i] \in Int
      BY ElementOfSeq
    <3>2. QED
      BY <3>1, SingleDouble, ReversedInverse
  <2>2. s = [i \in 1 .. Len(v) |-> Reversed(Single(v[i]))]
    BY <1>1, <1>2 DEF Reverses
  <2>3. QED
    BY <1>1, <2>1, <2>2
<1>4. PICK D : D = [i \in 1 .. Len(v) |-> Xor(s[i], IF i = 1 THEN 0 ELSE s[i - 1])]
  OBVIOUS
<1>5. ASSUME NEW i \in 1 .. Len(v)
      PROVE  D[i] \in Uint /\ Undone("xor", IF i = 1 THEN 0 ELSE s[i - 1], D[i]) = s[i]
  <2>1. PICK p : p = IF i = 1 THEN 0 ELSE s[i - 1]
    OBVIOUS
  <2>2. p \in Float
    <3>1. i # 1 => i - 1 \in 1 .. Len(s)
      BY <1>1, <1>3
    <3>2. i # 1 => s[i - 1] \in Float
      BY <1>3, <3>1, ElementOfSeq
    <3>3. QED
      BY <2>1, <3>2, FloatWords
  <2>3. s[i] \in Float
    BY <1>3, ElementOfSeq
  <2>4. D[i] = Xor(s[i], p)
    BY <1>4, <2>1
  <2>5. Xor(s[i], p) \in Float /\ Xor(p, Xor(s[i], p)) = s[i]
    BY <2>2, <2>3, XorInverse
  <2>6. QED
    BY <2>1, <2>4, <2>5, FloatWords DEF Undone
<1>6. D \in Seq(Uint) /\ Len(D) = Len(s)
  BY <1>1, <1>3, <1>4, <1>5
<1>7. s \in Seq(Nat)
  <2>1. Float \subseteq Nat
    BY DEF Float
  <2>2. QED
    BY <1>3, <2>1, SeqMonotonic
<1>8. Differ("xor", s, D)
  BY <1>3, <1>5, <1>6, <1>7 DEF Differ, Results
<1>9. AppendXors(v) = Column(D)
  <2>1. AppendXors(v) = FlattenSeq([i \in DOMAIN s |-> WrittenUvarint(Xor(s[i], IF i = 1 THEN 0 ELSE s[i - 1]))])
    BY <1>2 DEF AppendXors, Deltas, Reverses
  <2>2. [i \in DOMAIN s |-> WrittenUvarint(Xor(s[i], IF i = 1 THEN 0 ELSE s[i - 1]))]
            = [i \in 1 .. Len(D) |-> WrittenUvarint(D[i])]
    BY <1>1, <1>3, <1>4, <1>6
  <2>3. QED
    BY <2>1, <2>2 DEF Column
<1>10. QED
  BY <1>2, <1>3, <1>8, <1>9

-----------------------------------------------------------------------------
(***************************************************************************)
(* A decode leaves the memory of a destination as large as its lengths say,*)
(* and panics nowhere.                                                     *)
(***************************************************************************)
Memories == [time : Seq(Times(kind)), data : Seq(Data(kind)), timeLen : Nat, dataLen : Nat]
Fits(d)  == d \in Memories /\ d.timeLen <= Len(d.time) /\ d.dataLen <= Len(d.data)

LEMMA OverType ==
    ASSUME NEW S, NEW vs \in Seq(S), NEW memory \in Seq(S)
    PROVE  Over(vs, memory) \in Seq(S) /\ Len(Over(vs, memory)) >= Len(memory)
<1> DEFINE left == SubSeq(memory, Len(vs) + 1, Len(memory))
<1>1. Len(vs) \in Nat /\ Len(memory) \in Nat
  BY LenProperties
<1>2. left \in Seq(S) /\ Len(left) = IF Len(vs) + 1 <= Len(memory) THEN Len(memory) - (Len(vs) + 1) + 1 ELSE 0
  <2>1. CASE Len(vs) + 1 <= Len(memory)
    <3>1. \A i \in Len(vs) + 1 .. Len(memory) : memory[i] \in S
      <4>1. \A i \in Len(vs) + 1 .. Len(memory) : i \in 1 .. Len(memory)
        BY <1>1
      <4>2. QED
        BY <4>1, ElementOfSeq
    <3>2. QED
      BY <1>1, <2>1, <3>1, SubSeqProperties
  <2>2. CASE ~(Len(vs) + 1 <= Len(memory))
    <3>1. left = <<>>
      BY <1>1, <2>2, SubSeqEmpty
    <3>2. QED
      BY <2>2, <3>1
  <2>3. QED
    BY <2>1, <2>2
<1> HIDE DEF left
<1>3. vs \o left \in Seq(S) /\ Len(vs \o left) = Len(vs) + Len(left)
  BY <1>2, ConcatProperties
<1>4. QED
  BY <1>1, <1>2, <1>3 DEF Over, left

LEMMA RoomType ==
    ASSUME NEW S, 0 \in S, NEW memory \in Seq(S), NEW n \in Nat
    PROVE  Room(memory, n) \in Seq(S) /\ Len(Room(memory, n)) >= n
<1>1. Len(memory) \in Nat
  BY LenProperties
<1>2. [i \in 1 .. n |-> 0] \in Seq(S) /\ Len([i \in 1 .. n |-> 0]) = n
  OBVIOUS
<1>3. QED
  BY <1>1, <1>2 DEF Room

LEMMA KeptType ==
    ASSUME NEW S, 0 \in S, NEW memory \in Seq(S), NEW n \in Nat, NEW vs \in Seq(S)
    PROVE  Kept(memory, n, vs) \in Seq(S) /\ Len(Kept(memory, n, vs)) >= Len(memory)
<1>1. Len(memory) \in Nat
  BY LenProperties
<1>2. QED
  BY <1>1, OverType DEF Kept

\* A column written over the memory there is room in has its new length.
LEMMA WrittenOver ==
    ASSUME NEW S, 0 \in S, NEW memory \in Seq(S), NEW n \in Nat, NEW vs \in Seq(S)
    PROVE  Over(vs, Room(memory, n)) \in Seq(S) /\ n <= Len(Over(vs, Room(memory, n)))
<1>1. PICK m : m = Room(memory, n)
  OBVIOUS
<1>2. m \in Seq(S) /\ Len(m) >= n
  BY <1>1, RoomType
<1>3. Over(vs, m) \in Seq(S) /\ Len(Over(vs, m)) >= Len(m)
  BY <1>2, OverType
<1>4. Len(m) \in Nat /\ Len(Over(vs, m)) \in Nat
  BY <1>2, <1>3, LenProperties
<1>5. n <= Len(Over(vs, m))
  BY <1>2, <1>3, <1>4
<1>6. QED
  BY <1>1, <1>3, <1>5

LEMMA BytesTaken ==
    ASSUME NEW w \in Wires, w.size <= Len(w.bytes)
    PROVE  SubSeq(w.bytes, 1, w.size) \in Seq(Nat)
<1>1. w.bytes \in Seq(Nat) /\ w.size \in Nat /\ Len(w.bytes) \in Nat
  BY LenProperties DEF Wires
<1>2. \A i \in 1 .. w.size : w.bytes[i] \in Nat
  <2>1. \A i \in 1 .. w.size : i \in 1 .. Len(w.bytes)
    BY <1>1
  <2>2. QED
    BY <1>1, <2>1, ElementOfSeq
<1>3. QED
  BY <1>1, <1>2, SubSeqProperties

\* The elements of a slice.
LEMMA AsElemType ==
    ASSUME kind \in Slices, NEW x \in Results(IF kind \in Ints THEN "int" ELSE "uint")
    PROVE  AsElem(x) \in Times(kind)
<1>1. HalfElem \in Nat \ {0}
  BY SortedAssumption
<1>2. x \in Int
  BY ResultsGiven DEF Forms
<1>3. \A h \in Nat \ {0} : /\ ((x + h) % (2 * h)) - h \in -h .. h - 1
                          /\ x % (2 * h) \in 0 .. 2 * h - 1
  BY <1>2
<1>4. CASE kind = "Int16s"
  <2>1. Times(kind) = -HalfElem .. HalfElem - 1 /\ AsElem(x) = ((x + HalfElem) % (2 * HalfElem)) - HalfElem
    BY <1>4 DEF Times, AsElem
  <2>2. QED
    BY <1>1, <1>3, <2>1
<1>5. CASE kind = "Uint16s"
  <2>1. Times(kind) = 0 .. 2 * HalfElem - 1 /\ AsElem(x) = x % (2 * HalfElem)
    BY <1>5 DEF Times, AsElem
  <2>2. QED
    BY <1>1, <1>3, <2>1
<1>6. CASE kind = "Int64s"
  BY <1>6 DEF Times, AsElem, Results, Ints
<1>7. CASE kind = "Uint64s"
  BY <1>7 DEF Times, AsElem, Results, Ints
<1>8. QED
  BY <1>4, <1>5, <1>6, <1>7 DEF Slices, Ints

\* What a decode may make of a destination.
Stands(d, r) == Fits(r.dest) /\ (kind \notin Pairs => r.dest.dataLen = d.dataLen) /\ ~r.panic

\* The updates the decoders make.
LEMMA MemoriesUpdated ==
    ASSUME NEW d \in Memories, NEW s \in Seq(Times(kind)), NEW n \in Nat
    PROVE  /\ LET q == [d EXCEPT !.time = s, !.timeLen = n]
              IN  q \in Memories /\ q.time = s /\ q.data = d.data /\ q.timeLen = n /\ q.dataLen = d.dataLen
           /\ LET q == [d EXCEPT !.time = s]
              IN  q \in Memories /\ q.time = s /\ q.data = d.data /\ q.timeLen = d.timeLen /\ q.dataLen = d.dataLen
           /\ LET q == [d EXCEPT !.timeLen = n]
              IN  q \in Memories /\ q.time = d.time /\ q.data = d.data /\ q.timeLen = n /\ q.dataLen = d.dataLen
  BY DEF Memories

LEMMA SliceDecoded ==
    ASSUME NEW w \in Wires, NEW d, Fits(d), kind \in Slices, kind \notin Pairs
    PROVE  Stands(d, DecodeSlice(w, d))
<1> DEFINE bytes == SubSeq(w.bytes, 1, w.size)
           n     == CountVarints(bytes)
           r     == IF kind \in Ints THEN DecodeIntDeltas(bytes) ELSE DecodeUintDeltas(bytes)
           elems == [i \in DOMAIN r.values |-> AsElem(r.values[i])]
<1>0. /\ w.bytes \in Seq(Nat) /\ w.size \in Nat /\ Len(w.bytes) \in Nat
      /\ d.time \in Seq(Times(kind)) /\ d.data \in Seq(Data(kind)) /\ d.timeLen \in Nat /\ d.dataLen \in Nat
      /\ Len(d.time) \in Nat /\ d.timeLen <= Len(d.time) /\ d.dataLen <= Len(d.data)
      /\ d = [time |-> d.time, data |-> d.data, timeLen |-> d.timeLen, dataLen |-> d.dataLen]
  BY LenProperties DEF Wires, Fits, Memories
<1>1. DecodeSlice(w, d) =
          IF w.size = 0 THEN Outcome([d EXCEPT !.timeLen = 0], TRUE)
          ELSE IF w.size > Len(w.bytes) THEN Outcome(d, FALSE)
          ELSE IF Len(elems) > n THEN [dest |-> d, ok |-> FALSE, panic |-> TRUE]
          ELSE Outcome([d EXCEPT !.time = Over(elems, Room(@, n)), !.timeLen = n], r.ok)
  BY DEF DecodeSlice
<1> HIDE DEF elems, n, r, bytes
<1>2. CASE w.size = 0
  <2>1. DecodeSlice(w, d) = Outcome([d EXCEPT !.timeLen = 0], TRUE)
    BY <1>1, <1>2
  <2>2. PICK q : q = [d EXCEPT !.timeLen = 0]
    OBVIOUS
  <2>3. q \in Memories /\ q.time = d.time /\ q.data = d.data /\ q.timeLen = 0 /\ q.dataLen = d.dataLen
    BY <1>0, <2>2, MemoriesUpdated DEF Fits
  <2>4. QED
    BY <1>0, <2>1, <2>2, <2>3 DEF Outcome, Stands, Fits
<1>3. CASE ~(w.size = 0) /\ w.size > Len(w.bytes)
  BY <1>1, <1>3 DEF Outcome, Stands
<1>4. CASE ~(w.size = 0) /\ ~(w.size > Len(w.bytes))
  <2>1. bytes \in Seq(Nat)
    BY <1>0, <1>4, BytesTaken DEF bytes
  <2>2. r \in Readings(IF kind \in Ints THEN "int" ELSE "uint") /\ Len(r.values) <= n /\ n \in Nat
    BY <2>1, ReadingAllCounted DEF r, n, DecodeIntDeltas, DecodeUintDeltas, Forms
  <2>3. /\ r.values \in Seq(Results(IF kind \in Ints THEN "int" ELSE "uint"))
        /\ Len(r.values) \in Nat /\ DOMAIN r.values = 1 .. Len(r.values)
    BY <2>2, LenProperties DEF Readings
  <2>4. elems \in Seq(Times(kind)) /\ Len(elems) = Len(r.values)
    <3>1. \A i \in 1 .. Len(r.values) : AsElem(r.values[i]) \in Times(kind)
      BY <2>3, ElementOfSeq, AsElemType
    <3>2. QED
      BY <2>3, <3>1 DEF elems
  <2>5. DecodeSlice(w, d) = Outcome([d EXCEPT !.time = Over(elems, Room(@, n)), !.timeLen = n], r.ok)
    <3>1. ~(Len(elems) > n)
      BY <2>2, <2>3, <2>4
    <3>2. QED
      BY <1>1, <1>4, <3>1
  <2>6. PICK s, m, q : m = n /\ s = Over(elems, Room(d.time, m)) /\ q = [d EXCEPT !.time = s, !.timeLen = m]
    OBVIOUS
  <2>7. s \in Seq(Times(kind)) /\ m \in Nat /\ m <= Len(s)
    BY <1>0, <2>2, <2>4, <2>6, WrittenOver, NumbersGiven
  <2>8. q \in Memories /\ q.time = s /\ q.data = d.data /\ q.timeLen = m /\ q.dataLen = d.dataLen
    <3>1. d \in Memories
      BY DEF Fits
    <3>2. q = [d EXCEPT !.time = s, !.timeLen = m] /\ s \in Seq(Times(kind)) /\ m \in Nat
      BY <2>6, <2>7
    <3>3. QED
      BY ONLY <3>1, <3>2 DEF Memories
  <2>9. DecodeSlice(w, d) = Outcome(q, r.ok)
    BY <2>5, <2>6
  <2>10. QED
    BY <1>0, <2>7, <2>8, <2>9 DEF Outcome, Stands, Fits
<1>5. QED
  BY <1>2, <1>3, <1>4

LEMMA TimestampsDecoded ==
    ASSUME NEW w \in Wires, NEW d, Fits(d), kind = "Timestamps", kind \notin Pairs
    PROVE  Stands(d, DecodeTimestamps(w, d))
<1> DEFINE bytes == SubSeq(w.bytes, 1, w.size)
           r     == ReadDelta(bytes, 0, w.count)
<1>0. /\ w.bytes \in Seq(Nat) /\ w.size \in Nat /\ w.count \in Nat /\ Len(w.bytes) \in Nat
      /\ d.time \in Seq(Times(kind)) /\ d.data \in Seq(Data(kind)) /\ d.timeLen \in Nat /\ d.dataLen \in Nat
      /\ Len(d.time) \in Nat /\ d.timeLen <= Len(d.time) /\ d.dataLen <= Len(d.data)
      /\ d = [time |-> d.time, data |-> d.data, timeLen |-> d.timeLen, dataLen |-> d.dataLen]
  BY LenProperties DEF Wires, Fits, Memories
<1>1. DecodeTimestamps(w, d) =
          IF w.count > w.size \/ w.size > Len(w.bytes) THEN Outcome(d, FALSE)
          ELSE IF r.ok
          THEN Outcome([d EXCEPT !.time = Over(r.values, Room(@, w.count)), !.timeLen = w.count], TRUE)
          ELSE Outcome([d EXCEPT !.time = Kept(@, w.count, r.values)], FALSE)
  BY DEF DecodeTimestamps
<1> HIDE DEF r, bytes
<1>2. CASE w.count > w.size \/ w.size > Len(w.bytes)
  BY <1>1, <1>2 DEF Outcome, Stands
<1>3. CASE ~(w.count > w.size \/ w.size > Len(w.bytes))
  <2>1. bytes \in Seq(Nat)
    BY <1>0, <1>3, BytesTaken DEF bytes
  <2>2. r \in Readings("uint")
    BY <1>0, <2>1, ReadingType DEF r, ReadDelta, Forms
  <2>3. r.values \in Seq(Times(kind))
    BY <2>2 DEF Readings, Results, Times
  <2>4. CASE r.ok
    <3>1. DecodeTimestamps(w, d) =
              Outcome([d EXCEPT !.time = Over(r.values, Room(@, w.count)), !.timeLen = w.count], TRUE)
      BY <1>1, <1>3, <2>4
    <3>2. PICK s, q : s = Over(r.values, Room(d.time, w.count)) /\ q = [d EXCEPT !.time = s, !.timeLen = w.count]
      OBVIOUS
    <3>3. s \in Seq(Times(kind)) /\ w.count <= Len(s)
      BY <1>0, <2>3, <3>2, WrittenOver, NumbersGiven
    <3>4. q \in Memories /\ q.time = s /\ q.data = d.data /\ q.timeLen = w.count /\ q.dataLen = d.dataLen
      BY <1>0, <3>2, <3>3, MemoriesUpdated DEF Fits
    <3>5. DecodeTimestamps(w, d) = Outcome(q, TRUE)
      BY <3>1, <3>2
    <3>6. QED
      BY <1>0, <3>3, <3>4, <3>5 DEF Outcome, Stands, Fits
  <2>5. CASE ~r.ok
    <3>1. DecodeTimestamps(w, d) = Outcome([d EXCEPT !.time = Kept(@, w.count, r.values)], FALSE)
      BY <1>1, <1>3, <2>5
    <3>2. PICK s, q : s = Kept(d.time, w.count, r.values) /\ q = [d EXCEPT !.time = s]
      OBVIOUS
    <3>3. s \in Seq(Times(kind)) /\ Len(s) >= Len(d.time)
      BY <1>0, <2>3, <3>2, KeptType, NumbersGiven
    <3>4. d.timeLen <= Len(s)
      BY <1>0, <3>3, LenProperties
    <3>5. q \in Memories /\ q.time = s /\ q.data = d.data /\ q.timeLen = d.timeLen /\ q.dataLen = d.dataLen
      BY <3>2, <3>3, MemoriesUpdated DEF Fits
    <3>6. DecodeTimestamps(w, d) = Outcome(q, FALSE)
      BY <3>1, <3>2
    <3>7. QED
      BY <1>0, <3>4, <3>5, <3>6 DEF Outcome, Stands, Fits
  <2>6. QED
    BY <2>4, <2>5
<1>4. QED
  BY <1>2, <1>3

LEMMA FloatsType ==
    ASSUME NEW r \in Readings("xor")
    PROVE  Floats(r).values \in Seq(Int) /\ Floats(r).ok = r.ok
<1> DEFINE vs == [i \in DOMAIN r.values |-> Double(Reversed(r.values[i] % Weight[FloatBits]))]
<1>1. /\ r.values \in Seq(Nat) /\ Len(r.values) \in Nat /\ DOMAIN r.values = 1 .. Len(r.values)
      /\ r = [values |-> r.values, prev |-> r.prev, at |-> r.at, ok |-> r.ok]
  BY LenProperties DEF Readings, Results
<1>2. vs \in Seq(Int)
  <2>1. ASSUME NEW i \in 1 .. Len(r.values)
        PROVE  Double(Reversed(r.values[i] % Weight[FloatBits])) \in Int
    <3>1. r.values[i] \in Int
      BY <1>1, ElementOfSeq
    <3>2. Reversed(r.values[i] % Weight[FloatBits]) \in Nat
      BY <3>1, ReversedType
    <3>3. QED
      BY <3>2 DEF Double
  <2>2. QED
    BY <1>1, <2>1
<1>3. Floats(r) = [r EXCEPT !.values = vs]
  BY DEF Floats
<1> HIDE DEF vs
<1>4. QED
  BY <1>1, <1>2, <1>3

LEMMA ColumnsStand ==
    ASSUME NEW d, Fits(d), kind \in Pairs, NEW n \in Nat, NEW times, NEW data,
           times.values \in Seq(Times(kind)), data.values \in Seq(Data(kind))
    PROVE  Stands(d, DecodedColumns(d, n, times, data))
<1> DEFINE ok   == times.ok /\ data.ok
           read == IF times.ok THEN data.values ELSE <<>>
<1>0. /\ d.time \in Seq(Times(kind)) /\ d.data \in Seq(Data(kind)) /\ d.timeLen \in Nat /\ d.dataLen \in Nat
      /\ Len(d.time) \in Nat /\ Len(d.data) \in Nat /\ d.timeLen <= Len(d.time) /\ d.dataLen <= Len(d.data)
      /\ read \in Seq(Data(kind))
  BY LenProperties DEF Fits, Memories
<1>1. DecodedColumns(d, n, times, data) =
          Outcome(PairLens(IF ok THEN Memory(d, Over(times.values, Room(d.time, n)), Over(data.values, Room(d.data, n)))
                           ELSE Memory(d, Kept(d.time, n, times.values), Kept(d.data, n, read)),
                           n, times.ok, ok), ok)
  BY DEF DecodedColumns
<1> HIDE DEF read
<1>2. CASE ok
  <2>1. PICK s, t : s = Over(times.values, Room(d.time, n)) /\ t = Over(data.values, Room(d.data, n))
    OBVIOUS
  <2>2. s \in Seq(Times(kind)) /\ t \in Seq(Data(kind)) /\ n <= Len(s) /\ n <= Len(t)
    BY <1>0, <2>1, WrittenOver, NumbersGiven
  <2>3. DecodedColumns(d, n, times, data) = Outcome(PairLens(Memory(d, s, t), n, times.ok, ok), ok)
    BY <1>1, <1>2, <2>1, Zenon
  <2>4. PICK q : q = PairLens(Memory(d, s, t), n, times.ok, ok)
    OBVIOUS
  <2>5. q = [[time |-> s, data |-> t, timeLen |-> d.timeLen, dataLen |-> d.dataLen]
                 EXCEPT !.timeLen = n, !.dataLen = n]
    BY <1>2, <2>4 DEF PairLens, Memory
  <2>6. q \in Memories /\ q.time = s /\ q.data = t /\ q.timeLen = n /\ q.dataLen = n
    BY <1>0, <2>2, <2>5 DEF Memories
  <2>7. QED
    BY <2>2, <2>3, <2>4, <2>6 DEF Outcome, Stands, Fits
<1>3. CASE ~ok
  <2>1. PICK s, t : s = Kept(d.time, n, times.values) /\ t = Kept(d.data, n, read)
    OBVIOUS
  <2>2. /\ s \in Seq(Times(kind)) /\ Len(s) >= Len(d.time) /\ t \in Seq(Data(kind)) /\ Len(t) >= Len(d.data)
    BY <1>0, <2>1, KeptType, NumbersGiven
  <2>3. Len(s) \in Nat /\ Len(t) \in Nat
    BY <2>2, LenProperties
  <2>4. d.timeLen <= Len(s) /\ d.dataLen <= Len(t)
    BY <1>0, <2>2, <2>3
  <2>5. DecodedColumns(d, n, times, data) = Outcome(PairLens(Memory(d, s, t), n, times.ok, ok), ok)
    BY <1>1, <1>3, <2>1, Zenon
  <2>6. PairLens(Memory(d, s, t), n, times.ok, ok) = [time |-> s, data |-> t, timeLen |-> d.timeLen, dataLen |-> d.dataLen]
    BY <1>3 DEF PairLens, Memory
  <2>7. QED
    BY <1>0, <2>2, <2>4, <2>5, <2>6 DEF Outcome, Stands, Fits, Memories
<1>4. QED
  BY <1>2, <1>3

LEMMA PairsStand ==
    ASSUME NEW w \in Wires, NEW d, Fits(d), kind \in Pairs
    PROVE  Stands(d, DecodePairs(w, d))
<1> DEFINE bytes == SubSeq(w.bytes, 1, w.size)
           times == ReadDelta(bytes, 0, w.count)
           data  == IF kind = "TimeCounters" THEN ReadDelta(bytes, times.at, w.count)
                    ELSE ReadXors(bytes, times.at, w.count)
<1>1. DecodePairs(w, d) =
          IF w.count > w.size \div 2 \/ w.size > Len(w.bytes) THEN Outcome(d, FALSE)
          ELSE DecodedColumns(d, w.count, times, data)
  BY DEF DecodePairs
<1> HIDE DEF bytes, times, data
<1>2. CASE w.count > w.size \div 2 \/ w.size > Len(w.bytes)
  BY <1>1, <1>2 DEF Outcome, Stands
<1>3. CASE ~(w.count > w.size \div 2 \/ w.size > Len(w.bytes))
  <2>1. w.count \in Nat /\ w.size \in Nat /\ Len(w.bytes) \in Nat
    BY LenProperties DEF Wires
  <2>2. bytes \in Seq(Nat)
    BY <1>3, <2>1, BytesTaken DEF bytes
  <2>3. times \in Readings("uint")
    BY <2>1, <2>2, ReadingType DEF times, ReadDelta, Forms
  <2>4. times.at \in Nat /\ times.values \in Seq(Uint)
    BY <2>3 DEF Readings, Results
  <2>5. times.values \in Seq(Times(kind))
    BY <2>4 DEF Times, Pairs
  <2>6. data.values \in Seq(Data(kind))
    <3>1. /\ Reading(bytes, times.at, w.count, "uint") \in Readings("uint")
          /\ Reading(bytes, times.at, w.count, "xor") \in Readings("xor")
      BY <2>1, <2>2, <2>4, ReadingType DEF Forms
    <3>2. ReadDelta(bytes, times.at, w.count).values \in Seq(Uint)
      BY <3>1 DEF ReadDelta, Readings, Results
    <3>3. ReadXors(bytes, times.at, w.count).values \in Seq(Int)
      BY <3>1, FloatsType DEF ReadXors
    <3>4. QED
      BY <3>2, <3>3 DEF data, Data
  <2>7. DecodePairs(w, d) = DecodedColumns(d, w.count, times, data)
    BY <1>1, <1>3
  <2>8. QED
    BY <2>1, <2>5, <2>6, <2>7, ColumnsStand
<1>4. QED
  BY <1>2, <1>3

LEMMA DecodedStands ==
    ASSUME NEW w \in Wires, NEW d, Fits(d), kind \in Kinds
    PROVE  Stands(d, Decoded(w, d))
<1>1. CASE kind \in Slices
  <2>1. kind \notin Pairs /\ Decoded(w, d) = DecodeSlice(w, d)
    BY <1>1 DEF Decoded, Slices, Ints, Pairs
  <2>2. QED
    BY <1>1, <2>1, SliceDecoded
<1>2. CASE kind = "Timestamps"
  <2>1. kind \notin Pairs /\ Decoded(w, d) = DecodeTimestamps(w, d)
    BY <1>2 DEF Decoded, Slices, Ints, Pairs
  <2>2. QED
    BY <1>2, <2>1, TimestampsDecoded
<1>3. CASE kind \in Pairs
  <2>1. Decoded(w, d) = DecodePairs(w, d)
    BY <1>3 DEF Decoded, Slices, Ints, Pairs
  <2>2. QED
    BY <1>3, <2>1, PairsStand
<1>4. QED
  BY <1>1, <1>2, <1>3 DEF Kinds

-----------------------------------------------------------------------------
(***************************************************************************)
(* What was written is decoded.                                            *)
(***************************************************************************)
LEMMA TakenOver ==
    ASSUME NEW S, 0 \in S, NEW vs \in Seq(S), NEW memory \in Seq(S), NEW n, n = Len(vs)
    PROVE  SubSeq(Over(vs, Room(memory, n)), 1, n) = vs
<1>0. n \in Nat
  BY LenProperties
<1>1. PICK m : m = Room(memory, n)
  OBVIOUS
<1>2. m \in Seq(S)
  BY <1>0, <1>1, RoomType
<1>3. PICK t : t = SubSeq(m, Len(vs) + 1, Len(m))
  OBVIOUS
<1>4. t \in Seq(S)
  <2>1. Len(m) \in Nat /\ Len(vs) \in Nat
    BY <1>2, LenProperties
  <2>2. \A i \in Len(vs) + 1 .. Len(m) : m[i] \in S
    <3>1. \A i \in Len(vs) + 1 .. Len(m) : i \in 1 .. Len(m)
      BY <2>1
    <3>2. QED
      BY <1>2, <3>1, ElementOfSeq
  <2>3. QED
    BY <1>3, <2>1, <2>2, SubSeqProperties
<1>5. Over(vs, m) = vs \o t
  BY <1>3 DEF Over
<1>6. CASE n = 0
  <2>1. vs = <<>>
    BY <1>6, EmptySeq
  <2>2. SubSeq(vs \o t, 1, n) = <<>>
    BY <1>6, SubSeqEmpty
  <2>3. QED
    BY <1>1, <1>5, <2>1, <2>2
<1>7. CASE n # 0
  <2>1. SubSeq(vs \o t, 1, n) = SubSeq(vs, 1, n)
    BY <1>0, <1>4, <1>7, SubSeqOfConcat1
  <2>2. SubSeq(vs, 1, n) = vs
    BY SubSeqFull
  <2>3. QED
    BY <1>1, <1>5, <2>1, <2>2
<1>8. QED
  BY <1>6, <1>7

\* The conversion to the elements of a slice changes none of them.
LEMMA ElemSame ==
    ASSUME kind \in Slices
    PROVE  /\ Times(kind) \subseteq (IF kind \in Ints THEN Signed ELSE Uint)
           /\ \A x \in Times(kind) : AsElem(x) = x
<1>1. HalfElem \in Nat /\ HalfElem > 0 /\ Half \in Nat /\ HalfElem <= Half /\ Word = 2 * Half
  BY SortedAssumption, VarintsAssumption DEF Word
<1>2. CASE kind = "Int16s"
  <2>1. Times(kind) = -HalfElem .. HalfElem - 1 /\ kind \in Ints
        /\ \A x : AsElem(x) = ((x + HalfElem) % (2 * HalfElem)) - HalfElem
    BY <1>2 DEF Times, AsElem, Ints
  <2>2. ASSUME NEW x \in -HalfElem .. HalfElem - 1
        PROVE  ((x + HalfElem) % (2 * HalfElem)) - HalfElem = x /\ x \in Signed
    <3>1. PICK w : w = 2 * HalfElem
      OBVIOUS
    <3>2. w \in Nat \ {0} /\ x + HalfElem \in 0 .. w - 1
      BY <1>1, <3>1
    <3>3. (x + HalfElem) % w = x + HalfElem
      BY <3>2, ModCases
    <3>4. QED
      BY <1>1, <3>1, <3>3 DEF Signed
  <2>3. QED
    BY <2>1, <2>2
<1>3. CASE kind = "Uint16s"
  <2>1. Times(kind) = 0 .. 2 * HalfElem - 1 /\ kind \notin Ints /\ \A x : AsElem(x) = x % (2 * HalfElem)
    BY <1>3 DEF Times, AsElem, Ints
  <2>2. ASSUME NEW x \in 0 .. 2 * HalfElem - 1
        PROVE  x % (2 * HalfElem) = x /\ x \in Uint
    <3>1. PICK w : w = 2 * HalfElem
      OBVIOUS
    <3>2. w \in Nat \ {0} /\ x \in 0 .. w - 1
      BY <1>1, <3>1
    <3>3. x % w = x
      BY <3>2, ModCases
    <3>4. QED
      BY <1>1, <3>1, <3>3 DEF Uint
  <2>3. QED
    BY <2>1, <2>2
<1>4. CASE kind = "Int64s"
  BY <1>4 DEF Times, AsElem, Ints
<1>5. CASE kind = "Uint64s"
  BY <1>5 DEF Times, AsElem, Ints
<1>6. QED
  BY <1>2, <1>3, <1>4, <1>5 DEF Slices, Ints

\* The value a decode makes of v: the floats of a series were rounded.
Seen(v) == [time |-> v.time, data |-> [i \in DOMAIN v.data |-> Rounded(v.data[i])]]

\* A value of its type that can be encoded, and a destination of the same type.
Encodable(v) == v \in Columns /\ ~Mismatched(v) /\ (kind \notin Pairs => v.data = <<>>)
Accepts(d)   == Fits(d) /\ (kind \notin Pairs => d.dataLen = 0)

\* A decode that returns v.
Brings(r, v) == r.ok /\ ~r.panic /\ Visible(r.dest) = Seen(v)

\* The words of a column stand where it was written.
LEMMA WholeStands ==
    ASSUME NEW D, Column(D) \in Seq(Nat)
    PROVE  StandsAt(Column(D), 0, Column(D))
<1>1. Len(Column(D)) \in Nat
  BY LenProperties
<1>2. QED
  BY <1>1 DEF StandsAt

LEMMA SliceReturns ==
    ASSUME kind \in Slices, kind \notin Pairs, NEW v, Encodable(v), NEW d, Accepts(d)
    PROVE  Brings(DecodeSlice(Framed(v), d), v)
<1> DEFINE form == IF kind \in Ints THEN "int" ELSE "uint"
<1>0. /\ v.time \in Seq(Times(kind)) /\ v.data = <<>>
      /\ d.time \in Seq(Times(kind)) /\ d.data \in Seq(Data(kind)) /\ d.timeLen \in Nat /\ d.dataLen = 0
      /\ d = [time |-> d.time, data |-> d.data, timeLen |-> d.timeLen, dataLen |-> d.dataLen]
      /\ Len(v.time) \in Nat /\ DOMAIN v.time = 1 .. Len(v.time)
  BY LenProperties DEF Encodable, Accepts, Columns, Fits, Memories
<1>1. PICK s : s = v.time
  OBVIOUS
<1>2. PICK bytes : bytes = EncodedBytes(v)
  OBVIOUS
<1>3. \E D : Differ(form, s, D) /\ bytes = Column(D)
  <2>1. Times(kind) \subseteq IF kind \in Ints THEN Signed ELSE Uint
    BY ElemSame
  <2>2. CASE kind \in Ints
    <3>1. s \in Seq(Signed)
      BY <1>0, <1>1, <2>1, <2>2, SeqMonotonic
    <3>2. bytes = AppendIntDeltas(s)
      BY <1>1, <1>2, <2>2 DEF EncodedBytes, Ints
    <3>3. QED
      BY <2>2, <3>1, <3>2, IntColumn
  <2>3. CASE kind \notin Ints
    <3>1. s \in Seq(Uint)
      BY <1>0, <1>1, <2>1, <2>3, SeqMonotonic
    <3>2. bytes = AppendUintDeltas(s)
      BY <1>1, <1>2, <2>3 DEF EncodedBytes, Slices, Pairs
    <3>3. QED
      BY <2>3, <3>1, <3>2, UintColumn
  <2>4. QED
    BY <2>2, <2>3
<1>4. PICK D : Differ(form, s, D) /\ bytes = Column(D)
  BY <1>3
<1>5. form \in Forms
  BY DEF Forms
<1>6. PICK w : w = Framed(v)
  OBVIOUS
<1>7. w.size = Len(bytes) /\ w.bytes = bytes /\ bytes \in Seq(Nat) /\ Len(bytes) \in Nat
  <2>1. Framed(v) \in Wires
    BY FramedType DEF Encodable
  <2>2. w.size = Len(bytes) /\ w.bytes = bytes
    BY <1>2, <1>6 DEF Framed
  <2>3. QED
    BY <1>6, <2>1, <2>2, LenProperties DEF Wires
<1> HIDE DEF form
<1>8. /\ ReadingAll(bytes, form).values = s /\ ReadingAll(bytes, form).ok
      /\ CountVarints(bytes) = Len(s)
  BY <1>4, <1>5, <1>7, ColumnReadAll
<1>9. Len(bytes) >= Len(s)
  <2>1. StandsAt(bytes, 0, Column(D))
    BY <1>4, <1>7, WholeStands
  <2>2. QED
    BY <1>4, <1>5, <1>7, <2>1, ColumnRead
<1>10. SubSeq(w.bytes, 1, w.size) = bytes
  BY <1>7, SubSeqFull
<1>11. PICK r : r = ReadingAll(bytes, form)
  OBVIOUS
<1>12. [i \in DOMAIN r.values |-> AsElem(r.values[i])] = s
  <2>1. r.values = s /\ DOMAIN s = 1 .. Len(s) /\ s = [i \in 1 .. Len(s) |-> s[i]]
    BY <1>0, <1>1, <1>8, <1>11, LenProperties
  <2>2. \A i \in 1 .. Len(s) : AsElem(s[i]) = s[i]
    <3>1. \A i \in 1 .. Len(s) : s[i] \in Times(kind)
      BY <1>0, <1>1, ElementOfSeq
    <3>2. QED
      BY <3>1, ElemSame
  <2>3. QED
    BY <2>1, <2>2
<1>13. r = IF kind \in Ints THEN DecodeIntDeltas(bytes) ELSE DecodeUintDeltas(bytes)
  BY <1>11 DEF form, DecodeIntDeltas, DecodeUintDeltas
<1>14. Seen(v) = [time |-> s, data |-> <<>>]
  BY <1>0, <1>1 DEF Seen
<1>15. PICK q : q = DecodeSlice(w, d)
  OBVIOUS
<1>16. q = IF w.size = 0 THEN Outcome([d EXCEPT !.timeLen = 0], TRUE)
           ELSE IF w.size > Len(w.bytes) THEN Outcome(d, FALSE)
           ELSE IF Len(s) > Len(s) THEN [dest |-> d, ok |-> FALSE, panic |-> TRUE]
           ELSE Outcome([d EXCEPT !.time = Over(s, Room(@, Len(s))), !.timeLen = Len(s)], r.ok)
  <2> DEFINE A(b, c, x, e) ==
                 IF w.size = 0 THEN Outcome([d EXCEPT !.timeLen = 0], TRUE)
                 ELSE IF w.size > Len(w.bytes) THEN Outcome(d, FALSE)
                 ELSE IF Len(e) > c THEN [dest |-> d, ok |-> FALSE, panic |-> TRUE]
                 ELSE Outcome([d EXCEPT !.time = Over(e, Room(@, c)), !.timeLen = c], x.ok)
  <2>1. q = A(SubSeq(w.bytes, 1, w.size), CountVarints(SubSeq(w.bytes, 1, w.size)),
              IF kind \in Ints THEN DecodeIntDeltas(SubSeq(w.bytes, 1, w.size))
                               ELSE DecodeUintDeltas(SubSeq(w.bytes, 1, w.size)),
              [i \in DOMAIN (IF kind \in Ints THEN DecodeIntDeltas(SubSeq(w.bytes, 1, w.size))
                             ELSE DecodeUintDeltas(SubSeq(w.bytes, 1, w.size))).values |->
                  AsElem((IF kind \in Ints THEN DecodeIntDeltas(SubSeq(w.bytes, 1, w.size))
                          ELSE DecodeUintDeltas(SubSeq(w.bytes, 1, w.size))).values[i])])
    BY <1>15 DEF DecodeSlice
  <2>2. q = A(bytes, Len(s), r, s)
    <3> HIDE DEF A
    <3>1. QED
      BY <1>8, <1>10, <1>12, <1>13, <2>1
  <2>3. QED
    BY <2>2
<1>17. SubSeq(d.data, 1, 0) = <<>> /\ SubSeq(d.time, 1, 0) = <<>>
  BY SubSeqEmpty
<1>18. CASE w.size = 0
  <2>1. q = Outcome([d EXCEPT !.timeLen = 0], TRUE)
    BY <1>16, <1>18
  <2>2. s = <<>>
    <3>1. Len(s) = 0
      BY <1>0, <1>1, <1>7, <1>9, <1>18
    <3>2. QED
      BY <1>0, <1>1, <3>1, EmptySeq
  <2>3. PICK e : e = [d EXCEPT !.timeLen = 0]
    OBVIOUS
  <2>4. e.time = d.time /\ e.data = d.data /\ e.timeLen = 0 /\ e.dataLen = 0
    BY <1>0, <2>3
  <2>5. q.ok = TRUE /\ q.panic = FALSE /\ q.dest = e
    BY <2>1, <2>3 DEF Outcome
  <2>6. Visible(e) = [time |-> <<>>, data |-> <<>>]
    BY <1>17, <2>4 DEF Visible
  <2>7. QED
    BY <1>6, <1>14, <1>15, <2>2, <2>5, <2>6 DEF Brings
<1>19. CASE w.size # 0
  <2>1. q = Outcome([d EXCEPT !.time = Over(s, Room(@, Len(s))), !.timeLen = Len(s)], r.ok)
    <3>1. ~(w.size > Len(w.bytes)) /\ ~(Len(s) > Len(s))
      BY <1>0, <1>1, <1>7
    <3>2. QED
      BY <1>16, <1>19, <3>1
  <2>2. PICK e, m : m = Over(s, Room(d.time, Len(s))) /\ e = [d EXCEPT !.time = m, !.timeLen = Len(s)]
    OBVIOUS
  <2>3. e.time = m /\ e.data = d.data /\ e.timeLen = Len(s) /\ e.dataLen = 0
    BY <1>0, <2>2
  <2>4. q.ok = TRUE /\ q.panic = FALSE /\ q.dest = e
    BY <1>8, <1>11, <2>1, <2>2 DEF Outcome
  <2>5. SubSeq(m, 1, Len(s)) = s
    BY <1>0, <1>1, <2>2, TakenOver, NumbersGiven
  <2>6. Visible(e) = [time |-> s, data |-> <<>>]
    BY <1>17, <2>3, <2>5 DEF Visible
  <2>7. QED
    BY <1>6, <1>14, <1>15, <2>4, <2>6 DEF Brings
<1>20. QED
  BY <1>18, <1>19

LEMMA TimestampsReturn ==
    ASSUME kind = "Timestamps", NEW v, Encodable(v), NEW d, Accepts(d)
    PROVE  Brings(DecodeTimestamps(Framed(v), d), v)
<1>0. /\ kind \notin Pairs /\ kind \notin Slices /\ kind \notin Ints /\ Times(kind) = Uint
      /\ v.time \in Seq(Uint) /\ v.data = <<>>
      /\ d.time \in Seq(Uint) /\ d.data \in Seq(Data(kind)) /\ d.timeLen \in Nat /\ d.dataLen = 0
      /\ d = [time |-> d.time, data |-> d.data, timeLen |-> d.timeLen, dataLen |-> d.dataLen]
      /\ Len(v.time) \in Nat
  BY LenProperties DEF Encodable, Accepts, Columns, Fits, Memories, Pairs, Slices, Ints, Times
<1>1. PICK s : s = v.time
  OBVIOUS
<1>2. PICK bytes : bytes = EncodedBytes(v)
  OBVIOUS
<1>3. bytes = AppendUintDeltas(s)
  BY <1>0, <1>1, <1>2 DEF EncodedBytes
<1>4. PICK D : Differ("uint", s, D) /\ bytes = Column(D)
  BY <1>0, <1>1, <1>3, UintColumn
<1>5. PICK w : w = Framed(v)
  OBVIOUS
<1>6. /\ w.count = Len(s) /\ w.size = Len(bytes) /\ w.bytes = bytes /\ bytes \in Seq(Nat) /\ Len(bytes) \in Nat
  <2>1. Framed(v) \in Wires
    BY FramedType DEF Encodable
  <2>2. w.count = Len(s) /\ w.size = Len(bytes) /\ w.bytes = bytes
    BY <1>0, <1>1, <1>2, <1>5 DEF Framed
  <2>3. QED
    BY <1>5, <2>1, <2>2, LenProperties DEF Wires
<1>7. PICK r : r = Reading(bytes, 0, Len(s), "uint")
  OBVIOUS
<1>8. r.values = s /\ r.ok /\ Len(bytes) >= Len(s)
  <2>1. StandsAt(bytes, 0, Column(D))
    BY <1>4, <1>6, WholeStands
  <2>2. QED
    BY <1>4, <1>6, <1>7, <2>1, ColumnRead DEF Forms
<1>9. SubSeq(w.bytes, 1, w.size) = bytes
  BY <1>6, SubSeqFull
<1>10. PICK q : q = DecodeTimestamps(w, d)
  OBVIOUS
<1>11. q = Outcome([d EXCEPT !.time = Over(s, Room(@, Len(s))), !.timeLen = Len(s)], TRUE)
  <2>1. ~(w.count > w.size \/ w.size > Len(w.bytes))
    BY <1>0, <1>1, <1>6, <1>8
  <2>2. ReadDelta(SubSeq(w.bytes, 1, w.size), 0, w.count) = r
    BY <1>6, <1>7, <1>9 DEF ReadDelta
  <2>3. QED
    BY <1>6, <1>8, <1>10, <2>1, <2>2 DEF DecodeTimestamps
<1>12. PICK e, m : m = Over(s, Room(d.time, Len(s))) /\ e = [d EXCEPT !.time = m, !.timeLen = Len(s)]
  OBVIOUS
<1>13. e.time = m /\ e.data = d.data /\ e.timeLen = Len(s) /\ e.dataLen = 0
  BY <1>0, <1>12
<1>14. q.ok = TRUE /\ q.panic = FALSE /\ q.dest = e
  BY <1>11, <1>12 DEF Outcome
<1>15. SubSeq(m, 1, Len(s)) = s /\ SubSeq(d.data, 1, 0) = <<>>
  <2>1. 0 \in Uint
    BY WordCases DEF Uint
  <2>2. QED
    BY <1>0, <1>1, <1>12, <2>1, TakenOver, SubSeqEmpty
<1>16. Visible(e) = [time |-> s, data |-> <<>>]
  BY <1>13, <1>15 DEF Visible
<1>17. Seen(v) = [time |-> s, data |-> <<>>]
  BY <1>0, <1>1 DEF Seen
<1>18. QED
  BY <1>5, <1>10, <1>14, <1>16, <1>17 DEF Brings

\* The second column of a pair, read behind the first.
DataBytes(x)            == IF kind = "TimeCounters" THEN AppendUintDeltas(x) ELSE AppendXors(x)
DataRead(bytes, at, n)  == IF kind = "TimeCounters" THEN ReadDelta(bytes, at, n) ELSE ReadXors(bytes, at, n)

LEMMA DataReturns ==
    ASSUME kind \in Pairs, NEW x \in Seq(Data(kind)), NEW bytes \in Seq(Nat), NEW at \in Nat,
           StandsAt(bytes, at, DataBytes(x)), NEW r, r = DataRead(bytes, at, Len(x))
    PROVE  /\ r.ok /\ r.values = [i \in DOMAIN x |-> Rounded(x[i])]
           /\ r.values \in Seq(Data(kind)) /\ Len(r.values) = Len(x)
           /\ Len(DataBytes(x)) >= Len(x) /\ Len(DataBytes(x)) \in Nat
<1>0. Len(x) \in Nat /\ DOMAIN x = 1 .. Len(x) /\ x = [i \in 1 .. Len(x) |-> x[i]]
  BY LenProperties
<1>1. CASE kind = "TimeCounters"
  <2>1. x \in Seq(Uint) /\ Data(kind) = Uint
    BY <1>1 DEF Data
  <2>2. PICK D : Differ("uint", x, D) /\ AppendUintDeltas(x) = Column(D)
    BY <2>1, UintColumn
  <2>3. StandsAt(bytes, at, Column(D)) /\ r = Reading(bytes, at, Len(x), "uint") /\ DataBytes(x) = Column(D)
    BY <1>1, <2>2 DEF ReadDelta, DataBytes, DataRead
  <2>4. r.values = x /\ r.ok /\ Len(Column(D)) \in Nat /\ Len(Column(D)) >= Len(x)
    BY <2>2, <2>3, ColumnRead DEF Forms
  <2>5. x = [i \in DOMAIN x |-> Rounded(x[i])]
    <3>1. \A z : Rounded(z) = z
      BY <1>1 DEF Rounded
    <3>2. QED
      BY <1>0, <3>1
  <2>6. QED
    BY <1>1, <2>1, <2>3, <2>4, <2>5
<1>2. CASE kind = "TimeSeries"
  <2>1. x \in Seq(Int) /\ Data(kind) = Int /\ kind # "TimeCounters"
    BY <1>2 DEF Data
  <2>2. PICK s : s = Reverses(x)
    OBVIOUS
  <2>3. s \in Seq(Float) /\ Len(s) = Len(x)
    BY <2>1, <2>2, XorColumn
  <2>4. PICK D : Differ("xor", s, D) /\ AppendXors(x) = Column(D)
    BY <2>1, <2>2, XorColumn
  <2>5. PICK q : q = Reading(bytes, at, Len(x), "xor")
    OBVIOUS
  <2>6. StandsAt(bytes, at, Column(D)) /\ r = Floats(q) /\ DataBytes(x) = Column(D)
    BY <2>1, <2>4, <2>5 DEF ReadXors, DataBytes, DataRead
  <2>7. q.values = s /\ q.ok /\ Len(Column(D)) \in Nat /\ Len(Column(D)) >= Len(x) /\ q \in Readings("xor")
    BY <1>0, <2>3, <2>4, <2>5, <2>6, ColumnRead, ReadingType DEF Forms
  <2>8. r.values = [i \in DOMAIN s |-> Double(Reversed(s[i] % Weight[FloatBits]))] /\ r.ok
    <3>1. q = [values |-> q.values, prev |-> q.prev, at |-> q.at, ok |-> q.ok]
      BY <2>7 DEF Readings
    <3>2. r = [q EXCEPT !.values = [i \in DOMAIN s |-> Double(Reversed(s[i] % Weight[FloatBits]))]]
      BY <2>6, <2>7 DEF Floats
    <3>3. QED
      BY <2>7, <3>1, <3>2
  <2>9. ASSUME NEW i \in 1 .. Len(x)
        PROVE  Double(Reversed(s[i] % Weight[FloatBits])) = Rounded(x[i]) /\ Rounded(x[i]) \in Int
    <3>1. x[i] \in Int
      BY <2>1, ElementOfSeq
    <3>2. s[i] = Reversed(Single(x[i]))
      BY <1>0, <2>2 DEF Reverses
    <3>3. Single(x[i]) \in Float /\ Double(Single(x[i])) \in Int
      BY <3>1, SingleDouble
    <3>4. s[i] \in Float /\ Reversed(s[i]) = Single(x[i])
      BY <3>2, <3>3, ReversedInverse
    <3>5. s[i] % Weight[FloatBits] = s[i]
      BY <3>4, SingleDouble
    <3>6. Rounded(x[i]) = Double(Single(x[i]))
      BY <1>2 DEF Rounded
    <3>7. QED
      BY <3>3, <3>4, <3>5, <3>6
  <2>10. DOMAIN s = 1 .. Len(x)
    BY <2>3, LenProperties
  <2>11. r.values = [i \in 1 .. Len(x) |-> Rounded(x[i])]
    BY <2>8, <2>9, <2>10
  <2>12. PICK vs : vs = [i \in 1 .. Len(x) |-> Rounded(x[i])]
    OBVIOUS
  <2>13. vs \in Seq(Int) /\ Len(vs) = Len(x)
    BY <1>0, <2>9, <2>12
  <2>14. r.values = vs /\ r.values = [i \in DOMAIN x |-> Rounded(x[i])]
    BY <1>0, <2>11, <2>12
  <2>15. QED
    BY <2>1, <2>6, <2>7, <2>8, <2>13, <2>14
<1>3. QED
  BY <1>1, <1>2 DEF Pairs

LEMMA PairsReturn ==
    ASSUME kind \in Pairs, NEW v, Encodable(v), NEW d, Accepts(d)
    PROVE  Brings(DecodePairs(Framed(v), d), v)
<1>0. /\ kind \notin Slices /\ kind \notin Ints /\ Times(kind) = Uint
      /\ v.time \in Seq(Uint) /\ v.data \in Seq(Data(kind)) /\ Len(v.data) = Len(v.time)
      /\ d.time \in Seq(Uint) /\ d.data \in Seq(Data(kind)) /\ d.timeLen \in Nat /\ d.dataLen \in Nat
      /\ Len(v.time) \in Nat
  BY LenProperties DEF Encodable, Accepts, Columns, Fits, Memories, Pairs, Slices, Ints, Times, Mismatched
<1>1. PICK s, x, n : s = v.time /\ x = v.data /\ n = Len(v.time)
  OBVIOUS
<1>2. PICK a, b : a = AppendUintDeltas(s) /\ b = DataBytes(x)
  OBVIOUS
<1>3. a \in Seq(Nat) /\ b \in Seq(Nat)
  <2>1. s \in Seq(Int) /\ x \in Seq(Int)
    BY <1>1, ColumnsGiven DEF Encodable
  <2>2. QED
    BY <1>1, <1>2, <2>1, UintDeltasType, XorsType DEF DataBytes
<1>4. PICK bytes : bytes = EncodedBytes(v)
  OBVIOUS
<1>5. bytes = a \o b
  <2>1. kind = "TimeCounters" \/ kind = "TimeSeries"
    BY DEF Pairs
  <2>2. QED
    BY <1>0, <1>1, <1>2, <1>4, <2>1 DEF EncodedBytes, DataBytes
<1>6. /\ bytes \in Seq(Nat) /\ Len(bytes) = Len(a) + Len(b) /\ Len(a) \in Nat /\ Len(b) \in Nat
      /\ \A i \in 1 .. Len(a) + Len(b) : bytes[i] = IF i <= Len(a) THEN a[i] ELSE b[i - Len(a)]
  BY <1>3, <1>5, ConcatProperties, LenProperties
<1>7. StandsAt(bytes, 0, a) /\ StandsAt(bytes, Len(a), b)
  <2>1. \A i \in 1 .. Len(a) : bytes[0 + i] = a[i]
    BY <1>6
  <2>2. \A i \in 1 .. Len(b) : bytes[Len(a) + i] = b[i]
    <3>1. ASSUME NEW i \in 1 .. Len(b)
          PROVE  bytes[Len(a) + i] = b[i]
      <4>1. Len(a) + i \in 1 .. Len(a) + Len(b) /\ ~(Len(a) + i <= Len(a)) /\ (Len(a) + i) - Len(a) = i
        BY <1>6
      <4>2. QED
        BY <1>6, <4>1
    <3>2. QED
      BY <3>1
  <2>3. QED
    BY <1>6, <2>1, <2>2 DEF StandsAt
<1>8. PICK D : Differ("uint", s, D) /\ a = Column(D)
  BY <1>0, <1>1, <1>2, UintColumn
<1>9. PICK times : times = ReadDelta(bytes, 0, n)
  OBVIOUS
<1>10. times.values = s /\ times.ok /\ times.at = Len(a) /\ Len(a) >= n
  <2>1. /\ Reading(bytes, 0, Len(s), "uint").values = s /\ Reading(bytes, 0, Len(s), "uint").ok
        /\ Reading(bytes, 0, Len(s), "uint").at = 0 + Len(Column(D)) /\ Len(Column(D)) >= Len(s)
    BY <1>6, <1>7, <1>8, ColumnRead DEF Forms
  <2>2. QED
    BY <1>1, <1>6, <1>8, <1>9, <2>1 DEF ReadDelta
<1>11. PICK data : data = DataRead(bytes, times.at, n)
  OBVIOUS
<1>12. /\ data.ok /\ data.values = [i \in DOMAIN x |-> Rounded(x[i])]
       /\ data.values \in Seq(Data(kind)) /\ Len(data.values) = n /\ Len(b) >= n
  <2>1. x \in Seq(Data(kind)) /\ Len(x) = n
    BY <1>0, <1>1
  <2>2. data = DataRead(bytes, Len(a), Len(x)) /\ StandsAt(bytes, Len(a), DataBytes(x))
    BY <1>2, <1>7, <1>10, <1>11, <2>1
  <2>3. /\ data.ok /\ data.values = [i \in DOMAIN x |-> Rounded(x[i])]
        /\ data.values \in Seq(Data(kind)) /\ Len(data.values) = Len(x) /\ Len(DataBytes(x)) >= Len(x)
    <3>1. bytes \in Seq(Nat) /\ Len(a) \in Nat /\ x \in Seq(Data(kind))
      BY <1>6, <2>1
    <3>2. PICK r : r = DataRead(bytes, Len(a), Len(x))
      OBVIOUS
    <3>3. /\ r.ok /\ r.values = [i \in DOMAIN x |-> Rounded(x[i])]
          /\ r.values \in Seq(Data(kind)) /\ Len(r.values) = Len(x) /\ Len(DataBytes(x)) >= Len(x)
      BY <2>2, <3>1, <3>2, DataReturns
    <3>4. data = r
      BY <2>2, <3>2
    <3>5. QED
      BY <3>3, <3>4, Zenon
  <2>4. QED
    BY <1>2, <2>1, <2>3
<1>13. PICK w : w = Framed(v)
  OBVIOUS
<1>14. w.count = n /\ w.size = Len(bytes) /\ w.bytes = bytes
  BY <1>0, <1>1, <1>4, <1>13 DEF Framed
<1>15. SubSeq(w.bytes, 1, w.size) = bytes
  BY <1>6, <1>14, SubSeqFull
<1>16. PICK q : q = DecodePairs(w, d)
  OBVIOUS
<1>17. q = DecodedColumns(d, n, times, data)
  <2>1. n \in Nat /\ Len(bytes) \in Nat /\ Len(bytes) >= 2 * n
    BY <1>0, <1>1, <1>6, <1>10, <1>12
  <2>2. \A l \in Nat : l >= 2 * n => ~(n > l \div 2)
    BY <2>1
  <2>3. ~(w.count > w.size \div 2 \/ w.size > Len(w.bytes))
    BY <1>14, <2>1, <2>2
  <2>4. q = IF w.count > w.size \div 2 \/ w.size > Len(w.bytes) THEN Outcome(d, FALSE)
            ELSE DecodedColumns(d, n, times, data)
    BY <1>9, <1>11, <1>14, <1>15, <1>16 DEF DecodePairs, DataRead
  <2>5. QED
    BY <2>3, <2>4
<1>18. PICK m, o : m = Over(times.values, Room(d.time, n)) /\ o = Over(data.values, Room(d.data, n))
  OBVIOUS
<1>19. q = Outcome([time |-> m, data |-> o, timeLen |-> n, dataLen |-> n], TRUE)
  <2>1. (times.ok /\ data.ok) = TRUE /\ times.ok = TRUE
    <3>1. /\ Reading(bytes, 0, n, "uint") \in Readings("uint")
          /\ times = Reading(bytes, 0, n, "uint")
      BY <1>0, <1>1, <1>6, <1>9, ReadingType DEF Forms, ReadDelta
    <3>2. QED
      BY <1>10, <1>12, <3>1 DEF Readings
  <2>2. q = Outcome(PairLens(Memory(d, m, o), n, TRUE, TRUE), TRUE)
    BY <1>17, <1>18, <2>1 DEF DecodedColumns
  <2>3. PairLens(Memory(d, m, o), n, TRUE, TRUE) = [time |-> m, data |-> o, timeLen |-> n, dataLen |-> n]
    BY DEF PairLens, Memory
  <2>4. QED
    BY <2>2, <2>3
<1>20. SubSeq(m, 1, n) = s /\ SubSeq(o, 1, n) = data.values
  <2>1. 0 \in Uint /\ 0 \in Data(kind)
    BY WordCases, NumbersGiven DEF Uint
  <2>2. QED
    <3>1. SubSeq(Over(s, Room(d.time, n)), 1, n) = s
      BY <1>0, <1>1, <2>1, TakenOver
    <3>2. SubSeq(Over(data.values, Room(d.data, n)), 1, n) = data.values
      <4>1. data.values \in Seq(Data(kind)) /\ n = Len(data.values) /\ d.data \in Seq(Data(kind)) /\ 0 \in Data(kind)
        BY <1>0, <1>12, <2>1
      <4>2. QED
        BY <4>1, TakenOver
    <3>3. QED
      BY <1>10, <1>18, <3>1, <3>2
<1>21. Visible([time |-> m, data |-> o, timeLen |-> n, dataLen |-> n]) = [time |-> s, data |-> data.values]
  BY <1>20 DEF Visible
<1>22. Seen(v) = [time |-> s, data |-> data.values]
  BY <1>1, <1>12 DEF Seen
<1>23. q.ok = TRUE /\ q.panic = FALSE /\ q.dest = [time |-> m, data |-> o, timeLen |-> n, dataLen |-> n]
  BY <1>19 DEF Outcome
<1>24. QED
  BY <1>13, <1>16, <1>21, <1>22, <1>23 DEF Brings

\* A decode of what an encoder wrote returns it, into whatever memory of its type.
LEMMA WrittenReturns ==
    ASSUME kind \in Kinds, NEW v, Encodable(v), NEW d, Accepts(d)
    PROVE  Brings(Decoded(Framed(v), d), v)
<1>1. CASE kind \in Slices
  <2>1. kind \notin Pairs /\ Decoded(Framed(v), d) = DecodeSlice(Framed(v), d)
    BY <1>1 DEF Decoded, Slices, Ints, Pairs
  <2>2. QED
    BY <1>1, <2>1, SliceReturns
<1>2. CASE kind = "Timestamps"
  <2>1. Decoded(Framed(v), d) = DecodeTimestamps(Framed(v), d)
    BY <1>2 DEF Decoded, Slices, Ints, Pairs
  <2>2. QED
    BY <1>2, <2>1, TimestampsReturn
<1>3. CASE kind \in Pairs
  <2>1. Decoded(Framed(v), d) = DecodePairs(Framed(v), d)
    BY <1>3 DEF Decoded, Slices, Ints, Pairs
  <2>2. QED
    BY <1>3, <2>1, PairsReturn
<1>4. QED
  BY <1>1, <1>2, <1>3 DEF Kinds

-----------------------------------------------------------------------------
(***************************************************************************)
(* What a sort and a rounding keep.                                        *)
(***************************************************************************)
LEMMA BagPermuted ==
    ASSUME NEW n \in Nat, NEW s, NEW t, DOMAIN s = 1 .. n, DOMAIN t = 1 .. n,
           NEW p \in Bijection(1 .. n, 1 .. n), \A i \in 1 .. n : t[i] = s[p[i]]
    PROVE  ToBag(t) = ToBag(s)
<1> DEFINE I    == 1 .. n
           A(x) == {i \in I : t[i] = x}
           B(x) == {i \in I : s[i] = x}
<1>1. /\ p \in [I -> I] /\ \A i, j \in I : p[i] = p[j] => i = j
      /\ \A i \in I : \E j \in I : p[j] = i
  BY DEF Bijection, Injection, Surjection, IsInjective
<1>2. IsFiniteSet(I)
  BY FS_Interval
<1>3. DOMAIN s = I /\ DOMAIN t = I /\ \A i \in I : t[i] = s[p[i]]
  OBVIOUS
<1> HIDE DEF I
<1>4. {t[i] : i \in I} = {s[i] : i \in I}
  <2>1. ASSUME NEW i \in I
        PROVE  t[i] \in {s[j] : j \in I}
    <3>1. p[i] \in I /\ t[i] = s[p[i]]
      BY <1>1, <1>3
    <3>2. QED
      BY <3>1
  <2>2. ASSUME NEW i \in I
        PROVE  s[i] \in {t[j] : j \in I}
    <3>1. PICK j \in I : p[j] = i
      BY <1>1
    <3>2. t[j] = s[i]
      BY <1>3, <3>1
    <3>3. QED
      BY <3>2
  <2>3. QED
    BY <2>1, <2>2
<1>5. ASSUME NEW x
      PROVE  Cardinality(A(x)) = Cardinality(B(x))
  <2>1. PICK a, b, f : a = A(x) /\ b = B(x) /\ f = [i \in A(x) |-> p[i]]
    OBVIOUS
  <2>2. f \in [a -> b] /\ \A i \in a : f[i] = p[i]
    BY <1>1, <1>3, <2>1
  <2>3. \A i, j \in a : f[i] = f[j] => i = j
    BY <1>1, <2>1, <2>2
  <2>4. \A y \in b : \E i \in a : f[i] = y
    <3>1. ASSUME NEW y \in b
          PROVE  \E i \in a : f[i] = y
      <4>1. y \in I /\ s[y] = x
        BY <2>1
      <4>2. PICK i \in I : p[i] = y
        BY <1>1, <4>1
      <4>3. i \in a
        BY <1>3, <2>1, <4>1, <4>2
      <4>4. QED
        BY <2>2, <4>2, <4>3
    <3>2. QED
      BY <3>1
  <2>5. f \in Bijection(a, b)
    BY <2>2, <2>3, <2>4 DEF Bijection, Injection, Surjection, IsInjective
  <2>6. IsFiniteSet(a)
    <3>1. a \in SUBSET I
      BY <2>1
    <3>2. QED
      BY <1>2, <3>1, FS_Subset
  <2>7. Cardinality(b) = Cardinality(a)
    BY <2>5, <2>6, FS_Bijection DEF ExistsBijection
  <2>8. QED
    BY <2>1, <2>7
<1>6. /\ ToBag(t) = [x \in {t[i] : i \in I} |-> Cardinality(A(x))]
      /\ ToBag(s) = [x \in {s[i] : i \in I} |-> Cardinality(B(x))]
  BY <1>3 DEF ToBag, Range
<1> HIDE DEF A, B
<1>7. QED
  BY <1>4, <1>5, <1>6

\* A sort leaves the elements in order, and the same ones.
LEMMA SortsKeep ==
    ASSUME NEW v, Encodable(v), NEW u \in Sorts(v)
    PROVE  Encodable(u) /\ InOrder(u.time) /\ ToBag(Elements(u)) = ToBag(Elements(v))
<1>0. /\ v \in Columns /\ v.time \in Seq(Times(kind)) /\ v.data \in Seq(Data(kind))
      /\ Len(v.time) \in Nat /\ DOMAIN v.time = 1 .. Len(v.time)
      /\ Len(v.data) \in Nat /\ DOMAIN v.data = 1 .. Len(v.data)
      /\ kind \notin Pairs => v.data = <<>>
      /\ kind \in Pairs => Len(v.data) = Len(v.time)
  BY LenProperties DEF Encodable, Columns, Mismatched
<1>1. u \in Columns /\ Len(u.time) = Len(v.time) /\ Len(u.data) = Len(v.data)
  BY <1>0, SortsType
<1>2. Encodable(u)
  <2>1. u.data \in Seq(Data(kind))
    BY <1>1 DEF Columns
  <2>2. kind \notin Pairs => u.data = <<>>
    <3>1. kind \notin Pairs => Len(u.data) = 0
      BY <1>0, <1>1
    <3>2. QED
      BY <2>1, <3>1, EmptySeq
  <2>3. ~Mismatched(u)
    BY <1>0, <1>1 DEF Mismatched
  <2>4. QED
    BY <1>1, <2>2, <2>3 DEF Encodable
<1>3. CASE InOrder(v.time)
  <2>1. u = v
    BY <1>3 DEF Sorts
  <2>2. QED
    BY <1>2, <1>3, <2>1
<1>4. CASE ~InOrder(v.time)
  <2>1. PICK p \in Bijection(DOMAIN v.time, DOMAIN v.time) :
            /\ InOrder([i \in DOMAIN v.time |-> v.time[p[i]]])
            /\ u = Permuted(v, p)
    BY <1>4 DEF Sorts
  <2>2. u.time = [i \in DOMAIN v.time |-> v.time[p[i]]] /\ u.data = [i \in DOMAIN v.data |-> v.data[p[i]]]
    BY <2>1 DEF Permuted
  <2>3. InOrder(u.time)
    BY <2>1, <2>2
  <2>4. PICK n : n = Len(v.time)
    OBVIOUS
  <2>5. n \in Nat /\ DOMAIN v.time = 1 .. n /\ DOMAIN u.time = 1 .. n /\ p \in Bijection(1 .. n, 1 .. n)
        /\ (kind \in Pairs => DOMAIN v.data = 1 .. n)
    BY <1>0, <2>1, <2>2, <2>4
  <2>6. p \in [1 .. n -> 1 .. n]
    BY <2>5 DEF Bijection, Injection
  <2>7. PICK s, t : s = Elements(v) /\ t = Elements(u)
    OBVIOUS
  <2>8. /\ s = [i \in 1 .. n |-> <<v.time[i], IF kind \in Pairs THEN Rounded(v.data[i]) ELSE 0>>]
        /\ t = [i \in 1 .. n |-> <<u.time[i], IF kind \in Pairs THEN Rounded(u.data[i]) ELSE 0>>]
    BY <2>5, <2>7 DEF Elements
  <2>9. ASSUME NEW i \in 1 .. n
        PROVE  t[i] = s[p[i]]
    <3>1. p[i] \in 1 .. n /\ u.time[i] = v.time[p[i]] /\ (kind \in Pairs => u.data[i] = v.data[p[i]])
      BY <2>2, <2>5, <2>6
    <3>2. s[p[i]] = <<v.time[p[i]], IF kind \in Pairs THEN Rounded(v.data[p[i]]) ELSE 0>>
      BY <2>8, <3>1
    <3>3. t[i] = <<u.time[i], IF kind \in Pairs THEN Rounded(u.data[i]) ELSE 0>>
      BY <2>8
    <3>4. QED
      BY <3>1, <3>2, <3>3
  <2>10. DOMAIN s = 1 .. n /\ DOMAIN t = 1 .. n
    BY <2>8
  <2>11. ToBag(t) = ToBag(s)
    BY <2>5, <2>9, <2>10, BagPermuted
  <2>12. QED
    BY <1>2, <2>3, <2>7, <2>11
<1>5. QED
  BY <1>3, <1>4

\* Rounding again changes nothing: neither the elements nor the bytes they are written as.
LEMMA SeenKeeps ==
    ASSUME NEW v, Encodable(v)
    PROVE  Elements(Seen(v)) = Elements(v) /\ Framed(Seen(v)) = Framed(v)
<1>0. /\ v.time \in Seq(Times(kind)) /\ v.data \in Seq(Data(kind))
      /\ v = [time |-> v.time, data |-> v.data]
      /\ Len(v.time) \in Nat /\ DOMAIN v.time = 1 .. Len(v.time)
      /\ Len(v.data) \in Nat /\ DOMAIN v.data = 1 .. Len(v.data)
      /\ v.data = [i \in 1 .. Len(v.data) |-> v.data[i]]
      /\ kind \in Pairs => Len(v.data) = Len(v.time)
  BY LenProperties DEF Encodable, Columns, Mismatched
<1>1. PICK u : u = Seen(v)
  OBVIOUS
<1>2. u.time = v.time /\ u.data = [i \in DOMAIN v.data |-> Rounded(v.data[i])] /\ DOMAIN u.data = DOMAIN v.data
  BY <1>1 DEF Seen
<1>3. CASE kind = "TimeSeries"
  <2>1. v.data \in Seq(Int) /\ kind \in Pairs
    BY <1>0, <1>3 DEF Data, Pairs
  <2>2. ASSUME NEW i \in DOMAIN v.data
        PROVE  Rounded(u.data[i]) = Rounded(v.data[i]) /\ Single(u.data[i]) = Single(v.data[i])
    <3>1. v.data[i] \in Int
      BY <1>0, <2>1, ElementOfSeq
    <3>2. \A z : Rounded(z) = Double(Single(z))
      BY <1>3 DEF Rounded
    <3>3. u.data[i] = Double(Single(v.data[i]))
      BY <1>2, <3>2
    <3>4. Single(Double(Single(v.data[i]))) = Single(v.data[i])
      BY <3>1, SingleDouble
    <3>5. QED
      BY <3>2, <3>3, <3>4
  <2>3. Elements(u) = Elements(v)
    <3>1. \A i \in DOMAIN v.time : Rounded(u.data[i]) = Rounded(v.data[i])
      BY <1>0, <2>1, <2>2
    <3>2. QED
      BY <1>2, <3>1 DEF Elements
  <2>4. AppendXors(u.data) = AppendXors(v.data)
    <3>1. Reverses(u.data) = Reverses(v.data)
      BY <1>2, <2>2 DEF Reverses
    <3>2. \A z : AppendXors(z) = Deltas(Reverses(z), Xor, WrittenUvarint)
      BY DEF AppendXors, Reverses
    <3>3. QED
      BY <3>1, <3>2
  <2>5. EncodedBytes(u) = EncodedBytes(v)
    BY <1>2, <1>3, <2>4 DEF EncodedBytes, Ints
  <2>6. QED
    BY <1>1, <1>2, <2>3, <2>5 DEF Framed
<1>4. CASE kind # "TimeSeries"
  <2>1. \A z : Rounded(z) = z
    BY <1>4 DEF Rounded
  <2>2. u.data = v.data
    BY <1>0, <1>2, <2>1
  <2>3. u = v
    BY <1>0, <1>1, <1>2, <2>2 DEF Seen
  <2>4. QED
    BY <1>1, <2>3
<1>5. QED
  BY <1>3, <1>4

-----------------------------------------------------------------------------
(***************************************************************************)
(* The state.  A type of one column has an empty second one.               *)
(***************************************************************************)
TypeInv == /\ kind \in DOMAIN Values /\ kind \in Kinds
           /\ value \in Columns /\ (kind \notin Pairs => value.data = <<>>)
           /\ Fits(dest) /\ (kind \notin Pairs => dest.dataLen = 0)
           /\ wire = NoWire \/ (wire \in Wires /\ wire.size = Len(wire.bytes))
           /\ last # "panic"

LEMMA TypeInvInit == Init => TypeInv
<1> SUFFICES ASSUME Init PROVE TypeInv
  OBVIOUS
<1>1. kind \in DOMAIN Values /\ kind \in Kinds /\ value \in Columns /\ (kind \notin Pairs => value.data = <<>>)
  BY ValuesAssumption DEF Init, Columns
<1>2. dest \in Memories /\ dest.timeLen <= Len(dest.time) /\ dest.dataLen <= Len(dest.data)
      /\ (kind \notin Pairs => dest.dataLen = 0)
  BY <1>1, DestsAssumption DEF Init, Memories
<1>3. QED
  BY <1>1, <1>2 DEF Init, TypeInv, Fits

LEMMA EncodeTypes ==
    ASSUME TypeInv, Encode
    PROVE  TypeInv'
<1>1. value \in Columns /\ value' \in Sorts(value) /\ wire' = Framed(value') /\ kind' = kind /\ dest' = dest
      /\ last' = "encoded" /\ ~Mismatched(value)
  BY DEF TypeInv, Encode
<1>2. Len(value.data) = Len(value.time) \/ value.data = <<>>
  BY <1>1 DEF TypeInv, Mismatched
<1>3. value' \in Columns /\ Len(value'.data) = Len(value.data)
  BY <1>1, <1>2, SortsType
<1>4. kind \notin Pairs => value'.data = <<>>
  <2>1. value'.data \in Seq(Data(kind))
    BY <1>3 DEF Columns
  <2>2. value.data = <<>> => Len(value'.data) = 0
    BY <1>3
  <2>3. QED
    BY <2>1, <2>2, EmptySeq DEF TypeInv
<1>5. wire' \in Wires /\ wire'.size = Len(wire'.bytes)
  BY <1>1, <1>3, FramedType
<1>6. QED
  BY <1>1, <1>3, <1>4, <1>5 DEF TypeInv, Fits, Columns, Memories

LEMMA VisibleType ==
    ASSUME NEW d, Fits(d)
    PROVE  Visible(d) \in Columns /\ Len(Visible(d).time) = d.timeLen /\ Len(Visible(d).data) = d.dataLen
<1>1. ASSUME NEW S, NEW s \in Seq(S), NEW n \in Nat, n <= Len(s)
      PROVE  SubSeq(s, 1, n) \in Seq(S) /\ Len(SubSeq(s, 1, n)) = n
  <2>1. \A i \in 1 .. n : s[i] \in S
    <3>1. \A i \in 1 .. n : i \in 1 .. Len(s)
      BY <1>1, LenProperties
    <3>2. QED
      BY <3>1, ElementOfSeq
  <2>2. CASE n = 0
    <3>1. SubSeq(s, 1, n) = <<>>
      BY <2>2, SubSeqEmpty
    <3>2. QED
      BY <2>2, <3>1
  <2>3. CASE n # 0
    BY <2>1, <2>3, SubSeqProperties
  <2>4. QED
    BY <2>2, <2>3
<1>2. /\ d.time \in Seq(Times(kind)) /\ d.data \in Seq(Data(kind)) /\ d.timeLen \in Nat /\ d.dataLen \in Nat
      /\ d.timeLen <= Len(d.time) /\ d.dataLen <= Len(d.data)
  BY DEF Fits, Memories
<1>3. QED
  BY <1>1, <1>2 DEF Visible, Columns

\* What was sorted in place is as long as what it was.
LEMMA StoredType ==
    ASSUME NEW d, Fits(d), NEW v \in Columns, Len(v.time) = d.timeLen, Len(v.data) = d.dataLen
    PROVE  Fits(Stored(d, v)) /\ Stored(d, v).timeLen = d.timeLen /\ Stored(d, v).dataLen = d.dataLen
<1>0. /\ d.time \in Seq(Times(kind)) /\ d.data \in Seq(Data(kind)) /\ d.timeLen \in Nat /\ d.dataLen \in Nat
      /\ d.timeLen <= Len(d.time) /\ d.dataLen <= Len(d.data)
      /\ v.time \in Seq(Times(kind)) /\ v.data \in Seq(Data(kind)) /\ d \in Memories
  BY DEF Fits, Memories, Columns
<1>1. PICK s, t : /\ s = v.time \o SubSeq(d.time, d.timeLen + 1, Len(d.time))
                  /\ t = v.data \o SubSeq(d.data, d.dataLen + 1, Len(d.data))
  OBVIOUS
<1>2. s = Over(v.time, d.time) /\ t = Over(v.data, d.data)
  BY <1>1 DEF Over
<1>3. /\ s \in Seq(Times(kind)) /\ Len(s) >= Len(d.time)
      /\ t \in Seq(Data(kind)) /\ Len(t) >= Len(d.data)
  BY <1>0, <1>2, OverType
<1>4. Len(s) \in Nat /\ Len(t) \in Nat /\ Len(d.time) \in Nat /\ Len(d.data) \in Nat
  BY <1>0, <1>3, LenProperties
<1>5. d.timeLen <= Len(s) /\ d.dataLen <= Len(t)
  BY <1>0, <1>3, <1>4
<1>6. Stored(d, v) = [d EXCEPT !.time = s, !.data = t]
  BY <1>1 DEF Stored
<1>7. Stored(d, v) \in Memories /\ Stored(d, v).time = s /\ Stored(d, v).data = t
      /\ Stored(d, v).timeLen = d.timeLen /\ Stored(d, v).dataLen = d.dataLen
  BY <1>0, <1>3, <1>6 DEF Memories
<1>8. QED
  BY <1>5, <1>7 DEF Fits

LEMMA EncodeDestTypes ==
    ASSUME TypeInv, EncodeDest
    PROVE  TypeInv'
<1>1. PICK v \in Sorts(Visible(dest)) : dest' = Stored(dest, v) /\ wire' = Framed(v)
  BY DEF EncodeDest
<1>2. Fits(dest) /\ kind' = kind /\ value' = value /\ last' = "encoded" /\ ~Mismatched(Visible(dest))
  BY DEF TypeInv, EncodeDest
<1>3. /\ Visible(dest) \in Columns /\ Len(Visible(dest).time) = dest.timeLen
      /\ Len(Visible(dest).data) = dest.dataLen
  BY <1>2, VisibleType
<1>4. Len(Visible(dest).data) = Len(Visible(dest).time) \/ Visible(dest).data = <<>>
  <2>1. CASE kind \in Pairs
    BY <1>2, <2>1 DEF Mismatched
  <2>2. CASE kind \notin Pairs
    <3>1. Len(Visible(dest).data) = 0
      BY <1>3, <2>2 DEF TypeInv
    <3>2. Visible(dest).data \in Seq(Data(kind))
      BY <1>3 DEF Columns
    <3>3. QED
      BY <3>1, <3>2, EmptySeq
  <2>3. QED
    BY <2>1, <2>2
<1>5. v \in Columns /\ Len(v.time) = dest.timeLen /\ Len(v.data) = dest.dataLen
  BY <1>3, <1>4, SortsType
<1>6. Fits(dest') /\ dest'.dataLen = dest.dataLen
  BY <1>1, <1>2, <1>5, StoredType
<1>7. wire' \in Wires /\ wire'.size = Len(wire'.bytes)
  BY <1>1, <1>5, FramedType
<1>8. QED
  BY <1>2, <1>6, <1>7 DEF TypeInv, Fits, Columns, Memories

LEMMA TypeInvNext == TypeInv /\ [Next]_vars => TypeInv'
<1> SUFFICES ASSUME TypeInv, [Next]_vars PROVE TypeInv'
  OBVIOUS
<1>1. CASE Encode
  BY <1>1, EncodeTypes
<1>2. CASE EncodeDest
  BY <1>2, EncodeDestTypes
<1>3. CASE Refuse
  BY <1>3 DEF Refuse, TypeInv, Fits, Columns, Memories
<1>4. CASE Decode
  <2>1. wire \in Wires /\ Fits(dest) /\ kind \in Kinds
    BY <1>4 DEF Decode, TypeInv
  <2>2. Stands(dest, Decoded(wire, dest))
    BY <2>1, DecodedStands
  <2>3. dest' = Decoded(wire, dest).dest /\ last' # "panic" /\ UNCHANGED <<kind, value, wire>>
    BY <1>4, <2>2 DEF Decode, Finish, Stands
  <2>4. QED
    BY <2>2, <2>3 DEF TypeInv, Stands, Fits, Columns, Memories
<1>5. ASSUME NEW w \in Junk, DecodeJunk(w)
      PROVE  TypeInv'
  <2>1. w \in Wires /\ Fits(dest) /\ kind \in Kinds
    <3>1. w \in [count : Nat, size : Nat, bytes : Seq(0 .. 2 * Base - 1)]
      BY <1>5, ValuesAssumption
    <3>2. 0 .. 2 * Base - 1 \subseteq Nat
      OBVIOUS
    <3>3. w.bytes \in Seq(0 .. 2 * Base - 1)
      BY <3>1
    <3>4. w.bytes \in Seq(Nat)
      <4>1. \A i \in 1 .. Len(w.bytes) : w.bytes[i] \in Nat
        BY <3>2, <3>3, ElementOfSeq
      <4>2. QED
        BY <3>3, <4>1
    <3>5. QED
      BY <3>1, <3>4 DEF Wires, TypeInv
  <2>2. Stands(dest, Decoded(w, dest))
    BY <2>1, DecodedStands
  <2>3. dest' = Decoded(w, dest).dest /\ last' # "panic" /\ wire' = NoWire /\ UNCHANGED <<kind, value>>
    BY <1>5, <2>2 DEF DecodeJunk, Finish, Stands
  <2>4. QED
    BY <2>2, <2>3 DEF TypeInv, Stands, Fits, Columns, Memories
<1>6. ASSUME NEW a \in Appended, AppendPair(a[1], a[2])
      PROVE  TypeInv'
  <2>1. a[1] \in Times(kind) /\ a[2] \in Data(kind)
    <3>1. Appended \subseteq Times(kind) \X Data(kind)
      BY <1>6, ValuesAssumption DEF AppendPair, TypeInv
    <3>2. QED
      BY <1>6, <3>1
  <2>2. Append(value.time, a[1]) \in Seq(Times(kind)) /\ Append(value.data, a[2]) \in Seq(Data(kind))
    BY <2>1, AppendProperties DEF TypeInv, Columns
  <2>3. value' \in Columns
    BY <1>6, <2>2 DEF AppendPair, Columns
  <2>4. kind \in Pairs /\ last' = "none" /\ UNCHANGED <<kind, dest, wire>>
    BY <1>6 DEF AppendPair
  <2>5. QED
    BY <2>3, <2>4 DEF TypeInv, Fits, Columns, Memories
<1>7. CASE UNCHANGED vars
  BY <1>7 DEF vars, TypeInv, Fits, Columns, Memories
<1>8. QED
  BY <1>1, <1>2, <1>3, <1>4, <1>5, <1>6, <1>7 DEF Next

\* Type correctness: a destination never claims more of a column than there is memory, whatever is
\* encoded, appended and decoded into it, the encoder's bytes or others, and however a decode fails
\* (sorted/codecs.go:122-168,208-243, sorted/timeseries.go:44-95, sorted/counters.go:30-74).
THEOREM SeriesTypes == Spec => []TypeOK
<1>1. TypeInv => TypeOK
  <2> SUFFICES ASSUME TypeInv PROVE TypeOK
    OBVIOUS
  <2>1. /\ value.time \in Seq(Times(kind)) /\ value.data \in Seq(Data(kind))
        /\ dest.time \in Seq(Times(kind)) /\ dest.data \in Seq(Data(kind)) /\ dest.timeLen \in Nat /\ dest.dataLen \in Nat
        /\ dest.timeLen <= Len(dest.time) /\ dest.dataLen <= Len(dest.data)
        /\ wire = NoWire \/ wire.size = Len(wire.bytes)
    BY DEF TypeInv, Columns, Fits, Memories
  <2>2. Len(dest.time) \in Nat /\ Len(dest.data) \in Nat
    BY <2>1, LenProperties
  <2>3. QED
    BY <2>1, <2>2 DEF TypeOK
<1>2. QED
  BY <1>1, TypeInvInit, TypeInvNext, PTL DEF Spec

\* No decode writes behind the memory it has counted, whatever the bytes: the loop of a slice of
\* integers returns at most as many values as countVarints has found, because every value ends
\* with a byte that countVarints counts (sorted/codecs.go:61-86,122-183).
THEOREM SeriesStayInside == Spec => []NoPanic
<1>1. TypeInv => NoPanic
  BY DEF TypeInv, NoPanic
<1>2. QED
  BY <1>1, TypeInvInit, TypeInvNext, PTL DEF Spec

-----------------------------------------------------------------------------
(***************************************************************************)
(* What is on the wire was written of what was sent, and what was returned *)
(* was read of it.                                                         *)
(***************************************************************************)
Wrote    == Encodable(sent) /\ \E v \in Sorts(sent) : wire = Framed(v)
Returned == wire # NoWire /\ \E v \in Sorts(sent) : wire = Framed(v) /\ Visible(dest) = Seen(v)

RInv == /\ TypeInv
        /\ last # "refused"
        /\ wire # NoWire => Wrote
        /\ last = "returned" => Returned

\* The type does not change, so neither does what is written of a value.
LEMMA SameKind ==
    ASSUME kind' = kind, NEW v
    PROVE  /\ Framed(v)' = Framed(v)
           /\ Seen(v)' = Seen(v)
           /\ Encodable(v) => Encodable(v)'
<1>1. Framed(v)' = Framed(v)
  BY DEF Framed, EncodedBytes
<1>2. \A x : Rounded(x)' = Rounded(x)
  BY DEF Rounded
<1>3. Seen(v)' = Seen(v)
  BY <1>2 DEF Seen, Rounded
<1>4. Encodable(v) => Encodable(v)'
  BY DEF Encodable, Columns, Mismatched
<1>5. QED
  BY <1>1, <1>3, <1>4

\* A step that writes u, a sort of v, where nothing was returned.
LEMMA WroteNext ==
    ASSUME kind' = kind, NEW v, Encodable(v), NEW u \in Sorts(v), sent' = v, wire' = Framed(u)
    PROVE  Wrote'
<1>1. Encodable(v)' /\ Framed(u)' = Framed(u)
  BY SameKind
<1>2. Encodable(sent)'
  BY <1>1 DEF Encodable, Columns, Mismatched
<1>3. (\E x \in Sorts(sent) : wire = Framed(x))'
  <2>1. u \in Sorts(sent') /\ wire' = Framed(u)'
    BY <1>1
  <2>2. QED
    BY <2>1
<1>4. QED
  BY <1>2, <1>3 DEF Wrote

\* A step that writes nothing.
LEMMA WroteStays ==
    ASSUME kind' = kind, sent' = sent, wire' = wire, Wrote
    PROVE  Wrote'
<1>1. PICK s : s = sent
  OBVIOUS
<1>2. PICK u \in Sorts(s) : wire = Framed(u)
  BY <1>1 DEF Wrote
<1>3. Encodable(s)
  BY <1>1 DEF Wrote
<1>4. QED
  BY <1>1, <1>2, <1>3, WroteNext

LEMMA ReturnedStays ==
    ASSUME kind' = kind, sent' = sent, wire' = wire, dest' = dest, Returned
    PROVE  Returned'
<1>1. PICK u \in Sorts(sent) : wire = Framed(u) /\ Visible(dest) = Seen(u)
  BY DEF Returned
<1>2. Framed(u)' = Framed(u) /\ Seen(u)' = Seen(u)
  BY SameKind
<1>3. u \in Sorts(sent') /\ wire' = Framed(u)' /\ Visible(dest') = Seen(u)' /\ wire' # NoWire
  BY <1>1, <1>2 DEF Returned
<1>4. QED
  BY <1>3 DEF Returned

LEMMA RInvInit == Init => RInv
<1> SUFFICES ASSUME Init PROVE RInv
  OBVIOUS
<1>1. TypeInv
  BY TypeInvInit
<1>2. QED
  BY <1>1 DEF Init, RInv

LEMMA RInvNext == RInv /\ [Next]_vars => RInv'
<1> SUFFICES ASSUME RInv, [Next]_vars PROVE RInv'
  OBVIOUS
<1>1. TypeInv /\ TypeInv' /\ kind \in Kinds
  <2>1. TypeInv
    BY DEF RInv
  <2>2. QED
    BY <2>1, TypeInvNext DEF TypeInv
<1>2. kind' = kind
  BY DEF Next, vars, Encode, EncodeDest, Refuse, Decode, DecodeJunk, AppendPair
<1>3. CASE Encode
  <2>1. PICK v, u : v = value /\ u = value'
    OBVIOUS
  <2>2. u \in Sorts(v) /\ sent' = v /\ wire' = Framed(u) /\ last' = "encoded" /\ ~Mismatched(v)
    BY <1>3, <2>1 DEF Encode
  <2>3. Encodable(v)
    BY <1>1, <2>1, <2>2 DEF Encodable, TypeInv
  <2>4. Wrote'
    BY <1>2, <2>2, <2>3, WroteNext
  <2>5. QED
    BY <1>1, <2>2, <2>4 DEF RInv
<1>4. CASE EncodeDest
  <2>1. PICK v : v = Visible(dest)
    OBVIOUS
  <2>2. PICK u \in Sorts(v) : wire' = Framed(u)
    BY <1>4, <2>1 DEF EncodeDest
  <2>3. sent' = v /\ last' = "encoded" /\ ~Mismatched(v)
    BY <1>4, <2>1 DEF EncodeDest
  <2>4. v \in Columns /\ Len(v.data) = dest.dataLen
    <3>1. Fits(dest)
      BY <1>1 DEF TypeInv
    <3>2. QED
      BY <2>1, <3>1, VisibleType
  <2>5. kind \notin Pairs => v.data = <<>>
    <3>1. kind \notin Pairs => Len(v.data) = 0
      BY <1>1, <2>4 DEF TypeInv
    <3>2. v.data \in Seq(Data(kind))
      BY <2>4 DEF Columns
    <3>3. QED
      BY <3>1, <3>2, EmptySeq
  <2>6. Encodable(v)
    BY <2>3, <2>4, <2>5 DEF Encodable
  <2>7. Wrote'
    BY <1>2, <2>2, <2>3, <2>6, WroteNext
  <2>8. QED
    BY <1>1, <2>3, <2>7 DEF RInv
<1>5. CASE Refuse
  <2>1. UNCHANGED <<kind, wire, sent>> /\ last' = "error"
    BY <1>5 DEF Refuse
  <2>2. wire' # NoWire => Wrote'
    BY <2>1, WroteStays DEF RInv
  <2>3. QED
    BY <1>1, <2>1, <2>2 DEF RInv
<1>6. CASE Decode
  <2>1. wire # NoWire /\ wire' = wire /\ sent' = sent /\ Wrote
    BY <1>6 DEF Decode, RInv
  <2>2. PICK u \in Sorts(sent) : wire = Framed(u)
    BY <2>1 DEF Wrote
  <2>3. Encodable(u)
    BY <2>1, SortsKeep DEF Wrote
  <2>4. Accepts(dest)
    BY <1>1 DEF Accepts, TypeInv
  <2>5. PICK r : r = Decoded(wire, dest)
    OBVIOUS
  <2>6. Brings(r, u)
    BY <1>1, <2>2, <2>3, <2>4, <2>5, WrittenReturns
  <2>7. last' = "returned" /\ Visible(dest') = Seen(u)
    BY <1>6, <2>5, <2>6 DEF Decode, Finish, Brings
  <2>8. Framed(u)' = Framed(u) /\ Seen(u)' = Seen(u)
    BY <1>2, SameKind
  <2>9. u \in Sorts(sent') /\ wire' = Framed(u)' /\ Visible(dest') = Seen(u)' /\ wire' # NoWire
    BY <2>1, <2>2, <2>7, <2>8
  <2>10. Returned'
    BY <2>9 DEF Returned
  <2>11. Wrote'
    BY <1>2, <2>1, WroteStays
  <2>12. QED
    BY <1>1, <2>7, <2>10, <2>11 DEF RInv
<1>7. ASSUME NEW w \in Junk, DecodeJunk(w)
      PROVE  RInv'
  <2>1. wire' = NoWire /\ last' # "refused" /\ last' # "returned"
    BY <1>7 DEF DecodeJunk, Finish
  <2>2. QED
    BY <1>1, <2>1 DEF RInv
<1>8. ASSUME NEW a \in Appended, AppendPair(a[1], a[2])
      PROVE  RInv'
  <2>1. UNCHANGED <<kind, wire, sent>> /\ last' = "none"
    BY <1>8 DEF AppendPair
  <2>2. wire' # NoWire => Wrote'
    BY <2>1, WroteStays DEF RInv
  <2>3. QED
    BY <1>1, <2>1, <2>2 DEF RInv
<1>9. CASE UNCHANGED vars
  <2>1. UNCHANGED <<kind, wire, sent, dest, last>>
    BY <1>9 DEF vars
  <2>2. wire' # NoWire => Wrote'
    BY <2>1, WroteStays DEF RInv
  <2>3. last' = "returned" => Returned'
    BY <2>1, ReturnedStays DEF RInv
  <2>4. QED
    BY <1>1, <2>1, <2>2, <2>3 DEF RInv
<1>10. QED
  BY <1>3, <1>4, <1>5, <1>6, <1>7, <1>8, <1>9 DEF Next

\* What was encoded is decoded without an error, into whatever memory of its type was used
\* before, as the same elements in order: for every width of a word and of an element, every
\* number of bits of a float, every value and every destination (sorted/codecs.go:43-243,
\* sorted/timeseries.go:20-121, sorted/counters.go:14-74).
THEOREM SeriesRoundTrip == Spec => []RoundTrip
<1>1. RInv => RoundTrip
  <2> SUFFICES ASSUME RInv PROVE RoundTrip
    OBVIOUS
  <2>1. last # "refused"
    BY DEF RInv
  <2>2. ASSUME last = "returned"
        PROVE  InOrder(Visible(dest).time) /\ ToBag(Elements(Visible(dest))) = ToBag(Elements(sent))
    <3>1. Returned /\ Encodable(sent)
      BY <2>2 DEF RInv, Returned, Wrote
    <3>2. PICK v \in Sorts(sent) : Visible(dest) = Seen(v)
      BY <3>1 DEF Returned
    <3>3. Encodable(v) /\ InOrder(v.time) /\ ToBag(Elements(v)) = ToBag(Elements(sent))
      BY <3>1, SortsKeep
    <3>4. Elements(Seen(v)) = Elements(v)
      BY <3>3, SeenKeeps
    <3>5. Seen(v).time = v.time
      BY DEF Seen
    <3>6. QED
      BY <3>2, <3>3, <3>4, <3>5
  <2>3. QED
    BY <2>1, <2>2 DEF RoundTrip
<1>2. QED
  BY <1>1, RInvInit, RInvNext, PTL DEF Spec

\* Encoding what was returned writes the bytes it was read of: it is in order, so nothing is
\* sorted again, and a float that was rounded rounds to itself (sorted/codecs.go:88-93,
\* sorted/timeseries.go:20-27).
THEOREM SeriesReencode == Spec => Reencodes
<1>1. RInv /\ EncodeDest /\ last = "returned" => wire' = wire
  <2> SUFFICES ASSUME RInv, EncodeDest, last = "returned" PROVE wire' = wire
    OBVIOUS
  <2>1. Returned /\ Encodable(sent)
    BY DEF RInv, Returned, Wrote
  <2>2. PICK v \in Sorts(sent) : wire = Framed(v) /\ Visible(dest) = Seen(v)
    BY <2>1 DEF Returned
  <2>3. Encodable(v) /\ InOrder(v.time)
    BY <2>1, SortsKeep
  <2>4. Framed(Seen(v)) = Framed(v)
    BY <2>3, SeenKeeps
  <2>5. Seen(v).time = v.time
    BY DEF Seen
  <2>6. Sorts(Seen(v)) = {Seen(v)}
    BY <2>3, <2>5 DEF Sorts
  <2>7. PICK u \in Sorts(Visible(dest)) : wire' = Framed(u)
    BY DEF EncodeDest
  <2>8. u = Seen(v)
    BY <2>2, <2>6, <2>7
  <2>9. QED
    BY <2>2, <2>4, <2>7, <2>8
<1>2. QED
  BY <1>1, RInvInit, RInvNext, PTL DEF Spec, Reencodes

-----------------------------------------------------------------------------
\* Destinations are records: what the loops write are their fields.
IsDest(d) == d = [time |-> d.time, data |-> d.data, timeLen |-> d.timeLen, dataLen |-> d.dataLen]

IInv == kind \in DOMAIN Values /\ (kind \in Pairs => IsDest(dest) /\ dest.timeLen = dest.dataLen)

\* A decode of a pair sets both lengths to one number, or none.
LEMMA PairsDecoded ==
    ASSUME NEW d, NEW w, IsDest(d), d.timeLen = d.dataLen, kind \in Pairs
    PROVE  LET r == Decoded(w, d).dest IN IsDest(r) /\ r.timeLen = r.dataLen
<1>1. Decoded(w, d) = DecodePairs(w, d)
  BY DEF Decoded, Pairs, Slices, Ints
<1>2. ASSUME NEW x, IsDest(x), x.timeLen = x.dataLen, NEW n, NEW t, NEW ok
      PROVE  IsDest(PairLens(x, n, t, ok)) /\ PairLens(x, n, t, ok).timeLen = PairLens(x, n, t, ok).dataLen
  BY <1>2 DEF IsDest, PairLens
<1>3. \A a, b : IsDest(Memory(d, a, b)) /\ Memory(d, a, b).timeLen = Memory(d, a, b).dataLen
  BY DEF IsDest, Memory
<1>4. \A x, ok : Outcome(x, ok).dest = x
  BY DEF Outcome
<1>5. ASSUME NEW a, NEW b, NEW n, NEW t, NEW ok, NEW o
      PROVE  LET r == Outcome(PairLens(Memory(d, a, b), n, t, ok), o).dest
             IN  IsDest(r) /\ r.timeLen = r.dataLen
  BY <1>2, <1>3, <1>4
<1>6. \/ DecodePairs(w, d) = Outcome(d, FALSE)
      \/ \E a, b, n, t, ok : DecodePairs(w, d) = Outcome(PairLens(Memory(d, a, b), n, t, ok), ok)
  BY Zenon DEF DecodePairs, DecodedColumns
<1>7. CASE DecodePairs(w, d) = Outcome(d, FALSE)
  <2>1. Decoded(w, d).dest = d
    BY <1>1, <1>4, <1>7
  <2> QED  BY <2>1
<1>8. CASE \E a, b, n, t, ok : DecodePairs(w, d) = Outcome(PairLens(Memory(d, a, b), n, t, ok), ok)
  <2>1. PICK a, b, n, t, ok : DecodePairs(w, d) = Outcome(PairLens(Memory(d, a, b), n, t, ok), ok)
    BY <1>8
  <2> QED  BY <1>1, <1>5, <2>1
<1> QED  BY <1>6, <1>7, <1>8

\* The columns of a destination are of one length after every decode, whatever the bytes and
\* wherever it failed (sorted/timeseries.go:44-95, sorted/counters.go:30-74).
THEOREM ColumnsMatch == Spec => []PairsMatch
<1>1. Init => IInv
  BY DestsAssumption DEF Init, IInv, IsDest
<1>2. IInv /\ [Next]_vars => IInv'
  <2> SUFFICES ASSUME IInv, [Next]_vars PROVE IInv'
    OBVIOUS
  <2>0. kind' = kind
    BY DEF Next, vars, Encode, EncodeDest, Refuse, Decode, DecodeJunk, AppendPair
  <2>1. CASE dest' = dest
    BY <2>0, <2>1 DEF IInv, IsDest
  <2>2. CASE EncodeDest
    BY <2>0, <2>2 DEF IInv, IsDest, EncodeDest, Stored
  <2>3. CASE Decode
    BY <2>0, <2>3, PairsDecoded DEF IInv, Decode, Finish
  <2>4. ASSUME NEW w \in Junk, DecodeJunk(w) PROVE IInv'
    BY <2>0, <2>4, PairsDecoded DEF IInv, DecodeJunk, Finish
  <2> QED
    BY <2>1, <2>2, <2>3, <2>4 DEF Next, vars, Encode, Refuse, AppendPair
<1>3. IInv => PairsMatch
  BY DEF IInv, PairsMatch
<1> QED  BY <1>1, <1>2, <1>3, PTL DEF Spec

=============================================================================
