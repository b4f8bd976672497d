-------------------------- MODULE WireFormat_proofs -------------------------
EXTENDS WireFormat, Facts_proofs

-----------------------------------------------------------------------------
(* Functions defined by recursion over the naturals.                        *)

\* What the recursive functions of the module do from one natural to the next.
Step(w, i, x) ==
    CASE w[1] = "types"  -> MadeOf(x)
      [] w[1] = "made"   -> Made(x)
      [] w[1] = "meant"  -> Meant(x, Codecs[i])
      [] w[1] = "encode" -> AndEncode(w[2], w[3][i], w[4][i], w[5], x)
      [] w[1] = "decode" -> AndDecode(w[2], w[3][i], w[4], i, x)

Begun(n, w, a, g) == g = [i \in 0 .. n |-> IF i = 0 THEN a ELSE Step(w, i, g[i - 1])]
Goes(w, a, g)     == g = [i \in Nat |-> IF i = 0 THEN a ELSE Step(w, i, g[i - 1])]

LEMMA Recursion ==
    ASSUME NEW w, NEW a
    PROVE  \E g : Goes(w, a, g)
<1> DEFINE T == {n \in Nat : \E g : Begun(n, w, a, g)}
<1>1. 0 \in T
  <2>1. Begun(0, w, a, [i \in 0 .. 0 |-> a])
    BY DEF Begun
  <2>2. QED
    BY <2>1
<1>2. ASSUME NEW n \in Nat, n \in T
      PROVE  n + 1 \in T
  <2>1. PICK g : Begun(n, w, a, g)
    BY <1>2
  <2> DEFINE x == [i \in 0 .. n + 1 |-> IF i = n + 1 THEN Step(w, n + 1, g[n]) ELSE g[i]]
  <2>2. \A i \in 0 .. n : g[i] = IF i = 0 THEN a ELSE Step(w, i, g[i - 1])
    BY <2>1 DEF Begun
  <2>3. \A i \in 0 .. n + 1 : x[i] = IF i = 0 THEN a ELSE Step(w, i, x[i - 1])
    <3>1. ASSUME NEW i \in 0 .. n + 1
          PROVE  x[i] = IF i = 0 THEN a ELSE Step(w, i, x[i - 1])
      <4>1. CASE i = n + 1
        <5>1. n \in 0 .. n + 1 /\ i \in 0 .. n + 1 /\ i - 1 = n /\ i # 0 /\ n # n + 1
          BY <4>1
        <5>2. x[i] = Step(w, n + 1, g[n]) /\ x[i - 1] = g[n]
          BY <4>1, <5>1
        <5>3. QED
          BY <4>1, <5>1, <5>2
      <4>2. CASE i # n + 1
        <5>1. i \in 0 .. n /\ i # n + 1 /\ (i # 0 => i - 1 \in 0 .. n + 1 /\ i - 1 # n + 1)
          BY <4>2
        <5>2. x[i] = g[i] /\ (i # 0 => x[i - 1] = g[i - 1])
          BY <5>1
        <5>3. QED
          BY <2>2, <5>1, <5>2
      <4>3. QED
        BY <4>1, <4>2
    <3>2. QED
      BY <3>1
  <2>4. x = [i \in 0 .. n + 1 |-> x[i]]
    OBVIOUS
  <2> HIDE DEF x
  <2>5. Begun(n + 1, w, a, x)
    BY <2>3, <2>4 DEF Begun
  <2>6. n + 1 \in Nat /\ \E h : Begun(n + 1, w, a, h)
    BY <2>5
  <2>7. QED
    BY <2>6
<1>3. Nat \subseteq T
  <2> HIDE DEF T
  <2>1. QED
    BY <1>1, <1>2, InductionBySet
<1> DEFINE G == [n \in Nat |-> CHOOSE g : Begun(n, w, a, g)]
<1>4. \A n \in Nat : Begun(n, w, a, G[n])
  BY <1>3
<1> HIDE DEF G
<1>5. ASSUME NEW n \in Nat, NEW i \in 0 .. n
      PROVE  G[n][i] = IF i = 0 THEN a ELSE Step(w, i, G[n][i - 1])
  BY <1>4 DEF Begun
<1>6. ASSUME NEW n \in Nat
      PROVE  G[n + 1][n] = G[n][n]
  <2> DEFINE U == {i \in Nat : i <= n => G[n + 1][i] = G[n][i]}
  <2>1. 0 \in U
    BY <1>5
  <2>2. ASSUME NEW i \in Nat, i \in U
        PROVE  i + 1 \in U
    <3>1. SUFFICES ASSUME i + 1 <= n PROVE G[n + 1][i + 1] = G[n][i + 1]
      OBVIOUS
    <3>2. i + 1 \in 0 .. n /\ i + 1 \in 0 .. n + 1 /\ i + 1 # 0 /\ (i + 1) - 1 = i
      BY <3>1
    <3>3. G[n + 1][i + 1] = Step(w, i + 1, G[n + 1][i]) /\ G[n][i + 1] = Step(w, i + 1, G[n][i])
      BY <1>5, <3>2
    <3>4. QED
      BY <2>2, <3>1, <3>3
  <2>3. n \in U
    <3> HIDE DEF U
    <3>1. QED
      BY <2>1, <2>2, InductionBySet
  <2>4. QED
    BY <2>3
<1> DEFINE h == [n \in Nat |-> G[n][n]]
<1>7. ASSUME NEW n \in Nat
      PROVE  h[n] = IF n = 0 THEN a ELSE Step(w, n, h[n - 1])
  <2>1. CASE n = 0
    BY <1>5, <2>1
  <2>2. CASE n # 0
    <3>1. PICK m \in Nat : n = m + 1
      BY <2>2
    <3>2. G[n][n] = Step(w, n, G[m + 1][m])
      <4>1. n \in 0 .. n /\ n - 1 = m
        BY <3>1
      <4>2. QED
        BY <1>5, <2>2, <3>1, <4>1
    <3>3. n - 1 = m /\ n - 1 \in Nat
      BY <3>1
    <3>4. h[n] = G[n][n] /\ h[n - 1] = G[m][m]
      BY <3>3
    <3>5. QED
      BY <1>6, <2>2, <3>2, <3>4
  <2>3. QED
    BY <2>1, <2>2
<1>8. h = [n \in Nat |-> h[n]]
  OBVIOUS
<1> HIDE DEF h
<1>9. Goes(w, a, h)
  BY <1>7, <1>8 DEF Goes
<1>10. QED
  BY <1>9

\* and so is the one that TLA+ chooses.
LEMMA Chosen ==
    ASSUME NEW w, NEW a
    PROVE  LET f == CHOOSE g : Goes(w, a, g)
           IN  f[0] = a /\ \A i \in Nat : f[i + 1] = Step(w, i + 1, f[i])
<1> DEFINE f == CHOOSE g : Goes(w, a, g)
<1>1. Goes(w, a, f)
  BY Recursion
<1> HIDE DEF f
<1>2. f[0] = a /\ \A i \in Nat : f[i + 1] = Step(w, i + 1, f[i])
  <2>1. \A i \in Nat : f[i] = IF i = 0 THEN a ELSE Step(w, i, f[i - 1])
    BY <1>1 DEF Goes
  <2>2. f[0] = a
    BY <2>1
  <2>3. ASSUME NEW i \in Nat
        PROVE  f[i + 1] = Step(w, i + 1, f[i])
    <3>1. i + 1 \in Nat /\ i + 1 # 0 /\ (i + 1) - 1 = i
      OBVIOUS
    <3>2. QED
      BY <2>1, <3>1
  <2>4. QED
    BY <2>2, <2>3
<1>3. QED
  BY <1>2 DEF f

\* The types that are nested one deeper.
LEMMA NestedIs == Nested[0] = {} /\ \A n \in Nat : Nested[n + 1] = MadeOf(Nested[n])
<1> DEFINE w == <<"types">>
<1>1. \A i, x : Step(w, i, x) = MadeOf(x)
  BY DEF Step
<1> DEFINE f == CHOOSE g : Goes(w, {}, g)
           e(g) == g = [n \in Nat |-> IF n = 0 THEN {} ELSE MadeOf(g[n - 1])]
<1>2. \A g : Goes(w, {}, g) <=> e(g)
  BY <1>1 DEF Goes
<1>3. f = CHOOSE g : e(g)
  BY <1>2
<1>4. Nested = CHOOSE g : e(g)
  BY DEF Nested
<1>5. Nested = f
  BY <1>3, <1>4
<1>6. f[0] = {} /\ \A i \in Nat : f[i + 1] = Step(w, i + 1, f[i])
  BY Chosen, ZenonT(30)
<1>7. QED
  BY <1>1, <1>5, <1>6

\* Every codec is made of those of the level below.
LEMMA CodecsAre == \A n \in Nat : Codecs[n + 1] = Made(Codecs[n])
<1> DEFINE w == <<"made">>
           start == [values |-> None, results |-> None, zero |-> None, min |-> None,
                     wireless |-> None, encode |-> None, decode |-> None]
<1>1. \A i, x : Step(w, i, x) = Made(x)
  BY DEF Step
<1> DEFINE f == CHOOSE g : Goes(w, start, g)
           e(g) == g = [n \in Nat |-> IF n = 0 THEN start ELSE Made(g[n - 1])]
<1>2. \A g : Goes(w, start, g) <=> e(g)
  BY <1>1 DEF Goes
<1>3. f = CHOOSE g : e(g)
  BY <1>2
<1>4. Codecs = CHOOSE g : e(g)
  BY DEF Codecs
<1>5. Codecs = f
  BY <1>3, <1>4
<1>6. \A i \in Nat : f[i + 1] = Step(w, i + 1, f[i])
  BY Chosen
<1>7. QED
  BY <1>1, <1>5, <1>6

\* and so is every view of the values.
LEMMA MeaningsAre == \A n \in Nat : Meanings[n + 1] = Meant(Meanings[n], Codecs[n + 1])
<1> DEFINE w == <<"meant">>
           start == [view |-> None, readable |-> None, unmixed |-> None, versions |-> None, arms |-> None]
<1>1. \A i, x : Step(w, i, x) = Meant(x, Codecs[i])
  BY DEF Step
<1> DEFINE f == CHOOSE g : Goes(w, start, g)
           e(g) == g = [n \in Nat |-> IF n = 0 THEN start ELSE Meant(g[n - 1], Codecs[n])]
<1>2. \A g : Goes(w, start, g) <=> e(g)
  BY <1>1 DEF Goes
<1>3. f = CHOOSE g : e(g)
  BY <1>2
<1>4. Meanings = CHOOSE g : e(g)
  BY DEF Meanings
<1>5. Meanings = f
  BY <1>3, <1>4
<1>6. \A i \in Nat : f[i + 1] = Step(w, i + 1, f[i])
  BY Chosen
<1>7. QED
  BY <1>1, <1>5, <1>6

\* What the loops have after some of their elements.
EncodeUpTo(k, types, values, buffered) ==
    CHOOSE g : Goes(<<"encode", k, types, values, buffered>>, Written(<<>>), g)

DecodeUpTo(k, types, c, pos, olds) ==
    CHOOSE g : Goes(<<"decode", k, types, c>>, Ok(pos, olds), g)

LEMMA EncodeLoop ==
    ASSUME NEW k, NEW types, NEW values, NEW buffered
    PROVE  LET f == EncodeUpTo(k, types, values, buffered)
           IN  /\ EncodeAll(k, types, values, buffered) = f[Len(types)]
               /\ f[0] = Written(<<>>)
               /\ \A i \in Nat : f[i + 1] = AndEncode(k, types[i + 1], values[i + 1], buffered, f[i])
<1> DEFINE w == <<"encode", k, types, values, buffered>>
           f == EncodeUpTo(k, types, values, buffered)
           e(g) == g = [i \in Nat |-> IF i = 0 THEN Written(<<>>)
                                      ELSE AndEncode(k, types[i], values[i], buffered, g[i - 1])]
<1>1. \A i, x : Step(w, i, x) = AndEncode(k, types[i], values[i], buffered, x)
  BY DEF Step
<1>2. \A g : Goes(w, Written(<<>>), g) <=> e(g)
  BY <1>1 DEF Goes
<1>3. f = CHOOSE g : e(g)
  BY <1>2 DEF EncodeUpTo
<1>4. EncodeAll(k, types, values, buffered) = f[Len(types)]
  BY <1>3 DEF EncodeAll
<1>5. f[0] = Written(<<>>) /\ \A i \in Nat : f[i + 1] = Step(w, i + 1, f[i])
  BY Chosen DEF EncodeUpTo
<1>6. QED
  BY <1>1, <1>4, <1>5

LEMMA DecodeLoop ==
    ASSUME NEW k, NEW types, NEW c, NEW pos, NEW olds
    PROVE  LET f == DecodeUpTo(k, types, c, pos, olds)
           IN  /\ DecodeAll(k, types, c, pos, olds) = f[Len(types)]
               /\ f[0] = Ok(pos, olds)
               /\ \A i \in Nat : f[i + 1] = AndDecode(k, types[i + 1], c, i + 1, f[i])
<1> DEFINE w == <<"decode", k, types, c>>
           f == DecodeUpTo(k, types, c, pos, olds)
           e(g) == g = [i \in Nat |-> IF i = 0 THEN Ok(pos, olds)
                                      ELSE AndDecode(k, types[i], c, i, g[i - 1])]
<1>1. \A i, x : Step(w, i, x) = AndDecode(k, types[i], c, i, x)
  BY DEF Step
<1>2. \A g : Goes(w, Ok(pos, olds), g) <=> e(g)
  BY <1>1 DEF Goes
<1>3. f = CHOOSE g : e(g)
  BY <1>2 DEF DecodeUpTo
<1>4. DecodeAll(k, types, c, pos, olds) = f[Len(types)]
  BY <1>3 DEF DecodeAll
<1>5. f[0] = Ok(pos, olds) /\ \A i \in Nat : f[i + 1] = Step(w, i + 1, f[i])
  BY Chosen DEF DecodeUpTo
<1>6. QED
  BY <1>1, <1>4, <1>5

-----------------------------------------------------------------------------
(* Types, and the codecs that are made of others.                           *)

Kinds == {"skipped", "fixed", "blob", "slice", "pointer", "tuple", "map", "union"}

Sound(d) ==
    /\ d.kind \in Kinds
    /\ d.kind = "fixed" => d.width \in Nat \ {0} /\ d.array \in BOOLEAN
    /\ d.kind = "blob" => /\ d.prefix \in {0, 2, 4, 8} /\ d.unit \in Nat \ {0}
                          /\ d.units \in BOOLEAN /\ d.own \in BOOLEAN
    /\ d.kind \in {"slice", "pointer"} => d.elem \in Types
    /\ d.kind = "tuple" => d.parts \in Seq(Types) /\ d.ahead \in BOOLEAN
    /\ d.kind = "map" => /\ d.prefix \in {0, 2, 4} /\ d.entry \in Types /\ d.least \in Nat
                         /\ IsMap(d)
    /\ d.kind = "union" => /\ d.arms \in [DOMAIN d.arms -> Types]
                           /\ DOMAIN d.arms \subseteq Byte \ {0}

LEMMA Described ==
    ASSUME NEW t \in Types
    PROVE  Sound(Desc[t])
<1>1. Desc[t] \in Description \/ IsUnion(Desc[t])
  BY WireAssumption
<1>2. Desc[t].kind = "map" => IsMap(Desc[t])
  BY WireAssumption
<1>3. CASE IsUnion(Desc[t])
  BY <1>3 DEF IsUnion, Sound, Kinds
<1>4. CASE Desc[t] \in Description
  BY <1>2, <1>4 DEF Description, Sound, Kinds
<1>5. QED
  BY <1>1, <1>3, <1>4

\* What a made codec has of a type.
LEMMA MadeIs ==
    ASSUME NEW k, NEW t \in Types
    PROVE  /\ Made(k).values[t]   = Shape(k.values, Desc[t], FALSE)
           /\ Made(k).results[t]  = Shape(k.results, Desc[t], TRUE)
           /\ Made(k).zero[t]     = Zero(k, Desc[t])
           /\ Made(k).min[t]      = MinBytes(k, Desc[t])
           /\ Made(k).wireless[t] = Wireless(k, Desc[t])
  BY DEF Made

LEMMA MadeEncode ==
    ASSUME NEW k, NEW t \in Types, NEW v \in Made(k).values[t], NEW buffered \in BOOLEAN
    PROVE  Made(k).encode[t][buffered][v] = EncodeOf(k, Desc[t], v, buffered)
<1>1. v \in Anything \cup Shape(k.values, Desc[t], FALSE)
  BY MadeIs
<1>2. QED
  BY <1>1 DEF Made

LEMMA MadeDecode ==
    ASSUME NEW k, NEW t \in Types, NEW c \in Contexts, NEW pos \in Nat, NEW old \in Made(k).results[t]
    PROVE  Made(k).decode[t][c][pos][old] = DecodeOf(k, Desc[t], c, pos, old)
<1>1. old \in Anything \cup Shape(k.results, Desc[t], TRUE)
  BY MadeIs
<1>2. QED
  BY <1>1 DEF Made

-----------------------------------------------------------------------------
(* The shapes of values.                                                    *)

\* A tuple is a sequence with a value of each type.
LEMMA TupleIs ==
    ASSUME NEW shape, NEW types \in Seq(Types), NEW S,
           \A i \in 1 .. Len(types) : shape[types[i]] \subseteq S,
           NEW v
    PROVE  v \in Tuples(shape, types) <=>
               v \in Seq(S) /\ Len(v) = Len(types) /\ \A i \in 1 .. Len(types) : v[i] \in shape[types[i]]
<1> DEFINE n == Len(types)
           sets == [i \in DOMAIN types |-> shape[types[i]]]
<1>1. n \in Nat /\ DOMAIN types = 1 .. n
  BY LenProperties
<1>2. DOMAIN sets = 1 .. n /\ \A i \in 1 .. n : sets[i] = shape[types[i]]
  BY <1>1
<1> HIDE DEF n, sets
<1>3. Tuples(shape, types) = {x \in [1 .. n -> Anything \cup UNION Range(sets)] : \A i \in 1 .. n : x[i] \in shape[types[i]]}
  <2>1. Tuples(shape, types) = OneOfEach(sets)
    BY DEF Tuples, sets
  <2>2. QED
    BY <1>2, <2>1 DEF OneOfEach
<1>4. ASSUME v \in Tuples(shape, types)
      PROVE  v \in Seq(S) /\ Len(v) = n /\ \A i \in 1 .. n : v[i] \in shape[types[i]]
  <2>1. DOMAIN v = 1 .. n /\ v = [i \in 1 .. n |-> v[i]] /\ \A i \in 1 .. n : v[i] \in shape[types[i]]
    BY <1>3, <1>4
  <2>2. \A i \in 1 .. n : v[i] \in S
    BY <2>1 DEF n
  <2>3. v \in [1 .. n -> S]
    BY <2>1, <2>2
  <2>4. v \in Seq(S) /\ Len(v) = n
    BY <1>1, <2>3
  <2>5. QED
    BY <2>1, <2>4
<1>5. ASSUME v \in Seq(S), Len(v) = n, \A i \in 1 .. n : v[i] \in shape[types[i]]
      PROVE  v \in Tuples(shape, types)
  <2>1. DOMAIN v = 1 .. n /\ v = [i \in 1 .. n |-> v[i]]
    BY <1>5
  <2>2. \A i \in 1 .. n : v[i] \in UNION Range(sets)
    BY <1>2, <1>5 DEF Range
  <2>3. \A i \in 1 .. n : v[i] \in Anything \cup UNION Range(sets)
    BY <2>2
  <2>4. v \in [1 .. n -> Anything \cup UNION Range(sets)]
    BY <2>1, <2>3
  <2>5. QED
    BY <1>3, <1>5, <2>4
<1>6. QED
  BY <1>4, <1>5 DEF n

\* A union has, per arm, what it points to or nothing.
LEMMA ArmsIs ==
    ASSUME NEW shape, NEW arms, NEW v
    PROVE  v \in Arms(shape, arms) <=>
               /\ v = [tag \in DOMAIN arms |-> v[tag]]
               /\ \A tag \in DOMAIN arms : v[tag] \in Optional(shape[arms[tag]])
<1> DEFINE D == DOMAIN arms
           sets == [tag \in D |-> Optional(shape[arms[tag]])]
<1>1. DOMAIN sets = D /\ \A tag \in D : sets[tag] = Optional(shape[arms[tag]])
  OBVIOUS
<1> HIDE DEF sets
<1>2. OneOfEach(sets) = {x \in [D -> Anything \cup UNION Range(sets)] : \A tag \in D : x[tag] \in Optional(shape[arms[tag]])}
  BY <1>1 DEF OneOfEach
<1>3. ASSUME v = [tag \in D |-> v[tag]], \A tag \in D : v[tag] \in Optional(shape[arms[tag]])
      PROVE  v \in OneOfEach(sets)
  <2>1. \A tag \in D : v[tag] \in UNION Range(sets)
    BY <1>1, <1>3 DEF Range
  <2>2. \A tag \in D : v[tag] \in Anything \cup UNION Range(sets)
    BY <2>1
  <2>3. v \in [D -> Anything \cup UNION Range(sets)]
    BY <1>3, <2>2
  <2>4. QED
    BY <1>2, <1>3, <2>3
<1>4. ASSUME v \in OneOfEach(sets)
      PROVE  v = [tag \in D |-> v[tag]] /\ \A tag \in D : v[tag] \in Optional(shape[arms[tag]])
  BY <1>2, <1>4
<1>5. QED
  BY <1>3, <1>4 DEF sets, Arms

\* The shape of each kind.
LEMMA ShapeOfSkipped ==
    ASSUME NEW shape, NEW d, NEW decoded, d.kind = "skipped"
    PROVE  Shape(shape, d, decoded)
             = Byte
  BY DEF Shape

LEMMA ShapeOfFixed ==
    ASSUME NEW shape, NEW d, NEW decoded, d.kind = "fixed"
    PROVE  Shape(shape, d, decoded)
             = [1 .. d.width -> Byte]
  BY DEF Shape

LEMMA ShapeOfBlob ==
    ASSUME NEW shape, NEW d, NEW decoded, d.kind = "blob"
    PROVE  Shape(shape, d, decoded)
             = {v \in Seq(Byte) : Len(v) % d.unit = 0}
  BY DEF Shape

LEMMA ShapeOfSlice ==
    ASSUME NEW shape, NEW d, NEW decoded, d.kind = "slice"
    PROVE  Shape(shape, d, decoded)
             = {v \in [mem : Seq(shape[d.elem]), len : Nat] : v.len <= Len(v.mem)}
  BY DEF Shape

LEMMA ShapeOfPointer ==
    ASSUME NEW shape, NEW d, NEW decoded, d.kind = "pointer"
    PROVE  Shape(shape, d, decoded)
             = Optional(shape[d.elem])
  BY DEF Shape

LEMMA ShapeOfTuple ==
    ASSUME NEW shape, NEW d, NEW decoded, d.kind = "tuple"
    PROVE  Shape(shape, d, decoded)
             = Tuples(shape, d.parts)
  BY DEF Shape

LEMMA ShapeOfMap ==
    ASSUME NEW shape, NEW d, NEW decoded, d.kind = "map"
    PROVE  Shape(shape, d, decoded)
             = Seq(shape[d.entry])
  BY DEF Shape

LEMMA ShapeOfUnion ==
    ASSUME NEW shape, NEW d, NEW decoded, d.kind = "union"
    PROVE  Shape(shape, d, decoded)
             = {v \in Arms(shape, d.arms) :
                  decoded => \A a, b \in DOMAIN d.arms : v[a] # <<>> /\ v[b] # <<>> => a = b}
  BY DEF Shape

\* What is decoded into may also be encoded.
LEMMA ResultsAreValues ==
    ASSUME NEW k, NEW d, Sound(d),
           \A t \in Parts(d) : k.results[t] \subseteq k.values[t]
    PROVE  Shape(k.results, d, TRUE) \subseteq Shape(k.values, d, FALSE)
<1> DEFINE R == Shape(k.results, d, TRUE)
           V == Shape(k.values, d, FALSE)
<1>1. CASE d.kind = "skipped"
  BY <1>1, ShapeOfSkipped
<1>7. CASE d.kind = "fixed"
  <2>1. R = V
    BY <1>7 DEF Shape
  <2>2. QED
    BY <2>1
<1>8. CASE d.kind = "blob"
  <2>1. R = V
    BY <1>8, ShapeOfBlob, ZenonT(30)
  <2>2. QED
    BY <2>1
<1>2. CASE d.kind = "slice"
  <2>1. k.results[d.elem] \subseteq k.values[d.elem]
    BY <1>2 DEF Parts
  <2>2. Seq(k.results[d.elem]) \subseteq Seq(k.values[d.elem])
    BY <2>1, SeqMonotonic
  <2>3. /\ R = {v \in [mem : Seq(k.results[d.elem]), len : Nat] : v.len <= Len(v.mem)}
        /\ V = {v \in [mem : Seq(k.values[d.elem]), len : Nat] : v.len <= Len(v.mem)}
    BY <1>2, ShapeOfSlice
  <2> HIDE DEF R, V
  <2>4. R \subseteq V
    BY <2>2, <2>3
  <2>5. QED
    BY <2>4 DEF R, V
<1>9. CASE d.kind = "pointer"
  <2>1. k.results[d.elem] \subseteq k.values[d.elem]
    BY <1>9 DEF Parts
  <2>2. Seq(k.results[d.elem]) \subseteq Seq(k.values[d.elem])
    BY <2>1, SeqMonotonic
  <2>3. R = Optional(k.results[d.elem]) /\ V = Optional(k.values[d.elem])
    BY <1>9, ShapeOfPointer
  <2> HIDE DEF R, V
  <2>4. R \subseteq V
    BY <2>2, <2>3 DEF Optional
  <2>5. QED
    BY <2>4 DEF R, V
<1>3. CASE d.kind = "tuple"
  <2> DEFINE S == UNION {k.values[t] : t \in Types}
  <2>1. d.parts \in Seq(Types) /\ \A i \in 1 .. Len(d.parts) : d.parts[i] \in Types /\ k.results[d.parts[i]] \subseteq k.values[d.parts[i]]
    BY <1>3, ElementOfSeq DEF Parts, Sound, ToSet
  <2>2. \A i \in 1 .. Len(d.parts) : k.results[d.parts[i]] \subseteq S /\ k.values[d.parts[i]] \subseteq S
    BY <2>1
  <2> HIDE DEF S
  <2>3. \A v : v \in Tuples(k.results, d.parts) => v \in Tuples(k.values, d.parts)
    BY <2>1, <2>2, TupleIs
  <2>4. R = Tuples(k.results, d.parts) /\ V = Tuples(k.values, d.parts)
    BY <1>3, ShapeOfTuple
  <2>5. QED
    BY <2>3, <2>4
<1>4. CASE d.kind = "map"
  <2>1. k.results[d.entry] \subseteq k.values[d.entry]
    BY <1>4 DEF Parts
  <2>2. R = Seq(k.results[d.entry]) /\ V = Seq(k.values[d.entry])
    BY <1>4, ShapeOfMap
  <2>3. QED
    BY <2>1, <2>2, SeqMonotonic
<1>5. CASE d.kind = "union"
  <2>1. \A tag \in DOMAIN d.arms : k.results[d.arms[tag]] \subseteq k.values[d.arms[tag]]
    BY <1>5 DEF Parts
  <2>2. \A tag \in DOMAIN d.arms : Optional(k.results[d.arms[tag]]) \subseteq Optional(k.values[d.arms[tag]])
    BY <2>1, SeqMonotonic DEF Optional
  <2> DEFINE OR == Arms(k.results, d.arms)
             OV == Arms(k.values, d.arms)
  <2>3. R \subseteq OR
    <3>1. R = {v \in OR : TRUE => \A a, b \in DOMAIN d.arms : v[a] # <<>> /\ v[b] # <<>> => a = b}
      BY <1>5 DEF Shape
    <3> HIDE DEF R, OR
    <3>2. QED
      BY <3>1
  <2>4. V = OV
    <3>1. V = {v \in OV : FALSE => \A a, b \in DOMAIN d.arms : v[a] # <<>> /\ v[b] # <<>> => a = b}
      BY <1>5 DEF Shape
    <3> HIDE DEF V, OV
    <3>2. QED
      BY <3>1
  <2>5. ASSUME NEW v \in OR
        PROVE  v \in OV
    <3>1. v = [tag \in DOMAIN d.arms |-> v[tag]] /\ \A tag \in DOMAIN d.arms : v[tag] \in Optional(k.results[d.arms[tag]])
      BY ArmsIs
    <3>2. \A tag \in DOMAIN d.arms : v[tag] \in Optional(k.values[d.arms[tag]])
      BY <2>2, <3>1
    <3>3. QED
      BY <3>1, <3>2, ArmsIs
  <2> HIDE DEF R, V, OR, OV
  <2>6. R \subseteq V
    BY <2>3, <2>4, <2>5
  <2>7. QED
    BY <2>6 DEF R, V
<1>6. QED
  BY <1>1, <1>2, <1>3, <1>4, <1>5, <1>7, <1>8, <1>9 DEF Sound, Kinds

-----------------------------------------------------------------------------
(* What codecs are applied to and what comes of it.                         *)

Encodings == [bytes : Seq(Nat), ok : BOOLEAN]

\* What a value takes at least; and an entry, its key and its value.
Needs(d) ==
    IF d.kind = "tuple" /\ Len(d.parts) = 2
    THEN Takes(Desc[d.parts[1]]) + Takes(Desc[d.parts[2]])
    ELSE Takes(d)

Result(k, t, c, pos, r) ==
    /\ r \in [ok : BOOLEAN, pos : Nat, val : k.results[t]]
    /\ r.pos <= c.end
    /\ r.ok => pos + k.min[t] <= r.pos /\ pos + Needs(Desc[t]) <= r.pos

ZeroTyped(k, t)   == k.zero[t] \in k.results[t]
ShapesTyped(k, t) == k.results[t] \subseteq k.values[t]
EncodeTyped(k, t) == \A buffered \in BOOLEAN : \A v \in k.values[t] : k.encode[t][buffered][v] \in Encodings
DecodeTyped(k, t) ==
    /\ k.min[t] \in Nat
    /\ \A c \in Contexts : \A pos \in Nat : \A old \in k.results[t] :
          pos <= c.end => Result(k, t, c, pos, k.decode[t][c][pos][old])

LEMMA NeedsIs ==
    ASSUME NEW t \in Types
    PROVE  /\ Takes(Desc[t]) \in Nat /\ Needs(Desc[t]) \in Nat
           /\ Desc[t].kind # "tuple" => Needs(Desc[t]) = Takes(Desc[t])
<1>1. ASSUME NEW u \in Types
      PROVE  Takes(Desc[u]) \in Nat
  <2>1. PICK d : d = Desc[u]
    OBVIOUS
  <2>2. Sound(d)
    BY <2>1, Described
  <2>3. Takes(d) \in Nat
    BY <2>2 DEF Sound, Takes
  <2>4. QED
    BY <2>1, <2>3
<1>2. PICK d : d = Desc[t]
  OBVIOUS
<1>3. Sound(d)
  BY <1>2, Described
<1>4. CASE d.kind = "tuple" /\ Len(d.parts) = 2
  <2>1. d.parts \in Seq(Types) /\ 1 \in 1 .. Len(d.parts) /\ 2 \in 1 .. Len(d.parts)
    BY <1>3, <1>4 DEF Sound
  <2>2. d.parts[1] \in Types /\ d.parts[2] \in Types
    BY <2>1, ElementOfSeq
  <2>3. Needs(d) = Takes(Desc[d.parts[1]]) + Takes(Desc[d.parts[2]])
    BY <1>4 DEF Needs
  <2>4. Needs(d) \in Nat
    BY <1>1, <2>2, <2>3
  <2>5. QED
    BY <1>1, <1>2, <1>4, <2>4
<1>5. CASE ~(d.kind = "tuple" /\ Len(d.parts) = 2)
  <2>1. Needs(d) = Takes(d)
    BY <1>5 DEF Needs
  <2>2. QED
    BY <1>1, <1>2, <2>1
<1>6. QED
  BY <1>4, <1>5

LEMMA ByteIs == Byte \subseteq Nat /\ 0 \in Byte /\ 1 \in Byte
  BY DEF Byte

LEMMA ZeroMade ==
    ASSUME NEW k, NEW d, Sound(d),
           \A t \in Parts(d) : ZeroTyped(k, t)
    PROVE  Zero(k, d) \in Shape(k.results, d, TRUE)
<1>1. CASE d.kind = "skipped"
  BY <1>1, ByteIs DEF Shape, Zero
<1>2. CASE d.kind = "fixed"
  <2>1. Zero(k, d) = [i \in 1 .. d.width |-> 0]
    BY <1>2 DEF Zero
  <2>2. Shape(k.results, d, TRUE) = [1 .. d.width -> Byte]
    BY <1>2 DEF Shape
  <2>3. QED
    BY <2>1, <2>2, ByteIs
<1>3. CASE d.kind = "blob"
  <2>1. Zero(k, d) = <<>>
    BY <1>3 DEF Zero
  <2>2. Shape(k.results, d, TRUE) = {v \in Seq(Byte) : Len(v) % d.unit = 0}
    BY <1>3 DEF Shape
  <2>3. d.unit \in Nat \ {0} /\ 0 % d.unit = 0
    BY <1>3 DEF Sound
  <2>4. <<>> \in Seq(Byte) /\ Len(<<>>) = 0
    BY EmptySeq
  <2>5. QED
    BY <2>1, <2>2, <2>3, <2>4
<1>4. CASE d.kind = "slice"
  <2>1. Zero(k, d) = [mem |-> <<>>, len |-> 0]
    BY <1>4 DEF Zero
  <2>2. Shape(k.results, d, TRUE) = {v \in [mem : Seq(k.results[d.elem]), len : Nat] : v.len <= Len(v.mem)}
    BY <1>4 DEF Shape
  <2> DEFINE S == k.results[d.elem]
             e == <<>>
  <2>3. e \in Seq(S) /\ Len(e) = 0
    BY EmptySeq
  <2> HIDE DEF e, S
  <2>4. [mem |-> e, len |-> 0] \in {v \in [mem : Seq(S), len : Nat] : v.len <= Len(v.mem)}
    BY <2>3
  <2>5. QED
    BY <2>1, <2>2, <2>4 DEF e, S
<1>5. CASE d.kind = "pointer"
  <2>1. Zero(k, d) = <<>>
    BY <1>5 DEF Zero
  <2>2. Shape(k.results, d, TRUE) = Optional(k.results[d.elem])
    BY <1>5 DEF Shape
  <2> DEFINE S == k.results[d.elem]
             e == <<>>
  <2>3. e \in Seq(S) /\ Len(e) = 0
    BY EmptySeq
  <2> HIDE DEF e, S
  <2>4. e \in Optional(S)
    BY <2>3 DEF Optional
  <2>5. QED
    BY <2>1, <2>2, <2>4 DEF e, S
<1>6. CASE d.kind = "tuple"
  <2> DEFINE S == UNION {k.results[t] : t \in Types}
             n == Len(d.parts)
  <2>1. Zero(k, d) = [i \in DOMAIN d.parts |-> k.zero[d.parts[i]]]
    BY <1>6 DEF Zero
  <2>2. Shape(k.results, d, TRUE) = Tuples(k.results, d.parts)
    BY <1>6 DEF Shape
  <2>3. d.parts \in Seq(Types) /\ n \in Nat /\ DOMAIN d.parts = 1 .. n
    BY <1>6, LenProperties DEF Sound
  <2>4. \A i \in 1 .. n : d.parts[i] \in Types /\ k.zero[d.parts[i]] \in k.results[d.parts[i]]
    BY <1>6, <2>3, ElementOfSeq DEF Parts, ToSet, ZeroTyped
  <2>5. \A i \in 1 .. n : k.results[d.parts[i]] \subseteq S
    BY <2>4
  <2> HIDE DEF S
  <2> DEFINE z == [i \in 1 .. n |-> k.zero[d.parts[i]]]
  <2>6. z \in Seq(S) /\ Len(z) = n /\ \A i \in 1 .. n : z[i] = k.zero[d.parts[i]]
    BY <2>3, <2>4, <2>5
  <2>7. z \in Tuples(k.results, d.parts)
    <3> HIDE DEF z
    <3>1. QED
      BY <2>3, <2>4, <2>5, <2>6, TupleIs
  <2>8. QED
    BY <2>1, <2>2, <2>3, <2>7
<1>7. CASE d.kind = "map"
  <2>1. Zero(k, d) = <<>>
    BY <1>7 DEF Zero
  <2>2. Shape(k.results, d, TRUE) = Seq(k.results[d.entry])
    BY <1>7 DEF Shape
  <2>3. QED
    BY <2>1, <2>2, EmptySeq
<1>8. CASE d.kind = "union"
  <2> DEFINE z == [tag \in DOMAIN d.arms |-> <<>>]
  <2>1. Zero(k, d) = z
    BY <1>8 DEF Zero
  <2>2. Shape(k.results, d, TRUE)
          = {v \in Arms(k.results, d.arms) : TRUE => \A a, b \in DOMAIN d.arms : v[a] # <<>> /\ v[b] # <<>> => a = b}
    BY <1>8 DEF Shape
  <2>3. \A tag \in DOMAIN d.arms : z[tag] = <<>>
    OBVIOUS
  <2>4. z = [tag \in DOMAIN d.arms |-> z[tag]]
    OBVIOUS
  <2>5. \A tag \in DOMAIN d.arms : z[tag] \in Optional(k.results[d.arms[tag]])
    BY <2>3, EmptySeq DEF Optional
  <2> HIDE DEF z
  <2>6. z \in Arms(k.results, d.arms)
    BY <2>4, <2>5, ArmsIs
  <2>7. QED
    BY <2>1, <2>2, <2>3, <2>6
<1>9. QED
  BY <1>1, <1>2, <1>3, <1>4, <1>5, <1>6, <1>7, <1>8 DEF Sound, Kinds

-----------------------------------------------------------------------------
(* Encodings are bytes, or what stands for them.                            *)

LEMMA ThenTyped ==
    ASSUME NEW a \in Encodings, NEW b \in Encodings
    PROVE  /\ Then(a, b) \in Encodings
           /\ Then(a, b).ok = b.ok
           /\ Then(a, b).bytes = a.bytes \o b.bytes
           /\ Len(Then(a, b).bytes) = Len(a.bytes) + Len(b.bytes)
<1>1. a.bytes \in Seq(Nat) /\ b.bytes \in Seq(Nat) /\ b.ok \in BOOLEAN
  BY DEF Encodings
<1>2. a.bytes \o b.bytes \in Seq(Nat) /\ Len(a.bytes \o b.bytes) = Len(a.bytes) + Len(b.bytes)
  BY <1>1, ConcatProperties
<1>3. QED
  BY <1>1, <1>2 DEF Encodings, Then

LEMMA WrittenTyped ==
    ASSUME NEW s \in Seq(Nat)
    PROVE  Written(s) \in Encodings /\ Written(s).ok /\ Written(s).bytes = s
  BY DEF Encodings, Written

LEMMA FailedTyped == Failed \in Encodings /\ ~Failed.ok /\ Failed.bytes = <<>>
  BY EmptySeq DEF Encodings, Failed

LEMMA EncodesAll ==
    ASSUME NEW k, NEW types, Len(types) \in Nat, NEW values, NEW buffered,
           \A i \in 1 .. Len(types) : k.encode[types[i]][buffered][values[i]] \in Encodings
    PROVE  /\ \A i \in 0 .. Len(types) : EncodeUpTo(k, types, values, buffered)[i] \in Encodings
           /\ EncodeAll(k, types, values, buffered) \in Encodings
<1> DEFINE f == EncodeUpTo(k, types, values, buffered)
           n == Len(types)
           T == {i \in Nat : i <= n => f[i] \in Encodings}
<1>1. /\ EncodeAll(k, types, values, buffered) = f[n]
      /\ f[0] = Written(<<>>)
      /\ \A i \in Nat : f[i + 1] = AndEncode(k, types[i + 1], values[i + 1], buffered, f[i])
  BY EncodeLoop
<1> HIDE DEF f
<1>2. 0 \in T
  BY <1>1, EmptySeq, WrittenTyped
<1>3. ASSUME NEW i \in Nat, i \in T
      PROVE  i + 1 \in T
  <2>1. SUFFICES ASSUME i + 1 <= n PROVE f[i + 1] \in Encodings
    OBVIOUS
  <2>2. f[i] \in Encodings /\ i + 1 \in 1 .. n
    BY <1>3, <2>1
  <2>3. k.encode[types[i + 1]][buffered][values[i + 1]] \in Encodings
    BY <2>2
  <2> DEFINE e == k.encode[types[i + 1]][buffered][values[i + 1]]
  <2>4. f[i + 1] = IF f[i].ok THEN Then(f[i], e) ELSE f[i]
    BY <1>1 DEF AndEncode
  <2> HIDE DEF e
  <2>5. e \in Encodings
    BY <2>3 DEF e
  <2>6. Then(f[i], e) \in Encodings
    BY <2>2, <2>5, ThenTyped
  <2>7. QED
    BY <2>2, <2>4, <2>6
<1>4. Nat \subseteq T
  <2> HIDE DEF T
  <2>1. QED
    BY <1>2, <1>3, InductionBySet
<1>5. \A i \in 0 .. n : f[i] \in Encodings
  BY <1>4
<1>6. QED
  BY <1>1, <1>5 DEF f

LEMMA PrefixTyped ==
    ASSUME NEW width \in Nat, NEW n \in Nat
    PROVE  /\ Prefix(width, n) \in Seq(Nat)
           /\ Len(Prefix(width, n)) = IF width = 0 THEN 1 ELSE width
           /\ Prefix(width, n)[1] = n
           /\ \A i \in 2 .. Len(Prefix(width, n)) : Prefix(width, n)[i] = 0
<1> DEFINE m == IF width = 0 THEN 0 ELSE width - 1
           z == [i \in 1 .. m |-> 0]
<1>1. m \in Nat /\ m + 1 = IF width = 0 THEN 1 ELSE width
  OBVIOUS
<1> HIDE DEF m
<1>2. z \in Seq(Nat) /\ Len(z) = m /\ \A i \in 1 .. m : z[i] = 0
  BY <1>1
<1>3. <<n>> \in Seq(Nat) /\ Len(<<n>>) = 1 /\ <<n>>[1] = n
  OBVIOUS
<1>4. Prefix(width, n) = <<n>> \o z
  BY DEF Prefix, m
<1> HIDE DEF z
<1> DEFINE s == <<n>>
<1> HIDE DEF s
<1>5. /\ s \o z \in Seq(Nat) /\ Len(s \o z) = 1 + m
      /\ \A i \in 1 .. 1 + m : (s \o z)[i] = IF i <= 1 THEN s[i] ELSE z[i - 1]
  BY <1>1, <1>2, <1>3, ConcatProperties DEF s
<1>6. (s \o z)[1] = n /\ \A i \in 2 .. 1 + m : (s \o z)[i] = 0
  <2>1. (s \o z)[1] = n
    BY <1>1, <1>3, <1>5 DEF s
  <2>2. ASSUME NEW i \in 2 .. 1 + m
        PROVE  (s \o z)[i] = 0
    <3>1. i \in 1 .. 1 + m /\ ~(i <= 1) /\ i - 1 \in 1 .. m
      BY <1>1
    <3>2. QED
      BY <1>2, <1>5, <3>1
  <2>3. QED
    BY <2>1, <2>2
<1>7. QED
  BY <1>1, <1>4, <1>5, <1>6 DEF s, m

LEMMA ManyIs ==
    ASSUME NEW n \in Nat, NEW t \in Types
    PROVE  Many(n, t) \in Seq(Types) /\ Len(Many(n, t)) = n /\ \A i \in 1 .. n : Many(n, t)[i] = t
  BY DEF Many

\* n values of a type, encoded one after the other.
LEMMA EncodesMany ==
    ASSUME NEW k, NEW t \in Types, EncodeTyped(k, t), NEW n \in Nat, NEW values, NEW buffered \in BOOLEAN,
           \A i \in 1 .. n : values[i] \in k.values[t]
    PROVE  EncodeAll(k, Many(n, t), values, buffered) \in Encodings
<1> DEFINE types == Many(n, t)
<1>1. Len(types) = n /\ \A i \in 1 .. n : types[i] = t
  BY ManyIs
<1> HIDE DEF types
<1>2. \A i \in 1 .. n : k.encode[types[i]][buffered][values[i]] \in Encodings
  BY <1>1 DEF EncodeTyped
<1>3. EncodeAll(k, types, values, buffered) \in Encodings
  BY <1>1, <1>2, EncodesAll
<1>4. QED
  BY <1>3 DEF types

LEMMA FrameTyped ==
    ASSUME NEW tag \in Nat, NEW body \in Encodings
    PROVE  Frame(tag, body) \in Encodings
<1>1. body.bytes \in Seq(Nat) /\ body.ok \in BOOLEAN /\ Len(body.bytes) \in Nat
  BY LenProperties DEF Encodings
<1> DEFINE s == <<tag, Len(body.bytes)>>
<1>2. s \in Seq(Nat)
  BY <1>1
<1> HIDE DEF s
<1>3. Written(s) \in Encodings
  BY <1>2, WrittenTyped
<1>4. Then(Written(s), body) \in Encodings
  BY <1>3, ThenTyped
<1>5. QED
  BY <1>4, FailedTyped DEF Frame, s

\* The arm that is written is one that is set.
LEMMA ArmOf ==
    ASSUME NEW k, NEW d, d.kind = "union", Sound(d), NEW v \in Shape(k.values, d, FALSE), NEW tag \in DOMAIN d.arms
    PROVE  /\ v[tag] \in Seq(k.values[d.arms[tag]]) /\ Len(v[tag]) \in {0, 1}
           /\ v[tag] = <<>> <=> Len(v[tag]) = 0
           /\ v[tag] # <<>> => v[tag][1] \in k.values[d.arms[tag]]
           /\ d.arms[tag] \in Types /\ tag \in Byte /\ tag \in Nat \ {0}
<1>1. v \in Arms(k.values, d.arms)
  BY DEF Shape
<1>2. v[tag] \in Optional(k.values[d.arms[tag]])
  BY <1>1, ArmsIs
<1>3. PICK x : x = v[tag]
  OBVIOUS
<1>4. PICK S : S = k.values[d.arms[tag]]
  OBVIOUS
<1>5. x \in Seq(S) /\ Len(x) <= 1
  BY <1>2, <1>3, <1>4 DEF Optional
<1>6. Len(x) \in Nat
  BY <1>5, LenProperties
<1>7. x # <<>> => Len(x) # 0 /\ x[1] \in S
  <2>1. x # <<>> => Len(x) # 0
    BY <1>5, EmptySeq
  <2>2. QED
    BY <1>5, <1>6, <2>1, ElementOfSeq
<1>8. x = <<>> => Len(x) = 0
  BY <1>5, EmptySeq
<1>9. d.arms[tag] \in Types /\ tag \in Byte \ {0}
  BY DEF Sound
<1>10. Len(x) \in {0, 1}
  <2>1. PICK l : l = Len(x)
    OBVIOUS
  <2>2. l \in Nat /\ l <= 1
    BY <1>5, <1>6, <2>1
  <2>3. l = 0 \/ l = 1
    BY <2>2
  <2>4. QED
    BY <2>1, <2>3
<1>11. x \in Seq(S) /\ (x = <<>> <=> Len(x) = 0) /\ (x # <<>> => x[1] \in S)
  BY <1>5, <1>7, <1>8
<1>12. d.arms[tag] \in Types /\ tag \in Byte /\ tag \in Nat \ {0}
  BY <1>9, ByteIs
<1>13. QED
  BY <1>3, <1>4, <1>10, <1>11, <1>12

LEMMA EncodeMade ==
    ASSUME NEW k, NEW d, Sound(d), \A t \in Parts(d) : EncodeTyped(k, t),
           NEW buffered \in BOOLEAN, NEW v \in Shape(k.values, d, FALSE)
    PROVE  EncodeOf(k, d, v, buffered) \in Encodings
<1> DEFINE e == EncodeOf(k, d, v, buffered)
<1>1. CASE d.kind = "skipped"
  BY <1>1, EmptySeq, WrittenTyped DEF EncodeOf
<1>2. CASE d.kind = "fixed"
  <2>1. v \in [1 .. d.width -> Byte] /\ d.width \in Nat
    BY <1>2 DEF Shape, Sound
  <2>2. v \in Seq(Nat)
    <3>1. v \in Seq(Byte)
      BY <2>1
    <3>2. QED
      BY <3>1, ByteIs, SeqMonotonic
  <2>3. e = Written(v)
    BY <1>2 DEF EncodeOf
  <2>4. QED
    BY <2>2, <2>3, WrittenTyped
<1>3. CASE d.kind = "blob"
  <2>1. v \in Seq(Byte) /\ d.prefix \in Nat /\ d.unit \in Nat \ {0}
    BY <1>3 DEF Shape, Sound
  <2>2. v \in Seq(Nat) /\ Len(v) \in Nat
    BY <2>1, ByteIs, SeqMonotonic, LenProperties
  <2> DEFINE n == IF d.units THEN Len(v) \div d.unit ELSE Len(v)
  <2>3. n \in Nat
    BY <2>1, <2>2
  <2>4. e = IF TooLarge(d.prefix, Len(v)) THEN Failed ELSE Written(Prefix(d.prefix, n) \o v)
    BY <1>3 DEF EncodeOf, EncodeBlob
  <2> HIDE DEF n
  <2>5. Prefix(d.prefix, n) \o v \in Seq(Nat)
    BY <2>1, <2>2, <2>3, PrefixTyped, ConcatProperties
  <2>6. QED
    BY <2>4, <2>5, WrittenTyped, FailedTyped
<1>4. CASE d.kind = "slice"
  <2>1. v.mem \in Seq(k.values[d.elem]) /\ v.len \in Nat /\ v.len <= Len(v.mem) /\ d.elem \in Types
    BY <1>4 DEF Shape, Sound
  <2>2. EncodeTyped(k, d.elem)
    BY <1>4 DEF Parts
  <2>3. \A i \in 1 .. v.len : v.mem[i] \in k.values[d.elem]
    BY <2>1, ElementOfSeq, LenProperties
  <2>4. EncodeAll(k, Many(v.len, d.elem), v.mem, buffered) \in Encodings
    BY <2>1, <2>2, <2>3, EncodesMany
  <2>5. Written(<<v.len>>) \in Encodings
    <3>1. <<v.len>> \in Seq(Nat)
      BY <2>1
    <3>2. QED
      BY <3>1, WrittenTyped
  <2>6. e = Then(Written(<<v.len>>), EncodeAll(k, Many(v.len, d.elem), v.mem, buffered))
    BY <1>4 DEF EncodeOf
  <2>7. QED
    BY <2>4, <2>5, <2>6, ThenTyped
<1>5. CASE d.kind = "pointer"
  <2>1. v \in Seq(k.values[d.elem]) /\ Len(v) \in Nat /\ d.elem \in Types
    BY <1>5, LenProperties DEF Shape, Optional, Sound
  <2>2. EncodeTyped(k, d.elem)
    BY <1>5 DEF Parts
  <2>3. \A i \in 1 .. Len(v) : v[i] \in k.values[d.elem]
    BY <2>1, ElementOfSeq
  <2>4. EncodeAll(k, Many(Len(v), d.elem), v, buffered) \in Encodings
    BY <2>1, <2>2, <2>3, EncodesMany
  <2> DEFINE s == <<IF v = <<>> THEN 1 ELSE 0>>
  <2>5. s \in Seq(Nat)
    OBVIOUS
  <2>6. e = Then(Written(s), EncodeAll(k, Many(Len(v), d.elem), v, buffered))
    BY <1>5 DEF EncodeOf
  <2> HIDE DEF s
  <2>7. Written(s) \in Encodings
    BY <2>5, WrittenTyped
  <2>8. QED
    BY <2>4, <2>6, <2>7, ThenTyped
<1>6. CASE d.kind = "tuple"
  <2> DEFINE S == UNION {k.values[t] : t \in Types}
  <2>1. v \in Tuples(k.values, d.parts) /\ d.parts \in Seq(Types) /\ Len(d.parts) \in Nat
    BY <1>6, LenProperties DEF Shape, Sound
  <2>2. \A i \in 1 .. Len(d.parts) : d.parts[i] \in Types /\ EncodeTyped(k, d.parts[i])
    BY <1>6, <2>1, ElementOfSeq, LenProperties DEF Parts, ToSet
  <2>3. \A i \in 1 .. Len(d.parts) : k.values[d.parts[i]] \subseteq S
    BY <2>2
  <2> HIDE DEF S
  <2>4. \A i \in 1 .. Len(d.parts) : v[i] \in k.values[d.parts[i]]
    BY <2>1, <2>3, TupleIs
  <2>5. \A i \in 1 .. Len(d.parts) : k.encode[d.parts[i]][buffered][v[i]] \in Encodings
    BY <2>2, <2>4 DEF EncodeTyped
  <2>6. EncodeAll(k, d.parts, v, buffered) \in Encodings
    BY <2>1, <2>5, EncodesAll
  <2>7. QED
    BY <1>6, <2>6 DEF EncodeOf
<1>7. CASE d.kind = "map"
  <2>1. v \in Seq(k.values[d.entry]) /\ Len(v) \in Nat /\ d.entry \in Types /\ d.prefix \in Nat
    BY <1>7, LenProperties DEF Shape, Sound
  <2>2. EncodeTyped(k, d.entry)
    BY <1>7 DEF Parts
  <2>3. \A i \in 1 .. Len(v) : v[i] \in k.values[d.entry]
    BY <2>1, ElementOfSeq
  <2>4. EncodeAll(k, Many(Len(v), d.entry), v, buffered) \in Encodings
    BY <2>1, <2>2, <2>3, EncodesMany
  <2>5. Written(Prefix(d.prefix, Len(v))) \in Encodings
    BY <2>1, PrefixTyped, WrittenTyped
  <2>6. e = IF ChecksFirst(d, v, buffered) THEN Failed
            ELSE Then(Written(Prefix(d.prefix, Len(v))), EncodeAll(k, Many(Len(v), d.entry), v, buffered))
    BY <1>7 DEF EncodeOf, EncodeMap
  <2>7. Then(Written(Prefix(d.prefix, Len(v))), EncodeAll(k, Many(Len(v), d.entry), v, buffered)) \in Encodings
    BY <2>4, <2>5, ThenTyped
  <2>8. QED
    BY <2>6, <2>7, FailedTyped
<1>8. CASE d.kind = "union"
  <2> DEFINE set == {tag \in DOMAIN d.arms : v[tag] # <<>>}
             arm == CHOOSE tag \in set : TRUE
  <2>1. e = IF set = {} THEN Written(<<0, 0>>)
            ELSE IF set # {arm} THEN Failed
            ELSE Frame(arm, k.encode[d.arms[arm]][TRUE][v[arm][1]])
    BY <1>8 DEF EncodeOf, EncodeUnion
  <2>2. CASE set = {}
    <3>1. <<0, 0>> \in Seq(Nat)
      OBVIOUS
    <3>2. QED
      BY <2>1, <2>2, <3>1, WrittenTyped
  <2>3. CASE set # {}
    <3>1. arm \in set
      BY <2>3
    <3>2. PICK x : x = arm
      OBVIOUS
    <3>3. x \in DOMAIN d.arms /\ v[x] # <<>>
      BY <3>1, <3>2
    <3>4. v[x][1] \in k.values[d.arms[x]] /\ x \in Nat
      BY <1>8, <3>3, ArmOf
    <3>5. EncodeTyped(k, d.arms[x])
      BY <1>8, <3>3 DEF Parts
    <3>6. k.encode[d.arms[x]][TRUE][v[x][1]] \in Encodings
      BY <3>4, <3>5 DEF EncodeTyped
    <3>7. Frame(x, k.encode[d.arms[x]][TRUE][v[x][1]]) \in Encodings
      BY <3>4, <3>6, FrameTyped
    <3> HIDE DEF set, arm
    <3>8. QED
      BY <2>1, <2>3, <3>2, <3>7, FailedTyped
  <2>4. QED
    BY <2>2, <2>3
<1>9. QED
  BY <1>1, <1>2, <1>3, <1>4, <1>5, <1>6, <1>7, <1>8 DEF Sound, Kinds

-----------------------------------------------------------------------------
(* What a decoder is left with: where it stopped, and a destination of the  *)
(* type it had.                                                             *)

LEMMA ContextIs ==
    ASSUME NEW c \in Contexts
    PROVE  /\ c.bytes \in Seq(Byte) /\ c.end \in Nat /\ c.knows \in BOOLEAN /\ c.end <= Len(c.bytes)
           /\ Len(c.bytes) \in Nat
  BY LenProperties DEF Contexts

LEMMA Sliced ==
    ASSUME NEW c \in Contexts, NEW pos \in Nat, pos <= c.end, NEW n \in Nat
    PROVE  LET r == Slice(c, pos, n)
           IN  /\ r \in [ok : BOOLEAN, pos : Nat, val : Seq(Byte)]
               /\ r.ok <=> pos + n <= c.end
               /\ r.ok => /\ r.pos = pos + n /\ Len(r.val) = n
                          /\ \A i \in 1 .. n : r.val[i] = c.bytes[pos + i] /\ r.val[i] \in Byte
<1>1. c.bytes \in Seq(Byte) /\ c.end \in Nat /\ c.end <= Len(c.bytes) /\ Len(c.bytes) \in Nat
  BY ContextIs
<1>2. CASE n > Rest(c, pos)
  <2>1. Slice(c, pos, n) = [ok |-> FALSE, pos |-> 0, val |-> <<>>]
    BY <1>2 DEF Slice, Bad
  <2>2. ~(pos + n <= c.end)
    BY <1>1, <1>2 DEF Rest
  <2>3. <<>> \in Seq(Byte)
    BY EmptySeq
  <2>4. QED
    BY <2>1, <2>2, <2>3
<1>3. CASE ~(n > Rest(c, pos))
  <2> DEFINE s == SubSeq(c.bytes, pos + 1, pos + n)
  <2>1. Slice(c, pos, n) = [ok |-> TRUE, pos |-> pos + n, val |-> s]
    BY <1>3 DEF Slice, Ok
  <2>2. pos + n <= c.end
    BY <1>1, <1>3 DEF Rest
  <2>3. \A i \in pos + 1 .. pos + n : c.bytes[i] \in Byte
    BY <1>1, <2>2, ElementOfSeq
  <2>4. /\ s \in Seq(Byte)
        /\ Len(s) = IF pos + 1 <= pos + n THEN pos + n - (pos + 1) + 1 ELSE 0
        /\ \A i \in 1 .. pos + n - (pos + 1) + 1 : s[i] = c.bytes[pos + 1 + i - 1]
    <3>1. pos + 1 \in Int /\ pos + n \in Int
      OBVIOUS
    <3>2. QED
      BY <2>3, <3>1, SubSeqProperties
  <2> HIDE DEF s
  <2>5. Len(s) = n /\ \A i \in 1 .. n : s[i] = c.bytes[pos + i]
    BY <2>4
  <2>6. \A i \in 1 .. n : s[i] \in Byte
    BY <2>3, <2>5
  <2>7. QED
    BY <2>1, <2>2, <2>4, <2>5, <2>6
<1>4. QED
  BY <1>2, <1>3

LEMMA PutAtIs ==
    ASSUME NEW S, NEW vals \in Seq(S), NEW i \in Nat \ {0}, i <= Len(vals) + 1, NEW x \in S
    PROVE  /\ PutAt(vals, i, x) \in Seq(S)
           /\ Len(PutAt(vals, i, x)) = IF i <= Len(vals) THEN Len(vals) ELSE i
           /\ PutAt(vals, i, x)[i] = x
           /\ \A j \in 1 .. Len(vals) : j # i => PutAt(vals, i, x)[j] = vals[j]
<1>1. Len(vals) \in Nat
  BY LenProperties
<1>2. CASE i <= Len(vals)
  <2>1. i \in 1 .. Len(vals) /\ PutAt(vals, i, x) = [vals EXCEPT ![i] = x]
    BY <1>1, <1>2 DEF PutAt
  <2>2. QED
    BY <1>2, <2>1, ExceptSeq
<1>3. CASE ~(i <= Len(vals))
  <2>1. i = Len(vals) + 1 /\ PutAt(vals, i, x) = Append(vals, x)
    BY <1>1, <1>3 DEF PutAt
  <2>2. QED
    BY <1>3, <2>1, AppendProperties
<1>4. QED
  BY <1>2, <1>3

\* All that destinations hold.
Held(k) == UNION {k.results[t] : t \in Types}

\* Destinations for the first of the types, and what a loop has after i steps.
Olds(k, types, olds) ==
    /\ olds \in Seq(Held(k)) /\ Len(olds) \in Nat /\ Len(olds) <= Len(types)
    /\ \A j \in 1 .. Len(olds) : olds[j] \in k.results[types[j]]

Sofar(k, types, c, pos, olds, i, x) ==
    /\ x \in [ok : BOOLEAN, pos : Nat, val : Seq(Held(k))]
    /\ Olds(k, types, x.val) /\ Len(olds) <= Len(x.val)
    /\ x.pos <= c.end
    /\ x.ok => i <= Len(x.val) /\ pos <= x.pos
    /\ ~x.ok => 1 <= Len(x.val)

\* The destination of an element.
OldOf(k, t, i, vals) == IF i <= Len(vals) THEN vals[i] ELSE k.zero[t]

\* What a step does with the element at i.
Stepped(k, t, c, i, x) ==
    LET old == OldOf(k, t, i, x.val)
        r   == k.decode[t][c][x.pos][old]
        y   == AndDecode(k, t, c, i, x)
    IN  /\ ~x.ok => y = x
        /\ x.ok => /\ t \in Types /\ old \in k.results[t] /\ Result(k, t, c, x.pos, r)
                   /\ y.ok = r.ok /\ y.pos = r.pos /\ y.val = PutAt(x.val, i, r.val)

\* Codecs of all these types keep to them.
Typed(k, types) ==
    /\ types \in Seq(Types) /\ Len(types) \in Nat
    /\ \A i \in 1 .. Len(types) : types[i] \in Types /\ DecodeTyped(k, types[i]) /\ ZeroTyped(k, types[i])

LEMMA DecodeStep ==
    ASSUME NEW k, NEW types, Typed(k, types), NEW c \in Contexts, NEW pos \in Nat, NEW olds, NEW i \in Nat, i + 1 <= Len(types),
           NEW x, Sofar(k, types, c, pos, olds, i, x)
    PROVE  /\ Sofar(k, types, c, pos, olds, i + 1, AndDecode(k, types[i + 1], c, i + 1, x))
           /\ Stepped(k, types[i + 1], c, i + 1, x)
<1> DEFINE t == types[i + 1]
           old == OldOf(k, t, i + 1, x.val)
           r == k.decode[t][c][x.pos][old]
           y == AndDecode(k, t, c, i + 1, x)
<1>1. Len(types) \in Nat /\ i + 1 \in 1 .. Len(types) /\ t \in Types /\ DecodeTyped(k, t) /\ ZeroTyped(k, t)
  <2>1. Len(types) \in Nat
    BY DEF Typed
  <2>2. i + 1 \in 1 .. Len(types)
    BY <2>1
  <2>3. QED
    BY <2>1, <2>2 DEF Typed
<1>2. x.ok \in BOOLEAN /\ x.pos \in Nat /\ x.val \in Seq(Held(k)) /\ Len(x.val) \in Nat
  BY DEF Sofar, Olds
<1>3. CASE ~x.ok
  <2>1. y = x
    BY <1>3 DEF AndDecode
  <2>2. Sofar(k, types, c, pos, olds, i + 1, x)
    BY <1>3 DEF Sofar
  <2>3. QED
    BY <1>3, <2>1, <2>2 DEF Stepped
<1>4. CASE x.ok
  <2>1. i <= Len(x.val) /\ pos <= x.pos /\ x.pos <= c.end /\ Len(x.val) <= Len(types) /\ Len(olds) <= Len(x.val)
    BY <1>4 DEF Sofar, Olds
  <2>2. old \in k.results[t]
    <3>1. CASE i + 1 <= Len(x.val)
      <4>1. i + 1 \in 1 .. Len(x.val)
        BY <1>2, <3>1
      <4>2. x.val[i + 1] \in k.results[t]
        BY <4>1 DEF Sofar, Olds
      <4>3. QED
        BY <3>1, <4>2 DEF OldOf
    <3>2. CASE ~(i + 1 <= Len(x.val))
      BY <1>1, <3>2 DEF OldOf, ZeroTyped
    <3>3. QED
      BY <3>1, <3>2
  <2> HIDE DEF t, old
  <2>3. Result(k, t, c, x.pos, r)
    BY <1>1, <1>2, <2>1, <2>2 DEF DecodeTyped
  <2>4. y = [r EXCEPT !.val = PutAt(x.val, i + 1, @)]
    BY <1>4 DEF AndDecode, OldOf, t, old
  <2> HIDE DEF r, y
  <2>5. r.ok \in BOOLEAN /\ r.pos \in Nat /\ r.val \in k.results[t] /\ r \in [ok : BOOLEAN, pos : Nat, val : k.results[t]]
    BY <2>3 DEF Result
  <2>6. r.pos <= c.end /\ (r.ok => x.pos <= r.pos)
    <3>1. PICK m : m = k.min[t]
      OBVIOUS
    <3>2. m \in Nat /\ r.pos <= c.end /\ (r.ok => x.pos + m <= r.pos)
      BY <1>1, <2>3, <3>1 DEF Result, DecodeTyped
    <3>3. QED
      BY <1>2, <2>5, <3>2
  <2>7. r.val \in Held(k) /\ k.results[t] \subseteq Held(k)
    BY <1>1, <2>5 DEF Held
  <2> DEFINE p == PutAt(x.val, i + 1, r.val)
  <2>8. y.ok = r.ok /\ y.pos = r.pos /\ y.val = p /\ y = [ok |-> r.ok, pos |-> r.pos, val |-> p]
    BY <2>4, <2>5
  <2>9. i + 1 \in Nat \ {0} /\ i + 1 <= Len(x.val) + 1
    BY <1>2, <2>1
  <2>10. /\ p \in Seq(Held(k))
         /\ Len(p) = IF i + 1 <= Len(x.val) THEN Len(x.val) ELSE i + 1
         /\ p[i + 1] = r.val
         /\ \A j \in 1 .. Len(x.val) : j # i + 1 => p[j] = x.val[j]
    <3>1. PICK H : H = Held(k)
      OBVIOUS
    <3>2. PICK vals : vals = x.val
      OBVIOUS
    <3>3. PICK e : e = r.val
      OBVIOUS
    <3>4. PICK n : n = i + 1
      OBVIOUS
    <3>5. vals \in Seq(H) /\ e \in H /\ n \in Nat \ {0} /\ n <= Len(vals) + 1
      BY <1>2, <2>7, <2>9, <3>1, <3>2, <3>3, <3>4
    <3>6. /\ PutAt(vals, n, e) \in Seq(H)
          /\ Len(PutAt(vals, n, e)) = IF n <= Len(vals) THEN Len(vals) ELSE n
          /\ PutAt(vals, n, e)[n] = e
          /\ \A j \in 1 .. Len(vals) : j # n => PutAt(vals, n, e)[j] = vals[j]
      BY <3>5, PutAtIs
    <3>7. QED
      BY <3>1, <3>2, <3>3, <3>4, <3>6
  <2> HIDE DEF p
  <2>11. Len(p) \in Nat /\ i + 1 <= Len(p) /\ Len(p) <= Len(types) /\ Len(olds) <= Len(p) /\ 1 <= Len(p)
    <3>1. Len(olds) <= Len(x.val) /\ (i + 1 <= Len(x.val) \/ i = Len(x.val))
      BY <1>2, <2>1
    <3>2. CASE i + 1 <= Len(x.val)
      BY <1>1, <1>2, <2>1, <2>10, <3>2
    <3>3. CASE ~(i + 1 <= Len(x.val))
      <4>1. Len(p) = i + 1 /\ Len(olds) <= i
        BY <2>10, <3>1, <3>3
      <4>2. Len(olds) <= Len(p)
        <5>1. Len(p) = Len(x.val) + 1
          BY <1>2, <3>1, <3>3, <4>1
        <5>2. QED
          BY <1>2, <2>1, <5>1
      <4>3. QED
        BY <1>1, <4>1, <4>2
    <3>4. QED
      BY <3>2, <3>3
  <2>12. \A j \in 1 .. Len(p) : p[j] \in k.results[types[j]]
    <3>1. ASSUME NEW j \in 1 .. Len(p)
          PROVE  p[j] \in k.results[types[j]]
      <4>1. CASE j = i + 1
        BY <2>5, <2>10, <4>1 DEF t
      <4>2. CASE j # i + 1
        <5>1. j \in 1 .. Len(x.val)
          BY <1>2, <2>9, <2>10, <2>11, <4>2
        <5>2. x.val[j] \in k.results[types[j]]
          BY <5>1 DEF Sofar, Olds
        <5>3. QED
          BY <2>10, <4>2, <5>1, <5>2
      <4>3. QED
        BY <4>1, <4>2
    <3>2. QED
      BY <3>1
  <2>13. Olds(k, types, p)
    BY <2>10, <2>11, <2>12 DEF Olds
  <2>14. y \in [ok : BOOLEAN, pos : Nat, val : Seq(Held(k))]
    BY <2>5, <2>8, <2>10
  <2>15. y.pos <= c.end /\ (y.ok => pos <= y.pos)
    <3>1. c.end \in Nat
      BY ContextIs
    <3>2. QED
      BY <1>2, <2>1, <2>5, <2>6, <2>8, <3>1
  <2>16. Sofar(k, types, c, pos, olds, i + 1, y)
    BY <2>8, <2>11, <2>13, <2>14, <2>15 DEF Sofar
  <2>17. QED
    <3>1. Stepped(k, t, c, i + 1, x)
      BY <1>1, <1>4, <2>2, <2>3, <2>8 DEF Stepped, t, old, r, y, p
    <3>2. QED
      BY <2>16, <3>1 DEF t, y
<1>5. QED
  BY <1>2, <1>3, <1>4

\* After every step, and at the end.
LEMMA DecodesAll ==
    ASSUME NEW k, NEW types, Typed(k, types),
           NEW c \in Contexts, NEW pos \in Nat, pos <= c.end, NEW olds, Olds(k, types, olds)
    PROVE  LET f == DecodeUpTo(k, types, c, pos, olds)
           IN  /\ DecodeAll(k, types, c, pos, olds) = f[Len(types)]
               /\ f[0] = Ok(pos, olds)
               /\ \A i \in 0 .. Len(types) : Sofar(k, types, c, pos, olds, i, f[i])
               /\ \A i \in 0 .. Len(types) - 1 : f[i + 1] = AndDecode(k, types[i + 1], c, i + 1, f[i])
<1> DEFINE f == DecodeUpTo(k, types, c, pos, olds)
           n == Len(types)
           T == {i \in Nat : i <= n => Sofar(k, types, c, pos, olds, i, f[i])}
<1>0. n \in Nat
  BY DEF Typed
<1>1. /\ DecodeAll(k, types, c, pos, olds) = f[n]
      /\ f[0] = Ok(pos, olds)
      /\ \A i \in Nat : f[i + 1] = AndDecode(k, types[i + 1], c, i + 1, f[i])
  BY DecodeLoop
<1> HIDE DEF f
<1>2. 0 \in T
  <2>1. olds \in Seq(Held(k)) /\ Len(olds) \in Nat
    BY DEF Olds
  <2>2. f[0] = [ok |-> TRUE, pos |-> pos, val |-> olds]
    BY <1>1 DEF Ok
  <2>3. Sofar(k, types, c, pos, olds, 0, f[0])
    <3>1. f[0].ok /\ f[0].pos = pos /\ f[0].val = olds /\ f[0] \in [ok : BOOLEAN, pos : Nat, val : Seq(Held(k))]
      BY <2>1, <2>2
    <3> HIDE DEF f
    <3>2. QED
      BY <2>1, <3>1 DEF Sofar
  <2>4. QED
    BY <2>3
<1>3. ASSUME NEW i \in Nat, i \in T
      PROVE  i + 1 \in T
  <2>1. SUFFICES ASSUME i + 1 <= n PROVE Sofar(k, types, c, pos, olds, i + 1, f[i + 1])
    OBVIOUS
  <2>2. Sofar(k, types, c, pos, olds, i, f[i])
    BY <1>0, <1>3, <2>1
  <2>3. PICK x : x = f[i]
    OBVIOUS
  <2>4. Sofar(k, types, c, pos, olds, i, x)
    BY <2>2, <2>3
  <2>5. Sofar(k, types, c, pos, olds, i + 1, AndDecode(k, types[i + 1], c, i + 1, x))
    BY <2>1, <2>4, DecodeStep
  <2>6. QED
    BY <1>1, <2>3, <2>5
<1>4. Nat \subseteq T
  <2> HIDE DEF T
  <2>1. QED
    BY <1>2, <1>3, InductionBySet
<1>5. \A i \in 0 .. n : Sofar(k, types, c, pos, olds, i, f[i])
  BY <1>0, <1>4
<1>6. \A i \in 0 .. n - 1 : f[i + 1] = AndDecode(k, types[i + 1], c, i + 1, f[i])
  BY <1>0, <1>1
<1>7. QED
  BY <1>1, <1>5, <1>6 DEF f

\* Every element takes what it needs.
LEMMA Consumes ==
    ASSUME NEW k, NEW types, Typed(k, types),
           NEW c \in Contexts, NEW pos \in Nat, pos <= c.end, NEW olds, Olds(k, types, olds),
           NEW low \in [0 .. Len(types) -> Nat], low[0] = 0,
           \A i \in 0 .. Len(types) - 1 :
               \/ low[i + 1] <= low[i] + k.min[types[i + 1]]
               \/ low[i + 1] <= low[i] + Needs(Desc[types[i + 1]])
    PROVE  LET f == DecodeUpTo(k, types, c, pos, olds)
           IN  \A i \in 0 .. Len(types) : f[i].ok => pos + low[i] <= f[i].pos
<1> DEFINE f == DecodeUpTo(k, types, c, pos, olds)
           n == Len(types)
           T == {i \in Nat : i <= n => (f[i].ok => pos + low[i] <= f[i].pos)}
<1>0. n \in Nat
  BY DEF Typed
<1>1. /\ f[0] = Ok(pos, olds)
      /\ \A i \in 0 .. n : Sofar(k, types, c, pos, olds, i, f[i])
      /\ \A i \in 0 .. n - 1 : f[i + 1] = AndDecode(k, types[i + 1], c, i + 1, f[i])
  BY DecodesAll
<1> HIDE DEF f
<1>2. 0 \in T
  <2>1. f[0].pos = pos
    BY <1>1 DEF Ok
  <2>2. QED
    BY <2>1
<1>3. ASSUME NEW i \in Nat, i \in T
      PROVE  i + 1 \in T
  <2>1. SUFFICES ASSUME i + 1 <= n, f[i + 1].ok PROVE pos + low[i + 1] <= f[i + 1].pos
    OBVIOUS
  <2>2. i \in 0 .. n /\ i + 1 \in 0 .. n /\ i \in 0 .. n - 1
    BY <1>0, <2>1
  <2>3. PICK x : x = f[i]
    OBVIOUS
  <2>4. PICK y : y = f[i + 1]
    OBVIOUS
  <2>5. PICK t : t = types[i + 1]
    OBVIOUS
  <2>6. PICK old : old = OldOf(k, t, i + 1, x.val)
    OBVIOUS
  <2>7. PICK r : r = k.decode[t][c][x.pos][old]
    OBVIOUS
  <2>8. Sofar(k, types, c, pos, olds, i, x) /\ y = AndDecode(k, t, c, i + 1, x)
    BY <1>1, <2>2, <2>3, <2>4, <2>5
  <2>9. /\ ~x.ok => y = x
        /\ x.ok => Result(k, t, c, x.pos, r) /\ y.ok = r.ok /\ y.pos = r.pos
    <3>1. i + 1 <= Len(types) /\ i \in Nat /\ Sofar(k, types, c, pos, olds, i, x)
      BY <2>1, <2>8
    <3>2. Stepped(k, types[i + 1], c, i + 1, x)
      BY <3>1, DecodeStep
    <3>3. QED
      BY <2>5, <2>6, <2>7, <2>8, <3>2 DEF Stepped
  <2>10. x.ok /\ pos + low[i] <= x.pos /\ x.pos \in Nat
    BY <1>3, <2>1, <2>2, <2>3, <2>4, <2>8, <2>9 DEF Sofar
  <2>11. r.ok /\ y.pos = r.pos /\ r.pos \in Nat /\ x.pos + k.min[t] <= r.pos /\ x.pos + Needs(Desc[t]) <= r.pos
    BY <2>1, <2>4, <2>9, <2>10 DEF Result
  <2>12. k.min[t] \in Nat
    <3>1. i + 1 \in 1 .. Len(types)
      BY <2>2
    <3>2. QED
      BY <2>5, <3>1 DEF DecodeTyped, Typed
  <2>13. low[i] \in Nat /\ low[i + 1] \in Nat
    BY <2>2
  <2>14. low[i + 1] <= low[i] + k.min[t] \/ low[i + 1] <= low[i] + Needs(Desc[t])
    BY <2>2, <2>5
  <2>15. PICK a : a = low[i]
    OBVIOUS
  <2>16. PICK b : b = low[i + 1]
    OBVIOUS
  <2>17. PICK m : m = k.min[t]
    OBVIOUS
  <2>18. CASE low[i + 1] <= low[i] + k.min[t]
    <3>1. b <= a + m /\ pos + a <= x.pos /\ x.pos + m <= r.pos /\ a \in Nat /\ b \in Nat /\ m \in Nat
      BY <2>10, <2>11, <2>12, <2>13, <2>15, <2>16, <2>17, <2>18
    <3>2. pos + b <= r.pos
      BY <2>10, <2>11, <3>1
    <3>3. QED
      BY <2>4, <2>11, <2>16, <3>2
  <2>19. CASE low[i + 1] <= low[i] + Needs(Desc[t])
    <3>1. PICK m2 : m2 = Needs(Desc[t])
      OBVIOUS
    <3>2. m2 \in Nat
      <4>1. t \in Types
        <5>1. i + 1 \in 1 .. Len(types)
          BY <2>2
        <5>2. QED
          BY <2>5, <5>1 DEF Typed
      <4>2. QED
        BY <3>1, <4>1, NeedsIs
    <3>3. b <= a + m2 /\ pos + a <= x.pos /\ x.pos + m2 <= r.pos /\ a \in Nat /\ b \in Nat
      BY <2>10, <2>11, <2>13, <2>15, <2>16, <2>19, <3>1
    <3>4. pos + b <= r.pos
      BY <2>10, <2>11, <3>2, <3>3
    <3>5. QED
      BY <2>4, <2>11, <2>16, <3>4
  <2>20. QED
    BY <2>14, <2>18, <2>19
<1>4. Nat \subseteq T
  <2> HIDE DEF T
  <2>1. QED
    BY <1>2, <1>3, InductionBySet
<1>5. QED
  BY <1>0, <1>4 DEF f

\* What is known of all elements, and of several of one type.
LEMMA AllDecoded ==
    ASSUME NEW k, NEW types, Typed(k, types),
           NEW c \in Contexts, NEW pos \in Nat, pos <= c.end, NEW olds, Olds(k, types, olds),
           NEW r, r = DecodeAll(k, types, c, pos, olds)
    PROVE  /\ r \in [ok : BOOLEAN, pos : Nat, val : Seq(Held(k))]
           /\ Olds(k, types, r.val) /\ Len(r.val) \in Nat /\ Len(olds) <= Len(r.val) /\ r.pos <= c.end
           /\ r.ok => Len(r.val) = Len(types) /\ pos <= r.pos
           /\ ~r.ok => 1 <= Len(r.val)
<1> DEFINE f == DecodeUpTo(k, types, c, pos, olds)
<1>1. Len(types) \in Nat
  BY DEF Typed
<1>2. r = f[Len(types)] /\ \A i \in 0 .. Len(types) : Sofar(k, types, c, pos, olds, i, f[i])
  BY DecodesAll
<1> HIDE DEF f
<1>3. Sofar(k, types, c, pos, olds, Len(types), r)
  BY <1>1, <1>2
<1>4. Len(r.val) \in Nat /\ Len(r.val) <= Len(types)
  BY <1>3 DEF Sofar, Olds
<1>5. r.ok => Len(r.val) = Len(types)
  <2>1. r.ok => Len(types) <= Len(r.val)
    BY <1>3 DEF Sofar
  <2>2. QED
    BY <1>1, <1>4, <2>1
<1>6. QED
  BY <1>3, <1>4, <1>5 DEF Sofar

LEMMA ManyTyped ==
    ASSUME NEW k, NEW t \in Types, DecodeTyped(k, t), ZeroTyped(k, t), NEW n \in Nat
    PROVE  Typed(k, Many(n, t)) /\ Len(Many(n, t)) = n
<1>1. Many(n, t) \in Seq(Types) /\ Len(Many(n, t)) = n /\ \A i \in 1 .. n : Many(n, t)[i] = t
  BY ManyIs
<1>2. QED
  BY <1>1 DEF Typed

LEMMA ManyOlds ==
    ASSUME NEW k, NEW t \in Types, NEW n \in Nat, NEW vals
    PROVE  /\ vals \in Seq(k.results[t]) /\ Len(vals) <= n => Olds(k, Many(n, t), vals)
           /\ Olds(k, Many(n, t), vals) => vals \in Seq(k.results[t]) /\ Len(vals) <= n /\ Len(vals) \in Nat
<1>1. Many(n, t) \in Seq(Types) /\ Len(Many(n, t)) = n /\ \A i \in 1 .. n : Many(n, t)[i] = t
  BY ManyIs
<1>2. PICK types : types = Many(n, t)
  OBVIOUS
<1>3. PICK S : S = k.results[t]
  OBVIOUS
<1>4. S \subseteq Held(k)
  BY <1>3 DEF Held
<1>5. ASSUME vals \in Seq(S), Len(vals) <= n
      PROVE  Olds(k, types, vals)
  <2>1. vals \in Seq(Held(k))
    BY <1>4, <1>5, SeqMonotonic
  <2>2. Len(vals) \in Nat
    BY <1>5, LenProperties
  <2>3. \A j \in 1 .. Len(vals) : vals[j] \in S
    BY <1>5, ElementOfSeq
  <2>4. \A j \in 1 .. Len(vals) : types[j] = t
    BY <1>1, <1>2, <1>5, <2>2
  <2>5. QED
    BY <1>1, <1>2, <1>3, <1>5, <2>1, <2>2, <2>3, <2>4 DEF Olds
<1>6. ASSUME Olds(k, types, vals)
      PROVE  vals \in Seq(S) /\ Len(vals) <= n /\ Len(vals) \in Nat
  <2>1. vals \in Seq(Held(k)) /\ Len(vals) \in Nat /\ Len(vals) <= n
    BY <1>1, <1>2, <1>6 DEF Olds
  <2>2. \A j \in 1 .. Len(vals) : vals[j] \in S
    BY <1>1, <1>2, <1>3, <1>6, <2>1 DEF Olds
  <2>3. vals = [j \in 1 .. Len(vals) |-> vals[j]]
    BY <2>1, LenProperties
  <2>4. vals \in [1 .. Len(vals) -> S]
    BY <2>2, <2>3
  <2>5. vals \in Seq(S)
    BY <2>1, <2>4
  <2>6. QED
    BY <2>1, <2>5
<1>7. QED
  BY <1>2, <1>3, <1>5, <1>6

\* What a destination of the type may hold.
Results(k, d) == Shape(k.results, d, TRUE)

\* The result for a type, in terms of its parts.
Decoded(k, d, c, pos, r) ==
    /\ r \in [ok : BOOLEAN, pos : Nat, val : Results(k, d)]
    /\ r.pos <= c.end
    /\ r.ok => pos + MinBytes(k, d) <= r.pos /\ pos + Needs(d) <= r.pos

LEMMA Refused ==
    ASSUME NEW k, NEW d, NEW c \in Contexts, NEW pos \in Nat, NEW v \in Results(k, d)
    PROVE  Decoded(k, d, c, pos, Bad(v)) /\ ~Bad(v).ok /\ Bad(v).val = v /\ Bad(v).pos = 0
<1>1. c.end \in Nat
  BY ContextIs
<1>2. PICK S : S = Results(k, d)
  OBVIOUS
<1>3. PICK b : b = Bad(v)
  OBVIOUS
<1>4. b \in [ok : BOOLEAN, pos : Nat, val : S] /\ ~b.ok /\ b.pos = 0 /\ b.val = v
  BY <1>2, <1>3 DEF Bad
<1>5. Decoded(k, d, c, pos, b)
  BY <1>1, <1>2, <1>4 DEF Decoded
<1>6. QED
  BY <1>3, <1>4, <1>5

LEMMA Taken ==
    ASSUME NEW k, NEW d, NEW c \in Contexts, NEW pos \in Nat, NEW v \in Results(k, d),
           NEW p \in Nat, p <= c.end, pos + MinBytes(k, d) <= p, pos + Needs(d) <= p
    PROVE  Decoded(k, d, c, pos, Ok(p, v)) /\ Ok(p, v).ok /\ Ok(p, v).val = v /\ Ok(p, v).pos = p
<1>2. PICK S : S = Results(k, d)
  OBVIOUS
<1>3. [ok |-> TRUE, pos |-> p, val |-> v] \in [ok : BOOLEAN, pos : Nat, val : S]
  BY <1>2
<1>4. QED
  BY <1>2, <1>3 DEF Decoded, Ok

\* Reading a length or a count, of w bytes.
PrefixDone(c, pos, w, r) ==
    /\ w \in Nat /\ w >= 1
    /\ r \in [ok : BOOLEAN, pos : Nat, val : Seq(Byte)]
    /\ r.ok <=> pos + w <= c.end
    /\ r.ok => /\ r.pos = pos + w /\ r.pos <= c.end /\ Len(r.val) = w /\ Number(r.val) \in Nat /\ r.val[1] \in Nat
               /\ \A i \in 1 .. w : r.val[i] = c.bytes[pos + i] /\ r.val[i] \in Byte

LEMMA PrefixRead ==
    ASSUME NEW c \in Contexts, NEW pos \in Nat, pos <= c.end, NEW width \in Nat, NEW r, r = ReadPrefix(c, pos, width),
           NEW w, w = IF width = 0 THEN 1 ELSE width
    PROVE  PrefixDone(c, pos, w, r)
<1>1. w \in Nat /\ w >= 1
  OBVIOUS
<1>2. r = Slice(c, pos, w)
  BY DEF ReadPrefix
<1>3. /\ r \in [ok : BOOLEAN, pos : Nat, val : Seq(Byte)]
      /\ r.ok <=> pos + w <= c.end
      /\ r.ok => /\ r.pos = pos + w /\ Len(r.val) = w
                 /\ \A i \in 1 .. w : r.val[i] = c.bytes[pos + i] /\ r.val[i] \in Byte
  <2>1. /\ Slice(c, pos, w) \in [ok : BOOLEAN, pos : Nat, val : Seq(Byte)]
        /\ Slice(c, pos, w).ok <=> pos + w <= c.end
        /\ Slice(c, pos, w).ok =>
              /\ Slice(c, pos, w).pos = pos + w /\ Len(Slice(c, pos, w).val) = w
              /\ \A i \in 1 .. w : Slice(c, pos, w).val[i] = c.bytes[pos + i] /\ Slice(c, pos, w).val[i] \in Byte
    BY ONLY c \in Contexts, pos \in Nat, pos <= c.end, <1>1, Sliced
  <2>2. QED
    BY <1>2, <2>1
<1>4. r.ok => r.val[1] \in Nat
  <2>1. 1 \in 1 .. w
    BY <1>1
  <2>2. QED
    BY <1>3, <2>1, ByteIs
<1>5. r.ok => Number(r.val) \in Nat
  <2>1. Huge \in Nat
    BY WireAssumption
  <2>2. QED
    BY <1>4, <2>1 DEF Number
<1>6. r.ok => r.pos <= c.end
  BY <1>3
<1>7. QED
  BY <1>1, <1>3, <1>4, <1>5, <1>6 DEF PrefixDone

\* The sums of the first numbers, up to that of all.
LEMMA SumsUp ==
    ASSUME NEW n \in Nat, NEW F \in [1 .. n -> Nat]
    PROVE  \E low \in [0 .. n -> Nat] :
               /\ low[0] = 0 /\ low[n] = SumFunction(F)
               /\ \A i \in 0 .. n - 1 : low[i + 1] = low[i] + F[i + 1]
<1> DEFINE G(i) == [j \in 1 .. i |-> F[j]]
           low == [i \in 0 .. n |-> SumFunction(G(i))]
<1>1. SumFunction(G(0)) = 0
  <2>1. DOMAIN G(0) = {}
    OBVIOUS
  <2> HIDE DEF G
  <2>2. QED
    BY <2>1, SumOfNothing
<1>2. ASSUME NEW i \in 0 .. n - 1
      PROVE  SumFunction(G(i + 1)) = SumFunction(G(i)) + F[i + 1] /\ SumFunction(G(i + 1)) \in Nat
  <2>1. PICK H : H = G(i + 1)
    OBVIOUS
  <2>2. H \in [0 + 1 .. i + 1 -> Nat] /\ \A j \in 1 .. i + 1 : H[j] = F[j]
    BY <2>1
  <2>3. [j \in 0 + 1 .. i |-> H[j]] = G(i)
    BY <2>2
  <2> HIDE DEF G
  <2>4. 0 \in Nat /\ i \in Nat /\ 0 <= i
    OBVIOUS
  <2>5. SumFunction(H) \in Nat /\ SumFunction(H) = SumFunction([j \in 0 + 1 .. i |-> H[j]]) + H[i + 1]
    BY <2>2, <2>4, SumOfInterval
  <2>6. H[i + 1] = F[i + 1]
    BY <2>2
  <2>7. QED
    BY <2>1, <2>3, <2>5, <2>6
<1>3. G(n) = F
  OBVIOUS
<1> HIDE DEF G
<1>4. \A i \in 0 .. n : SumFunction(G(i)) \in Nat
  <2>1. ASSUME NEW i \in 0 .. n
        PROVE  SumFunction(G(i)) \in Nat
    <3>1. CASE i = 0
      BY <1>1, <3>1
    <3>2. CASE i # 0
      <4>1. i - 1 \in 0 .. n - 1 /\ (i - 1) + 1 = i
        BY <3>2
      <4>2. QED
        BY <1>2, <4>1
    <3>3. QED
      BY <3>1, <3>2
  <2>2. QED
    BY <2>1
<1>5. low \in [0 .. n -> Nat] /\ \A i \in 0 .. n : low[i] = SumFunction(G(i))
  BY <1>4
<1> HIDE DEF low
<1>6. low[0] = 0 /\ low[n] = SumFunction(F)
  BY <1>1, <1>3, <1>5
<1>7. \A i \in 0 .. n - 1 : low[i + 1] = low[i] + F[i + 1]
  <2>1. \A i \in 0 .. n - 1 : i \in 0 .. n /\ i + 1 \in 0 .. n
    OBVIOUS
  <2>2. QED
    BY <1>2, <1>5, <2>1
<1>8. QED
  BY <1>5, <1>6, <1>7

\* All that is known of the codecs a codec is made of.
Inner(k, d) == \A t \in Parts(d) : t \in Types /\ DecodeTyped(k, t) /\ ZeroTyped(k, t)

LEMMA MinIs ==
    ASSUME NEW k, NEW d, Sound(d), Inner(k, d)
    PROVE  /\ MinBytes(k, d) \in Nat /\ Takes(d) \in Nat
           /\ d.kind \notin {"tuple", "skipped"} => MinBytes(k, d) <= Takes(d)
           /\ d.kind = "skipped" => MinBytes(k, d) = 0 /\ Takes(d) = 0
           /\ d.kind # "tuple" => Needs(d) = Takes(d)
<1>1. CASE d.kind = "tuple"
  <2>1. d.parts \in Seq(Types) /\ Len(d.parts) \in Nat /\ DOMAIN d.parts = 1 .. Len(d.parts)
    BY <1>1, LenProperties DEF Sound
  <2>2. \A i \in 1 .. Len(d.parts) : k.min[d.parts[i]] \in Nat
    <3>1. \A i \in 1 .. Len(d.parts) : d.parts[i] \in Parts(d)
      BY <1>1, <2>1 DEF Parts, ToSet
    <3>2. QED
      BY <3>1 DEF Inner, DecodeTyped
  <2> DEFINE F == [i \in 1 .. Len(d.parts) |-> k.min[d.parts[i]]]
  <2>3. F \in [1 .. Len(d.parts) -> Nat]
    BY <2>2
  <2>4. MinBytes(k, d) = SumFunction(F)
    BY <1>1, <2>1 DEF MinBytes
  <2> HIDE DEF F
  <2>5. SumFunction(F) \in Nat
    <3>1. PICK low \in [0 .. Len(d.parts) -> Nat] : low[Len(d.parts)] = SumFunction(F)
      BY <2>1, <2>3, SumsUp
    <3>2. QED
      BY <2>1, <3>1
  <2>6. Takes(d) = 0
    BY <1>1 DEF Takes
  <2>7. QED
    BY <1>1, <2>4, <2>5, <2>6
<1>2. CASE d.kind # "tuple"
  BY <1>2 DEF Sound, Kinds, MinBytes, Takes, Needs, UnionBytes
<1>3. QED
  BY <1>1, <1>2

LEMMA SkippedDecoded ==
    ASSUME NEW k, NEW d, Sound(d), Inner(k, d), d.kind = "skipped",
           NEW c \in Contexts, NEW pos \in Nat, pos <= c.end, NEW old \in Results(k, d)
    PROVE  Decoded(k, d, c, pos, DecodeOf(k, d, c, pos, old))
<1>1. DecodeOf(k, d, c, pos, old) = Ok(pos, old)
  BY DEF DecodeOf
<1>2. MinBytes(k, d) = 0 /\ Needs(d) = 0
  BY MinIs
<1>3. QED
  BY <1>1, <1>2, Taken

LEMMA FixedDecoded ==
    ASSUME NEW k, NEW d, Sound(d), Inner(k, d), d.kind = "fixed",
           NEW c \in Contexts, NEW pos \in Nat, pos <= c.end, NEW old \in Results(k, d)
    PROVE  Decoded(k, d, c, pos, DecodeOf(k, d, c, pos, old))
<1>1. PICK r : r = Slice(c, pos, d.width)
  OBVIOUS
<1>2. DecodeOf(k, d, c, pos, old) = Leaving(r, old)
  BY <1>1 DEF DecodeOf
<1>3. d.width \in Nat
  BY DEF Sound
<1>4. /\ r \in [ok : BOOLEAN, pos : Nat, val : Seq(Byte)]
      /\ r.ok <=> pos + d.width <= c.end
      /\ r.ok => r.pos = pos + d.width /\ Len(r.val) = d.width /\ \A i \in 1 .. d.width : r.val[i] \in Byte
  BY <1>1, <1>3, Sliced
<1>5. MinBytes(k, d) \in Nat /\ MinBytes(k, d) <= d.width /\ Needs(d) = d.width
  <2>1. Takes(d) = d.width
    BY DEF Takes
  <2>2. QED
    BY <2>1, MinIs
<1>6. CASE r.ok
  <2>1. r.val \in Results(k, d)
    <3>1. Results(k, d) = [1 .. d.width -> Byte]
      BY DEF Results, Shape
    <3>2. r.val \in [1 .. d.width -> Byte]
      BY <1>4, <1>6
    <3>3. QED
      BY <3>1, <3>2
  <2>2. Leaving(r, old) = Ok(r.pos, r.val)
    BY <1>4, <1>6 DEF Leaving, Ok
  <2>3. r.pos \in Nat /\ r.pos <= c.end /\ pos + MinBytes(k, d) <= r.pos /\ pos + Needs(d) <= r.pos
    BY <1>3, <1>4, <1>5, <1>6
  <2>4. Decoded(k, d, c, pos, Ok(r.pos, r.val))
    BY <2>1, <2>3, Taken
  <2>5. QED
    BY <1>2, <2>2, <2>4
<1>7. CASE ~r.ok
  BY <1>2, <1>7, Refused DEF Leaving
<1>8. QED
  BY <1>6, <1>7

\* Whole numbers of units.
LEMMA Multiples ==
    ASSUME NEW n \in Nat, NEW u \in Nat \ {0}
    PROVE  (n * u) % u = 0 /\ n * u \in Nat
<1>1. PICK q \in Int : q = (n * u) \div u
  OBVIOUS
<1>2. PICK r \in 0 .. u - 1 : r = (n * u) % u
  OBVIOUS
<1>3. n * u = u * q + r /\ n * u \in Nat
  BY <1>1, <1>2
<1>4. u * (n - q) = r /\ n - q \in Int
  BY <1>3
<1>5. n - q = 0
  <2>1. PICK x \in Int : x = n - q
    BY <1>4
  <2>2. u * x = r /\ 0 <= r /\ r < u
    BY <1>4, <2>1
  <2>3. x >= 1 => u * x >= u
    OBVIOUS
  <2>4. x <= -1 => u * x <= -u
    OBVIOUS
  <2>5. x = 0
    BY <2>2, <2>3, <2>4
  <2>6. QED
    BY <2>1, <2>5
<1>6. r = 0
  BY <1>4, <1>5
<1>7. QED
  BY <1>2, <1>3, <1>6

LEMMA Quotients ==
    ASSUME NEW a \in Nat, NEW u \in Nat \ {0}
    PROVE  /\ a \div u \in Nat
           /\ a % u = 0 => (a \div u) * u = a
           /\ \A n \in Nat : n > a \div u => n * u > a
<1>1. PICK q \in Int : q = a \div u
  OBVIOUS
<1>2. PICK r \in 0 .. u - 1 : r = a % u
  OBVIOUS
<1>3. a = u * q + r
  BY <1>1, <1>2
<1>4. q >= 0
  <2>1. q <= -1 => u * q <= -u
    OBVIOUS
  <2>2. QED
    BY <1>3, <2>1
<1>5. r = 0 => q * u = a
  BY <1>3
<1>6. ASSUME NEW n \in Nat, n > q
      PROVE  n * u > a
  <2>1. PICK x \in Int : n = q + 1 + x /\ x >= 0
    <3>1. n - q - 1 \in Int /\ n - q - 1 >= 0 /\ n = q + 1 + (n - q - 1)
      BY <1>6
    <3>2. QED
      BY <3>1
  <2>2. x * u >= 0
    BY <2>1
  <2>3. n * u = q * u + u + x * u
    BY <2>1
  <2>4. QED
    BY <1>3, <2>2, <2>3
<1>7. QED
  BY <1>1, <1>2, <1>4, <1>5, <1>6

LEMMA BlobDecoded ==
    ASSUME NEW k, NEW d, Sound(d), Inner(k, d), d.kind = "blob",
           NEW c \in Contexts, NEW pos \in Nat, pos <= c.end, NEW old \in Results(k, d)
    PROVE  Decoded(k, d, c, pos, DecodeOf(k, d, c, pos, old))
<1>1. PICK r : r = ReadPrefix(c, pos, d.prefix)
  OBVIOUS
<1>2. PICK w : w = IF d.prefix = 0 THEN 1 ELSE d.prefix
  OBVIOUS
<1>3. DecodeOf(k, d, c, pos, old) = DecodeBlob(d, c, r, old)
  BY <1>1 DEF DecodeOf
<1>4. d.prefix \in Nat /\ d.unit \in Nat \ {0} /\ d.units \in BOOLEAN
  BY DEF Sound
<1>5. /\ w \in Nat /\ w >= 1
      /\ r.ok \in BOOLEAN /\ r.pos \in Nat
      /\ r.ok => r.pos = pos + w /\ r.pos <= c.end /\ Number(r.val) \in Nat
  <2>1. PrefixDone(c, pos, w, r)
    BY <1>1, <1>2, <1>4, PrefixRead
  <2>2. QED
    BY <2>1 DEF PrefixDone
<1>6. MinBytes(k, d) \in Nat /\ MinBytes(k, d) <= w /\ Needs(d) = w
  <2>1. Takes(d) = w
    BY <1>2 DEF Takes
  <2>2. QED
    BY <2>1, MinIs
<1>7. CASE ~r.ok
  BY <1>3, <1>7, Refused DEF DecodeBlob
<1>8. CASE r.ok
  <2>1. PICK n : n = Number(r.val)
    OBVIOUS
  <2>2. PICK m : m = IF d.units THEN n * d.unit ELSE n
    OBVIOUS
  <2>3. n \in Nat
    BY <1>5, <1>8, <2>1
  <2>4. PICK s : s = Slice(c, r.pos, m)
    OBVIOUS
  <2>5. DecodeOf(k, d, c, pos, old) = IF ~d.units /\ n % d.unit # 0 THEN Bad(old) ELSE Leaving(s, old)
    BY <1>3, <1>8, <2>1, <2>2, <2>4 DEF DecodeBlob, BlobBody
  <2>6. CASE ~d.units /\ n % d.unit # 0
    BY <2>5, <2>6, Refused
  <2>7. CASE ~(~d.units /\ n % d.unit # 0)
    <3>1. m \in Nat
      <4>1. d.unit \in Nat /\ n * d.unit \in Nat
        BY <1>4, <2>3
      <4>2. QED
        BY <2>2, <2>3, <4>1
    <3>2. m % d.unit = 0
      <4>1. CASE d.units
        <5>1. m = n * d.unit
          BY <2>2, <4>1
        <5>2. (n * d.unit) % d.unit = 0
          BY <1>4, <2>3, Multiples
        <5>3. QED
          BY <5>1, <5>2
      <4>2. CASE ~d.units
        BY <2>2, <2>7, <4>2
      <4>3. QED
        BY <4>1, <4>2
    <3>3. /\ s \in [ok : BOOLEAN, pos : Nat, val : Seq(Byte)]
          /\ s.ok <=> r.pos + m <= c.end
          /\ s.ok => s.pos = r.pos + m /\ Len(s.val) = m
      <4>1. r.pos \in Nat /\ r.pos <= c.end
        BY <1>5, <1>8
      <4>2. QED
        BY <2>4, <3>1, <4>1, Sliced
    <3>4. CASE s.ok
      <4>1. s.val \in Results(k, d)
        <5>1. Results(k, d) = {v \in Seq(Byte) : Len(v) % d.unit = 0}
          BY DEF Results, Shape
        <5>2. s.val \in Seq(Byte) /\ Len(s.val) % d.unit = 0
          BY <3>2, <3>3, <3>4
        <5>3. QED
          BY <5>1, <5>2
      <4>2. Leaving(s, old) = Ok(s.pos, s.val)
        BY <3>3, <3>4 DEF Leaving, Ok
      <4>3. s.pos \in Nat /\ s.pos <= c.end /\ pos + MinBytes(k, d) <= s.pos /\ pos + Needs(d) <= s.pos
        <5>1. PICK mb : mb = MinBytes(k, d)
          OBVIOUS
        <5>2. mb \in Nat /\ mb <= w /\ r.pos = pos + w /\ s.pos = r.pos + m /\ r.pos + m <= c.end
          BY <1>5, <1>6, <1>8, <3>3, <3>4, <5>1
        <5>3. QED
          BY <1>5, <1>6, <3>1, <5>1, <5>2
      <4>4. Decoded(k, d, c, pos, Ok(s.pos, s.val))
        BY <4>1, <4>3, Taken
      <4>5. QED
        BY <2>5, <2>7, <4>2, <4>4
    <3>5. CASE ~s.ok
      BY <2>5, <2>7, <3>5, Refused DEF Leaving
    <3>6. QED
      BY <3>4, <3>5
  <2>8. QED
    BY <2>6, <2>7
<1>9. QED
  BY <1>7, <1>8

\* The elements that a slice is decoded into, and the slice that it becomes.
LEMMA ResizedIs ==
    ASSUME NEW S, NEW zero \in S, NEW old, old.mem \in Seq(S), NEW n \in Nat
    PROVE  Resized(zero, old, n) \in Seq(S) /\ Len(Resized(zero, old, n)) = n
<1>1. PICK s : s = old.mem
  OBVIOUS
<1>2. s \in Seq(S) /\ Len(s) \in Nat
  BY <1>1, LenProperties
<1>3. CASE n <= Len(s)
  <2>1. n \in 0 .. Len(s)
    BY <1>2, <1>3
  <2>2. SubSeq(s, 1, n) \in Seq(S) /\ Len(SubSeq(s, 1, n)) = n
    BY <1>2, <2>1, PrefixOfSeq
  <2>3. Resized(zero, old, n) = SubSeq(s, 1, n)
    BY <1>1, <1>3 DEF Resized
  <2>4. QED
    BY <2>2, <2>3
<1>4. CASE ~(n <= Len(s))
  <2> DEFINE z == [i \in 1 .. n |-> zero]
  <2>1. z \in Seq(S) /\ Len(z) = n
    OBVIOUS
  <2>2. Resized(zero, old, n) = z
    BY <1>1, <1>4 DEF Resized
  <2>3. QED
    BY <2>1, <2>2
<1>5. QED
  BY <1>3, <1>4

Slices(S) == {v \in [mem : Seq(S), len : Nat] : v.len <= Len(v.mem)}

LEMMA AsSliceIs ==
    ASSUME NEW S, NEW r \in [ok : BOOLEAN, pos : Nat, val : Seq(S)], NEW old, old.mem \in Seq(S)
    PROVE  LET s == AsSlice(r, old)
           IN  /\ s \in [ok : BOOLEAN, pos : Nat, val : Slices(S)]
               /\ s.ok = r.ok /\ s.pos = r.pos /\ s.val.len = Len(r.val)
               /\ s.val.len <= Len(s.val.mem) /\ s.val.mem \in Seq(S) /\ Len(s.val.mem) \in Nat
               /\ \A i \in 1 .. Len(r.val) : s.val.mem[i] = r.val[i]
<1>1. PICK x : x = r.val
  OBVIOUS
<1>2. PICK m : m = old.mem
  OBVIOUS
<1>3. x \in Seq(S) /\ m \in Seq(S) /\ Len(x) \in Nat /\ Len(m) \in Nat
  BY <1>1, <1>2, LenProperties
<1>4. PICK tail : tail = SubSeq(m, Len(x) + 1, Len(m))
  OBVIOUS
<1>5. tail \in Seq(S) /\ Len(tail) \in Nat
  <2>1. tail \in Seq(S)
    BY <1>3, <1>4, TailOfSeq
  <2>2. QED
    BY <2>1, LenProperties
<1>6. PICK mem : mem = x \o tail
  OBVIOUS
<1>7. /\ mem \in Seq(S) /\ Len(mem) = Len(x) + Len(tail)
      /\ \A i \in 1 .. Len(x) : mem[i] = x[i]
  <2>1. /\ x \o tail \in Seq(S) /\ Len(x \o tail) = Len(x) + Len(tail)
        /\ \A i \in 1 .. Len(x) + Len(tail) : (x \o tail)[i] = IF i <= Len(x) THEN x[i] ELSE tail[i - Len(x)]
    BY <1>3, <1>5, ConcatProperties
  <2>2. QED
    BY <1>3, <1>5, <1>6, <2>1
<1>8. Len(x) <= Len(mem) /\ Len(mem) \in Nat
  BY <1>3, <1>5, <1>7
<1>9. PICK v : v = [mem |-> mem, len |-> Len(x)]
  OBVIOUS
<1>10. v \in Slices(S) /\ v.mem = mem /\ v.len = Len(x)
  BY <1>3, <1>7, <1>8, <1>9 DEF Slices
<1>11. PICK s : s = AsSlice(r, old)
  OBVIOUS
<1>12. s = [r EXCEPT !.val = v]
  BY <1>1, <1>2, <1>4, <1>6, <1>9, <1>11 DEF AsSlice
<1>13. s \in [ok : BOOLEAN, pos : Nat, val : Slices(S)] /\ s.ok = r.ok /\ s.pos = r.pos /\ s.val = v
  BY <1>10, <1>12
<1>14. QED
  BY <1>1, <1>7, <1>8, <1>10, <1>11, <1>13

LEMMA SliceDecoded ==
    ASSUME NEW k, NEW d, Sound(d), Inner(k, d), d.kind = "slice",
           NEW c \in Contexts, NEW pos \in Nat, pos <= c.end, NEW old \in Results(k, d)
    PROVE  Decoded(k, d, c, pos, DecodeOf(k, d, c, pos, old))
<1>1. PICK r : r = ReadPrefix(c, pos, 0)
  OBVIOUS
<1>2. /\ r.ok \in BOOLEAN /\ r.pos \in Nat
      /\ r.ok => r.pos = pos + 1 /\ r.pos <= c.end /\ r.val[1] \in Nat
  <2>1. PICK w : w = 1
    OBVIOUS
  <2>2. PICK z : z = 0
    OBVIOUS
  <2>3. r = ReadPrefix(c, pos, z) /\ z \in Nat /\ w = IF z = 0 THEN 1 ELSE z
    BY <1>1, <2>1, <2>2
  <2>4. PrefixDone(c, pos, w, r)
    BY <2>3, PrefixRead
  <2>5. QED
    BY <2>1, <2>4 DEF PrefixDone
<1>3. DecodeOf(k, d, c, pos, old) = DecodeSlice(k, d.elem, c, r, old)
  BY <1>1 DEF DecodeOf
<1>4. MinBytes(k, d) = 1 /\ Needs(d) = 1
  BY DEF MinBytes, Needs, Takes
<1>5. PICK t : t = d.elem
  OBVIOUS
<1>6. t \in Types /\ DecodeTyped(k, t) /\ ZeroTyped(k, t)
  BY <1>5 DEF Inner, Parts
<1>7. PICK S : S = k.results[t]
  OBVIOUS
<1>8. Results(k, d) = Slices(S)
  BY <1>5, <1>7 DEF Results, Shape, Slices
<1>9. old.mem \in Seq(S)
  BY <1>8 DEF Slices
<1>10. PICK zero : zero = k.zero[t]
  OBVIOUS
<1>11. zero \in S
  BY <1>6, <1>7, <1>10 DEF ZeroTyped
<1>12. CASE ~r.ok
  BY <1>3, <1>12, Refused DEF DecodeSlice
<1>13. CASE r.ok
  <2>1. PICK n : n = r.val[1]
    OBVIOUS
  <2>2. n \in Nat /\ r.pos = pos + 1 /\ r.pos <= c.end
    BY <1>2, <1>13, <2>1
  <2>3. PICK kept : kept = Resized(zero, old, n)
    OBVIOUS
  <2>4. kept \in Seq(S) /\ Len(kept) = n
    BY <1>9, <1>11, <2>2, <2>3, ResizedIs
  <2>5. DecodeOf(k, d, c, pos, old) = Elements(k, t, c, r.pos, n, old)
    BY <1>3, <1>5, <1>13, <2>1 DEF DecodeSlice
  <2>6. ASSUME NEW x \in [ok : BOOLEAN, pos : Nat, val : Seq(S)], x.pos <= c.end, x.ok => r.pos <= x.pos
        PROVE  Decoded(k, d, c, pos, AsSlice(x, old))
    <3>1. PICK s : s = AsSlice(x, old)
      OBVIOUS
    <3>2. s \in [ok : BOOLEAN, pos : Nat, val : Slices(S)] /\ s.ok = x.ok /\ s.pos = x.pos
      BY <1>9, <3>1, AsSliceIs
    <3>3. s \in [ok : BOOLEAN, pos : Nat, val : Results(k, d)]
      BY <1>8, <3>2
    <3>4. s.pos <= c.end /\ (s.ok => pos + 1 <= s.pos)
      BY <2>2, <2>6, <3>2
    <3>5. Decoded(k, d, c, pos, s)
      BY <1>4, <3>3, <3>4 DEF Decoded
    <3>6. QED
      BY <3>1, <3>5
  <2>7. CASE k.wireless[t]
    <3>1. DecodeOf(k, d, c, pos, old) = AsSlice(Ok(r.pos, kept), old)
      BY <1>10, <2>3, <2>5, <2>7 DEF Elements
    <3>2. PICK x : x = Ok(r.pos, kept)
      OBVIOUS
    <3>3. x \in [ok : BOOLEAN, pos : Nat, val : Seq(S)] /\ x.pos = r.pos
      BY <1>2, <2>4, <3>2 DEF Ok
    <3>4. QED
      BY <2>2, <2>6, <3>1, <3>2, <3>3
  <2>8. CASE ~k.wireless[t] /\ Scarce(c, r.pos, n, k.min[t])
    <3>1. DecodeOf(k, d, c, pos, old) = Bad(old)
      BY <2>5, <2>8 DEF Elements
    <3>2. QED
      BY <3>1, Refused
  <2>9. CASE ~k.wireless[t] /\ ~Scarce(c, r.pos, n, k.min[t])
    <3>1. PICK olds : olds = IF c.knows /\ k.min[t] = 0 THEN <<>> ELSE kept
      OBVIOUS
    <3>2. olds \in Seq(S) /\ Len(olds) <= n
      BY <2>2, <2>4, <3>1, EmptySeq
    <3>3. PICK x : x = DecodeAll(k, Many(n, t), c, r.pos, olds)
      OBVIOUS
    <3>4. DecodeOf(k, d, c, pos, old) = AsSlice(x, old)
      BY <1>10, <2>3, <2>5, <2>9, <3>1, <3>3 DEF Elements
    <3>5. Olds(k, Many(n, t), olds)
      BY <1>6, <1>7, <2>2, <3>2, ManyOlds
    <3>6. /\ x \in [ok : BOOLEAN, pos : Nat, val : Seq(Held(k))]
          /\ Olds(k, Many(n, t), x.val) /\ x.pos <= c.end
          /\ x.ok => r.pos <= x.pos
      <4>1. Typed(k, Many(n, t))
        BY <1>6, <2>2, ManyTyped
      <4>2. r.pos \in Nat /\ r.pos <= c.end
        BY <1>2, <2>2
      <4>3. QED
        BY <3>3, <3>5, <4>1, <4>2, AllDecoded
    <3>7. x.val \in Seq(S)
      BY <1>6, <1>7, <2>2, <3>6, ManyOlds
    <3>8. x \in [ok : BOOLEAN, pos : Nat, val : Seq(S)]
      BY <3>6, <3>7
    <3>9. QED
      BY <2>6, <3>4, <3>6, <3>8
  <2>10. QED
    BY <2>7, <2>8, <2>9
<1>14. QED
  BY <1>12, <1>13

LEMMA PointerDecoded ==
    ASSUME NEW k, NEW d, Sound(d), Inner(k, d), d.kind = "pointer",
           NEW c \in Contexts, NEW pos \in Nat, pos <= c.end, NEW old \in Results(k, d)
    PROVE  Decoded(k, d, c, pos, DecodeOf(k, d, c, pos, old))
<1>1. PICK r : r = Slice(c, pos, 1)
  OBVIOUS
<1>2. /\ r.ok \in BOOLEAN /\ r.pos \in Nat
      /\ r.ok => r.pos = pos + 1 /\ r.pos <= c.end
  <2>1. 1 \in Nat
    OBVIOUS
  <2>2. /\ r \in [ok : BOOLEAN, pos : Nat, val : Seq(Byte)]
        /\ r.ok <=> pos + 1 <= c.end
        /\ r.ok => r.pos = pos + 1
    BY <1>1, <2>1, Sliced
  <2>3. QED
    BY <2>2
<1>3. DecodeOf(k, d, c, pos, old) = DecodePointer(k, d.elem, c, r, old)
  BY <1>1 DEF DecodeOf
<1>4. MinBytes(k, d) = 1 /\ Needs(d) = 1
  BY DEF MinBytes, Needs, Takes
<1>5. PICK t : t = d.elem
  OBVIOUS
<1>6. t \in Types /\ DecodeTyped(k, t) /\ ZeroTyped(k, t)
  BY <1>5 DEF Inner, Parts
<1>7. PICK S : S = k.results[t]
  OBVIOUS
<1>8. Results(k, d) = Optional(S)
  BY <1>5, <1>7 DEF Results, Shape
<1>9. old \in Seq(S) /\ Len(old) <= 1
  BY <1>8 DEF Optional
<1>10. CASE ~r.ok
  BY <1>3, <1>10, Refused DEF DecodePointer
<1>11. CASE r.ok /\ r.val[1] = 1
  <2>1. PICK e : e = <<>>
    OBVIOUS
  <2>2. e \in Results(k, d)
    <3>1. e \in Seq(S) /\ Len(e) = 0
      BY <2>1, EmptySeq
    <3>2. QED
      BY <1>8, <3>1 DEF Optional
  <2>3. DecodeOf(k, d, c, pos, old) = Ok(r.pos, e)
    BY <1>3, <1>11, <2>1 DEF DecodePointer
  <2>4. Decoded(k, d, c, pos, Ok(r.pos, e))
    <3>1. r.pos \in Nat /\ r.pos <= c.end /\ pos + MinBytes(k, d) <= r.pos /\ pos + Needs(d) <= r.pos
      BY <1>2, <1>4, <1>11
    <3>2. QED
      BY <2>2, <3>1, Taken
  <2>5. QED
    BY <2>3, <2>4
<1>12. CASE r.ok /\ r.val[1] # 1
  <2>1. PICK x : x = DecodeAll(k, Many(1, t), c, r.pos, old)
    OBVIOUS
  <2>2. DecodeOf(k, d, c, pos, old) = x
    BY <1>3, <1>5, <1>12, <2>1 DEF DecodePointer
  <2>3. 1 \in Nat
    OBVIOUS
  <2>4. Olds(k, Many(1, t), old)
    BY <1>6, <1>7, <1>9, <2>3, ManyOlds
  <2>5. Typed(k, Many(1, t))
    BY <1>6, <2>3, ManyTyped
  <2>6. /\ x \in [ok : BOOLEAN, pos : Nat, val : Seq(Held(k))]
        /\ Olds(k, Many(1, t), x.val) /\ x.pos <= c.end
        /\ x.ok => r.pos <= x.pos
    BY <1>2, <1>12, <2>1, <2>4, <2>5, AllDecoded
  <2>7. x.val \in Seq(S) /\ Len(x.val) <= 1
    BY <1>6, <1>7, <2>3, <2>6, ManyOlds
  <2>8. x \in [ok : BOOLEAN, pos : Nat, val : Results(k, d)]
    <3>1. x.val \in Results(k, d)
      BY <1>8, <2>7 DEF Optional
    <3>2. QED
      BY <2>6, <3>1
  <2>9. x.ok => pos + 1 <= x.pos
    BY <1>2, <1>12, <2>6
  <2>10. Decoded(k, d, c, pos, x)
    BY <1>4, <2>6, <2>8, <2>9 DEF Decoded
  <2>11. QED
    BY <2>2, <2>10
<1>13. QED
  BY <1>10, <1>11, <1>12

\* A tuple has a place for every part.
LEMMA TupleOlds ==
    ASSUME NEW k, NEW types \in Seq(Types), NEW v
    PROVE  v \in Tuples(k.results, types) <=> Olds(k, types, v) /\ Len(v) = Len(types)
<1>1. Len(types) \in Nat
  BY LenProperties
<1>2. \A i \in 1 .. Len(types) : k.results[types[i]] \subseteq Held(k)
  <2>1. \A i \in 1 .. Len(types) : types[i] \in Types
    BY ElementOfSeq
  <2>2. QED
    BY <2>1 DEF Held
<1>3. v \in Tuples(k.results, types) <=>
          v \in Seq(Held(k)) /\ Len(v) = Len(types) /\ \A i \in 1 .. Len(types) : v[i] \in k.results[types[i]]
  BY <1>2, TupleIs
<1>4. QED
  BY <1>1, <1>3 DEF Olds

LEMMA TypedParts ==
    ASSUME NEW k, NEW d, Sound(d), Inner(k, d), d.kind = "tuple"
    PROVE  Typed(k, d.parts) /\ Results(k, d) = Tuples(k.results, d.parts)
<1>1. d.parts \in Seq(Types) /\ Len(d.parts) \in Nat
  BY LenProperties DEF Sound
<1>2. \A i \in 1 .. Len(d.parts) : d.parts[i] \in Parts(d)
  <2>1. DOMAIN d.parts = 1 .. Len(d.parts)
    BY <1>1, LenProperties
  <2>2. QED
    BY <1>1, <2>1 DEF Parts, ToSet
<1>3. Typed(k, d.parts)
  BY <1>1, <1>2 DEF Inner, Typed
<1>4. Results(k, d) = Tuples(k.results, d.parts)
  BY DEF Results, Shape
<1>5. QED
  BY <1>3, <1>4

LEMMA TupleDecoded ==
    ASSUME NEW k, NEW d, Sound(d), Inner(k, d), d.kind = "tuple",
           NEW c \in Contexts, NEW pos \in Nat, pos <= c.end, NEW old \in Results(k, d)
    PROVE  Decoded(k, d, c, pos, DecodeOf(k, d, c, pos, old))
<1>1. PICK types : types = d.parts
  OBVIOUS
<1>2. Typed(k, types) /\ types \in Seq(Types) /\ Len(types) \in Nat /\ DOMAIN types = 1 .. Len(types)
  BY <1>1, TypedParts, LenProperties DEF Typed
<1>3. Results(k, d) = Tuples(k.results, types)
  BY <1>1, TypedParts
<1>4. Olds(k, types, old) /\ Len(old) = Len(types)
  BY <1>2, <1>3, TupleOlds
<1>5. DecodeOf(k, d, c, pos, old) = IF d.ahead /\ Scarce(c, pos, Len(types), 1) THEN Bad(old)
                                    ELSE DecodeAll(k, types, c, pos, old)
  BY <1>1 DEF DecodeOf, DecodeTuple
<1>6. CASE d.ahead /\ Scarce(c, pos, Len(types), 1)
  BY <1>5, <1>6, Refused
<1>7. CASE ~(d.ahead /\ Scarce(c, pos, Len(types), 1))
  <2>1. PICK x : x = DecodeAll(k, types, c, pos, old)
    OBVIOUS
  <2>2. /\ x \in [ok : BOOLEAN, pos : Nat, val : Seq(Held(k))]
        /\ Olds(k, types, x.val) /\ Len(x.val) \in Nat /\ Len(old) <= Len(x.val) /\ x.pos <= c.end
    BY <1>2, <1>4, <2>1, AllDecoded
  <2>3. x.val \in Results(k, d)
    <3>1. Len(x.val) = Len(types)
      <4>1. Len(x.val) <= Len(types)
        BY <2>2 DEF Olds
      <4>2. QED
        BY <1>2, <1>4, <2>2, <4>1
    <3>2. QED
      BY <1>2, <1>3, <2>2, <3>1, TupleOlds
  <2>4. x \in [ok : BOOLEAN, pos : Nat, val : Results(k, d)]
    BY <2>2, <2>3
  <2>5. PICK f : f = DecodeUpTo(k, types, c, pos, old)
    OBVIOUS
  <2>6. x = f[Len(types)]
    BY <1>2, <1>4, <2>1, <2>5, DecodesAll
  <2>7. ASSUME NEW low \in [0 .. Len(types) -> Nat], low[0] = 0,
               \A i \in 0 .. Len(types) - 1 :
                   \/ low[i + 1] <= low[i] + k.min[types[i + 1]]
                   \/ low[i + 1] <= low[i] + Needs(Desc[types[i + 1]])
        PROVE  x.ok => pos + low[Len(types)] <= x.pos
    <3>1. \A i \in 0 .. Len(types) : f[i].ok => pos + low[i] <= f[i].pos
      BY <1>2, <1>4, <2>5, <2>7, Consumes
    <3>2. QED
      BY <1>2, <2>6, <3>1
  <2>8. x.ok => pos + MinBytes(k, d) <= x.pos
    <3> DEFINE F == [i \in 1 .. Len(types) |-> k.min[types[i]]]
    <3>1. F \in [1 .. Len(types) -> Nat] /\ \A i \in 1 .. Len(types) : F[i] = k.min[types[i]]
      BY <1>2 DEF Typed, DecodeTyped
    <3>2. MinBytes(k, d) = SumFunction(F)
      BY <1>1, <1>2 DEF MinBytes
    <3> HIDE DEF F
    <3>3. PICK low \in [0 .. Len(types) -> Nat] :
              /\ low[0] = 0 /\ low[Len(types)] = SumFunction(F)
              /\ \A i \in 0 .. Len(types) - 1 : low[i + 1] = low[i] + F[i + 1]
      BY <1>2, <3>1, SumsUp
    <3>4. ASSUME NEW i \in 0 .. Len(types) - 1
          PROVE  low[i + 1] <= low[i] + k.min[types[i + 1]]
      <4>1. i + 1 \in 1 .. Len(types) /\ i + 1 \in 0 .. Len(types)
        BY <1>2
      <4>2. low[i + 1] = low[i] + k.min[types[i + 1]] /\ low[i + 1] \in Nat
        BY <3>1, <3>3, <4>1
      <4>3. QED
        BY <4>2
    <3>5. QED
      BY <2>7, <3>2, <3>3, <3>4
  <2>9. x.ok => pos + Needs(d) <= x.pos
    <3>1. CASE Len(types) = 2
      <4>1. PICK a : a = Takes(Desc[types[1]])
        OBVIOUS
      <4>2. PICK b : b = Takes(Desc[types[2]])
        OBVIOUS
      <4>3. 1 \in 1 .. Len(types) /\ 2 \in 1 .. Len(types)
        BY <3>1
      <4>4. a \in Nat /\ b \in Nat /\ Needs(d) = a + b
        <5>1. types[1] \in Types /\ types[2] \in Types
          BY <1>2, <4>3 DEF Typed
        <5>2. a \in Nat /\ b \in Nat
          BY <4>1, <4>2, <5>1, NeedsIs
        <5>3. QED
          BY <1>1, <3>1, <4>1, <4>2, <5>2 DEF Needs
      <4> DEFINE low == [i \in 0 .. Len(types) |-> IF i = 0 THEN 0 ELSE IF i = 1 THEN a ELSE a + b]
      <4>5. low \in [0 .. Len(types) -> Nat] /\ low[0] = 0 /\ low[1] = a /\ low[2] = a + b
        BY <3>1, <4>4
      <4> HIDE DEF low
      <4>6. /\ Needs(Desc[types[1]]) >= a /\ Needs(Desc[types[1]]) \in Nat
            /\ Needs(Desc[types[2]]) >= b /\ Needs(Desc[types[2]]) \in Nat
        <5>1. ASSUME NEW t \in Types
              PROVE  Needs(Desc[t]) >= Takes(Desc[t]) /\ Needs(Desc[t]) \in Nat
          <6>1. Takes(Desc[t]) \in Nat /\ Needs(Desc[t]) \in Nat
            BY NeedsIs
          <6>2. Desc[t].kind = "tuple" => Takes(Desc[t]) = 0
            BY DEF Takes
          <6>3. CASE Desc[t].kind = "tuple"
            BY <6>1, <6>2, <6>3
          <6>4. CASE Desc[t].kind # "tuple"
            BY <6>1, <6>4, NeedsIs
          <6>5. QED
            BY <6>3, <6>4
        <5>2. types[1] \in Types /\ types[2] \in Types
          BY <1>2, <4>3 DEF Typed
        <5>3. QED
          BY <4>1, <4>2, <5>1, <5>2
      <4>7. ASSUME NEW i \in 0 .. Len(types) - 1
            PROVE  low[i + 1] <= low[i] + Needs(Desc[types[i + 1]])
        <5>1. i = 0 \/ i = 1
          BY <3>1
        <5>2. CASE i = 0
          BY <4>4, <4>5, <4>6, <5>2
        <5>3. CASE i = 1
          BY <4>4, <4>5, <4>6, <5>3
        <5>4. QED
          BY <5>1, <5>2, <5>3
      <4>8. x.ok => pos + low[Len(types)] <= x.pos
        BY <2>7, <4>5, <4>7
      <4>9. QED
        BY <3>1, <4>4, <4>5, <4>8
    <3>2. CASE Len(types) # 2
      <4>1. Needs(d) = 0
        BY <1>1, <3>2 DEF Needs, Takes
      <4>2. x.ok => pos <= x.pos
        BY <1>2, <1>4, <2>1, AllDecoded
      <4>3. QED
        BY <4>1, <4>2
    <3>3. QED
      BY <3>1, <3>2
  <2>10. Decoded(k, d, c, pos, x)
    BY <2>2, <2>4, <2>8, <2>9 DEF Decoded
  <2>11. QED
    BY <1>5, <1>7, <2>1, <2>10
<1>8. QED
  BY <1>6, <1>7

\* A map has the entries that were complete.
Completed(S, r, e) ==
    /\ e \in [ok : BOOLEAN, pos : Nat, val : Seq(S)]
    /\ e.ok = r.ok /\ e.pos = r.pos
    /\ e.ok => e.val = r.val
    /\ ~e.ok => e.val = SubSeq(r.val, 1, Len(r.val) - 1) /\ Len(e.val) = Len(r.val) - 1

LEMMA EntriesIs ==
    ASSUME NEW k, NEW d, NEW c, NEW pos, NEW n,
           NEW S, NEW r \in [ok : BOOLEAN, pos : Nat, val : Seq(S)],
           r = DecodeAll(k, Many(n, d.entry), c, pos, <<>>), ~r.ok => 1 <= Len(r.val),
           NEW old, NEW e, e = Entries(k, d, c, pos, n, Emptied(old))
    PROVE  Completed(S, r, e)
<1>1. PICK v : v = r.val
  OBVIOUS
<1>2. v \in Seq(S) /\ Len(v) \in Nat
  BY <1>1, LenProperties
<1>3. PICK s : s = IF r.ok THEN v ELSE SubSeq(v, 1, Len(v) - 1)
  OBVIOUS
<1>4. s \in Seq(S) /\ (~r.ok => Len(s) = Len(v) - 1)
  <2>1. CASE r.ok
    BY <1>2, <1>3, <2>1
  <2>2. CASE ~r.ok
    <3>1. Len(v) - 1 \in 0 .. Len(v)
      BY <1>1, <1>2, <2>2
    <3>2. QED
      BY <1>2, <1>3, <2>2, <3>1, PrefixOfSeq
  <2>3. QED
    BY <2>1, <2>2
<1>5. PICK m : m = <<>>
  OBVIOUS
<1>6. m \o s = s
  <2>1. m \in Seq(S) /\ Len(m) = 0
    BY <1>5, EmptySeq
  <2>2. PICK j : j = m \o s
    OBVIOUS
  <2>3. Len(s) \in Nat
    BY <1>4, LenProperties
  <2>4. /\ j \in Seq(S) /\ Len(j) = Len(m) + Len(s)
        /\ \A i \in 1 .. Len(m) + Len(s) : j[i] = IF i <= Len(m) THEN m[i] ELSE s[i - Len(m)]
    BY <1>4, <2>1, <2>2, ConcatProperties
  <2>5. Len(j) = Len(s) /\ \A i \in 1 .. Len(s) : j[i] = s[i]
    BY <2>1, <2>3, <2>4
  <2>6. QED
    BY <1>4, <2>2, <2>4, <2>5, SeqEqual
<1>7. e = [r EXCEPT !.val = m \o s]
  BY <1>1, <1>3, <1>5 DEF Entries, Emptied
<1>8. e \in [ok : BOOLEAN, pos : Nat, val : Seq(S)] /\ e.ok = r.ok /\ e.pos = r.pos /\ e.val = s
  BY <1>4, <1>6, <1>7
<1>9. QED
  BY <1>1, <1>3, <1>4, <1>8 DEF Completed

LEMMA MapDecoded ==
    ASSUME NEW k, NEW d, Sound(d), Inner(k, d), d.kind = "map",
           NEW c \in Contexts, NEW pos \in Nat, pos <= c.end, NEW old \in Results(k, d)
    PROVE  Decoded(k, d, c, pos, DecodeOf(k, d, c, pos, old))
<1>p. PICK prefix : prefix = d.prefix
  OBVIOUS
<1>1. PICK r : r = ReadPrefix(c, pos, prefix)
  OBVIOUS
<1>2. prefix \in Nat
  BY <1>p DEF Sound
<1>3. PICK w : w = IF prefix = 0 THEN 1 ELSE prefix
  OBVIOUS
<1>4. /\ w \in Nat /\ w >= 1 /\ r.ok \in BOOLEAN /\ r.pos \in Nat
      /\ r.ok => r.pos = pos + w /\ r.pos <= c.end /\ Number(r.val) \in Nat
  <2>1. PrefixDone(c, pos, w, r)
    BY <1>1, <1>2, <1>3, PrefixRead
  <2>2. QED
    BY <2>1 DEF PrefixDone
<1>5. DecodeOf(k, d, c, pos, old) = DecodeMap(k, d, c, r, old)
  BY <1>p, <1>1 DEF DecodeOf
<1>6. MinBytes(k, d) \in Nat /\ MinBytes(k, d) <= 1 /\ Needs(d) = 1
  <2>1. Takes(d) = 1
    BY DEF Takes
  <2>2. QED
    BY <2>1, MinIs
<1>7. PICK t : t = d.entry
  OBVIOUS
<1>8. t \in Types /\ DecodeTyped(k, t) /\ ZeroTyped(k, t)
  BY <1>7 DEF Inner, Parts
<1>9. PICK S : S = k.results[t]
  OBVIOUS
<1>10. Results(k, d) = Seq(S)
  BY <1>7, <1>9 DEF Results, Shape
<1>11. CASE ~r.ok
  BY <1>5, <1>11, Refused DEF DecodeMap
<1>12. CASE r.ok
  <2>1. PICK n : n = Number(r.val)
    OBVIOUS
  <2>2. n \in Nat /\ r.pos = pos + w /\ r.pos <= c.end
    BY <1>4, <1>12, <2>1
  <2>3. DecodeOf(k, d, c, pos, old) = MapBody(k, d, c, r.pos, n, old)
    BY <1>5, <1>12, <2>1 DEF DecodeMap
  <2>4. CASE (d.codec = "reflect" => n > 1) /\ Scarce(c, r.pos, n, Least(k, d))
    BY <2>3, <2>4, Refused DEF MapBody
  <2>5. CASE ~((d.codec = "reflect" => n > 1) /\ Scarce(c, r.pos, n, Least(k, d)))
    <3>1. PICK e : e = Entries(k, d, c, r.pos, n, Emptied(old))
      OBVIOUS
    <3>2. DecodeOf(k, d, c, pos, old) = e
      BY <2>3, <2>5, <3>1 DEF MapBody
    <3>3. PICK x : x = DecodeAll(k, Many(n, t), c, r.pos, <<>>)
      OBVIOUS
    <3>4. Olds(k, Many(n, t), <<>>)
      <4>1. PICK o : o = <<>>
        OBVIOUS
      <4>2. o \in Seq(k.results[t]) /\ Len(o) = 0
        BY <4>1, EmptySeq
      <4>3. Len(o) <= n
        BY <2>2, <4>2
      <4>4. Olds(k, Many(n, t), o)
        BY <1>8, <2>2, <4>2, <4>3, ManyOlds
      <4>5. QED
        BY <4>1, <4>4
    <3>5. Typed(k, Many(n, t))
      BY <1>8, <2>2, ManyTyped
    <3>6. /\ x \in [ok : BOOLEAN, pos : Nat, val : Seq(Held(k))]
          /\ Olds(k, Many(n, t), x.val) /\ x.pos <= c.end
          /\ x.ok => r.pos <= x.pos
          /\ ~x.ok => 1 <= Len(x.val)
      BY <1>4, <2>2, <3>3, <3>4, <3>5, AllDecoded
    <3>7. x.val \in Seq(S)
      BY <1>8, <1>9, <2>2, <3>6, ManyOlds
    <3>8. x \in [ok : BOOLEAN, pos : Nat, val : Seq(S)]
      BY <3>6, <3>7
    <3>9. e \in [ok : BOOLEAN, pos : Nat, val : Seq(S)] /\ e.ok = x.ok /\ e.pos = x.pos
      <4>1. x = DecodeAll(k, Many(n, d.entry), c, r.pos, <<>>) /\ (~x.ok => 1 <= Len(x.val))
        BY <1>7, <3>3, <3>6
      <4>2. Completed(S, x, e)
        BY ONLY <3>1, <3>8, <4>1, EntriesIs
      <4>3. QED
        BY <4>2 DEF Completed
    <3>10. e \in [ok : BOOLEAN, pos : Nat, val : Results(k, d)]
      BY <1>10, <3>9
    <3>11. e.pos <= c.end /\ (e.ok => pos + MinBytes(k, d) <= e.pos /\ pos + Needs(d) <= e.pos)
      <4>1. e.ok => pos + 1 <= e.pos
        BY <1>4, <2>2, <3>6, <3>9
      <4>2. PICK mb : mb = MinBytes(k, d)
        OBVIOUS
      <4>3. mb \in Nat /\ mb <= 1
        BY <1>6, <4>2
      <4>4. e.ok => pos + mb <= e.pos
        BY <3>9, <4>1, <4>3
      <4>5. QED
        BY <1>6, <3>6, <3>9, <4>1, <4>2, <4>4
    <3>12. Decoded(k, d, c, pos, e)
      BY <3>10, <3>11 DEF Decoded
    <3>13. QED
      BY <3>2, <3>12
  <2>6. QED
    BY <2>4, <2>5
<1>13. QED
  BY <1>11, <1>12

\* Unions with no arm, and with one.
LEMMA NoArms ==
    ASSUME NEW k, NEW d, d.kind = "union", Sound(d)
    PROVE  [other \in DOMAIN d.arms |-> <<>>] \in Results(k, d)
<1>1. Parts(d) \subseteq Types
  BY DEF Parts, Sound
<1> DEFINE z == [tag \in DOMAIN d.arms |-> <<>>]
<1>2. Results(k, d)
        = {v \in Arms(k.results, d.arms) : TRUE => \A a, b \in DOMAIN d.arms : v[a] # <<>> /\ v[b] # <<>> => a = b}
  BY DEF Results, Shape
<1>3. \A tag \in DOMAIN d.arms : z[tag] = <<>>
  OBVIOUS
<1>4. z = [tag \in DOMAIN d.arms |-> z[tag]]
  OBVIOUS
<1>5. \A tag \in DOMAIN d.arms : z[tag] \in Optional(k.results[d.arms[tag]])
  BY <1>3, EmptySeq DEF Optional
<1> HIDE DEF z
<1>6. z \in Arms(k.results, d.arms)
  BY <1>4, <1>5, ArmsIs
<1>7. z \in Results(k, d)
  BY <1>2, <1>3, <1>6
<1>8. QED
  BY <1>7 DEF z

LEMMA OneArm ==
    ASSUME NEW k, NEW d, d.kind = "union", Sound(d), NEW tag \in DOMAIN d.arms, NEW v \in k.results[d.arms[tag]]
    PROVE  [[other \in DOMAIN d.arms |-> <<>>] EXCEPT ![tag] = <<v>>] \in Results(k, d)
<1> DEFINE z == [other \in DOMAIN d.arms |-> IF other = tag THEN <<v>> ELSE <<>>]
<1>1. [[other \in DOMAIN d.arms |-> <<>>] EXCEPT ![tag] = <<v>>] = z
  OBVIOUS
<1>2. Results(k, d)
        = {x \in Arms(k.results, d.arms) : TRUE => \A a, b \in DOMAIN d.arms : x[a] # <<>> /\ x[b] # <<>> => a = b}
  BY DEF Results, Shape
<1>3. \A other \in DOMAIN d.arms : z[other] = IF other = tag THEN <<v>> ELSE <<>>
  OBVIOUS
<1>4. z = [other \in DOMAIN d.arms |-> z[other]]
  OBVIOUS
<1>5. <<v>> \in Optional(k.results[d.arms[tag]])
  <2>1. PICK S : S = k.results[d.arms[tag]]
    OBVIOUS
  <2>2. <<v>> \in Seq(S) /\ Len(<<v>>) = 1
    <3>1. v \in S
      BY <2>1
    <3>2. QED
      BY ONLY <3>1
  <2>3. PICK s : s = <<v>>
    OBVIOUS
  <2>4. s \in Optional(S)
    BY <2>2, <2>3 DEF Optional
  <2>5. QED
    BY <2>1, <2>3, <2>4
<1>6. \A other : <<>> \in Optional(k.results[d.arms[other]])
  BY EmptySeq DEF Optional
<1> HIDE DEF z
<1>7. \A other \in DOMAIN d.arms : z[other] \in Optional(k.results[d.arms[other]])
  BY <1>3, <1>5, <1>6
<1>8. z \in Arms(k.results, d.arms)
  BY <1>4, <1>7, ArmsIs
<1>9. \A a \in DOMAIN d.arms : z[a] # <<>> => a = tag
  BY <1>3
<1>10. z \in Results(k, d)
  BY <1>2, <1>8, <1>9
<1>11. QED
  BY <1>1, <1>10

\* What an arm is decoded into.
OldArm(k, d, tag, old) == IF old[tag] = <<>> THEN k.zero[d.arms[tag]] ELSE old[tag][1]

LEMMA OldArmIs ==
    ASSUME NEW k, NEW d, d.kind = "union", Sound(d), Inner(k, d), NEW tag \in DOMAIN d.arms, NEW old \in Results(k, d)
    PROVE  OldArm(k, d, tag, old) \in k.results[d.arms[tag]]
<1>1. old \in Arms(k.results, d.arms)
  BY DEF Results, Shape
<1>2. old[tag] \in Optional(k.results[d.arms[tag]])
  BY <1>1, ArmsIs
<1>3. PICK x : x = old[tag]
  OBVIOUS
<1>4. PICK S : S = k.results[d.arms[tag]]
  OBVIOUS
<1>5. x \in Seq(S)
  BY <1>2, <1>3, <1>4 DEF Optional
<1>6. k.zero[d.arms[tag]] \in S
  BY <1>4 DEF Inner, Parts, ZeroTyped
<1>7. x # <<>> => x[1] \in S
  <2>1. ASSUME x # <<>>
        PROVE  1 \in 1 .. Len(x)
    <3>1. Len(x) \in Nat /\ Len(x) # 0
      BY <1>5, <2>1, EmptySeq, LenProperties
    <3>2. QED
      BY <3>1
  <2>2. QED
    BY <1>5, <2>1, ElementOfSeq
<1>8. QED
  BY <1>3, <1>4, <1>6, <1>7 DEF OldArm

LEMMA BodyIs ==
    ASSUME NEW c \in Contexts, NEW end \in Nat, end <= c.end
    PROVE  Body(c, end) \in Contexts /\ Body(c, end).end = end /\ Body(c, end).bytes = c.bytes /\ Body(c, end).knows = TRUE
<1>1. c \in [bytes : Seq(Byte), end : Nat, knows : BOOLEAN] /\ c.end <= Len(c.bytes)
  BY DEF Contexts
<1>2. Len(c.bytes) \in Nat /\ c.end \in Nat
  BY ContextIs
<1>3. PICK b : b = Body(c, end)
  OBVIOUS
<1>4. b \in [bytes : Seq(Byte), end : Nat, knows : BOOLEAN] /\ b.end = end /\ b.bytes = c.bytes /\ b.knows = TRUE
  BY <1>1, <1>3 DEF Body
<1>5. b.end <= Len(b.bytes)
  BY <1>1, <1>2, <1>4
<1>6. b \in Contexts
  BY <1>4, <1>5 DEF Contexts
<1>7. QED
  BY <1>3, <1>4, <1>6

\* A tag and a length, read together.
LEMMA HeaderRead ==
    ASSUME NEW c \in Contexts, NEW pos \in Nat, pos <= c.end, NEW r, r = Slice(c, pos, 2)
    PROVE  /\ r \in [ok : BOOLEAN, pos : Nat, val : Seq(Byte)]
           /\ r.ok <=> pos + 2 <= c.end
           /\ r.ok => /\ r.pos = pos + 2 /\ r.pos <= c.end /\ r.val[1] \in Nat /\ r.val[2] \in Nat
                      /\ r.val[1] = c.bytes[pos + 1] /\ r.val[2] = c.bytes[pos + 2]
<1>1. PICK n : n = 2
  OBVIOUS
<1>2. n \in Nat /\ 1 \in 1 .. n /\ 2 \in 1 .. n
  BY <1>1
<1>3. /\ r \in [ok : BOOLEAN, pos : Nat, val : Seq(Byte)]
      /\ r.ok <=> pos + n <= c.end
      /\ r.ok => /\ r.pos = pos + n
                 /\ \A i \in 1 .. n : r.val[i] = c.bytes[pos + i] /\ r.val[i] \in Byte
  <2>1. /\ Slice(c, pos, n) \in [ok : BOOLEAN, pos : Nat, val : Seq(Byte)]
        /\ Slice(c, pos, n).ok <=> pos + n <= c.end
        /\ Slice(c, pos, n).ok =>
              /\ Slice(c, pos, n).pos = pos + n
              /\ \A i \in 1 .. n : Slice(c, pos, n).val[i] = c.bytes[pos + i] /\ Slice(c, pos, n).val[i] \in Byte
    BY ONLY c \in Contexts, pos \in Nat, pos <= c.end, <1>2, Sliced
  <2>2. QED
    BY <1>1, <2>1
<1>4. r.ok => /\ r.val[1] = c.bytes[pos + 1] /\ r.val[1] \in Byte
              /\ r.val[2] = c.bytes[pos + 2] /\ r.val[2] \in Byte
  BY <1>2, <1>3
<1>5. r.ok => r.pos = pos + 2 /\ r.pos <= c.end
  BY <1>1, <1>3
<1>6. QED
  BY <1>1, <1>3, <1>4, <1>5, ByteIs

LEMMA UnionDecoded ==
    ASSUME NEW k, NEW d, Sound(d), Inner(k, d), d.kind = "union",
           NEW c \in Contexts, NEW pos \in Nat, pos <= c.end, NEW old \in Results(k, d)
    PROVE  Decoded(k, d, c, pos, DecodeOf(k, d, c, pos, old))
<1>1. PICK r : r = Slice(c, pos, 2)
  OBVIOUS
<1>2. /\ r.ok \in BOOLEAN /\ r.pos \in Nat
      /\ r.ok => r.pos = pos + 2 /\ r.pos <= c.end /\ r.val[1] \in Nat /\ r.val[2] \in Nat
  BY <1>1, HeaderRead
<1>3. DecodeOf(k, d, c, pos, old) = DecodeUnion(k, d, c, r, old)
  BY <1>1 DEF DecodeOf
<1>4. MinBytes(k, d) = 2 /\ Needs(d) = 2
  BY DEF MinBytes, Needs, Takes, UnionBytes
<1>5. c.end \in Nat
  BY ContextIs
<1>6. CASE ~r.ok
  BY <1>3, <1>6, Refused DEF DecodeUnion
<1>7. CASE r.ok
  <2>1. PICK tag : tag = r.val[1]
    OBVIOUS
  <2>2. PICK end : end = r.pos + r.val[2]
    OBVIOUS
  <2>3. end \in Nat /\ r.pos <= end /\ r.pos = pos + 2
    BY <1>2, <1>7, <2>2
  <2>4. DecodeOf(k, d, c, pos, old) = UnionBody(k, d, c, tag, r.pos, end, old)
    BY <1>3, <1>7, <2>1, <2>2 DEF DecodeUnion
  <2>5. PICK none : none = [other \in DOMAIN d.arms |-> <<>>]
    OBVIOUS
  <2>6. none \in Results(k, d)
    BY <2>5, NoArms
  <2>7. CASE end > c.end
    BY <2>4, <2>7, Refused DEF UnionBody
  <2>8. CASE ~(end > c.end) /\ tag \notin DOMAIN d.arms
    <3>1. DecodeOf(k, d, c, pos, old) = Ok(end, none)
      BY <2>4, <2>5, <2>8 DEF UnionBody
    <3>2. end <= c.end /\ pos + MinBytes(k, d) <= end /\ pos + Needs(d) <= end
      BY <1>4, <1>5, <2>3, <2>8
    <3>3. Decoded(k, d, c, pos, Ok(end, none))
      BY <2>3, <2>6, <3>2, Taken
    <3>4. QED
      BY <3>1, <3>3
  <2>9. CASE ~(end > c.end) /\ tag \in DOMAIN d.arms
    <3>1. PICK t : t = d.arms[tag]
      OBVIOUS
    <3>2. t \in Types /\ DecodeTyped(k, t)
      BY <2>9, <3>1 DEF Inner, Parts
    <3>3. PICK o : o = OldArm(k, d, tag, old)
      OBVIOUS
    <3>4. o \in k.results[t]
      BY <2>9, <3>1, <3>3, OldArmIs
    <3>5. PICK b : b = Body(c, end)
      OBVIOUS
    <3>6. end <= c.end
      BY <1>5, <2>3, <2>9
    <3>7. b \in Contexts /\ b.end = end
      BY <2>3, <3>5, <3>6, BodyIs
    <3>8. PICK x : x = k.decode[t][b][r.pos][o]
      OBVIOUS
    <3>9. Result(k, t, b, r.pos, x)
      BY <1>2, <2>3, <3>2, <3>4, <3>7, <3>8 DEF DecodeTyped
    <3>10. x.ok \in BOOLEAN /\ x.val \in k.results[t]
      BY <3>9 DEF Result
    <3>11. DecodeOf(k, d, c, pos, old) = SetArm(d, tag, end, x)
      BY <2>4, <2>9, <3>1, <3>3, <3>5, <3>8 DEF UnionBody, OldArm
    <3>12. CASE x.ok
      <4>1. PICK v : v = [none EXCEPT ![tag] = <<x.val>>]
        OBVIOUS
      <4>2. v \in Results(k, d)
        BY <2>5, <2>9, <3>1, <3>10, <4>1, OneArm
      <4>3. DecodeOf(k, d, c, pos, old) = Ok(end, v)
        BY <2>5, <3>11, <3>12, <4>1 DEF SetArm
      <4>4. pos + MinBytes(k, d) <= end /\ pos + Needs(d) <= end
        BY <1>4, <2>3
      <4>5. Decoded(k, d, c, pos, Ok(end, v))
        BY <2>3, <3>6, <4>2, <4>4, Taken
      <4>6. QED
        BY <4>3, <4>5
    <3>13. CASE ~x.ok
      <4>1. DecodeOf(k, d, c, pos, old) = Bad(none)
        BY <2>5, <3>11, <3>13 DEF SetArm
      <4>2. QED
        BY <2>6, <4>1, Refused
    <3>14. QED
      BY <3>12, <3>13
  <2>10. QED
    BY <2>7, <2>8, <2>9
<1>8. QED
  BY <1>6, <1>7

LEMMA DecodedOf ==
    ASSUME NEW k, NEW d, Sound(d), Inner(k, d),
           NEW c \in Contexts, NEW pos \in Nat, pos <= c.end, NEW old \in Results(k, d)
    PROVE  Decoded(k, d, c, pos, DecodeOf(k, d, c, pos, old))
<1>1. d.kind \in Kinds
  BY DEF Sound
<1>2. QED
  BY <1>1, SkippedDecoded, FixedDecoded, BlobDecoded, SliceDecoded, PointerDecoded, TupleDecoded,
     MapDecoded, UnionDecoded DEF Kinds

-----------------------------------------------------------------------------
(* The codecs of all types.                                                 *)

\* What is known of the codec of a type.
CodecTyped(k, t) == ZeroTyped(k, t) /\ ShapesTyped(k, t) /\ EncodeTyped(k, t) /\ DecodeTyped(k, t)

LEMMA MadeTyped ==
    ASSUME NEW k, NEW t \in Types, \A u \in Parts(Desc[t]) : u \in Types /\ CodecTyped(k, u)
    PROVE  CodecTyped(Made(k), t)
<1>1. PICK d : d = Desc[t]
  OBVIOUS
<1>2. Sound(d)
  BY <1>1, Described
<1>3. \A u \in Parts(d) : u \in Types /\ CodecTyped(k, u)
  BY <1>1
<1>4. Inner(k, d)
  BY <1>3 DEF CodecTyped, Inner
<1>5. PICK m : m = Made(k)
  OBVIOUS
<1>6. /\ m.values[t]   = Shape(k.values, d, FALSE)
      /\ m.results[t]  = Results(k, d)
      /\ m.zero[t]     = Zero(k, d)
      /\ m.min[t]      = MinBytes(k, d)
  <2>1. m.values[t] = Shape(k.values, d, FALSE)
    BY <1>1, <1>5, MadeIs
  <2>2. m.results[t] = Results(k, d)
    BY <1>1, <1>5, MadeIs DEF Results
  <2>3. m.zero[t] = Zero(k, d) /\ m.min[t] = MinBytes(k, d)
    BY <1>1, <1>5, MadeIs
  <2>4. QED
    BY <2>1, <2>2, <2>3
<1>7. ZeroTyped(m, t)
  <2>1. \A u \in Parts(d) : ZeroTyped(k, u)
    BY <1>3 DEF CodecTyped
  <2>2. Zero(k, d) \in Results(k, d)
    BY <1>2, <2>1, ZeroMade DEF Results
  <2>3. QED
    BY <1>6, <2>2 DEF ZeroTyped
<1>8. ShapesTyped(m, t)
  <2>1. \A u \in Parts(d) : k.results[u] \subseteq k.values[u]
    BY <1>3 DEF CodecTyped, ShapesTyped
  <2>2. Results(k, d) \subseteq Shape(k.values, d, FALSE)
    BY <1>2, <2>1, ResultsAreValues DEF Results
  <2>3. QED
    BY <1>6, <2>2 DEF ShapesTyped
<1>9. EncodeTyped(m, t)
  <2>1. \A u \in Parts(d) : EncodeTyped(k, u)
    BY <1>3 DEF CodecTyped
  <2>2. ASSUME NEW buffered \in BOOLEAN, NEW v \in m.values[t]
        PROVE  m.encode[t][buffered][v] \in Encodings
    <3>1. m.encode[t][buffered][v] = EncodeOf(k, d, v, buffered)
      BY <1>1, <1>5, MadeEncode
    <3>2. v \in Shape(k.values, d, FALSE)
      BY <1>6
    <3>3. EncodeOf(k, d, v, buffered) \in Encodings
      BY <1>2, <2>1, <3>2, EncodeMade
    <3>4. QED
      BY <3>1, <3>3
  <2>3. QED
    BY <2>2 DEF EncodeTyped
<1>10. DecodeTyped(m, t)
  <2>1. m.min[t] \in Nat
    BY <1>2, <1>4, <1>6, MinIs
  <2>2. ASSUME NEW c \in Contexts, NEW pos \in Nat, NEW old \in m.results[t], pos <= c.end
        PROVE  Result(m, t, c, pos, m.decode[t][c][pos][old])
    <3>1. PICK r : r = DecodeOf(k, d, c, pos, old)
      OBVIOUS
    <3>2. m.decode[t][c][pos][old] = r
      BY <1>1, <1>5, <3>1, MadeDecode
    <3>3. old \in Results(k, d)
      BY <1>6
    <3>4. Decoded(k, d, c, pos, r)
      BY <1>2, <1>4, <2>2, <3>1, <3>3, DecodedOf
    <3>5. r \in [ok : BOOLEAN, pos : Nat, val : m.results[t]]
      BY <1>6, <3>4 DEF Decoded
    <3>6. Result(m, t, c, pos, r)
      BY <1>1, <1>6, <3>4, <3>5 DEF Decoded, Result
    <3>7. QED
      BY <3>2, <3>6
  <2>3. QED
    BY <2>1, <2>2 DEF DecodeTyped
<1>11. QED
  BY <1>5, <1>7, <1>8, <1>9, <1>10 DEF CodecTyped

\* A type that is nested in others, and what it is made of.
LEMMA NestedParts ==
    ASSUME NEW n \in Nat, NEW t \in Nested[n + 1]
    PROVE  t \in Types /\ Parts(Desc[t]) \subseteq Nested[n]
  BY NestedIs DEF MadeOf

LEMMA LevelTyped == \A n \in Nat : \A t \in Nested[n] : t \in Types /\ CodecTyped(Codecs[n], t)
<1> DEFINE T == {n \in Nat : \A t \in Nested[n] : t \in Types /\ CodecTyped(Codecs[n], t)}
<1>1. 0 \in T
  BY NestedIs
<1>2. ASSUME NEW n \in Nat, n \in T
      PROVE  n + 1 \in T
  <2>1. ASSUME NEW t \in Nested[n + 1]
        PROVE  t \in Types /\ CodecTyped(Codecs[n + 1], t)
    <3>1. t \in Types /\ Parts(Desc[t]) \subseteq Nested[n]
      BY NestedParts
    <3>2. \A u \in Parts(Desc[t]) : u \in Types /\ CodecTyped(Codecs[n], u)
      BY <1>2, <3>1
    <3>3. CodecTyped(Made(Codecs[n]), t)
      BY <3>1, <3>2, MadeTyped
    <3>4. QED
      BY <3>1, <3>3, CodecsAre
  <2>2. QED
    BY <2>1
<1>3. Nat \subseteq T
  <2> HIDE DEF T
  <2>1. QED
    BY <1>1, <1>2, InductionBySet
<1>4. QED
  BY <1>3

LEMMA CodecIs ==
    ASSUME NEW t \in Types
    PROVE  CodecTyped(Codec, t)
<1>1. Depth \in Nat /\ t \in Nested[Depth]
  BY DepthAssumption
<1>2. QED
  BY <1>1, LevelTyped DEF Codec

-----------------------------------------------------------------------------
(* The states that are reached.                                             *)

\* What a reader has of what arrived.
Input(r) == [bytes |-> wire, end |-> Len(wire), knows |-> r = "slice"]

LEMMA InputIs ==
    ASSUME wire \in Seq(Byte), NEW r \in Readers
    PROVE  /\ Input(r) \in Contexts /\ Input(r).end = Len(wire) /\ Len(wire) \in Nat
           /\ Input(r).bytes = wire
<1>1. Len(wire) \in Nat
  BY LenProperties
<1>2. PICK c : c = Input(r)
  OBVIOUS
<1>3. c \in [bytes : Seq(Byte), end : Nat, knows : BOOLEAN] /\ c.end = Len(wire) /\ c.bytes = wire
  <2>1. PICK b : b = (r = "slice")
    OBVIOUS
  <2>2. b \in BOOLEAN
    BY <2>1
  <2>3. c = [bytes |-> wire, end |-> Len(wire), knows |-> b]
    BY <1>2, <2>1 DEF Input
  <2>4. QED
    BY <1>1, <2>2, <2>3
<1>4. c.end <= Len(c.bytes)
  BY <1>1, <1>3
<1>5. c \in Contexts
  BY <1>3, <1>4 DEF Contexts
<1>6. QED
  BY <1>1, <1>2, <1>3, <1>5

\* What was sent is the encoding of the value; what arrived is that, or less
\* of it, or damaged; what a reader has is what it made of it.
SentIs == phase = "sent" \/ round > 0 => \E buffered \in BOOLEAN : sent = Encode(type, value, buffered)
WireIs ==
    /\ fault = "none" => wire = sent.bytes
    /\ fault = "cut" => /\ Len(wire) < Len(sent.bytes)
                        /\ \A i \in 1 .. Len(wire) : wire[i] = sent.bytes[i]
GotIs  ==
    Received => \A r \in Readers : \E old \in Codec.results[version] :
                    got[r] = Decode(version, Input(r), 0, old)

Inv == TypeOK /\ SentIs /\ WireIs /\ GotIs

LEMMA VersionTypes ==
    ASSUME NEW t, NEW u, <<t, u>> \in Versions
    PROVE  /\ t \in Types /\ u \in Types /\ Values[t] \subseteq Codec.values[t]
           /\ CodecTyped(Codec, t) /\ CodecTyped(Codec, u)
           /\ \A buffered \in BOOLEAN : \A v \in Values[t] :
                 Encode(t, v, buffered).bytes \in Seq(Byte) /\ Encode(t, v, buffered).ok \in BOOLEAN
<1>1. t \in Types /\ u \in Types
  BY WireAssumption
<1>2. PICK pair : pair = <<t, u>>
  OBVIOUS
<1>3. pair \in Versions /\ pair[1] = t /\ pair[2] = u
  BY <1>2
<1>4. /\ Values[t] \subseteq Codec.values[t]
      /\ \A buffered \in BOOLEAN : \A v \in Values[t] : Encode(t, v, buffered).bytes \in Seq(Byte)
  BY <1>3, VersionAssumption
<1>5. CodecTyped(Codec, t) /\ CodecTyped(Codec, u)
  BY <1>1, CodecIs
<1>6. \A buffered \in BOOLEAN : \A v \in Values[t] : Encode(t, v, buffered).ok \in BOOLEAN
  BY <1>4, <1>5 DEF CodecTyped, EncodeTyped, Encode, Encodings
<1>7. QED
  BY <1>1, <1>4, <1>5, <1>6

LEMMA InitInv == Init => Inv
<1> SUFFICES ASSUME Init PROVE Inv
  OBVIOUS
<1>1. PICK pair \in Versions : type = pair[1] /\ version = pair[2]
  BY DEF Init
<1>2. <<type, version>> \in Versions
  <2>1. pair = <<pair[1], pair[2]>>
    BY WireAssumption
  <2>2. QED
    BY <1>1, <2>1
<1>3. Codec.zero[version] \in Codec.results[version]
  BY <1>2, VersionTypes DEF CodecTyped, ZeroTyped
<1>4. PICK e : e = <<>>
  OBVIOUS
<1>5. e \in Seq(Byte) /\ Len(e) = 0
  BY <1>4, EmptySeq
<1>6. sent.bytes = e /\ sent.ok = TRUE /\ wire = e
  BY <1>4 DEF Init, Written
<1>7. ASSUME NEW r \in Readers
      PROVE  got[r].ok = TRUE /\ got[r].pos = 0 /\ got[r].val = Codec.zero[version]
  BY DEF Init, Ok
<1>8. phase = "idle" /\ round = 0 /\ fault = "none" /\ value \in Values[type]
  BY DEF Init
<1>9. MaxRounds \in Nat
  BY WireAssumption
<1>10. TypeOK
  <2>1. sent.bytes \in Seq(Byte) /\ sent.ok \in BOOLEAN /\ wire \in Seq(Byte) /\ Len(wire) = 0 /\ Len(sent.bytes) = 0
    BY <1>5, <1>6
  <2>2. ASSUME NEW r \in Readers
        PROVE  /\ got[r].ok \in BOOLEAN
               /\ got[r].pos \in 0 .. IF phase = "idle" THEN Len(wire) ELSE got[r].pos
               /\ got[r].val \in Codec.results[version]
    <3>1. got[r].ok \in BOOLEAN /\ got[r].pos = 0 /\ got[r].val \in Codec.results[version]
      BY <1>3, <1>7
    <3>2. QED
      BY <1>8, <2>1, <3>1
  <2>3. fault \in {"none", "cut", "damaged"} /\ phase \in {"idle", "sent"} /\ round \in 0 .. MaxRounds
    BY <1>8, <1>9
  <2>4. Len(wire) <= Len(sent.bytes)
    BY <2>1
  <2>5. QED
    BY <1>2, <1>8, <2>1, <2>2, <2>3, <2>4 DEF TypeOK
<1>11. SentIs /\ WireIs /\ GotIs
  BY <1>6, <1>8 DEF SentIs, WireIs, GotIs, Received
<1>12. QED
  BY <1>10, <1>11 DEF Inv

LEMMA SendInv ==
    ASSUME Inv, NEW v \in Values[type], NEW buffered \in BOOLEAN, Send(v, buffered)
    PROVE  Inv'
<1>1. <<type, version>> \in Versions /\ round \in 0 .. MaxRounds /\ round < MaxRounds /\ MaxRounds \in Nat
  BY WireAssumption DEF Inv, TypeOK, Send
<1>2. /\ type' = type /\ version' = version /\ got' = got /\ value' = v /\ fault' = "none" /\ phase' = "sent"
      /\ round' = round + 1 /\ wire' = sent'.bytes /\ sent' = Encode(type, v, buffered) /\ phase = "idle"
  BY DEF Send
<1>3. sent'.bytes \in Seq(Byte) /\ sent'.ok \in BOOLEAN
  BY <1>1, <1>2, VersionTypes
<1>4. Len(wire') <= Len(sent'.bytes)
  <2>1. Len(sent'.bytes) \in Nat
    BY <1>3, LenProperties
  <2>2. QED
    BY <1>2, <2>1
<1>5. ASSUME NEW r \in Readers
      PROVE  got'[r].ok \in BOOLEAN /\ got'[r].pos \in Nat /\ got'[r].val \in Codec.results[version']
  <2>1. got[r].ok \in BOOLEAN /\ got[r].pos \in 0 .. Len(wire) /\ got[r].val \in Codec.results[version]
    BY <1>2 DEF Inv, TypeOK
  <2>2. QED
    BY <1>2, <2>1
<1>6. TypeOK'
  <2>1. value' \in Values[type'] /\ <<type', version'>> \in Versions
    BY <1>1, <1>2
  <2>2. fault' \in {"none", "cut", "damaged"} /\ phase' \in {"idle", "sent"} /\ round' \in 0 .. MaxRounds
    BY <1>1, <1>2
  <2>3. \A r \in Readers : got'[r].pos \in 0 .. IF phase' = "idle" THEN Len(wire') ELSE got'[r].pos
    BY <1>2, <1>5
  <2>4. wire' \in Seq(Byte)
    BY <1>2, <1>3
  <2>5. QED
    BY <1>3, <1>4, <1>5, <2>1, <2>2, <2>3, <2>4 DEF TypeOK
<1>7. SentIs'
  BY <1>2 DEF SentIs
<1>8. WireIs'
  BY <1>2 DEF WireIs
<1>9. GotIs'
  BY <1>2 DEF GotIs, Received
<1>10. QED
  BY <1>6, <1>7, <1>8, <1>9 DEF Inv

LEMMA CutInv ==
    ASSUME Inv, NEW n \in 0 .. Len(wire) - 1, Cut(n)
    PROVE  Inv'
<1>1. wire \in Seq(Byte) /\ Len(wire) \in Nat /\ Len(wire) = Len(sent.bytes) /\ Len(sent.bytes) \in Nat
  BY LenProperties DEF Inv, TypeOK, Cut
<1>2. /\ UNCHANGED <<type, version, value, sent, got, phase, round>> /\ phase = "sent"
      /\ wire' = SubSeq(wire, 1, n) /\ fault' = IF fault = "none" THEN "cut" ELSE fault
  BY DEF Cut
<1>3. wire' \in Seq(Byte) /\ Len(wire') = n /\ \A i \in 1 .. n : wire'[i] = wire[i]
  <2>1. n \in 0 .. Len(wire)
    BY <1>1
  <2>2. wire' \in Seq(Byte) /\ Len(wire') = n
    BY <1>1, <1>2, <2>1, PrefixOfSeq
  <2>3. 1 \in Int /\ n \in Int
    BY <1>1
  <2>4. \A i \in 1 .. n : wire[i] \in Byte
    BY <1>1, ElementOfSeq
  <2>5. \A i \in 1 .. n - 1 + 1 : SubSeq(wire, 1, n)[i] = wire[1 + i - 1]
    BY <2>3, <2>4, SubSeqProperties
  <2>6. \A i \in 1 .. n : SubSeq(wire, 1, n)[i] = wire[i]
    <3>1. ASSUME NEW i \in 1 .. n
          PROVE  i \in 1 .. n - 1 + 1 /\ 1 + i - 1 = i
      BY <2>3
    <3>2. QED
      BY <2>5, <3>1
  <2>7. QED
    BY <1>2, <2>2, <2>6
<1>4. n \in Nat /\ n < Len(sent.bytes)
  BY <1>1
<1>5. TypeOK'
  <2>1. fault' \in {"none", "cut", "damaged"}
    BY <1>2 DEF Inv, TypeOK
  <2>2. Len(wire') <= Len(sent'.bytes)
    BY <1>1, <1>2, <1>3, <1>4
  <2>3. \A r \in Readers : /\ got'[r].ok \in BOOLEAN
                           /\ got'[r].pos \in 0 .. IF phase' = "idle" THEN Len(wire') ELSE got'[r].pos
                           /\ got'[r].val \in Codec.results[version']
    BY <1>2 DEF Inv, TypeOK
  <2>4. /\ <<type', version'>> \in Versions /\ value' \in Values[type']
        /\ sent'.bytes \in Seq(Byte) /\ sent'.ok \in BOOLEAN
        /\ phase' \in {"idle", "sent"} /\ round' \in 0 .. MaxRounds
    BY <1>2 DEF Inv, TypeOK
  <2>5. QED
    BY <1>3, <2>1, <2>2, <2>3, <2>4 DEF TypeOK
<1>6. SentIs'
  BY <1>2 DEF Inv, SentIs
<1>7. WireIs'
  <2>1. CASE fault = "none" \/ fault = "cut"
    <3>1. \A i \in 1 .. n : wire[i] = sent.bytes[i]
      BY <1>1, <1>4, <2>1 DEF Inv, WireIs
    <3>2. fault' = "cut"
      BY <1>2, <2>1
    <3>3. QED
      BY <1>2, <1>3, <1>4, <3>1, <3>2 DEF WireIs
  <2>2. CASE ~(fault = "none" \/ fault = "cut")
    BY <1>2, <2>2 DEF WireIs
  <2>3. QED
    BY <2>1, <2>2
<1>8. GotIs'
  BY <1>2 DEF GotIs, Received
<1>9. QED
  BY <1>5, <1>6, <1>7, <1>8 DEF Inv

LEMMA DamageInv ==
    ASSUME Inv, NEW i \in DOMAIN wire, NEW b \in Damages, Damage(i, b)
    PROVE  Inv'
<1>1. wire \in Seq(Byte) /\ Len(wire) \in Nat /\ Len(wire) <= Len(sent.bytes) /\ DOMAIN wire = 1 .. Len(wire)
  BY LenProperties DEF Inv, TypeOK
<1>2. /\ UNCHANGED <<type, version, value, sent, got, phase, round>> /\ phase = "sent"
      /\ wire' = [wire EXCEPT ![i] = b] /\ fault' = "damaged"
  BY DEF Damage
<1>3. b \in Byte
  BY WireAssumption
<1>4. wire' \in Seq(Byte) /\ Len(wire') = Len(wire)
  BY <1>1, <1>2, <1>3, ExceptSeq
<1>5. TypeOK'
  <2>1. \A r \in Readers : /\ got'[r].ok \in BOOLEAN
                           /\ got'[r].pos \in 0 .. IF phase' = "idle" THEN Len(wire') ELSE got'[r].pos
                           /\ got'[r].val \in Codec.results[version']
    BY <1>2 DEF Inv, TypeOK
  <2>2. /\ <<type', version'>> \in Versions /\ value' \in Values[type']
        /\ sent'.bytes \in Seq(Byte) /\ sent'.ok \in BOOLEAN
        /\ phase' \in {"idle", "sent"} /\ round' \in 0 .. MaxRounds
    BY <1>2 DEF Inv, TypeOK
  <2>3. Len(wire') <= Len(sent'.bytes)
    BY <1>1, <1>2, <1>4
  <2>4. QED
    BY <1>2, <1>4, <2>1, <2>2, <2>3 DEF TypeOK
<1>6. SentIs'
  BY <1>2 DEF Inv, SentIs
<1>7. WireIs'
  BY <1>2 DEF WireIs
<1>8. GotIs'
  BY <1>2 DEF GotIs, Received
<1>9. QED
  BY <1>5, <1>6, <1>7, <1>8 DEF Inv

LEMMA ReceiveInv ==
    ASSUME Inv, Receive
    PROVE  Inv'
<1>1. wire \in Seq(Byte) /\ Len(wire) \in Nat
  BY LenProperties DEF Inv, TypeOK
<1>2. /\ UNCHANGED <<type, version, value, sent, wire, fault, round>> /\ phase = "sent" /\ phase' = "idle"
      /\ \A r \in Readers : got'[r] = Decode(version, Input(r), 0, got[r].val)
  BY DEF Receive, Input
<1>3. <<type, version>> \in Versions /\ CodecTyped(Codec, version)
  BY VersionTypes DEF Inv, TypeOK
<1>4. ASSUME NEW r \in Readers
      PROVE  /\ got[r].val \in Codec.results[version]
             /\ got'[r].ok \in BOOLEAN /\ got'[r].pos \in 0 .. Len(wire) /\ got'[r].val \in Codec.results[version]
  <2>1. got[r].val \in Codec.results[version]
    BY DEF Inv, TypeOK
  <2>2. PICK c : c = Input(r)
    OBVIOUS
  <2>3. c \in Contexts /\ c.end = Len(wire)
    BY <1>1, <2>2, InputIs
  <2>4. PICK x : x = Decode(version, c, 0, got[r].val)
    OBVIOUS
  <2>5. 0 \in Nat /\ 0 <= c.end
    BY <1>1, <2>3
  <2>6. Result(Codec, version, c, 0, x)
    BY <1>3, <2>1, <2>3, <2>4, <2>5 DEF CodecTyped, DecodeTyped, Decode
  <2>7. x.ok \in BOOLEAN /\ x.pos \in Nat /\ x.val \in Codec.results[version] /\ x.pos <= Len(wire)
    BY <2>3, <2>6 DEF Result
  <2>8. got'[r] = x
    BY <1>2, <2>2, <2>4
  <2>9. QED
    BY <1>1, <2>1, <2>7, <2>8
<1>5. TypeOK'
  <2>1. ASSUME NEW r \in Readers
        PROVE  /\ got'[r].ok \in BOOLEAN
               /\ got'[r].pos \in 0 .. IF phase' = "idle" THEN Len(wire') ELSE got'[r].pos
               /\ got'[r].val \in Codec.results[version']
    BY <1>2, <1>4
  <2>2. /\ <<type', version'>> \in Versions /\ value' \in Values[type']
        /\ sent'.bytes \in Seq(Byte) /\ sent'.ok \in BOOLEAN
        /\ wire' \in Seq(Byte) /\ Len(wire') <= Len(sent'.bytes)
        /\ fault' \in {"none", "cut", "damaged"}
        /\ phase' \in {"idle", "sent"} /\ round' \in 0 .. MaxRounds
    BY <1>2 DEF Inv, TypeOK
  <2>3. QED
    BY <2>1, <2>2 DEF TypeOK
<1>6. SentIs'
  BY <1>2 DEF Inv, SentIs
<1>7. WireIs'
  BY <1>2 DEF Inv, WireIs
<1>8. GotIs'
  <2>1. ASSUME NEW r \in Readers
        PROVE  \E old \in Codec.results[version'] : got'[r] = Decode(version', Input(r)', 0, old)
    <3>1. Input(r)' = Input(r)
      BY <1>2 DEF Input
    <3>2. QED
      BY <1>2, <1>4, <3>1
  <2>2. QED
    BY <2>1 DEF GotIs
<1>9. QED
  BY <1>5, <1>6, <1>7, <1>8 DEF Inv

\* What every state is (Inv): it holds at first, and no step ends it.
LEMMA Invariance == Spec => []Inv
<1>1. Init => Inv
  BY InitInv
<1>2. Inv /\ [Next]_vars => Inv'
  <2> SUFFICES ASSUME Inv, [Next]_vars PROVE Inv'
    OBVIOUS
  <2>1. CASE \E v \in Values[type], buffered \in BOOLEAN : Send(v, buffered)
    BY <2>1, SendInv
  <2>2. CASE \E n \in 0 .. Len(wire) - 1 : Cut(n)
    BY <2>2, CutInv
  <2>3. CASE \E i \in DOMAIN wire, b \in Damages : Damage(i, b)
    BY <2>3, DamageInv
  <2>4. CASE Receive
    BY <2>4, ReceiveInv
  <2>5. CASE UNCHANGED vars
    BY <2>5 DEF Inv, TypeOK, SentIs, WireIs, GotIs, Received, Input, vars
  <2>6. QED
    BY <2>1, <2>2, <2>3, <2>4, <2>5 DEF Next
<1>3. QED
  BY <1>1, <1>2, PTL DEF Spec

\* What is encoded is bytes, and what is decoded is a value of the type it was
\* decoded for, read from no further than the input goes, whatever arrived
\* (Encode in src/encoder.go, Decode in src/decoder.go).
THEOREM WireTyped == Spec => []TypeOK
<1>1. Inv => TypeOK
  BY DEF Inv
<1>2. QED
  BY <1>1, Invariance, PTL

-----------------------------------------------------------------------------
(* The same bytes mean the same, whatever the decoder knows of their end    *)
(* and whatever the destination holds.                                      *)

\* What a meaning has of two versions of a type.
LEMMA MeantIs ==
    ASSUME NEW m, NEW k, NEW t \in Types, NEW u \in Types
    PROVE  /\ \A v \in k.values[t] : Meant(m, k).view[t][u][v] = Visible(m.view, Desc[t], Desc[u], v)
           /\ \A v \in k.values[t] : v \in Meant(m, k).readable[t][u] <=> Legible(m.readable, Desc[t], Desc[u], v)
           /\ Meant(m, k).versions[t][u] <=> Evolves(m, Desc[t], Desc[u])
           /\ Meant(m, k).arms[t][u] <=> Extends(m, k.min, Desc[t], Desc[u])
<1>1. PICK x : x = Meant(m, k)
  OBVIOUS
<1>2. ASSUME NEW v \in k.values[t]
      PROVE  /\ x.view[t][u][v] = Visible(m.view, Desc[t], Desc[u], v)
             /\ v \in x.readable[t][u] <=> Legible(m.readable, Desc[t], Desc[u], v)
  <2>1. v \in Anything \cup k.values[t]
    OBVIOUS
  <2>2. x.view[t][u][v] = Visible(m.view, Desc[t], Desc[u], v)
    BY <1>1, <2>1 DEF Meant
  <2>3. x.readable[t][u] = {z \in Anything \cup k.values[t] : Legible(m.readable, Desc[t], Desc[u], z)}
    BY <1>1 DEF Meant
  <2>4. QED
    BY <2>1, <2>2, <2>3
<1>3. x.versions[t][u] = Evolves(m, Desc[t], Desc[u])
  BY <1>1 DEF Meant
<1>4. x.arms[t][u] = Extends(m, k.min, Desc[t], Desc[u])
  BY <1>1 DEF Meant
<1>5. QED
  BY <1>1, <1>2, <1>3, <1>4

\* Two decoders of the same bytes.
Alongside(c1, c2) == c1 \in Contexts /\ c2 \in Contexts /\ c1.bytes = c2.bytes /\ c1.end = c2.end

Alike(m, t, r1, r2) ==
    /\ r1.ok <=> r2.ok
    /\ r1.ok => r1.pos = r2.pos /\ m.view[t][t][r1.val] = m.view[t][t][r2.val]

SameFor(k, m, t) ==
    \A c1, c2 : Alongside(c1, c2) =>
        \A pos \in Nat : \A old1, old2 \in k.results[t] : pos <= c1.end =>
            Alike(m, t, k.decode[t][c1][pos][old1], k.decode[t][c2][pos][old2])

\* The elements after a step.
Placed(k, c, pos, i, t, old, x, r, y) ==
    /\ t \in Types /\ old \in k.results[t] /\ Result(k, t, c, x.pos, r)
    /\ r.ok \in BOOLEAN /\ r.pos \in Nat /\ r.val \in k.results[t]
    /\ y.ok = r.ok /\ y.pos = r.pos /\ y.val[i + 1] = r.val
    /\ \A j \in 1 .. i : y.val[j] = x.val[j]
    /\ x.pos \in Nat /\ x.pos <= c.end /\ pos <= x.pos

LEMMA StepPlaces ==
    ASSUME NEW k, NEW types, Typed(k, types), NEW c \in Contexts, NEW pos \in Nat, NEW olds,
           NEW i \in Nat, i + 1 <= Len(types),
           NEW x, Sofar(k, types, c, pos, olds, i, x), x.ok,
           NEW t, t = types[i + 1], NEW old, old = OldOf(k, t, i + 1, x.val),
           NEW r, r = k.decode[t][c][x.pos][old], NEW y, y = AndDecode(k, t, c, i + 1, x)
    PROVE  Placed(k, c, pos, i, t, old, x, r, y)
<1>1. Stepped(k, t, c, i + 1, x)
  BY DecodeStep
<1>2. /\ t \in Types /\ old \in k.results[t] /\ Result(k, t, c, x.pos, r)
      /\ y.ok = r.ok /\ y.pos = r.pos /\ y.val = PutAt(x.val, i + 1, r.val)
  BY <1>1 DEF Stepped
<1>3. r.ok \in BOOLEAN /\ r.pos \in Nat /\ r.val \in k.results[t]
  BY <1>2 DEF Result
<1>4. x.val \in Seq(Held(k)) /\ Len(x.val) \in Nat /\ i <= Len(x.val) /\ x.pos \in Nat /\ x.pos <= c.end /\ pos <= x.pos
  BY DEF Sofar, Olds
<1>5. r.val \in Held(k)
  BY <1>2, <1>3 DEF Held
<1>6. PICK vals : vals = x.val
  OBVIOUS
<1>7. PICK e : e = r.val
  OBVIOUS
<1>8. PICK n : n = i + 1
  OBVIOUS
<1>9. PICK H : H = Held(k)
  OBVIOUS
<1>10. vals \in Seq(H) /\ e \in H /\ n \in Nat \ {0} /\ n <= Len(vals) + 1
  BY <1>4, <1>5, <1>6, <1>7, <1>8, <1>9, SMTT(20)
<1>11. /\ PutAt(vals, n, e)[n] = e
       /\ \A j \in 1 .. Len(vals) : j # n => PutAt(vals, n, e)[j] = vals[j]
  BY <1>10, PutAtIs
<1>12. \A j \in 1 .. i : j \in 1 .. Len(vals) /\ j # n
  BY <1>4, <1>6, <1>8
<1>13. y.val[i + 1] = r.val /\ \A j \in 1 .. i : y.val[j] = x.val[j]
  BY <1>2, <1>6, <1>7, <1>8, <1>11, <1>12, ZenonT(30)
<1>14. QED
  BY <1>2, <1>3, <1>4, <1>13 DEF Placed

\* The same, for the first i elements.
AlikeTo(m, types, i, x1, x2) ==
    /\ x1.ok <=> x2.ok
    /\ x1.ok => /\ x1.pos = x2.pos
                /\ \A j \in 1 .. i : m.view[types[j]][types[j]][x1.val[j]] = m.view[types[j]][types[j]][x2.val[j]]

LEMMA SameStep ==
    ASSUME NEW k, NEW m, NEW types, Typed(k, types), \A i \in 1 .. Len(types) : SameFor(k, m, types[i]),
           NEW c1, NEW c2, Alongside(c1, c2), NEW pos \in Nat, NEW olds1, NEW olds2,
           NEW i \in Nat, i + 1 <= Len(types),
           NEW x1, Sofar(k, types, c1, pos, olds1, i, x1),
           NEW x2, Sofar(k, types, c2, pos, olds2, i, x2), AlikeTo(m, types, i, x1, x2)
    PROVE  AlikeTo(m, types, i + 1, AndDecode(k, types[i + 1], c1, i + 1, x1),
                                    AndDecode(k, types[i + 1], c2, i + 1, x2))
<1>1. PICK t : t = types[i + 1]
  OBVIOUS
<1>2. PICK y1 : y1 = AndDecode(k, t, c1, i + 1, x1)
  OBVIOUS
<1>3. PICK y2 : y2 = AndDecode(k, t, c2, i + 1, x2)
  OBVIOUS
<1>4. x1.ok <=> x2.ok
  BY DEF AlikeTo
<1>5. c1 \in Contexts /\ c2 \in Contexts /\ c1.end = c2.end
  BY DEF Alongside
<1>6. SameFor(k, m, t)
  <2>1. i + 1 \in 1 .. Len(types)
    BY DEF Typed
  <2>2. QED
    BY <1>1, <2>1
<1>7. CASE ~x1.ok
  <2>1. y1 = x1 /\ y2 = x2
    BY <1>2, <1>3, <1>4, <1>7 DEF AndDecode
  <2>2. QED
    BY <1>1, <1>2, <1>3, <1>4, <1>7, <2>1 DEF AlikeTo
<1>8. CASE x1.ok
  <2>1. PICK o1 : o1 = OldOf(k, t, i + 1, x1.val)
    OBVIOUS
  <2>2. PICK o2 : o2 = OldOf(k, t, i + 1, x2.val)
    OBVIOUS
  <2>3. PICK r1 : r1 = k.decode[t][c1][x1.pos][o1]
    OBVIOUS
  <2>4. PICK r2 : r2 = k.decode[t][c2][x2.pos][o2]
    OBVIOUS
  <2>5. /\ o1 \in k.results[t] /\ y1.ok = r1.ok /\ y1.pos = r1.pos /\ y1.val[i + 1] = r1.val
        /\ \A j \in 1 .. i : y1.val[j] = x1.val[j]
        /\ x1.pos \in Nat /\ x1.pos <= c1.end
    <3>1. Placed(k, c1, pos, i, t, o1, x1, r1, y1)
      BY <1>1, <1>2, <1>5, <1>8, <2>1, <2>3, StepPlaces
    <3>2. QED
      BY <3>1 DEF Placed
  <2>6. /\ o2 \in k.results[t] /\ y2.ok = r2.ok /\ y2.pos = r2.pos /\ y2.val[i + 1] = r2.val
        /\ \A j \in 1 .. i : y2.val[j] = x2.val[j]
    <3>1. Placed(k, c2, pos, i, t, o2, x2, r2, y2)
      BY <1>1, <1>3, <1>4, <1>5, <1>8, <2>2, <2>4, StepPlaces
    <3>2. QED
      BY <3>1 DEF Placed
  <2>7. /\ x1.pos = x2.pos
        /\ \A j \in 1 .. i : m.view[types[j]][types[j]][x1.val[j]] = m.view[types[j]][types[j]][x2.val[j]]
    BY <1>8 DEF AlikeTo
  <2>8. Alike(m, t, r1, r2)
    BY <1>6, <2>3, <2>4, <2>5, <2>6, <2>7 DEF SameFor
  <2>9. y1.ok <=> y2.ok
    BY <2>5, <2>6, <2>8 DEF Alike
  <2>10. y1.ok => y1.pos = y2.pos /\ m.view[t][t][y1.val[i + 1]] = m.view[t][t][y2.val[i + 1]]
    BY <2>5, <2>6, <2>8 DEF Alike
  <2>11. ASSUME y1.ok, NEW j \in 1 .. i + 1
         PROVE  m.view[types[j]][types[j]][y1.val[j]] = m.view[types[j]][types[j]][y2.val[j]]
    <3>1. CASE j = i + 1
      BY <1>1, <2>10, <2>11, <3>1
    <3>2. CASE j # i + 1
      <4>1. j \in 1 .. i
        BY <3>2
      <4>2. QED
        BY <2>5, <2>6, <2>7, <4>1
    <3>3. QED
      BY <3>1, <3>2
  <2>12. AlikeTo(m, types, i + 1, y1, y2)
    BY <2>9, <2>10, <2>11 DEF AlikeTo
  <2>13. QED
    BY <1>1, <1>2, <1>3, <2>12
<1>9. QED
  BY <1>7, <1>8

LEMMA SameAll ==
    ASSUME NEW k, NEW m, NEW types, Typed(k, types), \A i \in 1 .. Len(types) : SameFor(k, m, types[i]),
           NEW c1, NEW c2, Alongside(c1, c2), NEW pos \in Nat, pos <= c1.end,
           NEW olds1, Olds(k, types, olds1), NEW olds2, Olds(k, types, olds2)
    PROVE  AlikeTo(m, types, Len(types), DecodeAll(k, types, c1, pos, olds1), DecodeAll(k, types, c2, pos, olds2))
<1>1. PICK f : f = DecodeUpTo(k, types, c1, pos, olds1)
  OBVIOUS
<1>2. PICK g : g = DecodeUpTo(k, types, c2, pos, olds2)
  OBVIOUS
<1>3. PICK n : n = Len(types)
  OBVIOUS
<1>4. n \in Nat /\ c1 \in Contexts /\ c2 \in Contexts /\ pos <= c2.end
  BY <1>3 DEF Typed, Alongside
<1>5. /\ DecodeAll(k, types, c1, pos, olds1) = f[n]
      /\ f[0] = Ok(pos, olds1)
      /\ \A i \in 0 .. n : Sofar(k, types, c1, pos, olds1, i, f[i])
      /\ \A i \in 0 .. n - 1 : f[i + 1] = AndDecode(k, types[i + 1], c1, i + 1, f[i])
  BY <1>1, <1>3, <1>4, DecodesAll
<1>6. /\ DecodeAll(k, types, c2, pos, olds2) = g[n]
      /\ g[0] = Ok(pos, olds2)
      /\ \A i \in 0 .. n : Sofar(k, types, c2, pos, olds2, i, g[i])
      /\ \A i \in 0 .. n - 1 : g[i + 1] = AndDecode(k, types[i + 1], c2, i + 1, g[i])
  BY <1>2, <1>3, <1>4, DecodesAll
<1> DEFINE T == {i \in Nat : i <= n => AlikeTo(m, types, i, f[i], g[i])}
<1>7. 0 \in T
  <2>1. AlikeTo(m, types, 0, f[0], g[0])
    BY <1>5, <1>6 DEF AlikeTo, Ok
  <2>2. QED
    BY <2>1
<1>8. ASSUME NEW i \in Nat, i \in T
      PROVE  i + 1 \in T
  <2>1. SUFFICES ASSUME i + 1 <= n PROVE AlikeTo(m, types, i + 1, f[i + 1], g[i + 1])
    OBVIOUS
  <2>2. i \in 0 .. n /\ i \in 0 .. n - 1 /\ i + 1 <= Len(types)
    BY <1>3, <1>4, <2>1
  <2>3. PICK x1 : x1 = f[i]
    OBVIOUS
  <2>4. PICK x2 : x2 = g[i]
    OBVIOUS
  <2>5. AlikeTo(m, types, i, x1, x2)
    BY <1>4, <1>8, <2>1, <2>2, <2>3, <2>4
  <2>6. Sofar(k, types, c1, pos, olds1, i, x1) /\ Sofar(k, types, c2, pos, olds2, i, x2)
    BY <1>5, <1>6, <2>2, <2>3, <2>4
  <2>7. AlikeTo(m, types, i + 1, AndDecode(k, types[i + 1], c1, i + 1, x1), AndDecode(k, types[i + 1], c2, i + 1, x2))
    BY <2>2, <2>5, <2>6, SameStep
  <2>8. QED
    BY <1>5, <1>6, <2>2, <2>3, <2>4, <2>7
<1>9. Nat \subseteq T
  <2> HIDE DEF T
  <2>1. QED
    BY <1>7, <1>8, InductionBySet
<1>10. AlikeTo(m, types, n, f[n], g[n])
  BY <1>4, <1>9
<1>11. QED
  BY <1>3, <1>5, <1>6, <1>10

\* Numbers and byte slices are seen as they are, and so is the key of an entry.
PlainSeen(k, m, t) ==
    Desc[t].kind \in {"fixed", "blob"} => \A v \in k.values[t] : m.view[t][t][v] = v

KeySeen(k, m, t) ==
    LET d == Desc[t]
    IN  d.kind = "tuple" /\ Len(d.parts) = 2 /\ Desc[d.parts[1]].kind \in {"fixed", "blob"} =>
            \A v \in k.values[t] : m.view[t][t][v][1] = v[1]

\* A value that takes no bytes says nothing.
WirelessSeen(k, m, t) ==
    k.wireless[t] =>
        /\ \A buffered \in BOOLEAN : \A v \in k.values[t] : k.encode[t][buffered][v] = Written(<<>>)
        /\ \A v1, v2 \in k.values[t] : m.view[t][t][v1] = m.view[t][t][v2]

LEMMA PlainMade ==
    ASSUME NEW k, NEW m, NEW t \in Types
    PROVE  PlainSeen(Made(k), Meant(m, Made(k)), t)
<1>1. PICK d : d = Desc[t]
  OBVIOUS
<1>2. PICK q : q = Made(k)
  OBVIOUS
<1>3. ASSUME d.kind \in {"fixed", "blob"}, NEW v \in q.values[t]
      PROVE  Meant(m, q).view[t][t][v] = v
  <2>1. Meant(m, q).view[t][t][v] = Visible(m.view, d, d, v)
    BY <1>1, MeantIs
  <2>2. Visible(m.view, d, d, v) = v
    BY <1>3 DEF Visible
  <2>3. QED
    BY <2>1, <2>2
<1>4. QED
  BY <1>1, <1>2, <1>3 DEF PlainSeen

\* The parts of a tuple.
LEMMA PartOf ==
    ASSUME NEW k, NEW t \in Types, Desc[t].kind = "tuple",
           NEW v \in Made(k).values[t]
    PROVE  LET types == Desc[t].parts
           IN  /\ types \in Seq(Types) /\ Len(types) \in Nat /\ DOMAIN types = 1 .. Len(types)
               /\ Len(v) = Len(types)
               /\ \A i \in 1 .. Len(types) : /\ types[i] \in Types /\ types[i] \in Parts(Desc[t])
                                             /\ v[i] \in k.values[types[i]]
<1>1. PICK d : d = Desc[t]
  OBVIOUS
<1>2. PICK types : types = d.parts
  OBVIOUS
<1>3. d.kind = "tuple" /\ Sound(d)
  BY <1>1, Described
<1>4. types \in Seq(Types) /\ Len(types) \in Nat /\ DOMAIN types = 1 .. Len(types)
  BY <1>2, <1>3, LenProperties DEF Sound
<1>5. \A i \in 1 .. Len(types) : types[i] \in Types /\ types[i] \in Parts(d)
  BY <1>2, <1>3, <1>4, ElementOfSeq DEF Parts, ToSet
<1>6. v \in Tuples(k.values, types)
  <2>1. v \in Shape(k.values, d, FALSE)
    BY <1>1, MadeIs
  <2>2. QED
    BY <1>2, <1>3, <2>1 DEF Shape
<1> DEFINE S == UNION {k.values[u] : u \in Types}
<1>7. \A i \in 1 .. Len(types) : k.values[types[i]] \subseteq S
  BY <1>5
<1> HIDE DEF S
<1>8. Len(v) = Len(types) /\ \A i \in 1 .. Len(types) : v[i] \in k.values[types[i]]
  BY <1>4, <1>6, <1>7, TupleIs
<1>9. QED
  BY <1>1, <1>2, <1>4, <1>5, <1>8

LEMMA KeyMade ==
    ASSUME NEW k, NEW m, NEW t \in Types,
           \A u \in Parts(Desc[t]) : PlainSeen(k, m, u)
    PROVE  KeySeen(Made(k), Meant(m, Made(k)), t)
<1>1. PICK d : d = Desc[t]
  OBVIOUS
<1>2. PICK types : types = d.parts
  OBVIOUS
<1>3. PICK q : q = Made(k)
  OBVIOUS
<1>4. ASSUME d.kind = "tuple", Len(types) = 2, Desc[types[1]].kind \in {"fixed", "blob"}, NEW v \in q.values[t]
      PROVE  Meant(m, q).view[t][t][v][1] = v[1]
  <2>1. /\ 1 \in 1 .. Len(types) /\ DOMAIN types = 1 .. Len(types)
        /\ \A i \in 1 .. Len(types) : types[i] \in Parts(d) /\ v[i] \in k.values[types[i]]
    BY <1>1, <1>2, <1>3, <1>4, PartOf
  <2>2. types[1] \in Parts(d) /\ v[1] \in k.values[types[1]]
    BY <2>1
  <2>3. PlainSeen(k, m, types[1])
    BY <1>1, <2>2
  <2>4. m.view[types[1]][types[1]][v[1]] = v[1]
    BY <1>4, <2>2, <2>3 DEF PlainSeen
  <2>5. Meant(m, q).view[t][t][v] = Visible(m.view, d, d, v)
    BY <1>1, MeantIs
  <2>6. Visible(m.view, d, d, v) = [i \in DOMAIN types \cap DOMAIN types |-> m.view[types[i]][types[i]][v[i]]]
    BY <1>2, <1>4 DEF Visible
  <2>7. 1 \in DOMAIN types \cap DOMAIN types
    BY <2>1
  <2>8. Visible(m.view, d, d, v)[1] = m.view[types[1]][types[1]][v[1]]
    BY <2>6, <2>7
  <2>9. QED
    BY <2>4, <2>5, <2>8
<1>5. QED
  BY <1>1, <1>2, <1>3, <1>4 DEF KeySeen

\* Nothing, and then nothing.
LEMMA EncodesNothing ==
    ASSUME NEW k, NEW types, Len(types) \in Nat, NEW values, NEW buffered,
           \A i \in 1 .. Len(types) : k.encode[types[i]][buffered][values[i]] = Written(<<>>)
    PROVE  EncodeAll(k, types, values, buffered) = Written(<<>>)
<1>1. PICK f : f = EncodeUpTo(k, types, values, buffered)
  OBVIOUS
<1>2. PICK n : n = Len(types)
  OBVIOUS
<1>3. PICK z : z = Written(<<>>)
  OBVIOUS
<1>4. /\ EncodeAll(k, types, values, buffered) = f[n]
      /\ f[0] = z
      /\ \A i \in Nat : f[i + 1] = AndEncode(k, types[i + 1], values[i + 1], buffered, f[i])
  <2>1. LET g == EncodeUpTo(k, types, values, buffered)
        IN  /\ EncodeAll(k, types, values, buffered) = g[Len(types)]
            /\ g[0] = Written(<<>>)
            /\ \A i \in Nat : g[i + 1] = AndEncode(k, types[i + 1], values[i + 1], buffered, g[i])
    BY ONLY EncodeLoop
  <2>2. QED
    BY <1>1, <1>2, <1>3, <2>1
<1>5. Then(z, z) = z /\ z.ok
  <2>1. PICK e : e = <<>>
    OBVIOUS
  <2>2. e \o e = e
    BY <2>1
  <2>3. z = [bytes |-> e, ok |-> TRUE]
    BY <1>3, <2>1 DEF Written
  <2>4. QED
    BY <2>2, <2>3 DEF Then
<1> DEFINE T == {i \in Nat : i <= n => f[i] = z}
<1>6. 0 \in T
  BY <1>4
<1>7. ASSUME NEW i \in Nat, i \in T
      PROVE  i + 1 \in T
  <2>1. SUFFICES ASSUME i + 1 <= n PROVE f[i + 1] = z
    OBVIOUS
  <2>2. i + 1 \in 1 .. n /\ f[i] = z
    BY <1>2, <1>7, <2>1
  <2>3. k.encode[types[i + 1]][buffered][values[i + 1]] = z
    BY <1>2, <1>3, <2>2
  <2>4. f[i + 1] = IF z.ok THEN Then(z, z) ELSE z
    BY <1>4, <2>2, <2>3 DEF AndEncode
  <2>5. QED
    BY <1>5, <2>4
<1>8. Nat \subseteq T
  <2> HIDE DEF T
  <2>1. QED
    BY <1>6, <1>7, InductionBySet
<1>9. QED
  BY <1>2, <1>3, <1>4, <1>8

LEMMA WirelessMade ==
    ASSUME NEW k, NEW m, NEW t \in Types,
           \A u \in Parts(Desc[t]) : WirelessSeen(k, m, u)
    PROVE  WirelessSeen(Made(k), Meant(m, Made(k)), t)
<1>1. PICK d : d = Desc[t]
  OBVIOUS
<1>2. PICK types : types = d.parts
  OBVIOUS
<1>3. PICK q : q = Made(k)
  OBVIOUS
<1>4. PICK x : x = Meant(m, q)
  OBVIOUS
<1>5. \A v \in q.values[t] : x.view[t][t][v] = Visible(m.view, d, d, v)
  BY <1>1, <1>4, MeantIs
<1>6. ASSUME NEW buffered \in BOOLEAN, NEW v \in q.values[t]
      PROVE  q.encode[t][buffered][v] = EncodeOf(k, d, v, buffered)
  BY <1>1, <1>3, MadeEncode
<1>7. CASE d.kind = "skipped"
  <2>1. \A buffered, v : EncodeOf(k, d, v, buffered) = Written(<<>>)
    BY <1>7 DEF EncodeOf
  <2>2. \A v : Visible(m.view, d, d, v) = 0
    BY <1>7 DEF Visible
  <2>3. QED
    BY <1>3, <1>4, <1>5, <1>6, <2>1, <2>2 DEF WirelessSeen
<1>8. CASE d.kind = "tuple" /\ \A i \in DOMAIN types : k.wireless[types[i]]
  <2>1. ASSUME NEW v \in q.values[t]
        PROVE  /\ DOMAIN types = 1 .. Len(types) /\ Len(types) \in Nat
               /\ \A i \in 1 .. Len(types) : types[i] \in Parts(d) /\ v[i] \in k.values[types[i]]
    BY <1>1, <1>2, <1>3, <1>8, PartOf
  <2>2. ASSUME NEW v \in q.values[t], NEW i \in 1 .. Len(types)
        PROVE  WirelessSeen(k, m, types[i]) /\ k.wireless[types[i]] /\ v[i] \in k.values[types[i]]
    BY <1>1, <1>8, <2>1
  <2>3. ASSUME NEW buffered \in BOOLEAN, NEW v \in q.values[t]
        PROVE  q.encode[t][buffered][v] = Written(<<>>)
    <3>1. ASSUME NEW i \in 1 .. Len(types)
          PROVE  k.encode[types[i]][buffered][v[i]] = Written(<<>>)
      <4>1. WirelessSeen(k, m, types[i]) /\ k.wireless[types[i]] /\ v[i] \in k.values[types[i]]
        BY <2>2
      <4>2. \A b \in BOOLEAN : \A w \in k.values[types[i]] : k.encode[types[i]][b][w] = Written(<<>>)
        BY <4>1 DEF WirelessSeen
      <4>3. QED
        BY <4>1, <4>2
    <3>2. EncodeAll(k, types, v, buffered) = Written(<<>>)
      BY <2>1, <3>1, EncodesNothing
    <3>3. EncodeOf(k, d, v, buffered) = EncodeAll(k, types, v, buffered)
      BY <1>2, <1>8 DEF EncodeOf
    <3>4. QED
      BY <1>6, <3>2, <3>3
  <2>4. ASSUME NEW v \in q.values[t], NEW w \in q.values[t]
        PROVE  x.view[t][t][v] = x.view[t][t][w]
    <3>1. ASSUME NEW i \in DOMAIN types \cap DOMAIN types
          PROVE  m.view[types[i]][types[i]][v[i]] = m.view[types[i]][types[i]][w[i]]
      <4>1. i \in 1 .. Len(types)
        BY <2>1
      <4>2. v[i] \in k.values[types[i]] /\ w[i] \in k.values[types[i]] /\ WirelessSeen(k, m, types[i]) /\ k.wireless[types[i]]
        BY <2>2, <4>1
      <4>3. QED
        BY <4>2 DEF WirelessSeen
    <3>2. /\ Visible(m.view, d, d, v) = [i \in DOMAIN types \cap DOMAIN types |-> m.view[types[i]][types[i]][v[i]]]
          /\ Visible(m.view, d, d, w) = [i \in DOMAIN types \cap DOMAIN types |-> m.view[types[i]][types[i]][w[i]]]
      BY <1>2, <1>8 DEF Visible
    <3>3. Visible(m.view, d, d, v) = Visible(m.view, d, d, w)
      BY <3>1, <3>2
    <3>4. QED
      BY <1>5, <3>3
  <2>5. QED
    BY <1>3, <1>4, <2>3, <2>4 DEF WirelessSeen
<1>9. CASE ~(d.kind = "skipped") /\ ~(d.kind = "tuple" /\ \A i \in DOMAIN types : k.wireless[types[i]])
  <2>1. q.wireless[t] = Wireless(k, d)
    BY <1>1, <1>3, MadeIs
  <2>2. ~Wireless(k, d)
    BY <1>2, <1>9 DEF Wireless
  <2>3. QED
    BY <1>3, <1>4, <2>1, <2>2 DEF WirelessSeen
<1>10. QED
  BY <1>7, <1>8, <1>9

\* More elements than could be there are not there.
LEMMA ScarceFails ==
    ASSUME NEW k, NEW types, Typed(k, types), NEW c \in Contexts, NEW pos \in Nat, pos <= c.end,
           NEW olds, Olds(k, types, olds), NEW least \in Nat \ {0},
           \A i \in 1 .. Len(types) : least <= k.min[types[i]] \/ least <= Needs(Desc[types[i]]),
           Len(types) > Rest(c, pos) \div least
    PROVE  ~DecodeAll(k, types, c, pos, olds).ok
<1>1. PICK n : n = Len(types)
  OBVIOUS
<1>2. n \in Nat /\ c.end \in Nat
  BY <1>1, ContextIs DEF Typed
<1>3. PICK rest : rest = c.end - pos
  OBVIOUS
<1>4. rest \in Nat
  BY <1>2, <1>3
<1>5. n * least > rest
  BY <1>1, <1>2, <1>3, <1>4, Quotients DEF Rest
<1>6. ASSUME NEW i \in 0 .. n
      PROVE  i * least \in Nat
  OBVIOUS
<1> DEFINE low == [i \in 0 .. n |-> i * least]
<1>7. low \in [0 .. n -> Nat] /\ \A i \in 0 .. n : low[i] = i * least
  BY <1>6
<1> HIDE DEF low
<1>8. low[0] = 0
  <2>1. 0 \in 0 .. n
    BY <1>2
  <2>2. 0 * least = 0
    OBVIOUS
  <2>3. QED
    BY <1>7, <2>1, <2>2
<1>9. ASSUME NEW i \in 0 .. n - 1
      PROVE  \/ low[i + 1] <= low[i] + k.min[types[i + 1]]
             \/ low[i + 1] <= low[i] + Needs(Desc[types[i + 1]])
  <2>1. i \in 0 .. n /\ i + 1 \in 0 .. n /\ i + 1 \in 1 .. n /\ i \in Nat
    BY <1>2
  <2>2. low[i] = i * least /\ low[i + 1] = (i + 1) * least
    BY <1>7, <2>1
  <2>3. (i + 1) * least = i * least + least /\ i * least \in Nat
    BY <2>1
  <2>4. types[i + 1] \in Types /\ DecodeTyped(k, types[i + 1])
    BY <1>1, <2>1 DEF Typed
  <2>5. PICK a : a = k.min[types[i + 1]]
    OBVIOUS
  <2>6. PICK b : b = Needs(Desc[types[i + 1]])
    OBVIOUS
  <2>7. a \in Nat /\ b \in Nat
    BY <2>4, <2>5, <2>6, NeedsIs DEF DecodeTyped
  <2>8. least <= a \/ least <= b
    BY <1>1, <2>1, <2>5, <2>6
  <2>9. PICK l : l = i * least
    OBVIOUS
  <2>10. l + least <= l + a \/ l + least <= l + b
    BY <2>3, <2>7, <2>8, <2>9
  <2>11. QED
    BY <2>2, <2>3, <2>5, <2>6, <2>9, <2>10
<1>10. PICK f : f = DecodeUpTo(k, types, c, pos, olds)
  OBVIOUS
<1>11. \A i \in 0 .. n : f[i].ok => pos + low[i] <= f[i].pos
  BY <1>1, <1>7, <1>8, <1>9, <1>10, Consumes
<1>12. DecodeAll(k, types, c, pos, olds) = f[n] /\ Sofar(k, types, c, pos, olds, n, f[n])
  BY <1>1, <1>2, <1>10, DecodesAll
<1>13. ASSUME f[n].ok
       PROVE  FALSE
  <2>1. PICK p : p = f[n].pos
    OBVIOUS
  <2>2. PICK q : q = n * least
    OBVIOUS
  <2>3. n \in 0 .. n
    BY <1>2
  <2>4. low[n] = q
    BY <1>7, <2>2, <2>3
  <2>5. pos + q <= p
    BY <1>11, <1>13, <2>1, <2>3, <2>4
  <2>6. p <= c.end /\ p \in Nat
    BY <1>12, <2>1 DEF Sofar
  <2>7. q > rest /\ q \in Nat
    BY <1>2, <1>5, <1>6, <2>2
  <2>8. QED
    BY <1>2, <1>3, <2>5, <2>6, <2>7
<1>14. QED
  BY <1>12, <1>13

\* The same result, for a type, in terms of its parts.
Similar(m, d, r1, r2) ==
    /\ r1.ok <=> r2.ok
    /\ r1.ok => r1.pos = r2.pos /\ Visible(m.view, d, d, r1.val) = Visible(m.view, d, d, r2.val)

\* All that is known of the parts.
Known(k, m, u) == CodecTyped(k, u) /\ PlainSeen(k, m, u) /\ KeySeen(k, m, u) /\ WirelessSeen(k, m, u) /\ SameFor(k, m, u)
KnownParts(k, m, d) == \A u \in Parts(d) : u \in Types /\ Known(k, m, u)

LEMMA InnerOfKnown ==
    ASSUME NEW k, NEW m, NEW d, KnownParts(k, m, d)
    PROVE  Inner(k, d)
  BY DEF KnownParts, Known, CodecTyped, Inner

LEMMA SliceAlongside ==
    ASSUME NEW c1, NEW c2, Alongside(c1, c2), NEW pos, NEW n
    PROVE  Slice(c1, pos, n) = Slice(c2, pos, n) /\ ReadPrefix(c1, pos, n) = ReadPrefix(c2, pos, n)
<1>1. c1.bytes = c2.bytes /\ c1.end = c2.end
  BY DEF Alongside
<1>2. \A l : Slice(c1, pos, l) = Slice(c2, pos, l)
  BY <1>1 DEF Slice, Rest
<1>3. QED
  BY <1>2 DEF ReadPrefix

LEMMA SamePlain ==
    ASSUME NEW k, NEW m, NEW d, d.kind \in {"skipped", "fixed", "blob"},
           NEW c1, NEW c2, Alongside(c1, c2), NEW pos, NEW old1, NEW old2
    PROVE  Similar(m, d, DecodeOf(k, d, c1, pos, old1), DecodeOf(k, d, c2, pos, old2))
<1>1. PICK r1 : r1 = DecodeOf(k, d, c1, pos, old1)
  OBVIOUS
<1>2. PICK r2 : r2 = DecodeOf(k, d, c2, pos, old2)
  OBVIOUS
<1>3. ASSUME NEW s, NEW o1, NEW o2
      PROVE  /\ Leaving(s, o1).ok <=> Leaving(s, o2).ok
             /\ Leaving(s, o1).ok => Leaving(s, o1) = s /\ Leaving(s, o2) = s
  BY DEF Leaving, Bad
<1>4. ASSUME NEW a, NEW b
      PROVE  ~Bad(a).ok /\ ~Bad(b).ok
  BY DEF Bad
<1>5. CASE d.kind = "skipped"
  <2>1. r1 = Ok(pos, old1) /\ r2 = Ok(pos, old2)
    BY <1>1, <1>2, <1>5 DEF DecodeOf
  <2>2. \A v : Visible(m.view, d, d, v) = 0
    BY <1>5 DEF Visible
  <2>3. Similar(m, d, r1, r2)
    BY <2>1, <2>2 DEF Similar, Ok
  <2>4. QED
    BY <1>1, <1>2, <2>3
<1>6. CASE d.kind = "fixed"
  <2>1. PICK s : s = Slice(c1, pos, d.width)
    OBVIOUS
  <2>2. r1 = Leaving(s, old1) /\ r2 = Leaving(s, old2)
    BY <1>1, <1>2, <1>6, <2>1, SliceAlongside DEF DecodeOf
  <2>3. Similar(m, d, r1, r2)
    BY <1>3, <2>2 DEF Similar
  <2>4. QED
    BY <1>1, <1>2, <2>3
<1>7. CASE d.kind = "blob"
  <2>1. PICK r : r = ReadPrefix(c1, pos, d.prefix)
    OBVIOUS
  <2>2. r1 = DecodeBlob(d, c1, r, old1) /\ r2 = DecodeBlob(d, c2, r, old2)
    BY <1>1, <1>2, <1>7, <2>1, SliceAlongside DEF DecodeOf
  <2>3. CASE ~r.ok
    <3>1. r1 = Bad(old1) /\ r2 = Bad(old2)
      BY <2>2, <2>3 DEF DecodeBlob
    <3>2. Similar(m, d, r1, r2)
      BY <1>4, <3>1 DEF Similar
    <3>3. QED
      BY <1>1, <1>2, <3>2
  <2>4. CASE r.ok
    <3>1. PICK n : n = Number(r.val)
      OBVIOUS
    <3>2. PICK l : l = IF d.units THEN n * d.unit ELSE n
      OBVIOUS
    <3>3. PICK s : s = Slice(c1, r.pos, l)
      OBVIOUS
    <3>4. s = Slice(c2, r.pos, l)
      BY <3>3, SliceAlongside
    <3>5. /\ r1 = IF ~d.units /\ n % d.unit # 0 THEN Bad(old1) ELSE Leaving(s, old1)
          /\ r2 = IF ~d.units /\ n % d.unit # 0 THEN Bad(old2) ELSE Leaving(s, old2)
      BY <2>2, <2>4, <3>1, <3>2, <3>3, <3>4 DEF DecodeBlob, BlobBody
    <3>6. Similar(m, d, r1, r2)
      BY <1>3, <1>4, <3>5 DEF Similar
    <3>7. QED
      BY <1>1, <1>2, <3>6
  <2>5. QED
    BY <2>3, <2>4
<1>8. QED
  BY <1>5, <1>6, <1>7

\* What a list, a pointer, a tuple or a map is read like: all its elements.
ReadAll(k, types, c, pos, e, vals) ==
    \E olds : /\ Olds(k, types, olds)
              /\ LET x == DecodeAll(k, types, c, pos, olds)
                 IN  /\ e.ok <=> x.ok
                     /\ e.ok => e.pos = x.pos /\ \A i \in 1 .. Len(types) : vals[i] = x.val[i]

LEMMA ReadAllBy ==
    ASSUME NEW k, NEW types, NEW c, NEW pos, NEW olds, Olds(k, types, olds),
           NEW x, x = DecodeAll(k, types, c, pos, olds),
           NEW e, e.ok <=> x.ok, NEW vals,
           e.ok => e.pos = x.pos /\ \A i \in 1 .. Len(types) : vals[i] = x.val[i]
    PROVE  ReadAll(k, types, c, pos, e, vals)
<1>1. /\ e.ok <=> DecodeAll(k, types, c, pos, olds).ok
      /\ e.ok => /\ e.pos = DecodeAll(k, types, c, pos, olds).pos
                 /\ \A i \in 1 .. Len(types) : vals[i] = DecodeAll(k, types, c, pos, olds).val[i]
  OBVIOUS
<1>2. QED
  BY <1>1 DEF ReadAll

\* Also if it is refused, because there cannot be as many.
LEMMA ScarceRead ==
    ASSUME NEW k, NEW types, Typed(k, types), NEW c \in Contexts, NEW pos \in Nat, pos <= c.end,
           NEW olds, Olds(k, types, olds), NEW least \in Nat,
           \A i \in 1 .. Len(types) : least <= k.min[types[i]] \/ least <= Needs(Desc[types[i]]),
           Scarce(c, pos, Len(types), least), NEW v, NEW vals
    PROVE  ReadAll(k, types, c, pos, Bad(v), vals)
<1>1. least \in Nat \ {0} /\ Len(types) > Rest(c, pos) \div least
  BY DEF Scarce
<1>2. PICK x : x = DecodeAll(k, types, c, pos, olds)
  OBVIOUS
<1>3. ~x.ok
  BY <1>1, <1>2, ScarceFails
<1>4. PICK e : e = Bad(v)
  OBVIOUS
<1>5. ~e.ok
  BY <1>4 DEF Bad
<1>6. ReadAll(k, types, c, pos, e, vals)
  BY <1>2, <1>3, <1>5, ReadAllBy
<1>7. QED
  BY <1>4, <1>6

\* The elements of a slice.
SliceRead(k, t, c, pos, n, e) ==
    /\ e.ok => e.val.len = n /\ \A i \in 1 .. n : e.val.mem[i] \in k.results[t]
    /\ k.wireless[t] => e.ok /\ e.pos = pos
    /\ ~k.wireless[t] => ReadAll(k, Many(n, t), c, pos, e, e.val.mem)

LEMMA ElementsRead ==
    ASSUME NEW k, NEW t \in Types, DecodeTyped(k, t), ZeroTyped(k, t),
           NEW c \in Contexts, NEW pos \in Nat, pos <= c.end, NEW n \in Nat, NEW old \in Slices(k.results[t]),
           NEW e, e = Elements(k, t, c, pos, n, old)
    PROVE  SliceRead(k, t, c, pos, n, e)
<1>1. PICK S : S = k.results[t]
  OBVIOUS
<1>2. PICK zero : zero = k.zero[t]
  OBVIOUS
<1>3. zero \in S /\ old.mem \in Seq(S)
  BY <1>1, <1>2 DEF ZeroTyped, Slices
<1>4. PICK kept : kept = Resized(zero, old, n)
  OBVIOUS
<1>5. kept \in Seq(S) /\ Len(kept) = n
  BY <1>3, <1>4, ResizedIs
<1>6. ASSUME NEW x \in [ok : BOOLEAN, pos : Nat, val : Seq(S)], x.ok => Len(x.val) = n, e = AsSlice(x, old)
      PROVE  /\ e.ok = x.ok /\ e.pos = x.pos
             /\ e.ok => e.val.len = n /\ \A i \in 1 .. n : e.val.mem[i] = x.val[i] /\ e.val.mem[i] \in S
  <2>1. /\ e.ok = x.ok /\ e.pos = x.pos /\ e.val.len = Len(x.val)
        /\ \A i \in 1 .. Len(x.val) : e.val.mem[i] = x.val[i]
    BY <1>3, <1>6, AsSliceIs
  <2>2. PICK vals : vals = x.val
    OBVIOUS
  <2>3. vals \in Seq(S)
    BY <2>2
  <2>4. \A i \in 1 .. Len(vals) : vals[i] \in S
    BY <2>3, ElementOfSeq
  <2>5. QED
    BY <1>6, <2>1, <2>2, <2>4
<1>7. CASE k.wireless[t]
  <2>1. e = AsSlice(Ok(pos, kept), old)
    BY <1>2, <1>4, <1>7 DEF Elements
  <2>2. PICK x : x = Ok(pos, kept)
    OBVIOUS
  <2>3. x \in [ok : BOOLEAN, pos : Nat, val : Seq(S)] /\ x.pos = pos /\ x.ok /\ Len(x.val) = n
    BY <1>5, <2>2 DEF Ok
  <2>4. QED
    BY <1>1, <1>6, <1>7, <2>1, <2>2, <2>3 DEF SliceRead
<1>8. CASE ~k.wireless[t]
  <2>1. PICK types : types = Many(n, t)
    OBVIOUS
  <2>2. Typed(k, types) /\ Len(types) = n /\ \A i \in 1 .. n : types[i] = t
    BY <2>1, ManyTyped, ManyIs
  <2>3. PICK least : least = k.min[t]
    OBVIOUS
  <2>4. least \in Nat
    BY <2>3 DEF DecodeTyped
  <2>5. CASE Scarce(c, pos, n, least)
    <3>1. e = Bad(old)
      BY <1>8, <2>3, <2>5 DEF Elements
    <3>2. Olds(k, types, kept)
      BY <1>1, <1>5, <2>1, ManyOlds
    <3>3. \A i \in 1 .. Len(types) : least <= k.min[types[i]] \/ least <= Needs(Desc[types[i]])
      BY <2>2, <2>3, <2>4
    <3>4. Scarce(c, pos, Len(types), least)
      BY <2>2, <2>5
    <3>5. ReadAll(k, types, c, pos, Bad(old), e.val.mem)
      BY <2>2, <2>4, <3>2, <3>3, <3>4, ScarceRead
    <3>6. ~e.ok
      BY <3>1 DEF Bad
    <3>7. QED
      BY <1>8, <2>1, <3>1, <3>5, <3>6 DEF SliceRead
  <2>6. CASE ~Scarce(c, pos, n, least)
    <3>1. PICK olds : olds = IF c.knows /\ k.min[t] = 0 THEN <<>> ELSE kept
      OBVIOUS
    <3>2. olds \in Seq(S) /\ Len(olds) <= n
      BY <1>5, <3>1, EmptySeq
    <3>3. PICK x : x = DecodeAll(k, types, c, pos, olds)
      OBVIOUS
    <3>4. e = AsSlice(x, old)
      BY <1>2, <1>4, <1>8, <2>1, <2>3, <2>6, <3>1, <3>3 DEF Elements
    <3>5. Olds(k, types, olds)
      BY <1>1, <2>1, <3>2, ManyOlds
    <3>6. /\ x \in [ok : BOOLEAN, pos : Nat, val : Seq(Held(k))]
          /\ Olds(k, types, x.val) /\ (x.ok => Len(x.val) = Len(types))
      <4>1. Typed(k, types)
        BY <2>2
      <4>2. c \in Contexts /\ pos \in Nat /\ pos <= c.end
        OBVIOUS
      <4>3. x \in [ok : BOOLEAN, pos : Nat, val : Seq(Held(k))]
        BY ONLY <3>3, <3>5, <4>1, <4>2, AllDecoded
      <4>4. Olds(k, types, x.val)
        BY ONLY <3>3, <3>5, <4>1, <4>2, AllDecoded
      <4>5. x.ok => Len(x.val) = Len(types)
        BY ONLY <3>3, <3>5, <4>1, <4>2, AllDecoded
      <4>6. QED
        BY <4>3, <4>4, <4>5
    <3>7. x.val \in Seq(S)
      BY <1>1, <2>1, <3>6, ManyOlds
    <3>8. x \in [ok : BOOLEAN, pos : Nat, val : Seq(S)]
      BY <3>6, <3>7
    <3>9. /\ e.ok = x.ok /\ e.pos = x.pos
          /\ e.ok => e.val.len = n /\ \A i \in 1 .. n : e.val.mem[i] = x.val[i] /\ e.val.mem[i] \in S
      BY <1>6, <2>2, <3>4, <3>6, <3>8
    <3>10. ReadAll(k, types, c, pos, e, e.val.mem)
      BY <2>2, <3>3, <3>5, <3>9, ReadAllBy
    <3>11. QED
      BY <1>1, <1>8, <2>1, <3>9, <3>10 DEF SliceRead
  <2>7. QED
    BY <2>5, <2>6
<1>9. QED
  BY <1>7, <1>8

\* What a pointer points to.
LEMMA PointerRead ==
    ASSUME NEW k, NEW t \in Types, DecodeTyped(k, t), ZeroTyped(k, t),
           NEW c \in Contexts, NEW pos \in Nat, pos <= c.end, NEW old \in Optional(k.results[t]),
           NEW e, e = DecodeAll(k, Many(1, t), c, pos, old)
    PROVE  ReadAll(k, Many(1, t), c, pos, e, e.val) /\ (e.ok => Len(e.val) = 1 /\ e.val[1] \in k.results[t])
<1>1. PICK one : one = 1
  OBVIOUS
<1>2. PICK types : types = Many(one, t)
  OBVIOUS
<1>3. one \in Nat /\ Typed(k, types) /\ Len(types) = 1
  BY <1>1, <1>2, ManyTyped
<1>4. old \in Seq(k.results[t]) /\ Len(old) <= one
  BY <1>1 DEF Optional
<1>5. Olds(k, types, old)
  BY <1>2, <1>3, <1>4, ManyOlds
<1>6. e = DecodeAll(k, types, c, pos, old)
  BY <1>1, <1>2
<1>7. ReadAll(k, types, c, pos, e, e.val)
  BY <1>5, <1>6, ReadAllBy
<1>8. Olds(k, types, e.val)
  BY <1>3, <1>5, <1>6, AllDecoded
<1>9. e.ok => Len(e.val) = Len(types)
  BY <1>3, <1>5, <1>6, AllDecoded
<1>10. e.val \in Seq(k.results[t])
  BY <1>2, <1>3, <1>8, ManyOlds
<1>11. e.ok => e.val[1] \in k.results[t]
  BY <1>3, <1>9, <1>10, ElementOfSeq
<1>12. QED
  BY <1>1, <1>2, <1>3, <1>7, <1>9, <1>11

\* The parts of a tuple.
LEMMA TupleRead ==
    ASSUME NEW k, NEW t \in Types, NEW d, d = Desc[t], Sound(d), Inner(k, d), d.kind = "tuple",
           NEW c \in Contexts, NEW pos \in Nat, pos <= c.end, NEW old \in Results(k, d),
           NEW e, e = DecodeTuple(k, d, c, pos, old)
    PROVE  ReadAll(k, d.parts, c, pos, e, e.val)
<1>1. PICK types : types = d.parts
  OBVIOUS
<1>2. Typed(k, types) /\ Results(k, d) = Tuples(k.results, types) /\ types \in Seq(Types) /\ Len(types) \in Nat
  BY <1>1, TypedParts DEF Typed
<1>3. Olds(k, types, old)
  BY <1>2, TupleOlds
<1>4. CASE d.ahead /\ Scarce(c, pos, Len(types), 1)
  <2>1. e = Bad(old)
    BY <1>1, <1>4 DEF DecodeTuple
  <2>2. PICK one : one = 1
    OBVIOUS
  <2>3. ASSUME NEW i \in 1 .. Len(types)
        PROVE  one <= Needs(Desc[types[i]])
    <3>1. i \in DOMAIN types /\ types[i] \in Types
      BY <1>2, LenProperties DEF Typed
    <3>2. Desc[types[i]].kind = "blob"
      BY <1>1, <1>4, <3>1, WireAssumption
    <3>3. Sound(Desc[types[i]])
      BY <3>1, Described
    <3>4. Takes(Desc[types[i]]) >= 1
      BY <3>2, <3>3 DEF Takes, Sound
    <3>5. QED
      BY <2>2, <3>1, <3>2, <3>4, NeedsIs
  <2>4. Scarce(c, pos, Len(types), one) /\ one \in Nat
    BY <1>4, <2>2
  <2>5. ReadAll(k, types, c, pos, Bad(old), e.val)
    BY <1>2, <1>3, <2>3, <2>4, ScarceRead
  <2>6. QED
    BY <1>1, <2>1, <2>5
<1>5. CASE ~(d.ahead /\ Scarce(c, pos, Len(types), 1))
  <2>1. e = DecodeAll(k, types, c, pos, old)
    BY <1>1, <1>5 DEF DecodeTuple
  <2>2. ReadAll(k, types, c, pos, e, e.val)
    BY <1>3, <2>1, ReadAllBy
  <2>3. QED
    BY <1>1, <2>2
<1>6. QED
  BY <1>4, <1>5

\* The entries of a map.
EntriesRead(k, d, c, pos, n, e) ==
    ReadAll(k, Many(n, d.entry), c, pos, e, e.val) /\ (e.ok => Len(e.val) = n)

LEMMA MapRead ==
    ASSUME NEW k, NEW t \in Types, NEW d, d = Desc[t], Sound(d), Inner(k, d), d.kind = "map",
           NEW c \in Contexts, NEW pos \in Nat, pos <= c.end, NEW n \in Nat, NEW old,
           NEW e, e = MapBody(k, d, c, pos, n, old)
    PROVE  EntriesRead(k, d, c, pos, n, e)
<1>1. PICK u : u = d.entry
  OBVIOUS
<1>2. u \in Types /\ DecodeTyped(k, u) /\ ZeroTyped(k, u)
  BY <1>1 DEF Inner, Parts
<1>3. PICK types : types = Many(n, u)
  OBVIOUS
<1>4. Typed(k, types) /\ Len(types) = n
  BY <1>2, <1>3, ManyTyped
<1>5. PICK o : o = <<>>
  OBVIOUS
<1>6. o \in Seq(k.results[u]) /\ Len(o) = 0
  BY <1>5, EmptySeq
<1>7. Len(o) <= n
  BY <1>6
<1>8. Olds(k, types, o)
  BY <1>2, <1>3, <1>6, <1>7, ManyOlds
<1>9. CASE (d.codec = "reflect" => n > 1) /\ Scarce(c, pos, n, Least(k, d))
  <2>1. e = Bad(old)
    BY <1>9 DEF MapBody
  <2>2. PICK least : least = Least(k, d)
    OBVIOUS
  <2>3. /\ least \in Nat
        /\ least <= k.min[u] \/ least <= Needs(Desc[u])
    <3>1. CASE d.codec = "reflect"
      <4>1. least = k.min[u] /\ least \in Nat
        BY <1>1, <1>2, <2>2, <3>1 DEF Least, DecodeTyped
      <4>2. QED
        BY <4>1
    <3>2. CASE d.codec # "reflect"
      <4>1. least = d.least /\ least \in Nat /\ IsMap(d)
        BY <2>2, <3>2 DEF Least, Sound
      <4>2. PICK entry : entry = Desc[u]
        OBVIOUS
      <4>3. /\ entry.kind = "tuple" /\ Len(entry.parts) = 2
            /\ least <= Takes(Desc[entry.parts[1]]) + Takes(Desc[entry.parts[2]])
        BY <1>1, <3>2, <4>1, <4>2 DEF IsMap
      <4>4. Needs(entry) = Takes(Desc[entry.parts[1]]) + Takes(Desc[entry.parts[2]])
        BY <4>3 DEF Needs
      <4>5. QED
        BY <4>1, <4>2, <4>3, <4>4
    <3>3. QED
      BY <3>1, <3>2
  <2>4. Scarce(c, pos, Len(types), least)
    BY <1>4, <1>9, <2>2
  <2>5. \A i \in 1 .. Len(types) : least <= k.min[types[i]] \/ least <= Needs(Desc[types[i]])
    <3>1. \A i \in 1 .. n : types[i] = u
      BY <1>2, <1>3, ManyIs
    <3>2. QED
      BY <1>4, <2>3, <3>1
  <2>6. ReadAll(k, types, c, pos, Bad(old), e.val)
    BY <1>4, <1>8, <2>3, <2>4, <2>5, ScarceRead
  <2>7. ~e.ok
    BY <2>1 DEF Bad
  <2>8. QED
    BY <1>1, <1>3, <2>1, <2>6, <2>7 DEF EntriesRead
<1>10. CASE ~((d.codec = "reflect" => n > 1) /\ Scarce(c, pos, n, Least(k, d)))
  <2>1. e = Entries(k, d, c, pos, n, Emptied(old))
    BY <1>10 DEF MapBody
  <2>2. PICK x : x = DecodeAll(k, types, c, pos, o)
    OBVIOUS
  <2>3. x \in [ok : BOOLEAN, pos : Nat, val : Seq(Held(k))]
    BY <1>4, <1>8, <2>2, AllDecoded
  <2>4. x.ok => Len(x.val) = Len(types)
    BY <1>4, <1>8, <2>2, AllDecoded
  <2>5. ~x.ok => 1 <= Len(x.val)
    BY <1>4, <1>8, <2>2, AllDecoded
  <2>6. x = DecodeAll(k, Many(n, d.entry), c, pos, <<>>)
    BY <1>1, <1>3, <1>5, <2>2
  <2>7. Completed(Held(k), x, e)
    BY ONLY <2>1, <2>3, <2>5, <2>6, EntriesIs
  <2>8. e.ok = x.ok /\ e.pos = x.pos /\ (e.ok => e.val = x.val)
    BY <2>7 DEF Completed
  <2>9. ReadAll(k, types, c, pos, e, e.val)
    BY <1>8, <2>2, <2>8, ReadAllBy
  <2>10. QED
    BY <1>1, <1>3, <1>4, <2>4, <2>8, <2>9 DEF EntriesRead
<1>11. QED
  BY <1>9, <1>10

\* Both readers read the same elements.
SameRead(m, types, e1, vals1, e2, vals2) ==
    /\ e1.ok <=> e2.ok
    /\ e1.ok => /\ e1.pos = e2.pos
                /\ \A i \in 1 .. Len(types) : m.view[types[i]][types[i]][vals1[i]] = m.view[types[i]][types[i]][vals2[i]]

LEMMA ReadSame ==
    ASSUME NEW k, NEW m, NEW types, Typed(k, types), \A i \in 1 .. Len(types) : SameFor(k, m, types[i]),
           NEW c1, NEW c2, Alongside(c1, c2), NEW pos \in Nat, pos <= c1.end,
           NEW e1, NEW vals1, ReadAll(k, types, c1, pos, e1, vals1),
           NEW e2, NEW vals2, ReadAll(k, types, c2, pos, e2, vals2)
    PROVE  SameRead(m, types, e1, vals1, e2, vals2)
<1>1. PICK olds1 : /\ Olds(k, types, olds1)
                   /\ LET x == DecodeAll(k, types, c1, pos, olds1)
                      IN  /\ e1.ok <=> x.ok
                          /\ e1.ok => e1.pos = x.pos /\ \A i \in 1 .. Len(types) : vals1[i] = x.val[i]
  BY DEF ReadAll
<1>2. PICK olds2 : /\ Olds(k, types, olds2)
                   /\ LET x == DecodeAll(k, types, c2, pos, olds2)
                      IN  /\ e2.ok <=> x.ok
                          /\ e2.ok => e2.pos = x.pos /\ \A i \in 1 .. Len(types) : vals2[i] = x.val[i]
  BY DEF ReadAll
<1>3. PICK x1 : x1 = DecodeAll(k, types, c1, pos, olds1)
  OBVIOUS
<1>4. PICK x2 : x2 = DecodeAll(k, types, c2, pos, olds2)
  OBVIOUS
<1>5. AlikeTo(m, types, Len(types), DecodeAll(k, types, c1, pos, olds1), DecodeAll(k, types, c2, pos, olds2))
  BY <1>1, <1>2, SameAll
<1>6. AlikeTo(m, types, Len(types), x1, x2)
  BY <1>3, <1>4, <1>5
<1>7. /\ e1.ok <=> x1.ok
      /\ e1.ok => e1.pos = x1.pos /\ \A i \in 1 .. Len(types) : vals1[i] = x1.val[i]
  BY <1>1, <1>3
<1>8. /\ e2.ok <=> x2.ok
      /\ e2.ok => e2.pos = x2.pos /\ \A i \in 1 .. Len(types) : vals2[i] = x2.val[i]
  BY <1>2, <1>4
<1>9. QED
  BY <1>6, <1>7, <1>8 DEF SameRead, AlikeTo

\* Several of one type.
LEMMA ManySame ==
    ASSUME NEW k, NEW m, NEW t \in Types, DecodeTyped(k, t), ZeroTyped(k, t), SameFor(k, m, t), NEW n \in Nat,
           NEW c1, NEW c2, Alongside(c1, c2), NEW pos \in Nat, pos <= c1.end,
           NEW e1, NEW vals1, ReadAll(k, Many(n, t), c1, pos, e1, vals1),
           NEW e2, NEW vals2, ReadAll(k, Many(n, t), c2, pos, e2, vals2)
    PROVE  /\ e1.ok <=> e2.ok
           /\ e1.ok => e1.pos = e2.pos /\ \A i \in 1 .. n : m.view[t][t][vals1[i]] = m.view[t][t][vals2[i]]
<1>1. PICK types : types = Many(n, t)
  OBVIOUS
<1>2. Typed(k, types) /\ Len(types) = n
  BY <1>1, ManyTyped
<1>3. \A i \in 1 .. n : types[i] = t
  BY <1>1, ManyIs
<1>4. \A i \in 1 .. Len(types) : SameFor(k, m, types[i])
  BY <1>2, <1>3
<1>5. ReadAll(k, types, c1, pos, e1, vals1) /\ ReadAll(k, types, c2, pos, e2, vals2)
  BY <1>1
<1>6. SameRead(m, types, e1, vals1, e2, vals2)
  BY <1>2, <1>4, <1>5, ReadSame
<1>7. QED
  BY <1>2, <1>3, <1>6 DEF SameRead

LEMMA SameSlice ==
    ASSUME NEW k, NEW m, NEW d, d.kind = "slice", Sound(d), KnownParts(k, m, d),
           NEW c1, NEW c2, Alongside(c1, c2), NEW pos \in Nat, pos <= c1.end,
           NEW old1 \in Results(k, d), NEW old2 \in Results(k, d)
    PROVE  Similar(m, d, DecodeOf(k, d, c1, pos, old1), DecodeOf(k, d, c2, pos, old2))
<1>1. PICK r : r = ReadPrefix(c1, pos, 0)
  OBVIOUS
<1>2. r = ReadPrefix(c2, pos, 0)
  BY <1>1, SliceAlongside
<1>3. c1 \in Contexts /\ c2 \in Contexts /\ c2.end = c1.end
  BY DEF Alongside
<1>4. /\ r.ok \in BOOLEAN /\ r.pos \in Nat
      /\ r.ok => r.pos <= c1.end /\ r.val[1] \in Nat
  <2>1. PICK w : w = 1
    OBVIOUS
  <2>2. PICK z : z = 0
    OBVIOUS
  <2>3. r = ReadPrefix(c1, pos, z) /\ z \in Nat /\ w = IF z = 0 THEN 1 ELSE z
    BY <1>1, <2>1, <2>2
  <2>4. PrefixDone(c1, pos, w, r)
    BY <1>3, <2>3, PrefixRead
  <2>5. QED
    BY <2>1, <2>4 DEF PrefixDone
<1>5. PICK t : t = d.elem
  OBVIOUS
<1>6. t \in Types /\ Known(k, m, t)
  BY <1>5 DEF KnownParts, Parts
<1>7. DecodeTyped(k, t) /\ ZeroTyped(k, t) /\ ShapesTyped(k, t) /\ SameFor(k, m, t) /\ WirelessSeen(k, m, t)
  BY <1>6 DEF Known, CodecTyped
<1>8. Results(k, d) = Slices(k.results[t])
  BY <1>5 DEF Results, Shape, Slices
<1>9. PICK e1 : e1 = DecodeOf(k, d, c1, pos, old1)
  OBVIOUS
<1>10. PICK e2 : e2 = DecodeOf(k, d, c2, pos, old2)
  OBVIOUS
<1>11. e1 = DecodeSlice(k, t, c1, r, old1) /\ e2 = DecodeSlice(k, t, c2, r, old2)
  BY <1>1, <1>2, <1>5, <1>9, <1>10 DEF DecodeOf
<1>12. CASE ~r.ok
  <2>1. ~e1.ok /\ ~e2.ok
    BY <1>11, <1>12 DEF DecodeSlice, Bad
  <2>2. QED
    BY <1>9, <1>10, <2>1 DEF Similar
<1>13. CASE r.ok
  <2>1. PICK n : n = r.val[1]
    OBVIOUS
  <2>2. n \in Nat /\ r.pos \in Nat /\ r.pos <= c1.end /\ r.pos <= c2.end
    BY <1>3, <1>4, <1>13, <2>1
  <2>3. e1 = Elements(k, t, c1, r.pos, n, old1) /\ e2 = Elements(k, t, c2, r.pos, n, old2)
    BY <1>11, <1>13, <2>1 DEF DecodeSlice
  <2>4. SliceRead(k, t, c1, r.pos, n, e1)
    BY <1>3, <1>6, <1>7, <1>8, <2>2, <2>3, ElementsRead
  <2>5. SliceRead(k, t, c2, r.pos, n, e2)
    BY <1>3, <1>6, <1>7, <1>8, <2>2, <2>3, ElementsRead
  <2>6. /\ e1.ok <=> e2.ok
        /\ e1.ok => e1.pos = e2.pos /\ \A i \in 1 .. n : m.view[t][t][e1.val.mem[i]] = m.view[t][t][e2.val.mem[i]]
    <3>1. CASE k.wireless[t]
      <4>1. e1.ok /\ e2.ok /\ e1.pos = e2.pos
        BY <2>4, <2>5, <3>1 DEF SliceRead
      <4>2. \A i \in 1 .. n : e1.val.mem[i] \in k.values[t] /\ e2.val.mem[i] \in k.values[t]
        BY <1>7, <2>4, <2>5, <4>1 DEF SliceRead, ShapesTyped
      <4>3. QED
        BY <1>7, <3>1, <4>1, <4>2 DEF WirelessSeen
    <3>2. CASE ~k.wireless[t]
      <4>1. ReadAll(k, Many(n, t), c1, r.pos, e1, e1.val.mem) /\ ReadAll(k, Many(n, t), c2, r.pos, e2, e2.val.mem)
        BY <2>4, <2>5, <3>2 DEF SliceRead
      <4>2. QED
        BY <1>6, <1>7, <2>2, <4>1, ManySame
    <3>3. QED
      BY <3>1, <3>2
  <2>7. e1.ok => Visible(m.view, d, d, e1.val) = Visible(m.view, d, d, e2.val)
    <3>1. e1.ok => e1.val.len = n /\ e2.val.len = n
      BY <2>4, <2>5, <2>6 DEF SliceRead
    <3>2. \A v : Visible(m.view, d, d, v) = [i \in 1 .. v.len |-> m.view[t][t][v.mem[i]]]
      BY <1>5 DEF Visible
    <3>3. ASSUME e1.ok
          PROVE  Visible(m.view, d, d, e1.val) = Visible(m.view, d, d, e2.val)
      <4>1. /\ Visible(m.view, d, d, e1.val) = [i \in 1 .. n |-> m.view[t][t][e1.val.mem[i]]]
            /\ Visible(m.view, d, d, e2.val) = [i \in 1 .. n |-> m.view[t][t][e2.val.mem[i]]]
        BY <3>1, <3>2, <3>3
      <4>2. \A i \in 1 .. n : m.view[t][t][e1.val.mem[i]] = m.view[t][t][e2.val.mem[i]]
        BY <2>6, <3>3
      <4>3. QED
        BY <4>1, <4>2
    <3>4. QED
      BY <3>3
  <2>8. QED
    BY <1>9, <1>10, <2>6, <2>7 DEF Similar
<1>14. QED
  BY <1>12, <1>13

LEMMA SamePointer ==
    ASSUME NEW k, NEW m, NEW d, d.kind = "pointer", Sound(d), KnownParts(k, m, d),
           NEW c1, NEW c2, Alongside(c1, c2), NEW pos \in Nat, pos <= c1.end,
           NEW old1 \in Results(k, d), NEW old2 \in Results(k, d)
    PROVE  Similar(m, d, DecodeOf(k, d, c1, pos, old1), DecodeOf(k, d, c2, pos, old2))
<1>1. PICK r : r = Slice(c1, pos, 1)
  OBVIOUS
<1>2. r = Slice(c2, pos, 1)
  BY <1>1, SliceAlongside
<1>3. c1 \in Contexts /\ c2 \in Contexts /\ c2.end = c1.end
  BY DEF Alongside
<1>4. c1.end \in Nat
  BY <1>3, ContextIs
<1>5. r.ok => r.pos = pos + 1 /\ r.pos <= c1.end
  BY <1>1, <1>4 DEF Slice, Rest, Ok, Bad
<1>6. PICK t : t = d.elem
  OBVIOUS
<1>7. t \in Types /\ Known(k, m, t)
  BY <1>6 DEF KnownParts, Parts
<1>8. DecodeTyped(k, t) /\ ZeroTyped(k, t) /\ SameFor(k, m, t)
  BY <1>7 DEF Known, CodecTyped
<1>9. Results(k, d) = Optional(k.results[t])
  BY <1>6 DEF Results, Shape
<1>10. PICK e1 : e1 = DecodeOf(k, d, c1, pos, old1)
  OBVIOUS
<1>11. PICK e2 : e2 = DecodeOf(k, d, c2, pos, old2)
  OBVIOUS
<1>12. e1 = DecodePointer(k, t, c1, r, old1) /\ e2 = DecodePointer(k, t, c2, r, old2)
  BY <1>1, <1>2, <1>6, <1>10, <1>11 DEF DecodeOf
<1>13. CASE ~r.ok
  <2>1. ~e1.ok /\ ~e2.ok
    BY <1>12, <1>13 DEF DecodePointer, Bad
  <2>2. QED
    BY <1>10, <1>11, <2>1 DEF Similar
<1>14. CASE r.ok /\ r.val[1] = 1
  <2>1. e1 = e2
    BY <1>12, <1>14 DEF DecodePointer
  <2>2. QED
    BY <1>10, <1>11, <2>1 DEF Similar
<1>15. CASE r.ok /\ r.val[1] # 1
  <2>1. r.pos \in Nat /\ r.pos <= c1.end /\ r.pos <= c2.end
    BY <1>3, <1>5, <1>15
  <2>2. e1 = DecodeAll(k, Many(1, t), c1, r.pos, old1) /\ e2 = DecodeAll(k, Many(1, t), c2, r.pos, old2)
    BY <1>12, <1>15 DEF DecodePointer
  <2>3. ReadAll(k, Many(1, t), c1, r.pos, e1, e1.val) /\ (e1.ok => Len(e1.val) = 1 /\ e1.val[1] \in k.results[t])
    BY <1>3, <1>7, <1>8, <1>9, <2>1, <2>2, PointerRead
  <2>4. ReadAll(k, Many(1, t), c2, r.pos, e2, e2.val) /\ (e2.ok => Len(e2.val) = 1 /\ e2.val[1] \in k.results[t])
    BY <1>3, <1>7, <1>8, <1>9, <2>1, <2>2, PointerRead
  <2>5. PICK one : one = 1
    OBVIOUS
  <2>6. one \in Nat /\ ReadAll(k, Many(one, t), c1, r.pos, e1, e1.val) /\ ReadAll(k, Many(one, t), c2, r.pos, e2, e2.val)
    BY <2>3, <2>4, <2>5
  <2>7. /\ e1.ok <=> e2.ok
        /\ e1.ok => e1.pos = e2.pos /\ \A i \in 1 .. one : m.view[t][t][e1.val[i]] = m.view[t][t][e2.val[i]]
    BY <1>7, <1>8, <2>1, <2>6, ManySame
  <2>8. e1.ok => Visible(m.view, d, d, e1.val) = Visible(m.view, d, d, e2.val)
    <3>1. e1.ok => Len(e1.val) = one /\ Len(e2.val) = one
      BY <2>3, <2>4, <2>5, <2>7
    <3>2. \A v : Visible(m.view, d, d, v) = [i \in 1 .. Len(v) |-> m.view[t][t][v[i]]]
      BY <1>6 DEF Visible
    <3>3. ASSUME e1.ok
          PROVE  Visible(m.view, d, d, e1.val) = Visible(m.view, d, d, e2.val)
      <4>1. /\ Visible(m.view, d, d, e1.val) = [i \in 1 .. one |-> m.view[t][t][e1.val[i]]]
            /\ Visible(m.view, d, d, e2.val) = [i \in 1 .. one |-> m.view[t][t][e2.val[i]]]
        BY <3>1, <3>2, <3>3
      <4>2. \A i \in 1 .. one : m.view[t][t][e1.val[i]] = m.view[t][t][e2.val[i]]
        BY <2>7, <3>3
      <4>3. QED
        BY <4>1, <4>2
    <3>4. QED
      BY <3>3
  <2>9. QED
    BY <1>10, <1>11, <2>7, <2>8 DEF Similar
<1>16. QED
  BY <1>13, <1>14, <1>15

LEMMA SameTuple ==
    ASSUME NEW k, NEW m, NEW t \in Types, NEW d, d = Desc[t], d.kind = "tuple", Sound(d), KnownParts(k, m, d),
           NEW c1, NEW c2, Alongside(c1, c2), NEW pos \in Nat, pos <= c1.end,
           NEW old1 \in Results(k, d), NEW old2 \in Results(k, d)
    PROVE  Similar(m, d, DecodeOf(k, d, c1, pos, old1), DecodeOf(k, d, c2, pos, old2))
<1>1. PICK types : types = d.parts
  OBVIOUS
<1>2. Inner(k, d)
  BY InnerOfKnown
<1>3. Typed(k, types)
  BY <1>1, <1>2, TypedParts
<1>4. types \in Seq(Types) /\ Len(types) \in Nat /\ DOMAIN types = 1 .. Len(types)
  BY <1>3, LenProperties DEF Typed
<1>5. \A i \in 1 .. Len(types) : SameFor(k, m, types[i])
  <2>1. ASSUME NEW i \in 1 .. Len(types)
        PROVE  SameFor(k, m, types[i])
    <3>1. types[i] \in Parts(d)
      BY <1>1, <1>4 DEF Parts, ToSet
    <3>2. QED
      BY <3>1 DEF KnownParts, Known
  <2>2. QED
    BY <2>1
<1>6. c1 \in Contexts /\ c2 \in Contexts /\ c2.end = c1.end
  BY DEF Alongside
<1>7. PICK e1 : e1 = DecodeOf(k, d, c1, pos, old1)
  OBVIOUS
<1>8. PICK e2 : e2 = DecodeOf(k, d, c2, pos, old2)
  OBVIOUS
<1>9. e1 = DecodeTuple(k, d, c1, pos, old1) /\ e2 = DecodeTuple(k, d, c2, pos, old2)
  BY <1>7, <1>8 DEF DecodeOf
<1>10. ReadAll(k, d.parts, c1, pos, e1, e1.val)
  BY <1>2, <1>6, <1>9, TupleRead
<1>11. ReadAll(k, d.parts, c2, pos, e2, e2.val)
  BY <1>2, <1>6, <1>9, TupleRead
<1>12. SameRead(m, types, e1, e1.val, e2, e2.val)
  BY <1>1, <1>3, <1>5, <1>10, <1>11, ReadSame
<1>13. ASSUME e1.ok
       PROVE  Visible(m.view, d, d, e1.val) = Visible(m.view, d, d, e2.val)
  <2>1. \A v : Visible(m.view, d, d, v) = [i \in 1 .. Len(types) |-> m.view[types[i]][types[i]][v[i]]]
    BY <1>1, <1>4 DEF Visible
  <2>2. \A i \in 1 .. Len(types) : m.view[types[i]][types[i]][e1.val[i]] = m.view[types[i]][types[i]][e2.val[i]]
    BY <1>12, <1>13 DEF SameRead
  <2>3. /\ Visible(m.view, d, d, e1.val) = [i \in 1 .. Len(types) |-> m.view[types[i]][types[i]][e1.val[i]]]
        /\ Visible(m.view, d, d, e2.val) = [i \in 1 .. Len(types) |-> m.view[types[i]][types[i]][e2.val[i]]]
    BY <2>1
  <2>4. QED
    BY <2>2, <2>3
<1>14. Similar(m, d, e1, e2)
  BY <1>12, <1>13 DEF Similar, SameRead
<1>15. QED
  BY <1>7, <1>8, <1>14

\* The entries that count are the same, if the keys are.
LEMMA LatestSame ==
    ASSUME NEW n \in Nat, NEW S, NEW R, NEW v1 \in Seq(S), NEW v2 \in Seq(R), Len(v1) = n, Len(v2) = n,
           \A i \in 1 .. n : v1[i][1] = v2[i][1]
    PROVE  Latest(v1) = Latest(v2) /\ Latest(v1) \subseteq 1 .. n
<1>1. DOMAIN v1 = 1 .. n /\ DOMAIN v2 = 1 .. n
  BY LenProperties
<1>2. Latest(v1) = {i \in 1 .. n : \A j \in 1 .. n : v1[j][1] = v1[i][1] => j <= i}
  BY <1>1 DEF Latest
<1>3. Latest(v2) = {i \in 1 .. n : \A j \in 1 .. n : v2[j][1] = v2[i][1] => j <= i}
  BY <1>1 DEF Latest
<1>4. QED
  BY <1>2, <1>3

\* The entries of two maps, the keys seen as they are.
Entered(f, v)   == {f[v[i]] : i \in Latest(v)}
KeepsKeys(f, S) == \A x \in S : f[x][1] = x[1]
OneByOne(n, f1, v1, f2, v2) == \A i \in 1 .. n : f1[v1[i]] = f2[v2[i]]

LEMMA EntriesSame ==
    ASSUME NEW n \in Nat, NEW S, NEW R, NEW v1 \in Seq(S), NEW v2 \in Seq(R), Len(v1) = n, Len(v2) = n,
           NEW f1, NEW f2, KeepsKeys(f1, S), KeepsKeys(f2, R),
           OneByOne(n, f1, v1, f2, v2)
    PROVE  Entered(f1, v1) = Entered(f2, v2)
<1>1. ASSUME NEW i \in 1 .. n
      PROVE  v1[i][1] = v2[i][1]
  <2>1. v1[i] \in S /\ v2[i] \in R
    BY ElementOfSeq
  <2>2. QED
    BY <2>1 DEF KeepsKeys, OneByOne
<1>2. Latest(v1) = Latest(v2) /\ Latest(v1) \subseteq 1 .. n
  BY <1>1, LatestSame
<1>3. PICK L : L = Latest(v1)
  OBVIOUS
<1>4. L \subseteq 1 .. n /\ L = Latest(v2)
  BY <1>2, <1>3
<1>5. \A i \in L : f1[v1[i]] = f2[v2[i]]
  BY <1>4 DEF OneByOne
<1>6. {f1[v1[i]] : i \in L} = {f2[v2[i]] : i \in L}
  BY <1>5
<1>7. QED
  BY <1>3, <1>4, <1>6 DEF Entered

LEMMA SameMap ==
    ASSUME NEW k, NEW m, NEW t \in Types, NEW d, d = Desc[t], d.kind = "map", Sound(d), KnownParts(k, m, d),
           NEW c1, NEW c2, Alongside(c1, c2), NEW pos \in Nat, pos <= c1.end,
           NEW old1 \in Results(k, d), NEW old2 \in Results(k, d)
    PROVE  Similar(m, d, DecodeOf(k, d, c1, pos, old1), DecodeOf(k, d, c2, pos, old2))
<1>1. PICK width : width = d.prefix
  OBVIOUS
<1>2. PICK r : r = ReadPrefix(c1, pos, width)
  OBVIOUS
<1>3. r = ReadPrefix(c2, pos, width)
  BY <1>2, SliceAlongside
<1>4. c1 \in Contexts /\ c2 \in Contexts /\ c2.end = c1.end
  BY DEF Alongside
<1>5. r.ok => r.pos \in Nat /\ r.pos <= c1.end /\ Number(r.val) \in Nat
  <2>1. PICK w : w = IF width = 0 THEN 1 ELSE width
    OBVIOUS
  <2>2. width \in Nat
    BY <1>1 DEF Sound
  <2>3. PrefixDone(c1, pos, w, r)
    BY <1>2, <1>4, <2>1, <2>2, PrefixRead
  <2>4. QED
    BY <2>3 DEF PrefixDone
<1>6. PICK u : u = d.entry
  OBVIOUS
<1>7. u \in Types /\ Known(k, m, u)
  BY <1>6 DEF KnownParts, Parts
<1>8. DecodeTyped(k, u) /\ ZeroTyped(k, u) /\ ShapesTyped(k, u) /\ SameFor(k, m, u) /\ KeySeen(k, m, u)
  BY <1>7 DEF Known, CodecTyped
<1>9. Inner(k, d)
  BY InnerOfKnown
<1>10. PICK e1 : e1 = DecodeOf(k, d, c1, pos, old1)
  OBVIOUS
<1>11. PICK e2 : e2 = DecodeOf(k, d, c2, pos, old2)
  OBVIOUS
<1>12. e1 = DecodeMap(k, d, c1, r, old1) /\ e2 = DecodeMap(k, d, c2, r, old2)
  BY <1>1, <1>2, <1>3, <1>10, <1>11 DEF DecodeOf
<1>13. PICK S : S = k.results[u]
  OBVIOUS
<1>14. e1.val \in Seq(S) /\ e2.val \in Seq(S)
  <2>1. Results(k, d) = Seq(S)
    BY <1>6, <1>13 DEF Results, Shape
  <2>2. Decoded(k, d, c1, pos, DecodeOf(k, d, c1, pos, old1)) /\ Decoded(k, d, c2, pos, DecodeOf(k, d, c2, pos, old2))
    BY <1>4, <1>9, DecodedOf
  <2>3. Decoded(k, d, c1, pos, e1) /\ Decoded(k, d, c2, pos, e2)
    BY <1>10, <1>11, <2>2
  <2>4. QED
    BY <2>1, <2>3 DEF Decoded
<1>15. CASE ~r.ok
  <2>1. ~e1.ok /\ ~e2.ok
    BY <1>12, <1>15 DEF DecodeMap, Bad
  <2>2. QED
    BY <1>10, <1>11, <2>1 DEF Similar
<1>16. CASE r.ok
  <2>1. PICK n : n = Number(r.val)
    OBVIOUS
  <2>2. n \in Nat /\ r.pos \in Nat /\ r.pos <= c1.end /\ r.pos <= c2.end
    BY <1>4, <1>5, <1>16, <2>1
  <2>3. e1 = MapBody(k, d, c1, r.pos, n, old1) /\ e2 = MapBody(k, d, c2, r.pos, n, old2)
    BY <1>12, <1>16, <2>1 DEF DecodeMap
  <2>4. ReadAll(k, Many(n, d.entry), c1, r.pos, e1, e1.val) /\ (e1.ok => Len(e1.val) = n)
    <3>1. EntriesRead(k, d, c1, r.pos, n, e1)
      BY <1>4, <1>9, <2>2, <2>3, MapRead
    <3>2. QED
      BY <3>1 DEF EntriesRead
  <2>5. ReadAll(k, Many(n, d.entry), c2, r.pos, e2, e2.val) /\ (e2.ok => Len(e2.val) = n)
    <3>1. EntriesRead(k, d, c2, r.pos, n, e2)
      BY <1>4, <1>9, <2>2, <2>3, MapRead
    <3>2. QED
      BY <3>1 DEF EntriesRead
  <2>6. /\ e1.ok <=> e2.ok
        /\ e1.ok => e1.pos = e2.pos /\ \A i \in 1 .. n : m.view[u][u][e1.val[i]] = m.view[u][u][e2.val[i]]
    BY <1>6, <1>7, <1>8, <2>2, <2>4, <2>5, ManySame, SMTT(20)
  <2>7. ASSUME e1.ok
        PROVE  Visible(m.view, d, d, e1.val) = Visible(m.view, d, d, e2.val)
    <3>1. PICK v1 : v1 = e1.val
      OBVIOUS
    <3>2. PICK v2 : v2 = e2.val
      OBVIOUS
    <3>3. PICK f : f = m.view[u][u]
      OBVIOUS
    <3>4. \A v : Visible(m.view, d, d, v) = Entered(f, v)
      BY <1>6, <3>3 DEF Visible, Entered
    <3>5. KeepsKeys(f, S)
      <4>1. IsMap(d)
        BY DEF Sound
      <4>2. Desc[u].kind = "tuple" /\ Len(Desc[u].parts) = 2 /\ Desc[Desc[u].parts[1]].kind \in {"fixed", "blob"}
        BY <1>6, <4>1 DEF IsMap
      <4>3. \A v \in k.values[u] : m.view[u][u][v][1] = v[1]
        BY <1>8, <4>2 DEF KeySeen
      <4>4. QED
        BY <1>8, <1>13, <3>3, <4>3 DEF ShapesTyped, KeepsKeys
    <3>6. v1 \in Seq(S) /\ v2 \in Seq(S) /\ Len(v1) = n /\ Len(v2) = n
      BY <1>14, <2>4, <2>5, <2>6, <2>7, <3>1, <3>2
    <3>7. OneByOne(n, f, v1, f, v2)
      BY <2>6, <2>7, <3>1, <3>2, <3>3 DEF OneByOne
    <3>8. Entered(f, v1) = Entered(f, v2)
      BY ONLY <2>2, <3>5, <3>6, <3>7, EntriesSame
    <3>9. QED
      BY <3>1, <3>2, <3>4, <3>8
  <2>8. QED
    BY <1>10, <1>11, <2>6, <2>7 DEF Similar
<1>17. QED
  BY <1>15, <1>16

\* A union of which one arm is set.
One(d, tag, v) == [other \in DOMAIN d.arms |-> IF other = tag THEN <<v>> ELSE <<>>]

\* What a union is read like: as its arm, up to the end of the frame.
ArmRead(k, t, c, from, end, e, d, tag) ==
    \E old \in k.results[t] :
        LET x == k.decode[t][Body(c, end)][from][old]
        IN  /\ e.ok <=> x.ok
            /\ e.ok => x.val \in k.results[t] /\ e.pos = end /\ e.val = One(d, tag, x.val)

UnionRead(k, d, c, tag, from, end, e) ==
    /\ end > c.end => ~e.ok
    /\ end <= c.end /\ tag \notin DOMAIN d.arms =>
           e.ok /\ e.pos = end /\ e.val = [other \in DOMAIN d.arms |-> <<>>]
    /\ end <= c.end /\ tag \in DOMAIN d.arms => ArmRead(k, d.arms[tag], c, from, end, e, d, tag)

LEMMA UnionReads ==
    ASSUME NEW k, NEW d, Sound(d), Inner(k, d), d.kind = "union",
           NEW c \in Contexts, NEW tag, NEW from \in Nat, NEW end \in Nat, from <= end, NEW old \in Results(k, d),
           NEW e, e = UnionBody(k, d, c, tag, from, end, old)
    PROVE  UnionRead(k, d, c, tag, from, end, e)
<1>1. c.end \in Nat
  BY ContextIs
<1>2. ASSUME end > c.end
      PROVE  ~e.ok
  BY <1>2 DEF UnionBody, Bad
<1>3. ASSUME end <= c.end, tag \notin DOMAIN d.arms
      PROVE  e.ok /\ e.pos = end /\ e.val = [other \in DOMAIN d.arms |-> <<>>]
  BY <1>1, <1>3 DEF UnionBody, Ok
<1>4. ASSUME end <= c.end, tag \in DOMAIN d.arms
      PROVE  ArmRead(k, d.arms[tag], c, from, end, e, d, tag)
  <2>1. PICK t : t = d.arms[tag]
    OBVIOUS
  <2>2. t \in Types /\ DecodeTyped(k, t)
    BY <1>4, <2>1 DEF Inner, Parts
  <2>3. PICK o : o = OldArm(k, d, tag, old)
    OBVIOUS
  <2>4. o \in k.results[t]
    BY <1>4, <2>1, <2>3, OldArmIs
  <2>5. PICK b : b = Body(c, end)
    OBVIOUS
  <2>6. b \in Contexts /\ b.end = end
    BY <1>4, <2>5, BodyIs
  <2>7. PICK x : x = k.decode[t][b][from][o]
    OBVIOUS
  <2>8. Result(k, t, b, from, x)
    BY <2>2, <2>4, <2>6, <2>7 DEF DecodeTyped
  <2>9. x.ok \in BOOLEAN /\ x.val \in k.results[t]
    BY <2>8 DEF Result
  <2>10. e = SetArm(d, tag, end, x)
    <3>1. ~(end > c.end)
      BY <1>1, <1>4
    <3>2. e = SetArm(d, tag, end, k.decode[d.arms[tag]][Body(c, end)][from][OldArm(k, d, tag, old)])
      BY <1>4, <3>1 DEF UnionBody, OldArm
    <3>3. QED
      BY ONLY <2>1, <2>3, <2>5, <2>7, <3>2
  <2>11. (e.ok <=> x.ok) /\ (e.ok => e.pos = end /\ e.val = One(d, tag, x.val))
    <3>1. CASE x.ok
      <4>1. PICK none : none = [other \in DOMAIN d.arms |-> <<>>]
        OBVIOUS
      <4>2. PICK one : one = <<x.val>>
        OBVIOUS
      <4>3. PICK arms : arms = DOMAIN d.arms
        OBVIOUS
      <4>4. [none EXCEPT ![tag] = one] = One(d, tag, x.val)
        <5>1. tag \in arms /\ none = [other \in arms |-> <<>>]
          BY <1>4, <4>1, <4>3
        <5>2. [none EXCEPT ![tag] = one] = [other \in arms |-> IF other = tag THEN one ELSE <<>>]
          BY <5>1
        <5>3. QED
          BY <4>2, <4>3, <5>2 DEF One
      <4>5. e = Ok(end, One(d, tag, x.val))
        BY <2>10, <3>1, <4>1, <4>2, <4>4 DEF SetArm
      <4>6. QED
        BY <3>1, <4>5 DEF Ok
    <3>2. CASE ~x.ok
      <4>1. ~e.ok
        BY <2>10, <3>2 DEF SetArm, Bad
      <4>2. QED
        BY <3>2, <4>1
    <3>3. QED
      BY <3>1, <3>2
  <2>12. ArmRead(k, t, c, from, end, e, d, tag)
    BY <2>4, <2>5, <2>7, <2>9, <2>11 DEF ArmRead
  <2>13. QED
    BY <2>1, <2>12
<1>5. QED
  BY <1>2, <1>3, <1>4 DEF UnionRead

LEMMA SameUnion ==
    ASSUME NEW k, NEW m, NEW d, d.kind = "union", Sound(d), KnownParts(k, m, d),
           NEW c1, NEW c2, Alongside(c1, c2), NEW pos \in Nat, pos <= c1.end,
           NEW old1 \in Results(k, d), NEW old2 \in Results(k, d)
    PROVE  Similar(m, d, DecodeOf(k, d, c1, pos, old1), DecodeOf(k, d, c2, pos, old2))
<1>1. PICK r : r = Slice(c1, pos, 2)
  OBVIOUS
<1>2. r = Slice(c2, pos, 2)
  BY <1>1, SliceAlongside
<1>3. c1 \in Contexts /\ c2 \in Contexts /\ c2.end = c1.end /\ c1.end \in Nat
  BY ContextIs DEF Alongside
<1>4. r.ok => r.pos \in Nat /\ r.pos <= c1.end /\ r.val[1] \in Nat /\ r.val[2] \in Nat
  BY <1>1, <1>3, HeaderRead
<1>5. Inner(k, d)
  BY InnerOfKnown
<1>6. PICK e1 : e1 = DecodeOf(k, d, c1, pos, old1)
  OBVIOUS
<1>7. PICK e2 : e2 = DecodeOf(k, d, c2, pos, old2)
  OBVIOUS
<1>8. e1 = DecodeUnion(k, d, c1, r, old1) /\ e2 = DecodeUnion(k, d, c2, r, old2)
  BY <1>1, <1>2, <1>6, <1>7 DEF DecodeOf
<1>9. CASE ~r.ok
  <2>1. ~e1.ok /\ ~e2.ok
    BY <1>8, <1>9 DEF DecodeUnion, Bad
  <2>2. QED
    BY <1>6, <1>7, <2>1 DEF Similar
<1>10. CASE r.ok
  <2>1. PICK tag : tag = r.val[1]
    OBVIOUS
  <2>2. PICK from : from = r.pos
    OBVIOUS
  <2>3. PICK end : end = from + r.val[2]
    OBVIOUS
  <2>4. from \in Nat /\ end \in Nat /\ from <= end
    BY <1>4, <1>10, <2>2, <2>3
  <2>5. e1 = UnionBody(k, d, c1, tag, from, end, old1) /\ e2 = UnionBody(k, d, c2, tag, from, end, old2)
    BY <1>8, <1>10, <2>1, <2>2, <2>3 DEF DecodeUnion
  <2>6. UnionRead(k, d, c1, tag, from, end, e1) /\ UnionRead(k, d, c2, tag, from, end, e2)
    BY <1>3, <1>5, <2>4, <2>5, UnionReads
  <2>7. CASE end > c1.end
    <3>1. ~e1.ok /\ ~e2.ok
      BY <1>3, <2>6, <2>7 DEF UnionRead
    <3>2. QED
      BY <1>6, <1>7, <3>1 DEF Similar
  <2>8. CASE end <= c1.end /\ tag \notin DOMAIN d.arms
    <3>1. e1.ok /\ e2.ok /\ e1.pos = e2.pos /\ e1.val = e2.val
      BY <1>3, <2>6, <2>8 DEF UnionRead
    <3>2. Similar(m, d, e1, e2)
      BY <3>1 DEF Similar
    <3>3. QED
      BY <1>6, <1>7, <3>2
  <2>9. CASE end <= c1.end /\ tag \in DOMAIN d.arms
    <3>1. PICK t : t = d.arms[tag]
      OBVIOUS
    <3>2. t \in Types /\ Known(k, m, t)
      BY <2>9, <3>1 DEF KnownParts, Parts
    <3>3. SameFor(k, m, t)
      BY <3>2 DEF Known
    <3>4. ArmRead(k, t, c1, from, end, e1, d, tag) /\ ArmRead(k, t, c2, from, end, e2, d, tag)
      BY <1>3, <2>6, <2>9, <3>1 DEF UnionRead
    <3>5. PICK b1 : b1 = Body(c1, end)
      OBVIOUS
    <3>6. PICK b2 : b2 = Body(c2, end)
      OBVIOUS
    <3>7. Alongside(b1, b2) /\ b1.end = end
      <4>1. b1 \in Contexts /\ b1.end = end /\ b1.bytes = c1.bytes
        BY <1>3, <2>4, <2>9, <3>5, BodyIs
      <4>2. b2 \in Contexts /\ b2.end = end /\ b2.bytes = c2.bytes
        BY <1>3, <2>4, <2>9, <3>6, BodyIs
      <4>3. QED
        BY <4>1, <4>2 DEF Alongside
    <3>8. PICK o1 \in k.results[t] :
              LET x == k.decode[t][b1][from][o1]
              IN  /\ e1.ok <=> x.ok
                  /\ e1.ok => x.val \in k.results[t] /\ e1.pos = end /\ e1.val = One(d, tag, x.val)
      BY <3>4, <3>5 DEF ArmRead
    <3>9. PICK o2 \in k.results[t] :
              LET x == k.decode[t][b2][from][o2]
              IN  /\ e2.ok <=> x.ok
                  /\ e2.ok => x.val \in k.results[t] /\ e2.pos = end /\ e2.val = One(d, tag, x.val)
      BY <3>4, <3>6 DEF ArmRead
    <3>10. PICK x1 : x1 = k.decode[t][b1][from][o1]
      OBVIOUS
    <3>11. PICK x2 : x2 = k.decode[t][b2][from][o2]
      OBVIOUS
    <3>12. Alike(m, t, x1, x2)
      BY <2>4, <3>3, <3>7, <3>8, <3>9, <3>10, <3>11 DEF SameFor
    <3>13. /\ e1.ok <=> x1.ok
           /\ e1.ok => e1.pos = end /\ e1.val = One(d, tag, x1.val)
      BY <3>8, <3>10
    <3>14. /\ e2.ok <=> x2.ok
           /\ e2.ok => e2.pos = end /\ e2.val = One(d, tag, x2.val)
      BY <3>9, <3>11
    <3>15. e1.ok <=> e2.ok
      BY <3>12, <3>13, <3>14 DEF Alike
    <3>16. ASSUME e1.ok
           PROVE  e1.pos = e2.pos /\ Visible(m.view, d, d, e1.val) = Visible(m.view, d, d, e2.val)
      <4>1. PICK f : f = m.view[t][t]
        OBVIOUS
      <4>2. f[x1.val] = f[x2.val]
        BY <3>12, <3>13, <3>16, <4>1 DEF Alike
      <4>3. ASSUME NEW v
            PROVE  Visible(m.view, d, d, One(d, tag, v)) = One(d, tag, f[v])
        <5>1. ASSUME NEW other \in DOMAIN d.arms
              PROVE  [i \in 1 .. Len(One(d, tag, v)[other]) |->
                         m.view[d.arms[other]][d.arms[other]][One(d, tag, v)[other][i]]] = One(d, tag, f[v])[other]
          <6>1. CASE other = tag
            <7>1. One(d, tag, v)[other] = <<v>> /\ One(d, tag, f[v])[other] = <<f[v]>>
              BY <5>1, <6>1 DEF One
            <7>2. [i \in 1 .. Len(<<v>>) |-> f[<<v>>[i]]] = <<f[v]>>
              OBVIOUS
            <7>3. QED
              BY <3>1, <4>1, <6>1, <7>1, <7>2
          <6>2. CASE other # tag
            <7>1. One(d, tag, v)[other] = <<>> /\ One(d, tag, f[v])[other] = <<>>
              BY <5>1, <6>2 DEF One
            <7>2. PICK g : g = m.view[d.arms[other]][d.arms[other]]
              OBVIOUS
            <7>3. [i \in 1 .. Len(<<>>) |-> g[<<>>[i]]] = <<>>
              OBVIOUS
            <7>4. QED
              BY <7>1, <7>2, <7>3
          <6>3. QED
            BY <6>1, <6>2
        <5>2. Visible(m.view, d, d, One(d, tag, v)) =
                  [other \in DOMAIN d.arms |-> [i \in 1 .. Len(One(d, tag, v)[other]) |->
                         m.view[d.arms[other]][d.arms[other]][One(d, tag, v)[other][i]]]]
          BY DEF Visible
        <5>3. Visible(m.view, d, d, One(d, tag, v)) = [other \in DOMAIN d.arms |-> One(d, tag, f[v])[other]]
          BY <5>1, <5>2
        <5>4. QED
          BY <5>3 DEF One
      <4>4. QED
        BY <3>13, <3>14, <3>15, <3>16, <4>2, <4>3
    <3>17. QED
      BY <1>6, <1>7, <3>15, <3>16 DEF Similar
  <2>10. QED
    BY <1>3, <2>4, <2>7, <2>8, <2>9
<1>11. QED
  BY <1>9, <1>10

LEMMA SameOf ==
    ASSUME NEW k, NEW m, NEW t \in Types, NEW d, d = Desc[t], Sound(d), KnownParts(k, m, d),
           NEW c1, NEW c2, Alongside(c1, c2), NEW pos \in Nat, pos <= c1.end,
           NEW old1 \in Results(k, d), NEW old2 \in Results(k, d)
    PROVE  Similar(m, d, DecodeOf(k, d, c1, pos, old1), DecodeOf(k, d, c2, pos, old2))
<1>1. d.kind \in Kinds
  BY DEF Sound
<1>2. CASE d.kind \in {"skipped", "fixed", "blob"}
  BY <1>2, SamePlain
<1>3. CASE d.kind = "slice"
  BY <1>3, SameSlice
<1>4. CASE d.kind = "pointer"
  BY <1>4, SamePointer
<1>5. CASE d.kind = "tuple"
  BY <1>5, SameTuple
<1>6. CASE d.kind = "map"
  BY <1>6, SameMap
<1>7. CASE d.kind = "union"
  BY <1>7, SameUnion
<1>8. QED
  BY <1>1, <1>2, <1>3, <1>4, <1>5, <1>6, <1>7 DEF Kinds

LEMMA SameMade ==
    ASSUME NEW k, NEW m, NEW t \in Types, KnownParts(k, m, Desc[t]),
           NEW q, q = Made(k), NEW p, p = Meant(m, q)
    PROVE  SameFor(q, p, t)
<1>1. PICK d : d = Desc[t]
  OBVIOUS
<1>2. Sound(d) /\ KnownParts(k, m, d) /\ Inner(k, d)
  BY <1>1, Described, InnerOfKnown
<1>3. q.results[t] = Results(k, d)
  BY <1>1, MadeIs DEF Results
<1>4. Results(k, d) \subseteq q.values[t]
  <2>1. \A u \in Parts(d) : k.results[u] \subseteq k.values[u]
    BY <1>2 DEF KnownParts, Known, CodecTyped, ShapesTyped
  <2>2. Shape(k.results, d, TRUE) \subseteq Shape(k.values, d, FALSE)
    BY <1>2, <2>1, ResultsAreValues
  <2>3. q.values[t] = Shape(k.values, d, FALSE)
    BY <1>1, MadeIs
  <2>4. QED
    BY <2>2, <2>3 DEF Results
<1>5. ASSUME NEW c1, NEW c2, Alongside(c1, c2), NEW pos \in Nat, NEW old1 \in q.results[t], NEW old2 \in q.results[t], pos <= c1.end
      PROVE  Alike(p, t, q.decode[t][c1][pos][old1], q.decode[t][c2][pos][old2])
  <2>1. c1 \in Contexts /\ c2 \in Contexts /\ pos <= c2.end
    BY <1>5 DEF Alongside
  <2>2. old1 \in Results(k, d) /\ old2 \in Results(k, d)
    BY <1>3, <1>5
  <2>3. PICK r1 : r1 = DecodeOf(k, d, c1, pos, old1)
    OBVIOUS
  <2>4. PICK r2 : r2 = DecodeOf(k, d, c2, pos, old2)
    OBVIOUS
  <2>5. q.decode[t][c1][pos][old1] = r1
    BY <1>1, <1>5, <2>1, <2>3, MadeDecode
  <2>6. q.decode[t][c2][pos][old2] = r2
    BY <1>1, <1>5, <2>1, <2>4, MadeDecode
  <2>7. Similar(m, d, r1, r2)
    <3>1. Similar(m, d, DecodeOf(k, d, c1, pos, old1), DecodeOf(k, d, c2, pos, old2))
      BY <1>1, <1>2, <1>5, <2>2, SameOf
    <3>2. QED
      BY <2>3, <2>4, <3>1
  <2>8. r1.val \in q.values[t] /\ r2.val \in q.values[t]
    <3>1. Decoded(k, d, c1, pos, DecodeOf(k, d, c1, pos, old1)) /\ Decoded(k, d, c2, pos, DecodeOf(k, d, c2, pos, old2))
      BY <1>2, <1>5, <2>1, <2>2, DecodedOf
    <3>2. Decoded(k, d, c1, pos, r1) /\ Decoded(k, d, c2, pos, r2)
      BY <2>3, <2>4, <3>1
    <3>3. r1.val \in Results(k, d) /\ r2.val \in Results(k, d)
      BY <3>2 DEF Decoded
    <3>4. QED
      BY <1>4, <3>3
  <2>9. p.view[t][t][r1.val] = Visible(m.view, d, d, r1.val) /\ p.view[t][t][r2.val] = Visible(m.view, d, d, r2.val)
    BY <1>1, <2>8, MeantIs
  <2>10. Alike(p, t, r1, r2)
    BY <2>7, <2>9 DEF Similar, Alike
  <2>11. QED
    BY <2>5, <2>6, <2>10
<1>6. QED
  BY <1>5 DEF SameFor

\* All that is known of the types that are nested to some depth.
LEMMA LevelKnown == \A n \in Nat : \A t \in Nested[n] : t \in Types /\ Known(Codecs[n], Meanings[n], t)
<1> DEFINE P(n) == \A t \in Nested[n] : t \in Types /\ Known(Codecs[n], Meanings[n], t)
           N    == {n \in Nat : P(n)}
<1>1. P(0)
  BY NestedIs
<1>2. ASSUME NEW n \in Nat, P(n)
      PROVE  P(n + 1)
  <2>1. ASSUME NEW t \in Nested[n + 1]
        PROVE  t \in Types /\ Known(Codecs[n + 1], Meanings[n + 1], t)
    <3>1. PICK k : k = Codecs[n]
      OBVIOUS
    <3>2. PICK m : m = Meanings[n]
      OBVIOUS
    <3>3. PICK q : q = Made(k)
      OBVIOUS
    <3>4. PICK p : p = Meant(m, q)
      OBVIOUS
    <3>5. Codecs[n + 1] = q /\ Meanings[n + 1] = p
      BY <3>1, <3>2, <3>3, <3>4, CodecsAre, MeaningsAre
    <3>6. t \in Types /\ Parts(Desc[t]) \subseteq Nested[n]
      BY <2>1, NestedParts
    <3>7. \A u \in Parts(Desc[t]) : u \in Types /\ Known(k, m, u)
      BY <1>2, <3>1, <3>2, <3>6
    <3>8. \A u \in Parts(Desc[t]) : u \in Types /\ CodecTyped(k, u) /\ PlainSeen(k, m, u) /\ WirelessSeen(k, m, u)
      BY <3>7 DEF Known
    <3>9. CodecTyped(q, t)
      BY <3>3, <3>6, <3>8, MadeTyped
    <3>10. PlainSeen(q, p, t)
      BY <3>3, <3>4, <3>6, PlainMade
    <3>11. KeySeen(q, p, t)
      BY <3>3, <3>4, <3>6, <3>8, KeyMade
    <3>12. WirelessSeen(q, p, t)
      BY <3>3, <3>4, <3>6, <3>8, WirelessMade
    <3>13. SameFor(q, p, t)
      <4>1. KnownParts(k, m, Desc[t])
        BY <3>7 DEF KnownParts
      <4>2. QED
        BY <3>3, <3>4, <3>6, <4>1, SameMade
    <3>14. QED
      BY <3>5, <3>6, <3>9, <3>10, <3>11, <3>12, <3>13 DEF Known
  <2>2. QED
    BY <2>1
<1>3. 0 \in N /\ \A n \in N : n + 1 \in N
  BY <1>1, <1>2
<1>4. \A n \in Nat : n \in N
  <2> HIDE DEF N
  <2>1. QED
    BY <1>3, InductionBySet
<1>5. QED
  BY <1>4

LEMMA MeaningIs ==
    ASSUME NEW t \in Types
    PROVE  Known(Codec, Meaning, t)
  BY LevelKnown, DepthAssumption DEF Codec, Meaning

\* What a reader has is one decoding of what arrived.
LEMMA SameNow == Inv => SameOutcome
<1>1. SUFFICES ASSUME Inv, Received
               PROVE  /\ got["slice"].ok = got["stream"].ok
                      /\ got["slice"].ok =>
                            /\ got["slice"].pos = got["stream"].pos
                            /\ Seen(version, got["slice"].val) = Seen(version, got["stream"].val)
  BY DEF SameOutcome
<1>2. PICK a : a = "slice"
  OBVIOUS
<1>3. PICK b : b = "stream"
  OBVIOUS
<1>4. a \in Readers /\ b \in Readers
  BY <1>2, <1>3 DEF Readers
<1>5. PICK old1 \in Codec.results[version] : got[a] = Decode(version, Input(a), 0, old1)
  BY <1>1, <1>4 DEF Inv, GotIs
<1>6. PICK old2 \in Codec.results[version] : got[b] = Decode(version, Input(b), 0, old2)
  BY <1>1, <1>4 DEF Inv, GotIs
<1>7. wire \in Seq(Byte) /\ <<type, version>> \in Versions /\ got[a].ok \in BOOLEAN /\ got[b].ok \in BOOLEAN
  BY <1>1, <1>4 DEF Inv, TypeOK
<1>8. PICK c1 : c1 = Input(a)
  OBVIOUS
<1>9. PICK c2 : c2 = Input(b)
  OBVIOUS
<1>10. Alongside(c1, c2) /\ c1.end \in Nat
  <2>1. c1 \in Contexts /\ c1.end = Len(wire) /\ Len(wire) \in Nat /\ c1.bytes = wire
    BY <1>4, <1>7, <1>8, InputIs
  <2>2. c2 \in Contexts /\ c2.end = Len(wire) /\ c2.bytes = wire
    BY <1>4, <1>7, <1>9, InputIs
  <2>3. QED
    BY <2>1, <2>2 DEF Alongside
<1>11. version \in Types
  BY <1>7, VersionTypes
<1>12. SameFor(Codec, Meaning, version)
  BY <1>11, MeaningIs DEF Known
<1>13. PICK zero : zero = 0
  OBVIOUS
<1>14. zero \in Nat /\ zero <= c1.end
  BY <1>10, <1>13
<1>15. Alike(Meaning, version, Codec.decode[version][c1][zero][old1], Codec.decode[version][c2][zero][old2])
  BY <1>5, <1>6, <1>10, <1>12, <1>14 DEF SameFor
<1>16. got[a] = Codec.decode[version][c1][zero][old1] /\ got[b] = Codec.decode[version][c2][zero][old2]
  BY <1>5, <1>6, <1>8, <1>9, <1>13 DEF Decode
<1>17. Alike(Meaning, version, got[a], got[b])
  BY <1>15, <1>16
<1>18. QED
  BY <1>2, <1>3, <1>7, <1>17 DEF Alike, Seen

\* A stream and a slice of the same bytes, whole, cut or damaged, are decoded to
\* the same, whatever the two destinations held: the counts that the one checks
\* against what is left (ensureElements, ensureAvailable) refuse nothing that
\* the other accepts (src/codecs.go:784-863, src/decoder.go).
THEOREM SameWire == Spec => []SameOutcome
<1>1. QED
  BY SameNow, Invariance, PTL

-----------------------------------------------------------------------------
(* What is written is read.                                                 *)

\* The input has what was encoded from pos on, as far as the input goes; and it
\* has nothing behind an encoding that failed.
Carries(c, pos, e) ==
    /\ \A i \in 1 .. Len(e.bytes) : pos + i <= c.end => c.bytes[pos + i] = e.bytes[i]
    /\ ~e.ok => c.end <= pos + Len(e.bytes)

\* The first of two encodings, and the second.
LEMMA CarriesBoth ==
    ASSUME NEW c \in Contexts, NEW pos \in Nat, NEW a \in Encodings, NEW b \in Encodings, a.ok,
           NEW e, e = Then(a, b), Carries(c, pos, e),
           NEW next, next = pos + Len(a.bytes)
    PROVE  /\ Carries(c, pos, a)
           /\ Carries(c, next, b)
<1>1. c.end \in Nat
  BY ContextIs
<1>2. e.ok = b.ok /\ e.bytes = a.bytes \o b.bytes /\ Len(e.bytes) = Len(a.bytes) + Len(b.bytes)
  BY ThenTyped
<1>3. a.bytes \in Seq(Nat) /\ b.bytes \in Seq(Nat) /\ b.ok \in BOOLEAN
  BY DEF Encodings
<1>4. PICK x : x = a.bytes
  OBVIOUS
<1>5. PICK y : y = b.bytes
  OBVIOUS
<1>6. PICK z : z = e.bytes
  OBVIOUS
<1>7. x \in Seq(Nat) /\ y \in Seq(Nat) /\ z = x \o y /\ Len(x) \in Nat /\ Len(y) \in Nat /\ Len(z) = Len(x) + Len(y)
  BY <1>2, <1>3, <1>4, <1>5, <1>6, LenProperties
<1>8. /\ \A i \in 1 .. Len(x) : z[i] = x[i]
      /\ \A i \in 1 .. Len(y) : z[Len(x) + i] = y[i]
  BY <1>7, ConcatProperties
<1>9. \A i \in 1 .. Len(z) : pos + i <= c.end => c.bytes[pos + i] = z[i]
  BY <1>6 DEF Carries
<1>10. ~e.ok => c.end <= pos + Len(z)
  BY <1>6 DEF Carries
<1>11. \A i \in 1 .. Len(x) : pos + i <= c.end => c.bytes[pos + i] = x[i]
  <2>1. ASSUME NEW i \in 1 .. Len(x), pos + i <= c.end
        PROVE  c.bytes[pos + i] = x[i]
    <3>1. i \in 1 .. Len(z)
      BY <1>7
    <3>2. QED
      BY <1>8, <1>9, <2>1, <3>1
  <2>2. QED
    BY <2>1
<1>12. \A i \in 1 .. Len(y) : next + i <= c.end => c.bytes[next + i] = y[i]
  <2>1. ASSUME NEW i \in 1 .. Len(y), next + i <= c.end
        PROVE  c.bytes[next + i] = y[i]
    <3>1. PICK j : j = Len(x) + i
      OBVIOUS
    <3>2. j \in 1 .. Len(z) /\ pos + j = next + i
      BY <1>4, <1>7, <3>1
    <3>3. c.bytes[pos + j] = z[j]
      BY <1>9, <2>1, <3>2
    <3>4. z[j] = y[i]
      BY <1>8, <3>1
    <3>5. QED
      BY <3>2, <3>3, <3>4
  <2>2. QED
    BY <2>1
<1>13. ~b.ok => c.end <= next + Len(y)
  BY <1>1, <1>2, <1>4, <1>7, <1>10
<1>14. QED
  BY <1>4, <1>5, <1>11, <1>12, <1>13 DEF Carries

\* What a loop writes with each element, and what it had before.
Extended(k, types, values, buffered, f, i) ==
    /\ f[i].ok => f[i + 1] = Then(f[i], k.encode[types[i + 1]][buffered][values[i + 1]])
    /\ ~f[i].ok => f[i + 1] = f[i]

LEMMA EncodeSteps ==
    ASSUME NEW k, NEW types, Len(types) \in Nat, NEW values, NEW buffered,
           \A i \in 1 .. Len(types) : k.encode[types[i]][buffered][values[i]] \in Encodings,
           NEW f, f = EncodeUpTo(k, types, values, buffered)
    PROVE  /\ EncodeAll(k, types, values, buffered) = f[Len(types)]
           /\ f[0] = Written(<<>>)
           /\ \A i \in 0 .. Len(types) : f[i] \in Encodings
           /\ \A i \in 0 .. Len(types) - 1 : Extended(k, types, values, buffered, f, i)
<1>1. LET g == EncodeUpTo(k, types, values, buffered)
      IN  /\ EncodeAll(k, types, values, buffered) = g[Len(types)]
          /\ g[0] = Written(<<>>)
          /\ \A i \in Nat : g[i + 1] = AndEncode(k, types[i + 1], values[i + 1], buffered, g[i])
  BY ONLY EncodeLoop
<1>2. /\ EncodeAll(k, types, values, buffered) = f[Len(types)]
      /\ f[0] = Written(<<>>)
      /\ \A i \in Nat : f[i + 1] = AndEncode(k, types[i + 1], values[i + 1], buffered, f[i])
  BY <1>1
<1>3. \A i \in 0 .. Len(types) : f[i] \in Encodings
  BY EncodesAll
<1>4. ASSUME NEW i \in 0 .. Len(types) - 1
      PROVE  Extended(k, types, values, buffered, f, i)
  <2>1. i \in Nat
    OBVIOUS
  <2>2. f[i + 1] = AndEncode(k, types[i + 1], values[i + 1], buffered, f[i])
    BY <1>2, <2>1
  <2>3. QED
    BY <2>2 DEF AndEncode, Extended
<1>5. QED
  BY <1>2, <1>3, <1>4

\* The input that has all of a loop has its beginnings.
LEMMA CarriesAll ==
    ASSUME NEW k, NEW types, Len(types) \in Nat, NEW values, NEW buffered,
           \A i \in 1 .. Len(types) : k.encode[types[i]][buffered][values[i]] \in Encodings,
           NEW f, f = EncodeUpTo(k, types, values, buffered),
           NEW c \in Contexts, NEW pos \in Nat, Carries(c, pos, f[Len(types)])
    PROVE  \A i \in 0 .. Len(types) : Carries(c, pos, f[i])
<1>1. PICK n \in Nat : n = Len(types)
  OBVIOUS
<1>2. \A i \in 0 .. n : f[i] \in Encodings
  BY <1>1, EncodeSteps
<1>3. \A i \in 0 .. n - 1 : Extended(k, types, values, buffered, f, i)
  BY <1>1, EncodeSteps
<1> DEFINE T == {j \in Nat : j <= n => Carries(c, pos, f[n - j])}
<1>4. 0 \in T
  BY <1>1
<1>5. ASSUME NEW j \in Nat, j \in T
      PROVE  j + 1 \in T
  <2>1. SUFFICES ASSUME j + 1 <= n
                 PROVE  Carries(c, pos, f[n - (j + 1)])
    OBVIOUS
  <2>2. PICK i : i = n - (j + 1)
    OBVIOUS
  <2>3. i \in 0 .. n - 1 /\ i + 1 = n - j /\ i \in 0 .. n /\ i + 1 \in 1 .. n
    BY <2>1, <2>2
  <2>4. Carries(c, pos, f[i + 1])
    BY <1>5, <2>1, <2>3
  <2>5. PICK b : b = k.encode[types[i + 1]][buffered][values[i + 1]]
    OBVIOUS
  <2>6. b \in Encodings
    BY <1>1, <2>3, <2>5
  <2>7. CASE f[i].ok
    <3>1. PICK a : a = f[i]
      OBVIOUS
    <3>2. PICK e : e = f[i + 1]
      OBVIOUS
    <3>3. PICK next : next = pos + Len(a.bytes)
      OBVIOUS
    <3>4. a \in Encodings /\ a.ok /\ e = Then(a, b) /\ Carries(c, pos, e)
      BY <1>2, <1>3, <2>3, <2>4, <2>5, <2>7, <3>1, <3>2 DEF Extended
    <3>5. Carries(c, pos, a)
      BY <2>6, <3>3, <3>4, CarriesBoth
    <3>6. QED
      BY <2>2, <3>1, <3>5
  <2>8. CASE ~f[i].ok
    <3>1. f[i] = f[i + 1]
      BY <1>3, <2>3, <2>8 DEF Extended
    <3>2. QED
      BY <2>2, <2>4, <3>1
  <2>9. QED
    BY <2>7, <2>8
<1>6. Nat \subseteq T
  <2> HIDE DEF T
  <2>1. QED
    BY <1>4, <1>5, InductionBySet
<1>7. ASSUME NEW i \in 0 .. n
      PROVE  Carries(c, pos, f[i])
  <2>1. n - i \in Nat /\ n - i <= n /\ n - (n - i) = i
    OBVIOUS
  <2>2. n - i \in T
    BY <1>6, <2>1
  <2>3. QED
    BY <2>1, <2>2
<1>8. QED
  BY <1>1, <1>7

\* What u reads of what t wrote.
Reads(m, t, u, v, c, pos, e, r) ==
    /\ r.ok <=> e.ok /\ pos + Len(e.bytes) <= c.end /\ v \in m.readable[t][u]
    /\ r.ok => r.pos = pos + Len(e.bytes) /\ m.view[u][u][r.val] = m.view[t][u][v]

Understood(k, m, t, u) ==
    \A buffered \in BOOLEAN : \A v \in k.values[t] : \A c \in Contexts : \A pos \in Nat : \A old \in k.results[u] :
        pos <= c.end /\ Carries(c, pos, k.encode[t][buffered][v]) =>
            Reads(m, t, u, v, c, pos, k.encode[t][buffered][v], k.decode[u][c][pos][old])

\* What is read of the first i elements.
AllLegible(m, tt, uu, values, i) == \A j \in 1 .. i : values[j] \in m.readable[tt[j]][uu[j]]
AllSeen(m, tt, uu, values, i, vals) ==
    \A j \in 1 .. i : m.view[uu[j]][uu[j]][vals[j]] = m.view[tt[j]][uu[j]][values[j]]

ReadsTo(m, tt, uu, values, c, pos, i, e, x) ==
    /\ x.ok <=> e.ok /\ pos + Len(e.bytes) <= c.end /\ AllLegible(m, tt, uu, values, i)
    /\ x.ok => x.pos = pos + Len(e.bytes) /\ AllSeen(m, tt, uu, values, i, x.val)

LEMMA ReadStep ==
    ASSUME NEW k, NEW m, NEW tt, NEW uu, Typed(k, uu), NEW c \in Contexts, NEW pos \in Nat, NEW olds,
           NEW i \in Nat, i + 1 <= Len(uu), NEW values,
           NEW t, t = tt[i + 1], NEW u, u = uu[i + 1], NEW v, v = values[i + 1], v \in k.values[t], Understood(k, m, t, u),
           NEW buffered \in BOOLEAN, NEW b \in Encodings, b = k.encode[t][buffered][v],
           NEW a \in Encodings, NEW e \in Encodings, a.ok => e = Then(a, b), ~a.ok => e = a, Carries(c, pos, e),
           NEW x, Sofar(k, uu, c, pos, olds, i, x), ReadsTo(m, tt, uu, values, c, pos, i, a, x),
           NEW y, y = AndDecode(k, u, c, i + 1, x)
    PROVE  ReadsTo(m, tt, uu, values, c, pos, i + 1, e, y)
<1>1. c.end \in Nat
  BY ContextIs
<1>2. Len(a.bytes) \in Nat /\ Len(b.bytes) \in Nat /\ Len(e.bytes) \in Nat
  BY LenProperties DEF Encodings
<1>3. ASSUME a.ok
      PROVE  e.ok = b.ok /\ Len(e.bytes) = Len(a.bytes) + Len(b.bytes)
  <2>1. e = Then(a, b)
    BY <1>3
  <2>2. Then(a, b).ok = b.ok
    BY ThenTyped
  <2>3. Len(Then(a, b).bytes) = Len(a.bytes) + Len(b.bytes)
    BY ThenTyped
  <2>4. QED
    BY <2>1, <2>2, <2>3
<1>e. e.ok \in BOOLEAN /\ b.ok \in BOOLEAN
  BY DEF Encodings
<1>a. PICK la : la = Len(a.bytes)
  OBVIOUS
<1>b. PICK lb : lb = Len(b.bytes)
  OBVIOUS
<1>l. PICK le : le = Len(e.bytes)
  OBVIOUS
<1>n. la \in Nat /\ lb \in Nat /\ (a.ok => le = la + lb)
  BY <1>2, <1>3, <1>a, <1>b, <1>l
<1>4. AllLegible(m, tt, uu, values, i + 1) <=> AllLegible(m, tt, uu, values, i) /\ v \in m.readable[t][u]
  <2>1. \A j : j \in 1 .. i + 1 <=> j \in 1 .. i \/ j = i + 1
    OBVIOUS
  <2>2. QED
    BY <2>1 DEF AllLegible
<1>5. CASE ~x.ok
  <2>1. y = x
    BY <1>5 DEF AndDecode
  <2>2. ~(e.ok /\ pos + Len(e.bytes) <= c.end /\ AllLegible(m, tt, uu, values, i + 1))
    <3>1. CASE ~a.ok
      BY <3>1
    <3>2. CASE a.ok
      <4>1. ~(pos + Len(a.bytes) <= c.end /\ AllLegible(m, tt, uu, values, i))
        BY <1>5, <3>2 DEF ReadsTo
      <4>2. pos + le <= c.end => pos + la <= c.end
        BY <1>1, <1>n, <3>2
      <4>3. QED
        BY <1>4, <1>a, <1>l, <4>1, <4>2
    <3>3. QED
      BY <3>1, <3>2
  <2>3. QED
    BY <1>5, <2>1, <2>2 DEF ReadsTo
<1>6. CASE x.ok
  <2>1. /\ a.ok /\ pos + Len(a.bytes) <= c.end /\ AllLegible(m, tt, uu, values, i)
        /\ x.pos = pos + Len(a.bytes) /\ AllSeen(m, tt, uu, values, i, x.val)
    BY <1>6 DEF ReadsTo
  <2>2. PICK next : next = x.pos
    OBVIOUS
  <2>3. next = pos + Len(a.bytes) /\ next \in Nat /\ next <= c.end
    BY <1>2, <2>1, <2>2, SMTT(20)
  <2>n. next + lb = pos + le
    <3>1. next = pos + la /\ le = la + lb /\ pos \in Nat /\ la \in Nat /\ lb \in Nat
      BY <1>a, <1>n, <2>1, <2>3
    <3>2. QED
      BY ONLY <3>1
  <2>4. Carries(c, next, b)
    BY <2>1, <2>3, CarriesBoth
  <2>5. PICK old : old = OldOf(k, u, i + 1, x.val)
    OBVIOUS
  <2>6. PICK r : r = k.decode[u][c][next][old]
    OBVIOUS
  <2>7. Placed(k, c, pos, i, u, old, x, r, y)
    BY <1>6, <2>2, <2>5, <2>6, StepPlaces
  <2>8. /\ old \in k.results[u] /\ y.ok = r.ok /\ y.pos = r.pos /\ y.val[i + 1] = r.val
        /\ \A j \in 1 .. i : y.val[j] = x.val[j]
    BY <2>7 DEF Placed
  <2>9. r.ok \in BOOLEAN
    BY <2>7 DEF Placed
  <2>10. Reads(m, t, u, v, c, next, b, r)
    BY <2>3, <2>4, <2>6, <2>8 DEF Understood
  <2>11. y.ok <=> e.ok /\ pos + Len(e.bytes) <= c.end /\ AllLegible(m, tt, uu, values, i + 1)
    <3>1. r.ok <=> b.ok /\ next + Len(b.bytes) <= c.end /\ v \in m.readable[t][u]
      BY <2>10 DEF Reads
    <3>2. next + Len(b.bytes) = pos + Len(e.bytes) /\ e.ok = b.ok
      BY <1>3, <1>b, <1>l, <2>n, <2>1
    <3>3. QED
      BY <1>4, <2>1, <2>8, <3>1, <3>2
  <2>12. ASSUME y.ok
         PROVE  y.pos = pos + Len(e.bytes) /\ AllSeen(m, tt, uu, values, i + 1, y.val)
    <3>1. r.pos = next + Len(b.bytes) /\ m.view[u][u][r.val] = m.view[t][u][v]
      BY <2>8, <2>10, <2>12 DEF Reads
    <3>2. y.pos = pos + Len(e.bytes)
      BY <1>b, <1>l, <2>n, <2>8, <3>1
    <3>3. ASSUME NEW j \in 1 .. i + 1
          PROVE  m.view[uu[j]][uu[j]][y.val[j]] = m.view[tt[j]][uu[j]][values[j]]
      <4>1. CASE j = i + 1
        BY <2>8, <3>1, <4>1
      <4>2. CASE j # i + 1
        <5>1. j \in 1 .. i
          BY <4>2
        <5>2. QED
          BY <2>1, <2>8, <5>1 DEF AllSeen
      <4>3. QED
        BY <4>1, <4>2
    <3>4. QED
      BY <3>2, <3>3 DEF AllSeen
  <2>13. QED
    BY <2>11, <2>12 DEF ReadsTo
<1>7. QED
  BY <1>5, <1>6

\* The elements that the decoder knows, of those that were encoded.
Understand(k, m, tt, uu, values, n) ==
    \A i \in 1 .. n : values[i] \in k.values[tt[i]] /\ Understood(k, m, tt[i], uu[i])

LEMMA ReadsUpTo ==
    ASSUME NEW k, NEW m, NEW tt, NEW uu, Typed(k, uu), Len(tt) \in Nat, NEW values, NEW buffered \in BOOLEAN,
           \A i \in 1 .. Len(tt) : k.encode[tt[i]][buffered][values[i]] \in Encodings,
           NEW n \in Nat, n <= Len(tt), n <= Len(uu), Understand(k, m, tt, uu, values, n),
           NEW c \in Contexts, NEW pos \in Nat, pos <= c.end, NEW olds, Olds(k, uu, olds),
           NEW f, f = EncodeUpTo(k, tt, values, buffered), Carries(c, pos, f[Len(tt)]),
           NEW g, g = DecodeUpTo(k, uu, c, pos, olds)
    PROVE  \A i \in 0 .. n : ReadsTo(m, tt, uu, values, c, pos, i, f[i], g[i])
<1>1. /\ f[0] = Written(<<>>)
      /\ \A i \in 0 .. Len(tt) : f[i] \in Encodings
      /\ \A i \in 0 .. Len(tt) - 1 : Extended(k, tt, values, buffered, f, i)
  BY EncodeSteps
<1>2. \A i \in 0 .. Len(tt) : Carries(c, pos, f[i])
  BY CarriesAll
<1>3. LET h == DecodeUpTo(k, uu, c, pos, olds)
      IN  /\ DecodeAll(k, uu, c, pos, olds) = h[Len(uu)]
          /\ h[0] = Ok(pos, olds)
          /\ \A i \in 0 .. Len(uu) : Sofar(k, uu, c, pos, olds, i, h[i])
          /\ \A i \in 0 .. Len(uu) - 1 : h[i + 1] = AndDecode(k, uu[i + 1], c, i + 1, h[i])
  BY DecodesAll
<1>4. /\ g[0] = Ok(pos, olds)
      /\ \A i \in 0 .. Len(uu) : Sofar(k, uu, c, pos, olds, i, g[i])
      /\ \A i \in 0 .. Len(uu) - 1 : g[i + 1] = AndDecode(k, uu[i + 1], c, i + 1, g[i])
  BY <1>3
<1>5. Len(uu) \in Nat
  BY DEF Typed
<1> DEFINE T == {i \in Nat : i <= n => ReadsTo(m, tt, uu, values, c, pos, i, f[i], g[i])}
<1>6. 0 \in T
  <2>1. f[0].ok /\ Len(f[0].bytes) = 0
    BY <1>1, EmptySeq DEF Written
  <2>2. g[0].ok /\ g[0].pos = pos
    BY <1>4 DEF Ok
  <2>3. AllLegible(m, tt, uu, values, 0) /\ AllSeen(m, tt, uu, values, 0, g[0].val)
    BY DEF AllLegible, AllSeen
  <2>4. pos + 0 = pos
    OBVIOUS
  <2>5. ReadsTo(m, tt, uu, values, c, pos, 0, f[0], g[0])
    BY <2>1, <2>2, <2>3, <2>4 DEF ReadsTo
  <2>6. QED
    BY <2>5
<1>7. ASSUME NEW i \in Nat, i \in T
      PROVE  i + 1 \in T
  <2>1. SUFFICES ASSUME i + 1 <= n
                 PROVE  ReadsTo(m, tt, uu, values, c, pos, i + 1, f[i + 1], g[i + 1])
    OBVIOUS
  <2>2. ReadsTo(m, tt, uu, values, c, pos, i, f[i], g[i])
    BY <1>7, <2>1
  <2>3. /\ i \in 0 .. Len(tt) - 1 /\ i \in 0 .. Len(tt) /\ i + 1 \in 0 .. Len(tt) /\ i + 1 \in 1 .. Len(tt)
        /\ i \in 0 .. Len(uu) - 1 /\ i \in 0 .. Len(uu) /\ i + 1 <= Len(uu) /\ i + 1 \in 1 .. n
    BY <1>5, <2>1
  <2>4. PICK t : t = tt[i + 1]
    OBVIOUS
  <2>5. PICK u : u = uu[i + 1]
    OBVIOUS
  <2>6. PICK v : v = values[i + 1]
    OBVIOUS
  <2>7. v \in k.values[t] /\ Understood(k, m, t, u)
    BY <2>3, <2>4, <2>5, <2>6 DEF Understand
  <2>8. PICK b : b = k.encode[t][buffered][v]
    OBVIOUS
  <2>9. b \in Encodings
    BY <2>3, <2>4, <2>6, <2>8
  <2>10. PICK a : a = f[i]
    OBVIOUS
  <2>11. PICK e : e = f[i + 1]
    OBVIOUS
  <2>12. a \in Encodings /\ e \in Encodings /\ Carries(c, pos, e)
    BY <1>1, <1>2, <2>3, <2>10, <2>11
  <2>13. (a.ok => e = Then(a, b)) /\ (~a.ok => e = a)
    <3>1. Extended(k, tt, values, buffered, f, i)
      BY <1>1, <2>3
    <3>2. QED
      BY <2>4, <2>6, <2>8, <2>10, <2>11, <3>1 DEF Extended
  <2>14. PICK x : x = g[i]
    OBVIOUS
  <2>15. PICK y : y = g[i + 1]
    OBVIOUS
  <2>16. Sofar(k, uu, c, pos, olds, i, x) /\ ReadsTo(m, tt, uu, values, c, pos, i, a, x)
    BY <1>4, <2>2, <2>3, <2>10, <2>14
  <2>17. y = AndDecode(k, u, c, i + 1, x)
    BY <1>4, <2>3, <2>5, <2>14, <2>15
  <2>18. ReadsTo(m, tt, uu, values, c, pos, i + 1, e, y)
    BY <2>3, <2>4, <2>5, <2>6, <2>7, <2>8, <2>9, <2>12, <2>13, <2>16, <2>17, ReadStep
  <2>19. QED
    BY <2>11, <2>15, <2>18
<1>8. Nat \subseteq T
  <2> HIDE DEF T
  <2>1. QED
    BY <1>6, <1>7, InductionBySet
<1>9. QED
  BY <1>8

\* What is read of all elements.
ReadsAll(m, tt, uu, values, c, pos, e, r, vals) ==
    /\ r.ok <=> e.ok /\ pos + Len(e.bytes) <= c.end /\ AllLegible(m, tt, uu, values, Len(tt))
    /\ r.ok => r.pos = pos + Len(e.bytes) /\ AllSeen(m, tt, uu, values, Len(tt), vals)

LEMMA AllRead ==
    ASSUME NEW k, NEW m, NEW tt, NEW uu, Typed(k, uu), Len(tt) = Len(uu), NEW values, NEW buffered \in BOOLEAN,
           \A i \in 1 .. Len(tt) : k.encode[tt[i]][buffered][values[i]] \in Encodings,
           Understand(k, m, tt, uu, values, Len(tt)),
           NEW c \in Contexts, NEW pos \in Nat, pos <= c.end,
           NEW e, e = EncodeAll(k, tt, values, buffered), Carries(c, pos, e),
           NEW r, NEW vals, ReadAll(k, uu, c, pos, r, vals)
    PROVE  ReadsAll(m, tt, uu, values, c, pos, e, r, vals)
<1>1. PICK n \in Nat : n = Len(tt) /\ n = Len(uu)
  BY DEF Typed
<1>2. PICK olds : /\ Olds(k, uu, olds)
                  /\ LET x == DecodeAll(k, uu, c, pos, olds)
                     IN  /\ r.ok <=> x.ok
                         /\ r.ok => r.pos = x.pos /\ \A i \in 1 .. Len(uu) : vals[i] = x.val[i]
  BY DEF ReadAll
<1>3. PICK f : f = EncodeUpTo(k, tt, values, buffered)
  OBVIOUS
<1>4. PICK g : g = DecodeUpTo(k, uu, c, pos, olds)
  OBVIOUS
<1>5. e = f[n]
  <2>1. LET h == EncodeUpTo(k, tt, values, buffered)
        IN  EncodeAll(k, tt, values, buffered) = h[Len(tt)]
    BY ONLY EncodeLoop
  <2>2. QED
    BY <1>1, <1>3, <2>1
<1>6. PICK x : x = DecodeAll(k, uu, c, pos, olds)
  OBVIOUS
<1>7. x = g[n]
  <2>1. LET h == DecodeUpTo(k, uu, c, pos, olds)
        IN  DecodeAll(k, uu, c, pos, olds) = h[Len(uu)]
    BY ONLY DecodeLoop
  <2>2. QED
    BY <1>1, <1>4, <1>6, <2>1
<1>8. \A i \in 0 .. n : ReadsTo(m, tt, uu, values, c, pos, i, f[i], g[i])
  <2>1. n <= Len(tt) /\ n <= Len(uu) /\ Len(tt) \in Nat /\ Understand(k, m, tt, uu, values, n)
    BY <1>1
  <2>2. Carries(c, pos, f[Len(tt)])
    BY <1>1, <1>5
  <2>3. QED
    BY <1>1, <1>2, <1>3, <1>4, <2>1, <2>2, ReadsUpTo
<1>9. n \in 0 .. n
  BY <1>1
<1>10. ReadsTo(m, tt, uu, values, c, pos, n, e, x)
  BY <1>5, <1>7, <1>8, <1>9
<1>11. /\ r.ok <=> x.ok
       /\ r.ok => r.pos = x.pos /\ \A i \in 1 .. n : vals[i] = x.val[i]
  BY <1>1, <1>2, <1>6
<1>12. ASSUME r.ok
       PROVE  AllSeen(m, tt, uu, values, n, vals)
  BY <1>10, <1>11, <1>12 DEF ReadsTo, AllSeen
<1>13. QED
  BY <1>1, <1>10, <1>11, <1>12 DEF ReadsTo, ReadsAll

\* Several values of one type, read as that type.
Owned(k, m, t) ==
    t \in Types /\ CodecTyped(k, t) /\ Understood(k, m, t, t) /\ \A v \in k.values[t] : v \in m.readable[t][t]

ReadsMany(m, t, n, values, c, pos, e, r, vals) ==
    /\ r.ok <=> e.ok /\ pos + Len(e.bytes) <= c.end
    /\ r.ok => r.pos = pos + Len(e.bytes) /\ \A i \in 1 .. n : m.view[t][t][vals[i]] = m.view[t][t][values[i]]

LEMMA ManyRead ==
    ASSUME NEW k, NEW m, NEW t, Owned(k, m, t), NEW n \in Nat, NEW values, NEW buffered \in BOOLEAN,
           \A i \in 1 .. n : values[i] \in k.values[t],
           NEW c \in Contexts, NEW pos \in Nat, pos <= c.end,
           NEW e, e = EncodeAll(k, Many(n, t), values, buffered), Carries(c, pos, e),
           NEW r, NEW vals, ReadAll(k, Many(n, t), c, pos, r, vals)
    PROVE  ReadsMany(m, t, n, values, c, pos, e, r, vals)
<1>1. /\ t \in Types /\ DecodeTyped(k, t) /\ ZeroTyped(k, t) /\ EncodeTyped(k, t) /\ Understood(k, m, t, t)
      /\ \A v \in k.values[t] : v \in m.readable[t][t]
  BY DEF Owned, CodecTyped
<1>2. PICK types : types = Many(n, t)
  OBVIOUS
<1>3. Typed(k, types) /\ Len(types) = n
  BY <1>1, <1>2, ManyTyped
<1>4. \A i \in 1 .. n : types[i] = t
  BY <1>1, <1>2, ManyIs
<1>5. \A i \in 1 .. Len(types) : k.encode[types[i]][buffered][values[i]] \in Encodings
  BY <1>1, <1>3, <1>4 DEF EncodeTyped
<1>6. Understand(k, m, types, types, values, Len(types))
  BY <1>1, <1>3, <1>4 DEF Understand
<1>7. e = EncodeAll(k, types, values, buffered) /\ ReadAll(k, types, c, pos, r, vals)
  BY <1>2
<1>8. ReadsAll(m, types, types, values, c, pos, e, r, vals)
  BY <1>3, <1>5, <1>6, <1>7, AllRead
<1>9. AllLegible(m, types, types, values, Len(types))
  BY <1>1, <1>3, <1>4 DEF AllLegible
<1>10. AllSeen(m, types, types, values, Len(types), vals) => \A i \in 1 .. n : m.view[t][t][vals[i]] = m.view[t][t][values[i]]
  BY <1>3, <1>4 DEF AllSeen
<1>11. QED
  BY <1>8, <1>9, <1>10 DEF ReadsAll, ReadsMany

\* The same, for descriptions.
Understands(m, dt, du, v, c, pos, e, r) ==
    /\ r.ok <=> e.ok /\ pos + Len(e.bytes) <= c.end /\ Legible(m.readable, dt, du, v)
    /\ r.ok => r.pos = pos + Len(e.bytes) /\ Visible(m.view, du, du, r.val) = Visible(m.view, dt, du, v)

\* A type reads what it wrote.
LEMMA OwnUnderstood ==
    ASSUME NEW m, NEW d, NEW v, NEW c, NEW pos, NEW e, NEW r,
           r.ok <=> e.ok /\ pos + Len(e.bytes) <= c.end,
           r.ok => r.pos = pos + Len(e.bytes) /\ Visible(m.view, d, d, r.val) = Visible(m.view, d, d, v)
    PROVE  Understands(m, d, d, v, c, pos, e, r)
  BY DEF Understands, Legible

\* Nothing was encoded, and nothing is there.
LEMMA NothingRead ==
    ASSUME NEW c \in Contexts, NEW pos \in Nat, Carries(c, pos, Failed)
    PROVE  c.end <= pos
<1>1. ~Failed.ok /\ Len(Failed.bytes) = 0
  BY EmptySeq DEF Failed
<1>2. c.end <= pos + 0 /\ c.end \in Nat
  BY <1>1, ContextIs DEF Carries
<1>3. QED
  BY <1>2

\* Bytes are read as they were written.
LEMMA BytesRead ==
    ASSUME NEW c \in Contexts, NEW pos \in Nat, pos <= c.end, NEW v \in Seq(Byte), Carries(c, pos, Written(v)),
           NEW n \in Nat, n = Len(v), NEW r, r = Slice(c, pos, n)
    PROVE  (r.ok <=> pos + n <= c.end) /\ (r.ok => r.pos = pos + n /\ r.val = v)
<1>1. /\ r \in [ok : BOOLEAN, pos : Nat, val : Seq(Byte)]
      /\ r.ok <=> pos + n <= c.end
      /\ r.ok => /\ r.pos = pos + n /\ Len(r.val) = n
                 /\ \A i \in 1 .. n : r.val[i] = c.bytes[pos + i] /\ r.val[i] \in Byte
  BY Sliced
<1>2. Written(v).bytes = v
  BY DEF Written
<1>3. \A i \in 1 .. n : pos + i <= c.end => c.bytes[pos + i] = v[i]
  BY <1>2 DEF Carries
<1>4. ASSUME r.ok
      PROVE  r.val = v
  <2>1. pos + n <= c.end /\ c.end \in Nat
    BY <1>1, <1>4, ContextIs
  <2>2. \A i \in 1 .. n : pos + i <= c.end
    BY <2>1
  <2>3. \A i \in 1 .. n : r.val[i] = v[i]
    BY <1>1, <1>3, <1>4, <2>2
  <2>4. PICK w : w = r.val
    OBVIOUS
  <2>5. w \in Seq(Byte) /\ Len(w) = n /\ \A i \in 1 .. n : w[i] = v[i]
    BY <1>1, <1>4, <2>3, <2>4
  <2>6. w = v
    BY <2>5, SeqEqual
  <2>7. QED
    BY <2>4, <2>6
<1>5. QED
  BY <1>1, <1>4

\* A prefix, and what comes after it.
HeadDone(c, pos, h, e, b, r) ==
    /\ r.ok <=> pos + Len(h) <= c.end
    /\ r.ok => /\ r.pos = pos + Len(h) /\ r.pos \in Nat /\ r.pos <= c.end /\ Len(r.val) = Len(h)
               /\ \A i \in 1 .. Len(h) : r.val[i] = h[i]
               /\ Carries(c, r.pos, b)
    /\ e.ok = b.ok /\ Len(e.bytes) = Len(h) + Len(b.bytes)

LEMMA HeadRead ==
    ASSUME NEW c \in Contexts, NEW pos \in Nat, pos <= c.end, NEW h \in Seq(Nat), NEW b \in Encodings,
           NEW e, e = Then(Written(h), b), Carries(c, pos, e), NEW w \in Nat, w = Len(h),
           NEW r, r = Slice(c, pos, w)
    PROVE  HeadDone(c, pos, h, e, b, r)
<1>1. /\ r \in [ok : BOOLEAN, pos : Nat, val : Seq(Byte)]
      /\ r.ok <=> pos + w <= c.end
      /\ r.ok => /\ r.pos = pos + w /\ Len(r.val) = w
                 /\ \A i \in 1 .. w : r.val[i] = c.bytes[pos + i] /\ r.val[i] \in Byte
  BY Sliced
<1>2. PICK a : a = Written(h)
  OBVIOUS
<1>3. a \in Encodings /\ a.ok /\ a.bytes = h
  BY <1>2, WrittenTyped
<1>4. e = Then(a, b)
  BY <1>2
<1>5. e.ok = b.ok
  BY <1>4 DEF Then
<1>6. Len(e.bytes) = Len(a.bytes) + Len(b.bytes)
  BY <1>3, <1>4, ThenTyped, ZenonT(30)
<1>7. PICK next : next = pos + Len(a.bytes)
  OBVIOUS
<1>8. Carries(c, pos, a) /\ Carries(c, next, b)
  BY <1>3, <1>4, <1>7, CarriesBoth
<1>9. c.end \in Nat
  BY ContextIs
<1>10. ASSUME r.ok
       PROVE  /\ r.pos = pos + w /\ r.pos \in Nat /\ r.pos <= c.end /\ Len(r.val) = w
              /\ \A i \in 1 .. w : r.val[i] = h[i]
  <2>1. \A i \in 1 .. w : pos + i <= c.end => c.bytes[pos + i] = h[i]
    BY <1>3, <1>8 DEF Carries
  <2>2. \A i \in 1 .. w : pos + i <= c.end
    BY <1>1, <1>9, <1>10
  <2>3. QED
    BY <1>1, <1>10, <2>1, <2>2
<1>11. next = pos + w
  BY <1>3, <1>7
<1>12. QED
  BY <1>1, <1>3, <1>5, <1>6, <1>8, <1>10, <1>11 DEF HeadDone

LEMMA HeadThen ==
    ASSUME NEW c \in Contexts, NEW pos \in Nat, NEW h \in Seq(Nat), NEW b \in Encodings, NEW e, NEW r,
           HeadDone(c, pos, h, e, b, r), NEW x, NEW legible,
           ~r.ok => ~x.ok,
           r.ok => (x.ok <=> b.ok /\ r.pos + Len(b.bytes) <= c.end /\ legible),
           x.ok => x.pos = r.pos + Len(b.bytes)
    PROVE  /\ x.ok <=> e.ok /\ pos + Len(e.bytes) <= c.end /\ legible
           /\ x.ok => x.pos = pos + Len(e.bytes)
<1>1. c.end \in Nat
  BY ContextIs
<1>2. PICK lh : lh = Len(h)
  OBVIOUS
<1>3. PICK lb : lb = Len(b.bytes)
  OBVIOUS
<1>4. PICK le : le = Len(e.bytes)
  OBVIOUS
<1>5. lh \in Nat /\ lb \in Nat /\ le = lh + lb
  BY <1>2, <1>3, <1>4, LenProperties DEF HeadDone, Encodings
<1>6. /\ r.ok <=> pos + lh <= c.end
      /\ r.ok => r.pos = pos + lh
      /\ e.ok = b.ok
  BY <1>2 DEF HeadDone
<1>7. CASE ~r.ok
  <2>1. ~(pos + le <= c.end)
    BY <1>1, <1>5, <1>6, <1>7
  <2>2. QED
    BY <1>4, <1>7, <2>1
<1>8. CASE r.ok
  <2>1. r.pos + lb = pos + le
    BY <1>5, <1>6, <1>8
  <2>2. QED
    BY <1>3, <1>4, <1>6, <1>8, <2>1
<1>9. QED
  BY <1>7, <1>8

\* The number that a prefix says.
LEMMA PrefixSays ==
    ASSUME NEW width \in Nat, NEW n \in Nat, NEW h, h = Prefix(width, n),
           NEW c, NEW pos, NEW e, NEW b, NEW r, HeadDone(c, pos, h, e, b, r), r.ok
    PROVE  Number(r.val) = n /\ r.val[1] = n
<1>1. /\ h \in Seq(Nat) /\ Len(h) = IF width = 0 THEN 1 ELSE width
      /\ h[1] = n
      /\ \A i \in 2 .. Len(h) : h[i] = 0
  BY PrefixTyped
<1>2. Len(r.val) = Len(h) /\ \A i \in 1 .. Len(h) : r.val[i] = h[i]
  BY DEF HeadDone
<1>3. 1 \in 1 .. Len(h) /\ \A i \in 2 .. Len(h) : i \in 1 .. Len(h)
  BY <1>1
<1>4. \A i \in 2 .. Len(r.val) : r.val[i] = 0
  BY <1>1, <1>2, <1>3
<1>5. r.val[1] = n
  BY <1>1, <1>2, <1>3
<1>6. QED
  BY <1>4, <1>5 DEF Number

LEMMA FixedUnderstood ==
    ASSUME NEW k, NEW m, NEW d, d.kind = "fixed", Sound(d), NEW v \in Shape(k.values, d, FALSE), NEW buffered,
           NEW c \in Contexts, NEW pos \in Nat, pos <= c.end, NEW old,
           NEW e, e = EncodeOf(k, d, v, buffered), Carries(c, pos, e),
           NEW r, r = DecodeOf(k, d, c, pos, old)
    PROVE  Understands(m, d, d, v, c, pos, e, r)
<1>1. PICK n : n = d.width
  OBVIOUS
<1>2. n \in Nat
  BY <1>1 DEF Sound
<1>3. v \in [1 .. n -> Byte]
  BY <1>1 DEF Shape
<1>4. v \in Seq(Byte) /\ Len(v) = n
  BY <1>2, <1>3, LenProperties
<1>5. e = Written(v)
  BY DEF EncodeOf
<1>6. PICK s : s = Slice(c, pos, n)
  OBVIOUS
<1>7. (s.ok <=> pos + n <= c.end) /\ (s.ok => s.pos = pos + n /\ s.val = v)
  BY <1>2, <1>4, <1>5, <1>6, BytesRead
<1>8. r = Leaving(s, old)
  BY <1>1, <1>6 DEF DecodeOf
<1>9. (r.ok <=> s.ok) /\ (r.ok => r = s)
  BY <1>8 DEF Leaving, Bad
<1>10. e.ok /\ Len(e.bytes) = n
  BY <1>4, <1>5 DEF Written
<1>11. r.ok => r.val = v /\ r.pos = pos + Len(e.bytes)
  BY <1>7, <1>9, <1>10
<1>12. r.ok <=> e.ok /\ pos + Len(e.bytes) <= c.end
  BY <1>7, <1>9, <1>10
<1>13. QED
  BY <1>11, <1>12, OwnUnderstood

LEMMA BlobUnderstood ==
    ASSUME NEW k, NEW m, NEW d, d.kind = "blob", Sound(d), NEW v \in Shape(k.values, d, FALSE), NEW buffered,
           NEW c \in Contexts, NEW pos \in Nat, pos <= c.end, NEW old,
           NEW e, e = EncodeOf(k, d, v, buffered), Carries(c, pos, e),
           NEW r, r = DecodeOf(k, d, c, pos, old)
    PROVE  Understands(m, d, d, v, c, pos, e, r)
<1>1. PICK width : width = d.prefix
  OBVIOUS
<1>2. PICK unit : unit = d.unit
  OBVIOUS
<1>3. width \in Nat /\ unit \in Nat \ {0} /\ d.units \in BOOLEAN
  BY <1>1, <1>2 DEF Sound
<1>4. v \in Seq(Byte) /\ Len(v) % unit = 0
  BY <1>2 DEF Shape
<1>5. PICK l : l = Len(v)
  OBVIOUS
<1>6. l \in Nat /\ l % unit = 0 /\ l \div unit \in Nat /\ (l \div unit) * unit = l
  <2>1. l \in Nat /\ l % unit = 0
    BY <1>4, <1>5, LenProperties
  <2>2. QED
    BY <1>3, <2>1, Quotients
<1>7. PICK n : n = IF d.units THEN l \div unit ELSE l
  OBVIOUS
<1>8. n \in Nat /\ (IF d.units THEN n * unit ELSE n) = l /\ (~d.units => n % unit = 0)
  BY <1>6, <1>7
<1>9. PICK s : s = ReadPrefix(c, pos, width)
  OBVIOUS
<1>10. PICK w : w = IF width = 0 THEN 1 ELSE width
  OBVIOUS
<1>11. w \in Nat /\ w >= 1 /\ s = Slice(c, pos, w)
  BY <1>3, <1>9, <1>10 DEF ReadPrefix
<1>12. r = DecodeBlob(d, c, s, old)
  BY <1>1, <1>9 DEF DecodeOf
<1>13. ~s.ok => ~r.ok
  BY <1>12 DEF DecodeBlob, Bad
<1>14. CASE TooLarge(width, l)
  <2>1. e = Failed
    BY <1>1, <1>5, <1>14 DEF EncodeOf, EncodeBlob
  <2>2. c.end <= pos /\ c.end \in Nat
    BY <2>1, NothingRead, ContextIs
  <2>3. ~s.ok
    BY <1>11, <2>2 DEF Slice, Rest, Bad
  <2>4. ~e.ok
    BY <2>1 DEF Failed
  <2>5. QED
    BY <1>13, <2>3, <2>4, OwnUnderstood
<1>15. CASE ~TooLarge(width, l)
  <2>1. PICK h : h = Prefix(width, n)
    OBVIOUS
  <2>2. h \in Seq(Nat) /\ Len(h) = w
    BY <1>3, <1>8, <1>10, <2>1, PrefixTyped
  <2>3. PICK b : b = Written(v)
    OBVIOUS
  <2>4. v \in Seq(Nat)
    BY <1>4, ByteIs, SeqMonotonic
  <2>5. b \in Encodings /\ b.ok /\ b.bytes = v
    BY <2>3, <2>4, WrittenTyped
  <2>6. e = Then(Written(h), b)
    <3>1. e = Written(Prefix(d.prefix, IF d.units THEN Len(v) \div d.unit ELSE Len(v)) \o v)
      BY <1>1, <1>5, <1>15 DEF EncodeOf, EncodeBlob
    <3>2. e = Written(h \o v)
      BY <1>1, <1>2, <1>5, <1>7, <2>1, <3>1
    <3>3. QED
      BY <2>3, <3>2 DEF Then, Written
  <2>7. HeadDone(c, pos, h, e, b, s)
    BY <1>11, <2>2, <2>5, <2>6, HeadRead
  <2>8. ASSUME s.ok
        PROVE  /\ r.ok <=> b.ok /\ s.pos + Len(b.bytes) <= c.end /\ TRUE
               /\ r.ok => r.pos = s.pos + Len(b.bytes) /\ r.val = v
    <3>1. Number(s.val) = n
      BY <1>3, <1>8, <2>1, <2>7, <2>8, PrefixSays
    <3>2. s.pos \in Nat /\ s.pos <= c.end /\ Carries(c, s.pos, b)
      BY <2>7, <2>8 DEF HeadDone
    <3>3. PICK next : next = s.pos
      OBVIOUS
    <3>4. PICK x : x = Slice(c, next, l)
      OBVIOUS
    <3>5. next \in Nat /\ next <= c.end /\ Carries(c, next, Written(v))
      BY <2>3, <3>2, <3>3
    <3>6. (x.ok <=> next + l <= c.end) /\ (x.ok => x.pos = next + l /\ x.val = v)
      BY ONLY <1>4, <1>5, <1>6, <3>4, <3>5, c \in Contexts, BytesRead
    <3>7. r = Leaving(x, old)
      <4>1. r = BlobBody(d, c, next, n, old)
        BY <1>12, <2>8, <3>1, <3>3 DEF DecodeBlob
      <4>2. ~(~d.units /\ n % d.unit # 0)
        BY <1>2, <1>8
      <4>3. r = Leaving(Slice(c, next, IF d.units THEN n * d.unit ELSE n), old)
        BY <4>1, <4>2 DEF BlobBody
      <4>4. QED
        BY <1>2, <1>8, <3>4, <4>3
    <3>8. (r.ok <=> x.ok) /\ (r.ok => r = x)
      BY <3>7 DEF Leaving, Bad
    <3>9. QED
      BY <1>5, <2>5, <3>3, <3>6, <3>8
  <2>9. /\ r.ok <=> e.ok /\ pos + Len(e.bytes) <= c.end /\ TRUE
        /\ r.ok => r.pos = pos + Len(e.bytes)
    <3>1. PICK yes : yes = TRUE
      OBVIOUS
    <3>2. /\ s.ok => (r.ok <=> b.ok /\ s.pos + Len(b.bytes) <= c.end /\ yes)
          /\ r.ok => r.pos = s.pos + Len(b.bytes)
      BY <1>13, <2>8, <3>1
    <3>3. /\ r.ok <=> e.ok /\ pos + Len(e.bytes) <= c.end /\ yes
          /\ r.ok => r.pos = pos + Len(e.bytes)
      BY <1>13, <2>2, <2>5, <2>7, <3>2, HeadThen, SMTT(20)
    <3>4. QED
      BY <3>1, <3>3
  <2>10. r.ok => r.val = v
    BY <1>13, <2>8
  <2>11. QED
    BY <2>9, <2>10, OwnUnderstood
<1>16. QED
  BY <1>14, <1>15

\* All that is known of the parts of a type, of what they write and read.
OwnParts(k, m, d) == \A u \in Parts(d) : u \in Types /\ Known(k, m, u) /\ Owned(k, m, u)

LEMMA InnerOfOwn ==
    ASSUME NEW k, NEW m, NEW d, OwnParts(k, m, d)
    PROVE  Inner(k, d) /\ KnownParts(k, m, d)
<1>1. KnownParts(k, m, d)
  BY DEF OwnParts, KnownParts
<1>2. QED
  BY <1>1, InnerOfKnown

LEMMA SliceUnderstood ==
    ASSUME NEW k, NEW m, NEW d, d.kind = "slice", Sound(d), OwnParts(k, m, d),
           NEW v \in Shape(k.values, d, FALSE), NEW buffered \in BOOLEAN,
           NEW c \in Contexts, NEW pos \in Nat, pos <= c.end, NEW old \in Results(k, d),
           NEW e, e = EncodeOf(k, d, v, buffered), Carries(c, pos, e),
           NEW r, r = DecodeOf(k, d, c, pos, old)
    PROVE  Understands(m, d, d, v, c, pos, e, r)
<1>1. PICK t : t = d.elem
  OBVIOUS
<1>2. t \in Types /\ Known(k, m, t) /\ Owned(k, m, t)
  BY <1>1 DEF OwnParts, Parts
<1>3. DecodeTyped(k, t) /\ ZeroTyped(k, t) /\ EncodeTyped(k, t) /\ ShapesTyped(k, t) /\ WirelessSeen(k, m, t)
  BY <1>2 DEF Known, CodecTyped
<1>4. Results(k, d) = Slices(k.results[t])
  BY <1>1 DEF Results, Shape, Slices
<1>5. v.mem \in Seq(k.values[t]) /\ v.len \in Nat /\ v.len <= Len(v.mem)
  <2>1. v \in [mem : Seq(k.values[t]), len : Nat] /\ v.len <= Len(v.mem)
    BY <1>1 DEF Shape
  <2>2. QED
    BY <2>1
<1>6. PICK n : n = v.len
  OBVIOUS
<1>7. PICK mem : mem = v.mem
  OBVIOUS
<1>8. n \in Nat /\ \A i \in 1 .. n : mem[i] \in k.values[t]
  <2>1. n \in Nat /\ n <= Len(mem) /\ mem \in Seq(k.values[t]) /\ Len(mem) \in Nat
    BY <1>5, <1>6, <1>7, LenProperties
  <2>2. \A i \in 1 .. n : i \in 1 .. Len(mem)
    BY <2>1
  <2>3. \A i \in 1 .. Len(mem) : mem[i] \in k.values[t]
    BY <2>1, ElementOfSeq
  <2>4. QED
    BY <2>1, <2>2, <2>3
<1>9. PICK h : h = <<n>>
  OBVIOUS
<1>10. h \in Seq(Nat) /\ Len(h) = 1 /\ h[1] = n
  BY <1>8, <1>9
<1>11. PICK b : b = EncodeAll(k, Many(n, t), mem, buffered)
  OBVIOUS
<1>12. b \in Encodings
  BY <1>2, <1>3, <1>8, <1>11, EncodesMany
<1>13. e = Then(Written(h), b)
  BY <1>1, <1>6, <1>7, <1>9, <1>11 DEF EncodeOf
<1>14. PICK one : one = 1
  OBVIOUS
<1>15. PICK s : s = Slice(c, pos, one)
  OBVIOUS
<1>16. HeadDone(c, pos, h, e, b, s)
  <2>1. one \in Nat /\ one = Len(h)
    BY <1>10, <1>14
  <2>2. QED
    BY <1>10, <1>12, <1>13, <1>15, <2>1, HeadRead
<1>17. r = DecodeSlice(k, t, c, s, old)
  <2>1. ReadPrefix(c, pos, 0) = s
    BY <1>14, <1>15 DEF ReadPrefix
  <2>2. QED
    BY <1>1, <2>1 DEF DecodeOf
<1>18. ~s.ok => ~r.ok
  BY <1>17 DEF DecodeSlice, Bad
<1>19. ASSUME s.ok
       PROVE  /\ r.ok <=> b.ok /\ s.pos + Len(b.bytes) <= c.end
              /\ r.ok => /\ r.pos = s.pos + Len(b.bytes) /\ r.val.len = n
                         /\ \A i \in 1 .. n : m.view[t][t][r.val.mem[i]] = m.view[t][t][mem[i]]
  <2>1. s.pos \in Nat /\ s.pos <= c.end /\ Carries(c, s.pos, b) /\ s.val[1] = n
    <3>1. 1 \in 1 .. Len(h)
      BY <1>10
    <3>2. QED
      BY <1>10, <1>16, <1>19, <3>1 DEF HeadDone
  <2>2. PICK next : next = s.pos
    OBVIOUS
  <2>3. next \in Nat /\ next <= c.end /\ Carries(c, next, b)
    BY <2>1, <2>2
  <2>4. r = Elements(k, t, c, next, n, old)
    BY <1>17, <1>19, <2>1, <2>2 DEF DecodeSlice
  <2>5. old \in Slices(k.results[t])
    BY <1>4
  <2>6. SliceRead(k, t, c, next, n, r)
    BY <1>2, <1>3, <1>8, <2>3, <2>4, <2>5, ElementsRead
  <2>7. CASE k.wireless[t]
    <3>1. r.ok /\ r.pos = next /\ r.val.len = n /\ \A i \in 1 .. n : r.val.mem[i] \in k.results[t]
      BY <2>6, <2>7 DEF SliceRead
    <3>2. b = Written(<<>>)
      <4>1. PICK types : types = Many(n, t)
        OBVIOUS
      <4>2. Len(types) = n /\ \A i \in 1 .. n : types[i] = t
        BY <1>2, <1>8, <4>1, ManyIs
      <4>3. \A i \in 1 .. Len(types) : k.encode[types[i]][buffered][mem[i]] = Written(<<>>)
        BY <1>3, <1>8, <2>7, <4>2 DEF WirelessSeen
      <4>4. Len(types) \in Nat
        BY <1>8, <4>2
      <4>5. EncodeAll(k, types, mem, buffered) = Written(<<>>)
        BY <4>3, <4>4, EncodesNothing
      <4>6. QED
        BY <1>11, <4>1, <4>5
    <3>3. b.ok /\ Len(b.bytes) = 0
      BY <3>2, EmptySeq DEF Written
    <3>4. next + 0 = next
      BY <2>3
    <3>5. \A i \in 1 .. n : m.view[t][t][r.val.mem[i]] = m.view[t][t][mem[i]]
      BY <1>3, <1>8, <2>7, <3>1 DEF WirelessSeen, ShapesTyped
    <3>6. QED
      BY <2>2, <2>3, <3>1, <3>3, <3>4, <3>5
  <2>8. CASE ~k.wireless[t]
    <3>1. ReadAll(k, Many(n, t), c, next, r, r.val.mem) /\ (r.ok => r.val.len = n)
      BY <2>6, <2>8 DEF SliceRead
    <3>2. ReadsMany(m, t, n, mem, c, next, b, r, r.val.mem)
      BY <1>2, <1>8, <1>11, <2>3, <3>1, ManyRead
    <3>3. QED
      BY <2>2, <3>1, <3>2 DEF ReadsMany
  <2>9. QED
    BY <2>7, <2>8
<1>20. /\ r.ok <=> e.ok /\ pos + Len(e.bytes) <= c.end
       /\ r.ok => r.pos = pos + Len(e.bytes)
  <2>1. PICK yes : yes = TRUE
    OBVIOUS
  <2>2. /\ s.ok => (r.ok <=> b.ok /\ s.pos + Len(b.bytes) <= c.end /\ yes)
        /\ r.ok => r.pos = s.pos + Len(b.bytes)
    BY <1>18, <1>19, <2>1
  <2>3. /\ r.ok <=> e.ok /\ pos + Len(e.bytes) <= c.end /\ yes
        /\ r.ok => r.pos = pos + Len(e.bytes)
    BY <1>10, <1>12, <1>16, <1>18, <2>2, HeadThen
  <2>4. QED
    BY <2>1, <2>3
<1>21. ASSUME r.ok
       PROVE  Visible(m.view, d, d, r.val) = Visible(m.view, d, d, v)
  <2>1. r.val.len = n /\ \A i \in 1 .. n : m.view[t][t][r.val.mem[i]] = m.view[t][t][mem[i]]
    BY <1>18, <1>19, <1>21
  <2>2. /\ Visible(m.view, d, d, r.val) = [i \in 1 .. n |-> m.view[t][t][r.val.mem[i]]]
        /\ Visible(m.view, d, d, v) = [i \in 1 .. n |-> m.view[t][t][mem[i]]]
    BY <1>1, <1>6, <1>7, <2>1 DEF Visible
  <2>3. QED
    BY <2>1, <2>2, SMTT(20)
<1>22. QED
  BY <1>20, <1>21, OwnUnderstood

LEMMA PointerUnderstood ==
    ASSUME NEW k, NEW m, NEW d, d.kind = "pointer", Sound(d), OwnParts(k, m, d),
           NEW v \in Shape(k.values, d, FALSE), NEW buffered \in BOOLEAN,
           NEW c \in Contexts, NEW pos \in Nat, pos <= c.end, NEW old \in Results(k, d),
           NEW e, e = EncodeOf(k, d, v, buffered), Carries(c, pos, e),
           NEW r, r = DecodeOf(k, d, c, pos, old)
    PROVE  Understands(m, d, d, v, c, pos, e, r)
<1>1. PICK t : t = d.elem
  OBVIOUS
<1>2. t \in Types /\ Known(k, m, t) /\ Owned(k, m, t)
  BY <1>1 DEF OwnParts, Parts
<1>3. DecodeTyped(k, t) /\ ZeroTyped(k, t) /\ EncodeTyped(k, t)
  BY <1>2 DEF Known, CodecTyped
<1>4. old \in Optional(k.results[t])
  BY <1>1 DEF Results, Shape
<1>5. v \in Seq(k.values[t]) /\ Len(v) <= 1
  BY <1>1 DEF Shape, Optional
<1>6. PICK n : n = Len(v)
  OBVIOUS
<1>7. n \in Nat /\ n <= 1 /\ \A i \in 1 .. n : v[i] \in k.values[t]
  <2>1. n \in Nat /\ n <= 1
    BY <1>5, <1>6, LenProperties
  <2>2. \A i \in 1 .. n : v[i] \in k.values[t]
    BY <1>5, <1>6, ElementOfSeq
  <2>3. QED
    BY <2>1, <2>2
<1>8. v = <<>> <=> n = 0
  <2>1. PICK z : z = <<>>
    OBVIOUS
  <2>2. z \in Seq(k.values[t]) /\ Len(z) = 0
    BY <2>1, EmptySeq
  <2>3. Len(v) = 0 => v = z
    BY <1>5, <2>1, EmptySeq
  <2>4. QED
    BY <1>6, <2>1, <2>2, <2>3
<1>9. PICK flag : flag = IF v = <<>> THEN 1 ELSE 0
  OBVIOUS
<1>10. PICK h : h = <<flag>>
  OBVIOUS
<1>11. flag \in Nat /\ h \in Seq(Nat) /\ Len(h) = 1 /\ h[1] = flag
  <2>1. flag \in Nat
    BY <1>9
  <2>2. QED
    BY <1>10, <2>1
<1>12. PICK b : b = EncodeAll(k, Many(n, t), v, buffered)
  OBVIOUS
<1>13. b \in Encodings
  BY <1>2, <1>3, <1>7, <1>12, EncodesMany
<1>14. e = Then(Written(h), b)
  BY <1>1, <1>6, <1>9, <1>10, <1>12 DEF EncodeOf
<1>15. PICK one : one = 1
  OBVIOUS
<1>16. PICK s : s = Slice(c, pos, one)
  OBVIOUS
<1>17. HeadDone(c, pos, h, e, b, s)
  <2>1. one \in Nat /\ one = Len(h)
    BY <1>11, <1>15
  <2>2. QED
    BY <1>11, <1>13, <1>14, <1>16, <2>1, HeadRead
<1>18. r = DecodePointer(k, t, c, s, old)
  BY <1>1, <1>15, <1>16 DEF DecodeOf
<1>19. ~s.ok => ~r.ok
  BY <1>18 DEF DecodePointer, Bad
<1>20. ASSUME s.ok
       PROVE  /\ r.ok <=> b.ok /\ s.pos + Len(b.bytes) <= c.end
              /\ r.ok => /\ r.pos = s.pos + Len(b.bytes) /\ Len(r.val) = n
                         /\ \A i \in 1 .. n : m.view[t][t][r.val[i]] = m.view[t][t][v[i]]
  <2>1. s.pos \in Nat /\ s.pos <= c.end /\ Carries(c, s.pos, b) /\ s.val[1] = flag
    <3>1. 1 \in 1 .. Len(h)
      BY <1>11
    <3>2. QED
      BY <1>11, <1>17, <1>20, <3>1 DEF HeadDone
  <2>2. PICK next : next = s.pos
    OBVIOUS
  <2>3. next \in Nat /\ next <= c.end /\ Carries(c, next, b)
    BY <2>1, <2>2
  <2>4. CASE n = 0
    <3>1. r = Ok(next, <<>>)
      BY <1>8, <1>9, <1>18, <1>20, <2>1, <2>2, <2>4 DEF DecodePointer
    <3>2. b = Written(<<>>)
      <4>1. PICK types : types = Many(n, t)
        OBVIOUS
      <4>2. Len(types) = n
        BY <1>2, <1>7, <4>1, ManyIs
      <4>3. \A i \in 1 .. Len(types) : k.encode[types[i]][buffered][v[i]] = Written(<<>>)
        BY <2>4, <4>2
      <4>4. Len(types) \in Nat
        BY <1>7, <4>2
      <4>5. EncodeAll(k, types, v, buffered) = Written(<<>>)
        BY <4>3, <4>4, EncodesNothing
      <4>6. QED
        BY <1>12, <4>1, <4>5
    <3>3. b.ok /\ Len(b.bytes) = 0
      BY <3>2, EmptySeq DEF Written
    <3>4. next + 0 = next
      BY <2>3
    <3>5. r.ok /\ r.pos = next /\ Len(r.val) = n
      BY <2>4, <3>1, EmptySeq DEF Ok
    <3>6. \A i \in 1 .. n : m.view[t][t][r.val[i]] = m.view[t][t][v[i]]
      BY <2>4
    <3>7. QED
      BY <2>2, <2>3, <3>3, <3>4, <3>5, <3>6
  <2>5. CASE n = 1
    <3>1. r = DecodeAll(k, Many(1, t), c, next, old)
      BY <1>8, <1>9, <1>18, <1>20, <2>1, <2>2, <2>5 DEF DecodePointer
    <3>2. ReadAll(k, Many(1, t), c, next, r, r.val)
      BY <1>2, <1>3, <1>4, <2>3, <3>1, PointerRead
    <3>3. r.ok => Len(r.val) = 1
      BY <1>2, <1>3, <1>4, <2>3, <3>1, PointerRead
    <3>4. ReadAll(k, Many(n, t), c, next, r, r.val)
      BY <2>5, <3>2
    <3>5. ReadsMany(m, t, n, v, c, next, b, r, r.val)
      BY <1>2, <1>7, <1>12, <2>3, <3>4, ManyRead
    <3>6. QED
      BY <2>2, <2>5, <3>3, <3>5 DEF ReadsMany
  <2>6. QED
    BY <1>7, <2>4, <2>5
<1>21. /\ r.ok <=> e.ok /\ pos + Len(e.bytes) <= c.end
       /\ r.ok => r.pos = pos + Len(e.bytes)
  <2>1. PICK yes : yes = TRUE
    OBVIOUS
  <2>2. /\ s.ok => (r.ok <=> b.ok /\ s.pos + Len(b.bytes) <= c.end /\ yes)
        /\ r.ok => r.pos = s.pos + Len(b.bytes)
    BY <1>19, <1>20, <2>1
  <2>3. /\ r.ok <=> e.ok /\ pos + Len(e.bytes) <= c.end /\ yes
        /\ r.ok => r.pos = pos + Len(e.bytes)
    BY <1>11, <1>13, <1>17, <1>19, <2>2, HeadThen, SMTT(20)
  <2>4. QED
    BY <2>1, <2>3
<1>22. ASSUME r.ok
       PROVE  Visible(m.view, d, d, r.val) = Visible(m.view, d, d, v)
  <2>1. Len(r.val) = n /\ \A i \in 1 .. n : m.view[t][t][r.val[i]] = m.view[t][t][v[i]]
    BY <1>19, <1>20, <1>22
  <2>2. /\ Visible(m.view, d, d, r.val) = [i \in 1 .. n |-> m.view[t][t][r.val[i]]]
        /\ Visible(m.view, d, d, v) = [i \in 1 .. n |-> m.view[t][t][v[i]]]
    BY <1>1, <1>6, <2>1 DEF Visible
  <2>3. QED
    BY <2>1, <2>2
<1>23. QED
  BY <1>21, <1>22, OwnUnderstood

LEMMA MapUnderstood ==
    ASSUME NEW k, NEW m, NEW t \in Types, NEW d, d = Desc[t], d.kind = "map", Sound(d), OwnParts(k, m, d),
           NEW v \in Shape(k.values, d, FALSE), NEW buffered \in BOOLEAN,
           NEW c \in Contexts, NEW pos \in Nat, pos <= c.end, NEW old \in Results(k, d),
           NEW e, e = EncodeOf(k, d, v, buffered), Carries(c, pos, e),
           NEW r, r = DecodeOf(k, d, c, pos, old)
    PROVE  Understands(m, d, d, v, c, pos, e, r)
<1>1. PICK u : u = d.entry
  OBVIOUS
<1>2. u \in Types /\ Known(k, m, u) /\ Owned(k, m, u)
  BY <1>1 DEF OwnParts, Parts
<1>3. DecodeTyped(k, u) /\ ZeroTyped(k, u) /\ EncodeTyped(k, u) /\ ShapesTyped(k, u) /\ KeySeen(k, m, u)
  BY <1>2 DEF Known, CodecTyped
<1>4. Inner(k, d)
  BY InnerOfOwn
<1>5. v \in Seq(k.values[u])
  BY <1>1 DEF Shape
<1>6. PICK n : n = Len(v)
  OBVIOUS
<1>7. n \in Nat /\ \A i \in 1 .. n : v[i] \in k.values[u]
  <2>1. n \in Nat
    BY <1>5, <1>6, LenProperties
  <2>2. \A i \in 1 .. n : v[i] \in k.values[u]
    BY <1>5, <1>6, ElementOfSeq
  <2>3. QED
    BY <2>1, <2>2
<1>8. PICK width : width = d.prefix
  OBVIOUS
<1>9. PICK w : w = IF width = 0 THEN 1 ELSE width
  OBVIOUS
<1>10. width \in Nat /\ w \in Nat /\ w >= 1
  BY <1>8, <1>9 DEF Sound
<1>11. PICK s : s = ReadPrefix(c, pos, width)
  OBVIOUS
<1>12. s = Slice(c, pos, w)
  BY <1>9, <1>11 DEF ReadPrefix
<1>13. r = DecodeMap(k, d, c, s, old)
  BY <1>8, <1>11 DEF DecodeOf
<1>14. ~s.ok => ~r.ok
  BY <1>13 DEF DecodeMap, Bad
<1>15. CASE ChecksFirst(d, v, buffered)
  <2>1. e = Failed
    BY <1>15 DEF EncodeOf, EncodeMap
  <2>2. c.end <= pos /\ c.end \in Nat
    BY <2>1, NothingRead, ContextIs
  <2>3. ~s.ok
    BY <1>10, <1>12, <2>2 DEF Slice, Rest, Bad
  <2>4. ~e.ok
    BY <2>1 DEF Failed
  <2>5. QED
    BY <1>14, <2>3, <2>4, OwnUnderstood
<1>16. CASE ~ChecksFirst(d, v, buffered)
  <2>1. PICK h : h = Prefix(width, n)
    OBVIOUS
  <2>2. h \in Seq(Nat) /\ Len(h) = w
    BY <1>7, <1>9, <1>10, <2>1, PrefixTyped
  <2>3. PICK b : b = EncodeAll(k, Many(n, u), v, buffered)
    OBVIOUS
  <2>4. b \in Encodings
    BY <1>2, <1>3, <1>7, <2>3, EncodesMany
  <2>5. e = Then(Written(h), b)
    BY <1>1, <1>6, <1>8, <1>16, <2>1, <2>3 DEF EncodeOf, EncodeMap
  <2>6. HeadDone(c, pos, h, e, b, s)
    BY <1>10, <1>12, <2>2, <2>4, <2>5, HeadRead
  <2>7. ASSUME s.ok
        PROVE  /\ r.ok <=> b.ok /\ s.pos + Len(b.bytes) <= c.end
               /\ r.ok => /\ r.pos = s.pos + Len(b.bytes) /\ Len(r.val) = n
                          /\ OneByOne(n, m.view[u][u], r.val, m.view[u][u], v)
    <3>1. Number(s.val) = n
      BY <1>7, <1>10, <2>1, <2>6, <2>7, PrefixSays
    <3>2. PICK next : next = s.pos
      OBVIOUS
    <3>3. next \in Nat /\ next <= c.end /\ Carries(c, next, b)
      BY <2>6, <2>7, <3>2 DEF HeadDone
    <3>4. r = MapBody(k, d, c, next, n, old)
      BY <1>13, <2>7, <3>1, <3>2 DEF DecodeMap
    <3>5. EntriesRead(k, d, c, next, n, r)
      BY <1>4, <1>7, <3>3, <3>4, MapRead
    <3>6. ReadAll(k, Many(n, u), c, next, r, r.val) /\ (r.ok => Len(r.val) = n)
      BY <1>1, <3>5 DEF EntriesRead
    <3>7. ReadsMany(m, u, n, v, c, next, b, r, r.val)
      BY <1>2, <1>7, <2>3, <3>3, <3>6, ManyRead
    <3>8. QED
      BY <3>2, <3>6, <3>7 DEF ReadsMany, OneByOne
  <2>8. /\ r.ok <=> e.ok /\ pos + Len(e.bytes) <= c.end
        /\ r.ok => r.pos = pos + Len(e.bytes)
    <3>1. PICK yes : yes = TRUE
      OBVIOUS
    <3>2. /\ s.ok => (r.ok <=> b.ok /\ s.pos + Len(b.bytes) <= c.end /\ yes)
          /\ r.ok => r.pos = s.pos + Len(b.bytes)
      BY <1>14, <2>7, <3>1
    <3>3. /\ r.ok <=> e.ok /\ pos + Len(e.bytes) <= c.end /\ yes
          /\ r.ok => r.pos = pos + Len(e.bytes)
      BY <1>14, <2>2, <2>4, <2>6, <3>2, HeadThen
    <3>4. QED
      BY <3>1, <3>3
  <2>9. ASSUME r.ok
        PROVE  Visible(m.view, d, d, r.val) = Visible(m.view, d, d, v)
    <3>1. PICK f : f = m.view[u][u]
      OBVIOUS
    <3>2. PICK vals : vals = r.val
      OBVIOUS
    <3>3. PICK S : S = k.results[u]
      OBVIOUS
    <3>4. PICK R : R = k.values[u]
      OBVIOUS
    <3>5. S \subseteq R
      BY <1>3, <3>3, <3>4 DEF ShapesTyped
    <3>6. vals \in Seq(S)
      <4>1. Decoded(k, d, c, pos, DecodeOf(k, d, c, pos, old))
        BY <1>4, DecodedOf
      <4>2. Decoded(k, d, c, pos, r)
        BY <4>1
      <4>3. Results(k, d) = Seq(S)
        BY <1>1, <3>3 DEF Results, Shape
      <4>4. QED
        BY <3>2, <4>2, <4>3 DEF Decoded
    <3>7. v \in Seq(R) /\ Len(v) = n
      BY <1>5, <1>6, <3>4
    <3>8. KeepsKeys(f, R)
      <4>1. IsMap(d)
        BY DEF Sound
      <4>2. Desc[u].kind = "tuple" /\ Len(Desc[u].parts) = 2 /\ Desc[Desc[u].parts[1]].kind \in {"fixed", "blob"}
        BY <1>1, <4>1 DEF IsMap
      <4>3. \A x \in k.values[u] : m.view[u][u][x][1] = x[1]
        BY <1>3, <4>2 DEF KeySeen
      <4>4. QED
        BY <3>1, <3>4, <4>3 DEF KeepsKeys
    <3>9. KeepsKeys(f, S)
      BY <3>5, <3>8 DEF KeepsKeys
    <3>10. OneByOne(n, f, vals, f, v) /\ Len(vals) = n
      BY <1>14, <2>7, <2>9, <3>1, <3>2
    <3>11. Entered(f, vals) = Entered(f, v)
      BY ONLY <1>7, <3>6, <3>7, <3>8, <3>9, <3>10, EntriesSame
    <3>12. \A x : Visible(m.view, d, d, x) = Entered(f, x)
      BY <1>1, <3>1 DEF Visible, Entered
    <3>13. QED
      BY <3>2, <3>11, <3>12
  <2>10. QED
    BY <2>8, <2>9, OwnUnderstood
<1>17. QED
  BY <1>15, <1>16

\* What two tuples have at the same places.
PartsUnderstood(k, m, tt, uu, n) ==
    \A i \in 1 .. n : EncodeTyped(k, tt[i]) /\ Understood(k, m, tt[i], uu[i])

\* The values of a tuple.
LEMMA TupleValue ==
    ASSUME NEW k, NEW d, d.kind = "tuple", Sound(d), NEW v \in Shape(k.values, d, FALSE)
    PROVE  /\ d.parts \in Seq(Types) /\ Len(d.parts) \in Nat /\ DOMAIN d.parts = 1 .. Len(d.parts)
           /\ \A i \in 1 .. Len(d.parts) : d.parts[i] \in Types /\ v[i] \in k.values[d.parts[i]]
<1>1. PICK types : types = d.parts
  OBVIOUS
<1>2. types \in Seq(Types)
  BY <1>1 DEF Sound
<1>3. Len(types) \in Nat /\ DOMAIN types = 1 .. Len(types) /\ \A i \in 1 .. Len(types) : types[i] \in Types
  BY <1>2, LenProperties, ElementOfSeq
<1>4. v \in Tuples(k.values, types)
  BY <1>1 DEF Shape
<1>5. PICK S : S = UNION {k.values[u] : u \in Types}
  OBVIOUS
<1>6. \A i \in 1 .. Len(types) : k.values[types[i]] \subseteq S
  BY <1>3, <1>5
<1>7. \A i \in 1 .. Len(types) : v[i] \in k.values[types[i]]
  <2>1. PICK shape : shape = k.values
    OBVIOUS
  <2>2. \A i \in 1 .. Len(types) : shape[types[i]] \subseteq S
    BY <1>6, <2>1
  <2>3. v \in Tuples(shape, types)
    BY <1>4, <2>1
  <2>4. v \in Seq(S) /\ Len(v) = Len(types) /\ \A i \in 1 .. Len(types) : v[i] \in shape[types[i]]
    BY ONLY <1>2, <2>2, <2>3, TupleIs
  <2>5. QED
    BY <2>1, <2>4
<1>8. QED
  BY <1>1, <1>2, <1>3, <1>7

LEMMA TupleUnderstood ==
    ASSUME NEW k, NEW m, NEW dt, dt.kind = "tuple", Sound(dt),
           NEW u \in Types, NEW du, du = Desc[u], du.kind = "tuple", Sound(du), Inner(k, du),
           NEW n \in Nat, n = Len(dt.parts), n = Len(du.parts), PartsUnderstood(k, m, dt.parts, du.parts, n),
           NEW v \in Shape(k.values, dt, FALSE), NEW buffered \in BOOLEAN,
           dt = du => AllLegible(m, dt.parts, du.parts, v, n),
           NEW c \in Contexts, NEW pos \in Nat, pos <= c.end, NEW old \in Results(k, du),
           NEW e, e = EncodeOf(k, dt, v, buffered), Carries(c, pos, e),
           NEW r, r = DecodeOf(k, du, c, pos, old)
    PROVE  Understands(m, dt, du, v, c, pos, e, r)
<1>1. PICK tt : tt = dt.parts
  OBVIOUS
<1>2. PICK uu : uu = du.parts
  OBVIOUS
<1>3. \A i \in 1 .. n : v[i] \in k.values[tt[i]]
  BY <1>1, TupleValue
<1>4. Typed(k, uu)
  BY <1>2, TypedParts
<1>5. DOMAIN tt = 1 .. n /\ DOMAIN uu = 1 .. n
  <2>1. tt \in Seq(Types) /\ uu \in Seq(Types)
    BY <1>1, <1>2 DEF Sound
  <2>2. QED
    BY <1>1, <1>2, <2>1, LenProperties
<1>6. e = EncodeAll(k, tt, v, buffered)
  BY <1>1 DEF EncodeOf
<1>7. r = DecodeTuple(k, du, c, pos, old)
  BY DEF DecodeOf
<1>8. ReadAll(k, du.parts, c, pos, r, r.val)
  BY <1>7, TupleRead
<1>9. ReadAll(k, uu, c, pos, r, r.val) /\ Len(tt) = n /\ Len(uu) = n
  BY <1>1, <1>2, <1>8
<1>10. \A i \in 1 .. Len(tt) : k.encode[tt[i]][buffered][v[i]] \in Encodings
  BY <1>1, <1>3, <1>9 DEF PartsUnderstood, EncodeTyped
<1>11. Understand(k, m, tt, uu, v, Len(tt))
  BY <1>1, <1>2, <1>3, <1>9 DEF PartsUnderstood, Understand
<1>12. Len(tt) = Len(uu)
  BY <1>9
<1>13. ReadsAll(m, tt, uu, v, c, pos, e, r, r.val)
  BY <1>4, <1>6, <1>9, <1>10, <1>11, <1>12, AllRead
<1>14. Legible(m.readable, dt, du, v) <=> AllLegible(m, tt, uu, v, n)
  <2>1. CASE dt = du
    BY <1>1, <1>2, <2>1 DEF Legible
  <2>2. CASE dt # du
    <3>1. Legible(m.readable, dt, du, v) <=> n <= n /\ \A i \in 1 .. n : v[i] \in m.readable[tt[i]][uu[i]]
      BY <1>1, <1>2, <1>5, <2>2 DEF Legible
    <3>2. QED
      BY <3>1 DEF AllLegible
  <2>3. QED
    BY <2>1, <2>2
<1>15. ASSUME r.ok
       PROVE  Visible(m.view, du, du, r.val) = Visible(m.view, dt, du, v)
  <2>1. \A i \in 1 .. n : m.view[uu[i]][uu[i]][r.val[i]] = m.view[tt[i]][uu[i]][v[i]]
    BY <1>9, <1>13, <1>15 DEF ReadsAll, AllSeen
  <2>2. Visible(m.view, du, du, r.val) = [i \in 1 .. n |-> m.view[uu[i]][uu[i]][r.val[i]]]
    BY <1>2, <1>5 DEF Visible
  <2>3. Visible(m.view, dt, du, v) = [i \in 1 .. n |-> m.view[tt[i]][uu[i]][v[i]]]
    BY <1>1, <1>2, <1>5 DEF Visible
  <2>4. QED
    BY <2>1, <2>2, <2>3
<1>16. QED
  BY <1>9, <1>13, <1>14, <1>15 DEF ReadsAll, Understands

\* What is seen of a union of which no arm is set that both know, and of one
\* of which there is one.
NoArm(dt, du, v) == \A tag \in DOMAIN du.arms \cap DOMAIN dt.arms : v[tag] = <<>>

LEMMA NoneSeen ==
    ASSUME NEW view, NEW dt, NEW du, dt.kind = "union", NEW v, NoArm(dt, du, v)
    PROVE  Visible(view, dt, du, v) = [tag \in DOMAIN du.arms |-> <<>>]
<1>1. Visible(view, dt, du, v) =
          [tag \in DOMAIN du.arms |->
              IF tag \notin DOMAIN dt.arms THEN <<>>
              ELSE [i \in 1 .. Len(v[tag]) |-> view[dt.arms[tag]][du.arms[tag]][v[tag][i]]]]
  BY DEF Visible
<1>2. ASSUME NEW tag \in DOMAIN du.arms
      PROVE  (IF tag \notin DOMAIN dt.arms THEN <<>>
              ELSE [i \in 1 .. Len(v[tag]) |-> view[dt.arms[tag]][du.arms[tag]][v[tag][i]]]) = <<>>
  <2>1. CASE tag \notin DOMAIN dt.arms
    BY <2>1
  <2>2. CASE tag \in DOMAIN dt.arms
    <3>1. PICK f : f = view[dt.arms[tag]][du.arms[tag]]
      OBVIOUS
    <3>2. v[tag] = <<>>
      BY <2>2 DEF NoArm
    <3>3. [i \in 1 .. Len(<<>>) |-> f[<<>>[i]]] = <<>>
      OBVIOUS
    <3>4. QED
      BY <2>2, <3>1, <3>2, <3>3
  <2>3. QED
    BY <2>1, <2>2
<1>3. QED
  BY <1>1, <1>2

OnlyArm(dt, du, v, arm, w) ==
    /\ arm \in DOMAIN du.arms \cap DOMAIN dt.arms /\ v[arm] = <<w>>
    /\ \A tag \in DOMAIN du.arms \cap DOMAIN dt.arms : tag # arm => v[tag] = <<>>

LEMMA ArmSeen ==
    ASSUME NEW view, NEW dt, NEW du, dt.kind = "union", NEW v, NEW arm, NEW w, OnlyArm(dt, du, v, arm, w)
    PROVE  Visible(view, dt, du, v) = One(du, arm, view[dt.arms[arm]][du.arms[arm]][w])
<1>1. Visible(view, dt, du, v) =
          [tag \in DOMAIN du.arms |->
              IF tag \notin DOMAIN dt.arms THEN <<>>
              ELSE [i \in 1 .. Len(v[tag]) |-> view[dt.arms[tag]][du.arms[tag]][v[tag][i]]]]
  BY DEF Visible
<1>o. /\ arm \in DOMAIN du.arms \cap DOMAIN dt.arms /\ v[arm] = <<w>>
      /\ \A tag \in DOMAIN du.arms \cap DOMAIN dt.arms : tag # arm => v[tag] = <<>>
  BY DEF OnlyArm
<1>2. PICK x : x = view[dt.arms[arm]][du.arms[arm]][w]
  OBVIOUS
<1>3. ASSUME NEW tag \in DOMAIN du.arms
      PROVE  (IF tag \notin DOMAIN dt.arms THEN <<>>
              ELSE [i \in 1 .. Len(v[tag]) |-> view[dt.arms[tag]][du.arms[tag]][v[tag][i]]]) =
                 (IF tag = arm THEN <<x>> ELSE <<>>)
  <2>1. PICK f : f = view[dt.arms[tag]][du.arms[tag]]
    OBVIOUS
  <2>2. CASE tag \notin DOMAIN dt.arms
    BY <1>o, <2>2
  <2>3. CASE tag \in DOMAIN dt.arms /\ tag # arm
    <3>1. v[tag] = <<>>
      BY <1>o, <2>3
    <3>2. [i \in 1 .. Len(<<>>) |-> f[<<>>[i]]] = <<>>
      OBVIOUS
    <3>3. QED
      BY <2>1, <2>3, <3>1, <3>2
  <2>4. CASE tag = arm
    <3>1. [i \in 1 .. Len(<<w>>) |-> f[<<w>>[i]]] = <<f[w]>>
      OBVIOUS
    <3>2. f[w] = x
      BY <1>2, <2>1, <2>4
    <3>3. QED
      BY <1>o, <2>1, <2>4, <3>1, <3>2
  <2>5. QED
    BY <2>2, <2>3, <2>4
<1>4. Visible(view, dt, du, v) = [tag \in DOMAIN du.arms |-> IF tag = arm THEN <<x>> ELSE <<>>]
  BY <1>1, <1>3
<1>5. QED
  BY <1>2, <1>4 DEF One

\* The arms that both know.
ArmsLegible(m, dt, du, v) ==
    \A tag \in DOMAIN du.arms \cap DOMAIN dt.arms :
        \A i \in DOMAIN v[tag] : v[tag][i] \in m.readable[dt.arms[tag]][du.arms[tag]]

LEMMA UnionLegible ==
    ASSUME NEW m, NEW dt, NEW du, du.kind = "union", NEW v, dt = du => ArmsLegible(m, dt, du, v)
    PROVE  Legible(m.readable, dt, du, v) <=> ArmsLegible(m, dt, du, v)
  BY DEF Legible, ArmsLegible

\* An arm is read up to the end of its frame.
ArmReads(m, t, u, v, r) ==
    /\ r.ok <=> v \in m.readable[t][u]
    /\ r.ok => m.view[u][u][r.val] = m.view[t][u][v]

ArmUnderstood(k, m, t, u) ==
    \A buffered \in BOOLEAN : \A v \in k.values[t] : \A c \in Contexts : \A pos \in Nat : \A old \in k.results[u] :
        LET e == k.encode[t][buffered][v]
        IN  e.ok /\ c.end = pos + Len(e.bytes) /\ Carries(c, pos, e) =>
                ArmReads(m, t, u, v, k.decode[u][c][pos][old])

ArmsUnderstood(k, m, dt, du) ==
    \A tag \in DOMAIN du.arms \cap DOMAIN dt.arms : ArmUnderstood(k, m, dt.arms[tag], du.arms[tag])

\* A union of which no arm is set that both know: it is skipped.
LEMMA SkippedArm ==
    ASSUME NEW k, NEW m, NEW dt, dt.kind = "union", NEW du, du.kind = "union", Sound(du),
           NEW v, dt = du => ArmsLegible(m, dt, du, v),
           NoArm(dt, du, v),
           NEW c \in Contexts, NEW pos \in Nat, NEW b \in Encodings, b.ok, NEW h \in Seq(Nat), NEW e, NEW s,
           HeadDone(c, pos, h, e, b, s),
           NEW r, ~s.ok => ~r.ok,
           NEW tag, tag \notin DOMAIN du.arms,
           s.ok => UnionRead(k, du, c, tag, s.pos, s.pos + Len(b.bytes), r)
    PROVE  Understands(m, dt, du, v, c, pos, e, r)
<1>1. PICK none : none = [other \in DOMAIN du.arms |-> <<>>]
  OBVIOUS
<1>v. PICK view : view = m.view
  OBVIOUS
<1>2. Visible(m.view, dt, du, v) = none
  <2>1. Visible(view, dt, du, v) = [other \in DOMAIN du.arms |-> <<>>]
    BY NoneSeen
  <2>2. QED
    BY <1>1, <1>v, <2>1
<1>3. Visible(m.view, du, du, none) = none
  <2>1. NoArm(du, du, none)
    BY <1>1 DEF NoArm
  <2>2. Visible(view, du, du, none) = [other \in DOMAIN du.arms |-> <<>>]
    BY <2>1, NoneSeen
  <2>3. QED
    BY <1>1, <1>v, <2>2
<1>4. ArmsLegible(m, dt, du, v)
  <2>1. PICK z : z = <<>>
    OBVIOUS
  <2>2. DOMAIN z = {}
    BY <2>1
  <2>3. QED
    BY <2>1, <2>2 DEF ArmsLegible, NoArm
<1>5. Legible(m.readable, dt, du, v)
  BY <1>4, UnionLegible
<1>6. c.end \in Nat /\ Len(b.bytes) \in Nat
  BY ContextIs, LenProperties DEF Encodings
<1>7. ASSUME s.ok
      PROVE  /\ r.ok <=> b.ok /\ s.pos + Len(b.bytes) <= c.end
             /\ r.ok => r.pos = s.pos + Len(b.bytes) /\ r.val = none
  <2>1. PICK end : end = s.pos + Len(b.bytes)
    OBVIOUS
  <2>2. end \in Nat
    BY <1>6, <1>7, <2>1 DEF HeadDone
  <2>3. UnionRead(k, du, c, tag, s.pos, end, r)
    BY <1>7, <2>1
  <2>4. CASE end > c.end
    <3>1. ~r.ok
      BY <2>3, <2>4 DEF UnionRead
    <3>2. QED
      BY <1>6, <2>1, <2>2, <2>4, <3>1
  <2>5. CASE end <= c.end
    <3>1. r.ok /\ r.pos = end /\ r.val = none
      BY <1>1, <2>3, <2>5 DEF UnionRead
    <3>2. QED
      BY <2>1, <2>5, <3>1
  <2>6. QED
    BY <1>6, <2>2, <2>4, <2>5
<1>8. /\ r.ok <=> e.ok /\ pos + Len(e.bytes) <= c.end
      /\ r.ok => r.pos = pos + Len(e.bytes)
  <2>1. PICK yes : yes = TRUE
    OBVIOUS
  <2>2. /\ s.ok => (r.ok <=> b.ok /\ s.pos + Len(b.bytes) <= c.end /\ yes)
        /\ r.ok => r.pos = s.pos + Len(b.bytes)
    BY <1>7, <2>1
  <2>3. /\ r.ok <=> e.ok /\ pos + Len(e.bytes) <= c.end /\ yes
        /\ r.ok => r.pos = pos + Len(e.bytes)
    BY <2>2, HeadThen
  <2>4. QED
    BY <2>1, <2>3
<1>9. r.ok => r.val = none
  BY <1>7
<1>10. QED
  BY <1>2, <1>3, <1>5, <1>8, <1>9 DEF Understands

\* The frame of an arm, read.
Framed(k, du, c, tag, b, s, r) ==
    /\ ~s.ok => ~r.ok
    /\ s.ok => UnionRead(k, du, c, tag, s.pos, s.pos + Len(b.bytes), r)

LEMMA FrameRead ==
    ASSUME NEW k, NEW du, du.kind = "union", Sound(du), Inner(k, du),
           NEW c \in Contexts, NEW pos \in Nat, NEW b \in Encodings, NEW tag \in Nat,
           NEW h \in Seq(Nat), h = <<tag, Len(b.bytes)>>, NEW e, NEW s, HeadDone(c, pos, h, e, b, s),
           NEW old \in Results(k, du), NEW r, r = DecodeUnion(k, du, c, s, old)
    PROVE  Framed(k, du, c, tag, b, s, r)
<1>1. ~s.ok => ~r.ok
  BY DEF DecodeUnion, Bad
<1>2. ASSUME s.ok
      PROVE  UnionRead(k, du, c, tag, s.pos, s.pos + Len(b.bytes), r)
  <2>1. PICK l : l = Len(b.bytes)
    OBVIOUS
  <2>2. l \in Nat
    BY <2>1, LenProperties DEF Encodings
  <2>3. h = <<tag, l>>
    BY <2>1
  <2>4. Len(h) = 2 /\ h[1] = tag /\ h[2] = l
    BY <2>3
  <2>5. PICK n : n = Len(h)
    OBVIOUS
  <2>6. 1 \in 1 .. n /\ 2 \in 1 .. n
    BY <2>4, <2>5
  <2>7. s.pos \in Nat /\ \A i \in 1 .. n : s.val[i] = h[i]
    BY <1>2, <2>5 DEF HeadDone
  <2>8. s.val[1] = tag /\ s.val[2] = l
    BY <2>4, <2>6, <2>7
  <2>9. PICK from : from = s.pos
    OBVIOUS
  <2>10. PICK end : end = from + l
    OBVIOUS
  <2>11. from \in Nat /\ end \in Nat /\ from <= end
    BY <2>2, <2>7, <2>9, <2>10
  <2>12. r = UnionBody(k, du, c, tag, from, end, old)
    BY <1>2, <2>8, <2>9, <2>10 DEF DecodeUnion
  <2>13. UnionRead(k, du, c, tag, from, end, r)
    BY <2>11, <2>12, UnionReads
  <2>14. QED
    BY <2>1, <2>9, <2>10, <2>13
<1>3. QED
  BY <1>1, <1>2 DEF Framed

\* The arm that is written, alone.
ArmWritten(k, dt, v, arm, w, b, e) ==
    /\ arm \in DOMAIN dt.arms /\ arm \in Nat \ {0}
    /\ v[arm] = <<w>> /\ w \in k.values[dt.arms[arm]]
    /\ \A tag \in DOMAIN dt.arms : tag # arm => v[tag] = <<>>
    /\ b \in Encodings /\ b.ok /\ b = k.encode[dt.arms[arm]][TRUE][w]
    /\ e = Then(Written(<<arm, Len(b.bytes)>>), b)

UnionWritten(k, dt, v, e) ==
    \/ (\A tag \in DOMAIN dt.arms : v[tag] = <<>>) /\ e = Written(<<0, 0>>)
    \/ e = Failed
    \/ \E arm, w, b : ArmWritten(k, dt, v, arm, w, b, e)

LEMMA UnionWrites ==
    ASSUME NEW k, NEW dt, dt.kind = "union", Sound(dt), \A t \in Parts(dt) : EncodeTyped(k, t),
           NEW v \in Shape(k.values, dt, FALSE), NEW e, e = EncodeUnion(k, dt, v)
    PROVE  UnionWritten(k, dt, v, e)
<1> DEFINE set == {tag \in DOMAIN dt.arms : v[tag] # <<>>}
           any == CHOOSE tag \in set : TRUE
<1>1. e = IF set = {} THEN Written(<<0, 0>>)
          ELSE IF set # {any} THEN Failed
          ELSE Frame(any, k.encode[dt.arms[any]][TRUE][v[any][1]])
  BY DEF EncodeUnion
<1>2. CASE set = {}
  <2>1. e = Written(<<0, 0>>)
    BY <1>1, <1>2
  <2>2. \A tag \in DOMAIN dt.arms : v[tag] = <<>>
    BY <1>2
  <2>3. QED
    BY <2>1, <2>2 DEF UnionWritten
<1>3. CASE set # {} /\ set # {any}
  <2>1. e = Failed
    BY <1>1, <1>3
  <2>2. QED
    BY <2>1 DEF UnionWritten
<1>4. CASE set # {} /\ set = {any}
  <2>1. any \in set
    BY <1>4
  <2>2. PICK arm : arm = any
    OBVIOUS
  <2>3. arm \in DOMAIN dt.arms /\ v[arm] # <<>>
    BY <2>1, <2>2
  <2>4. \A tag \in DOMAIN dt.arms : tag # arm => v[tag] = <<>>
    BY <1>4, <2>2
  <2>5. PICK b : b = k.encode[dt.arms[arm]][TRUE][v[arm][1]]
    OBVIOUS
  <2>6. e = Frame(arm, b)
    BY <1>1, <1>4, <2>2, <2>5
  <2> HIDE DEF set, any
  <2>7. PICK x : x = v[arm]
    OBVIOUS
  <2>8. PICK S : S = k.values[dt.arms[arm]]
    OBVIOUS
  <2>9. x \in Seq(S) /\ Len(x) \in {0, 1} /\ (x = <<>> <=> Len(x) = 0) /\ (x # <<>> => x[1] \in S)
    <3>1. v[arm] \in Seq(k.values[dt.arms[arm]])
      BY <2>3, ArmOf
    <3>2. Len(v[arm]) \in {0, 1}
      BY <2>3, ArmOf
    <3>3. v[arm] = <<>> <=> Len(v[arm]) = 0
      BY <2>3, ArmOf
    <3>4. v[arm][1] \in k.values[dt.arms[arm]]
      BY <2>3, ArmOf
    <3>5. QED
      BY <2>7, <2>8, <3>1, <3>2, <3>3, <3>4
  <2>10. Len(x) = 1 /\ x[1] \in S
    BY <2>3, <2>7, <2>9
  <2>11. PICK w : w = x[1]
    OBVIOUS
  <2>12. x = <<w>>
    BY ONLY <2>9, <2>10, <2>11
  <2>13. arm \in Nat \ {0}
    BY <2>3, ArmOf
  <2>14. EncodeTyped(k, dt.arms[arm])
    BY <2>3 DEF Parts
  <2>15. b \in Encodings /\ b = k.encode[dt.arms[arm]][TRUE][w]
    <3>1. b = k.encode[dt.arms[arm]][TRUE][w]
      BY <2>5, <2>7, <2>11
    <3>2. w \in k.values[dt.arms[arm]]
      BY <2>8, <2>10, <2>11
    <3>3. QED
      BY <2>14, <3>1, <3>2 DEF EncodeTyped
  <2>16. CASE ~b.ok
    <3>1. e = Failed
      BY <2>6, <2>16 DEF Frame
    <3>2. QED
      BY <3>1 DEF UnionWritten
  <2>17. CASE b.ok
    <3>1. e = Then(Written(<<arm, Len(b.bytes)>>), b)
      BY <2>6, <2>17 DEF Frame
    <3>2. ArmWritten(k, dt, v, arm, w, b, e)
      BY <2>3, <2>4, <2>7, <2>8, <2>10, <2>11, <2>12, <2>13, <2>15, <2>17, <3>1 DEF ArmWritten
    <3>3. QED
      BY <3>2 DEF UnionWritten
  <2>18. QED
    BY <2>15, <2>16, <2>17 DEF Encodings
<1>5. QED
  BY <1>2, <1>3, <1>4

\* A union of which one arm is set that both know.
LEMMA OneLegible ==
    ASSUME NEW m, NEW dt, NEW du, NEW k, NEW v, NEW arm, NEW w, NEW b, NEW e, ArmWritten(k, dt, v, arm, w, b, e),
           arm \in DOMAIN du.arms
    PROVE  ArmsLegible(m, dt, du, v) <=> w \in m.readable[dt.arms[arm]][du.arms[arm]]
<1>1. /\ arm \in DOMAIN du.arms \cap DOMAIN dt.arms /\ v[arm] = <<w>>
      /\ \A tag \in DOMAIN dt.arms : tag # arm => v[tag] = <<>>
  BY DEF ArmWritten
<1>2. PICK z : z = <<>>
  OBVIOUS
<1>3. DOMAIN z = {}
  BY <1>2
<1>4. PICK x : x = <<w>>
  OBVIOUS
<1>5. DOMAIN x = {1} /\ x[1] = w
  BY <1>4
<1>6. \A tag \in DOMAIN du.arms \cap DOMAIN dt.arms : tag = arm \/ v[tag] = z
  BY <1>1, <1>2
<1>7. v[arm] = x
  BY <1>1, <1>4
<1>8. QED
  BY <1>1, <1>3, <1>5, <1>6, <1>7 DEF ArmsLegible

LEMMA CarriesBody ==
    ASSUME NEW c \in Contexts, NEW from \in Nat, NEW b \in Encodings, b.ok, Carries(c, from, b),
           NEW end \in Nat, end <= c.end, NEW body, body = Body(c, end)
    PROVE  Carries(body, from, b)
<1>1. c.end \in Nat
  BY ContextIs
<1>2. body.end = end /\ body.bytes = c.bytes
  BY BodyIs
<1>3. ASSUME NEW i \in 1 .. Len(b.bytes), from + i <= end
      PROVE  c.bytes[from + i] = b.bytes[i]
  <2>1. from + i <= c.end
    BY <1>1, <1>3
  <2>2. QED
    BY <2>1 DEF Carries
<1>4. QED
  BY <1>2, <1>3 DEF Carries

ArmDone(m, dt, du, arm, w, end, r) ==
    /\ r.ok <=> w \in m.readable[dt.arms[arm]][du.arms[arm]]
    /\ r.ok => /\ r.pos = end
               /\ \E x : /\ r.val = One(du, arm, x)
                         /\ m.view[du.arms[arm]][du.arms[arm]][x] = m.view[dt.arms[arm]][du.arms[arm]][w]

LEMMA ArmUnderstoodHere ==
    ASSUME NEW k, NEW m, NEW dt, NEW du, NEW v, NEW arm, NEW w, NEW b, NEW e, ArmWritten(k, dt, v, arm, w, b, e),
           arm \in DOMAIN du.arms, ArmsUnderstood(k, m, dt, du),
           NEW c \in Contexts, NEW from \in Nat, Carries(c, from, b),
           NEW end \in Nat, end = from + Len(b.bytes), end <= c.end,
           NEW r, ArmRead(k, du.arms[arm], c, from, end, r, du, arm)
    PROVE  ArmDone(m, dt, du, arm, w, end, r)
<1>1. PICK t : t = dt.arms[arm]
  OBVIOUS
<1>2. PICK u : u = du.arms[arm]
  OBVIOUS
<1>3. arm \in DOMAIN dt.arms /\ w \in k.values[t] /\ b \in Encodings /\ b.ok /\ b = k.encode[t][TRUE][w]
  BY <1>1 DEF ArmWritten
<1>4. ArmUnderstood(k, m, t, u)
  BY <1>1, <1>2, <1>3 DEF ArmsUnderstood
<1>5. PICK body : body = Body(c, end)
  OBVIOUS
<1>6. body \in Contexts /\ body.end = end
  BY <1>5, BodyIs
<1>7. Carries(body, from, b)
  BY <1>3, <1>5, CarriesBody
<1>8. PICK old \in k.results[u] :
          LET x == k.decode[u][body][from][old]
          IN  /\ r.ok <=> x.ok
              /\ r.ok => x.val \in k.results[u] /\ r.pos = end /\ r.val = One(du, arm, x.val)
  BY <1>2, <1>5 DEF ArmRead
<1>9. PICK x : x = k.decode[u][body][from][old]
  OBVIOUS
<1>10. (r.ok <=> x.ok) /\ (r.ok => r.pos = end /\ r.val = One(du, arm, x.val))
  BY <1>8, <1>9
<1>11. ArmReads(m, t, u, w, x)
  <2>1. body.end = from + Len(b.bytes)
    BY <1>6
  <2>2. PICK yes : yes = TRUE
    OBVIOUS
  <2>3. b = k.encode[t][yes][w] /\ yes \in BOOLEAN
    BY <1>3, <2>2
  <2>4. QED
    BY <1>3, <1>4, <1>6, <1>7, <1>9, <2>1, <2>3 DEF ArmUnderstood
<1>12. (x.ok <=> w \in m.readable[t][u]) /\ (x.ok => m.view[u][u][x.val] = m.view[t][u][w])
  BY <1>11 DEF ArmReads
<1>13. r.ok => m.view[u][u][x.val] = m.view[t][u][w]
  BY <1>10, <1>12
<1>14. r.ok => \E y : r.val = One(du, arm, y) /\ m.view[u][u][y] = m.view[t][u][w]
  BY <1>10, <1>13
<1>15. (r.ok <=> w \in m.readable[t][u]) /\ (r.ok => r.pos = end)
  BY <1>10, <1>12
<1>16. QED
  BY <1>1, <1>2, <1>14, <1>15 DEF ArmDone

LEMMA KnownArm ==
    ASSUME NEW k, NEW m, NEW dt, dt.kind = "union", NEW du, du.kind = "union", ArmsUnderstood(k, m, dt, du),
           NEW v, dt = du => ArmsLegible(m, dt, du, v),
           NEW arm, NEW w, NEW b, NEW e, ArmWritten(k, dt, v, arm, w, b, e), arm \in DOMAIN du.arms,
           NEW c \in Contexts, NEW pos \in Nat, NEW h \in Seq(Nat), NEW s, HeadDone(c, pos, h, e, b, s),
           NEW r, Framed(k, du, c, arm, b, s, r)
    PROVE  Understands(m, dt, du, v, c, pos, e, r)
<1>1. PICK t : t = dt.arms[arm]
  OBVIOUS
<1>2. PICK u : u = du.arms[arm]
  OBVIOUS
<1>3. /\ arm \in DOMAIN du.arms \cap DOMAIN dt.arms /\ v[arm] = <<w>>
      /\ \A tag \in DOMAIN dt.arms : tag # arm => v[tag] = <<>>
      /\ b \in Encodings /\ b.ok
  BY DEF ArmWritten
<1>4. PICK view : view = m.view
  OBVIOUS
<1>5. Legible(m.readable, dt, du, v) <=> w \in m.readable[t][u]
  <2>1. Legible(m.readable, dt, du, v) <=> ArmsLegible(m, dt, du, v)
    BY UnionLegible
  <2>2. ArmsLegible(m, dt, du, v) <=> w \in m.readable[dt.arms[arm]][du.arms[arm]]
    BY OneLegible
  <2>3. QED
    BY <1>1, <1>2, <2>1, <2>2
<1>6. c.end \in Nat /\ Len(b.bytes) \in Nat
  BY <1>3, ContextIs, LenProperties DEF Encodings
<1>7. PICK legible : legible = (w \in m.readable[t][u])
  OBVIOUS
<1>8. ~s.ok => ~r.ok
  BY DEF Framed
<1>9. ASSUME s.ok
      PROVE  /\ r.ok <=> b.ok /\ s.pos + Len(b.bytes) <= c.end /\ legible
             /\ r.ok => /\ r.pos = s.pos + Len(b.bytes)
                        /\ \E x : r.val = One(du, arm, x) /\ view[u][u][x] = view[t][u][w]
  <2>1. PICK from : from = s.pos
    OBVIOUS
  <2>2. PICK end : end = from + Len(b.bytes)
    OBVIOUS
  <2>3. from \in Nat /\ end \in Nat /\ Carries(c, from, b)
    BY <1>6, <1>9, <2>1, <2>2 DEF HeadDone
  <2>4. UnionRead(k, du, c, arm, from, end, r)
    BY <1>9, <2>1, <2>2 DEF Framed
  <2>5. CASE end > c.end
    <3>1. ~r.ok
      BY <2>4, <2>5 DEF UnionRead
    <3>2. QED
      BY <1>6, <2>1, <2>2, <2>3, <2>5, <3>1
  <2>6. CASE end <= c.end
    <3>1. ArmRead(k, du.arms[arm], c, from, end, r, du, arm)
      BY <2>4, <2>6 DEF UnionRead
    <3>2. ArmDone(m, dt, du, arm, w, end, r)
      BY <2>2, <2>3, <2>6, <3>1, ArmUnderstoodHere
    <3>3. /\ r.ok <=> w \in m.readable[t][u]
          /\ r.ok => r.pos = end /\ \E x : r.val = One(du, arm, x) /\ m.view[u][u][x] = m.view[t][u][w]
      BY <1>1, <1>2, <3>2 DEF ArmDone
    <3>4. QED
      BY <1>3, <1>4, <1>7, <2>1, <2>2, <2>6, <3>3
  <2>7. QED
    BY <1>6, <2>3, <2>5, <2>6
<1>10. /\ r.ok <=> e.ok /\ pos + Len(e.bytes) <= c.end /\ legible
       /\ r.ok => r.pos = pos + Len(e.bytes)
  <2>1. /\ s.ok => (r.ok <=> b.ok /\ s.pos + Len(b.bytes) <= c.end /\ legible)
        /\ r.ok => r.pos = s.pos + Len(b.bytes)
    BY <1>8, <1>9
  <2>2. QED
    BY <1>3, <1>8, <2>1, HeadThen
<1>11. ASSUME r.ok
       PROVE  Visible(m.view, du, du, r.val) = Visible(m.view, dt, du, v)
  <2>1. PICK x : r.val = One(du, arm, x) /\ view[u][u][x] = view[t][u][w]
    BY <1>8, <1>9, <1>11
  <2>2. PICK y : y = One(du, arm, x)
    OBVIOUS
  <2>3. OnlyArm(du, du, y, arm, x)
    BY <1>3, <2>2 DEF One, OnlyArm
  <2>4. Visible(view, du, du, y) = One(du, arm, view[du.arms[arm]][du.arms[arm]][x])
    <3>1. PICK d : d = du
      OBVIOUS
    <3>2. d.kind = "union" /\ OnlyArm(d, du, y, arm, x)
      BY <2>3, <3>1
    <3>3. Visible(view, d, du, y) = One(du, arm, view[d.arms[arm]][du.arms[arm]][x])
      BY ONLY <3>2, ArmSeen
    <3>4. QED
      BY <3>1, <3>3
  <2>5. OnlyArm(dt, du, v, arm, w)
    BY <1>3 DEF OnlyArm
  <2>6. Visible(view, dt, du, v) = One(du, arm, view[dt.arms[arm]][du.arms[arm]][w])
    BY <2>5, ArmSeen
  <2>7. QED
    BY <1>1, <1>2, <1>4, <2>1, <2>2, <2>4, <2>6
<1>12. QED
  BY <1>5, <1>7, <1>10, <1>11 DEF Understands

LEMMA UnionUnderstood ==
    ASSUME NEW k, NEW m, NEW dt, dt.kind = "union", Sound(dt), \A t \in Parts(dt) : EncodeTyped(k, t),
           NEW du, du.kind = "union", Sound(du), Inner(k, du), ArmsUnderstood(k, m, dt, du),
           NEW v \in Shape(k.values, dt, FALSE), dt = du => ArmsLegible(m, dt, du, v), NEW buffered,
           NEW c \in Contexts, NEW pos \in Nat, pos <= c.end, NEW old \in Results(k, du),
           NEW e, e = EncodeOf(k, dt, v, buffered), Carries(c, pos, e),
           NEW r, r = DecodeOf(k, du, c, pos, old)
    PROVE  Understands(m, dt, du, v, c, pos, e, r)
<1>1. e = EncodeUnion(k, dt, v)
  BY DEF EncodeOf
<1>2. UnionWritten(k, dt, v, e)
  BY <1>1, UnionWrites
<1>3. PICK w : w = 2
  OBVIOUS
<1>4. PICK s : s = Slice(c, pos, w)
  OBVIOUS
<1>5. r = DecodeUnion(k, du, c, s, old)
  BY <1>3, <1>4 DEF DecodeOf
<1>6. DOMAIN du.arms \subseteq Nat \ {0}
  BY ByteIs DEF Sound
<1>7. CASE (\A tag \in DOMAIN dt.arms : v[tag] = <<>>) /\ e = Written(<<0, 0>>)
  <2>1. PICK none : none = <<>>
    OBVIOUS
  <2>2. none \in Seq(Nat) /\ Len(none) = 0
    BY <2>1, EmptySeq
  <2>3. PICK b : b = Written(none)
    OBVIOUS
  <2>4. b \in Encodings /\ b.ok /\ b.bytes = none
    BY <2>2, <2>3, WrittenTyped
  <2>5. PICK tag : tag = 0
    OBVIOUS
  <2>6. PICK h : h = <<tag, Len(b.bytes)>>
    OBVIOUS
  <2>7. tag \in Nat /\ tag \notin DOMAIN du.arms /\ h = <<0, 0>>
    BY <1>6, <2>2, <2>4, <2>5, <2>6
  <2>8. h \in Seq(Nat) /\ Len(h) = 2
    BY <2>7
  <2>9. e = Then(Written(h), b)
    <3>1. e = Written(h)
      BY <1>7, <2>7
    <3>2. h \o none = h
      BY <2>1, <2>8
    <3>3. QED
      BY <2>3, <3>1, <3>2 DEF Then, Written
  <2>10. w \in Nat /\ w = Len(h)
    BY <1>3, <2>8
  <2>11. HeadDone(c, pos, h, e, b, s)
    BY <1>4, <2>4, <2>8, <2>9, <2>10, HeadRead
  <2>12. Framed(k, du, c, tag, b, s, r)
    BY <1>5, <2>4, <2>6, <2>7, <2>8, <2>11, FrameRead
  <2>13. NoArm(dt, du, v)
    BY <1>7 DEF NoArm
  <2>14. (~s.ok => ~r.ok) /\ (s.ok => UnionRead(k, du, c, tag, s.pos, s.pos + Len(b.bytes), r))
    BY <2>12 DEF Framed
  <2>15. QED
    BY <2>4, <2>7, <2>8, <2>11, <2>13, <2>14, SkippedArm
<1>8. CASE e = Failed
  <2>1. c.end <= pos /\ c.end \in Nat
    BY <1>8, NothingRead, ContextIs
  <2>2. ~s.ok
    BY <1>3, <1>4, <2>1 DEF Slice, Rest, Bad
  <2>3. ~e.ok
    BY <1>8 DEF Failed
  <2>4. ~r.ok
    BY <1>5, <2>2 DEF DecodeUnion, Bad
  <2>5. QED
    BY <2>3, <2>4 DEF Understands
<1>9. ASSUME NEW arm, NEW x, NEW b, ArmWritten(k, dt, v, arm, x, b, e)
      PROVE  Understands(m, dt, du, v, c, pos, e, r)
  <2>1. /\ arm \in DOMAIN dt.arms /\ arm \in Nat \ {0} /\ b \in Encodings /\ b.ok
        /\ e = Then(Written(<<arm, Len(b.bytes)>>), b)
        /\ \A tag \in DOMAIN dt.arms : tag # arm => v[tag] = <<>>
    BY <1>9 DEF ArmWritten
  <2>2. PICK l : l = Len(b.bytes)
    OBVIOUS
  <2>3. l \in Nat
    BY <2>1, <2>2, LenProperties DEF Encodings
  <2>4. PICK h : h = <<arm, l>>
    OBVIOUS
  <2>5. h \in Seq(Nat) /\ Len(h) = 2
    BY <2>1, <2>3, <2>4
  <2>6. h = <<arm, Len(b.bytes)>> /\ e = Then(Written(h), b) /\ arm \in Nat
    BY <2>1, <2>2, <2>4
  <2>7. w \in Nat /\ w = Len(h)
    BY <1>3, <2>5
  <2>8. HeadDone(c, pos, h, e, b, s)
    BY <1>4, <2>1, <2>5, <2>6, <2>7, HeadRead
  <2>9. Framed(k, du, c, arm, b, s, r)
    BY <1>5, <2>1, <2>5, <2>6, <2>8, FrameRead
  <2>10. CASE arm \in DOMAIN du.arms
    BY <1>9, <2>5, <2>8, <2>9, <2>10, KnownArm
  <2>11. CASE arm \notin DOMAIN du.arms
    <3>1. NoArm(dt, du, v)
      BY <2>1, <2>11 DEF NoArm
    <3>2. (~s.ok => ~r.ok) /\ (s.ok => UnionRead(k, du, c, arm, s.pos, s.pos + Len(b.bytes), r))
      BY <2>9 DEF Framed
    <3>3. QED
      BY <2>1, <2>5, <2>8, <2>11, <3>1, <3>2, SkippedArm
  <2>12. QED
    BY <2>10, <2>11
<1>10. QED
  BY <1>2, <1>7, <1>8, <1>9 DEF UnionWritten

LEMMA SkippedUnderstood ==
    ASSUME NEW k, NEW m, NEW d, d.kind = "skipped", NEW v, NEW buffered,
           NEW c, NEW pos \in Nat, pos <= c.end, NEW old,
           NEW e, e = EncodeOf(k, d, v, buffered), NEW r, r = DecodeOf(k, d, c, pos, old)
    PROVE  Understands(m, d, d, v, c, pos, e, r)
<1>1. r = Ok(pos, old) /\ e = Written(<<>>)
  BY DEF DecodeOf, EncodeOf
<1>2. r.ok /\ r.pos = pos /\ e.ok /\ Len(e.bytes) = 0
  BY <1>1, EmptySeq DEF Ok, Written
<1>3. pos + 0 = pos
  OBVIOUS
<1>4. Visible(m.view, d, d, r.val) = Visible(m.view, d, d, v)
  BY DEF Visible
<1>5. QED
  BY <1>2, <1>3, <1>4, OwnUnderstood

\* What is read in any place is read as an arm.
LEMMA ReadAsArm ==
    ASSUME NEW k, NEW m, NEW t, NEW u, EncodeTyped(k, t), Understood(k, m, t, u)
    PROVE  ArmUnderstood(k, m, t, u)
<1>1. ASSUME NEW buffered \in BOOLEAN, NEW v \in k.values[t], NEW c \in Contexts, NEW pos \in Nat, NEW old \in k.results[u],
             NEW e, e = k.encode[t][buffered][v], e.ok, c.end = pos + Len(e.bytes), Carries(c, pos, e)
      PROVE  ArmReads(m, t, u, v, k.decode[u][c][pos][old])
  <2>1. PICK l : l = Len(e.bytes)
    OBVIOUS
  <2>2. e \in Encodings
    BY <1>1 DEF EncodeTyped
  <2>3. l \in Nat
    BY <2>1, <2>2, LenProperties DEF Encodings
  <2>4. c.end \in Nat /\ pos <= c.end /\ pos + Len(e.bytes) <= c.end
    <3>1. PICK end : end = c.end
      OBVIOUS
    <3>2. end = pos + l /\ pos \in Nat
      BY <1>1, <2>1, <3>1
    <3>3. end \in Nat /\ pos <= end /\ pos + l <= end
      BY ONLY <2>3, <3>2
    <3>4. QED
      BY <2>1, <3>1, <3>3
  <2>5. PICK r : r = k.decode[u][c][pos][old]
    OBVIOUS
  <2>6. Reads(m, t, u, v, c, pos, e, r)
    BY <1>1, <2>4, <2>5 DEF Understood
  <2>7. ArmReads(m, t, u, v, r)
    BY <1>1, <2>4, <2>6 DEF Reads, ArmReads
  <2>8. QED
    BY <2>5, <2>7
<1>2. QED
  BY <1>1 DEF ArmUnderstood

\* A type reads what it wrote.
LEMMA OwnTuple ==
    ASSUME NEW k, NEW m, NEW t \in Types, NEW d, d = Desc[t], d.kind = "tuple", Sound(d), OwnParts(k, m, d),
           NEW v \in Shape(k.values, d, FALSE), NEW buffered \in BOOLEAN,
           NEW c \in Contexts, NEW pos \in Nat, pos <= c.end, NEW old \in Results(k, d),
           NEW e, e = EncodeOf(k, d, v, buffered), Carries(c, pos, e),
           NEW r, r = DecodeOf(k, d, c, pos, old)
    PROVE  Understands(m, d, d, v, c, pos, e, r)
<1>1. PICK n : n = Len(d.parts)
  OBVIOUS
<1>2. n \in Nat /\ DOMAIN d.parts = 1 .. n /\ \A i \in 1 .. n : d.parts[i] \in Types /\ v[i] \in k.values[d.parts[i]]
  BY <1>1, TupleValue
<1>3. \A i \in 1 .. n : d.parts[i] \in Parts(d)
  BY <1>2 DEF Parts, ToSet
<1>4. \A i \in 1 .. n : Owned(k, m, d.parts[i])
  BY <1>3 DEF OwnParts
<1>5. PartsUnderstood(k, m, d.parts, d.parts, n)
  BY <1>4 DEF PartsUnderstood, Owned, CodecTyped
<1>6. AllLegible(m, d.parts, d.parts, v, n)
  BY <1>2, <1>4 DEF AllLegible, Owned
<1>7. Inner(k, d)
  BY InnerOfOwn
<1>8. QED
  BY <1>1, <1>2, <1>5, <1>6, <1>7, TupleUnderstood

LEMMA OwnUnion ==
    ASSUME NEW k, NEW m, NEW d, d.kind = "union", Sound(d), OwnParts(k, m, d),
           NEW v \in Shape(k.values, d, FALSE), NEW buffered \in BOOLEAN,
           NEW c \in Contexts, NEW pos \in Nat, pos <= c.end, NEW old \in Results(k, d),
           NEW e, e = EncodeOf(k, d, v, buffered), Carries(c, pos, e),
           NEW r, r = DecodeOf(k, d, c, pos, old)
    PROVE  Understands(m, d, d, v, c, pos, e, r)
<1>1. \A tag \in DOMAIN d.arms : d.arms[tag] \in Parts(d)
  BY DEF Parts
<1>2. \A tag \in DOMAIN d.arms : Owned(k, m, d.arms[tag]) /\ EncodeTyped(k, d.arms[tag])
  BY <1>1 DEF OwnParts, Owned, CodecTyped
<1>3. \A u \in Parts(d) : EncodeTyped(k, u)
  BY DEF OwnParts, Owned, CodecTyped
<1>4. ArmsUnderstood(k, m, d, d)
  <2>1. ASSUME NEW tag \in DOMAIN d.arms
        PROVE  ArmUnderstood(k, m, d.arms[tag], d.arms[tag])
    <3>1. PICK u : u = d.arms[tag]
      OBVIOUS
    <3>2. EncodeTyped(k, u) /\ Understood(k, m, u, u)
      BY <1>2, <3>1 DEF Owned
    <3>3. ArmUnderstood(k, m, u, u)
      BY <3>2, ReadAsArm
    <3>4. QED
      BY <3>1, <3>3
  <2>2. QED
    BY <2>1 DEF ArmsUnderstood
<1>5. ArmsLegible(m, d, d, v)
  <2>1. ASSUME NEW tag \in DOMAIN d.arms, NEW i \in DOMAIN v[tag]
        PROVE  v[tag][i] \in m.readable[d.arms[tag]][d.arms[tag]]
    <3>1. PICK x : x = v[tag]
      OBVIOUS
    <3>2. PICK u : u = d.arms[tag]
      OBVIOUS
    <3>3. PICK S : S = k.values[u]
      OBVIOUS
    <3>4. v[tag] \in Seq(k.values[d.arms[tag]])
      BY ArmOf
    <3>5. x \in Seq(S) /\ i \in DOMAIN x
      BY <2>1, <3>1, <3>2, <3>3, <3>4
    <3>6. x[i] \in S
      BY <3>5, ElementOfSeq, LenProperties
    <3>7. \A y \in k.values[u] : y \in m.readable[u][u]
      BY <1>2, <3>2 DEF Owned
    <3>8. QED
      BY <3>1, <3>2, <3>3, <3>6, <3>7
  <2>2. QED
    BY <2>1 DEF ArmsLegible
<1>6. Inner(k, d)
  BY InnerOfOwn
<1>7. QED
  BY <1>3, <1>4, <1>5, <1>6, UnionUnderstood

LEMMA OwnOf ==
    ASSUME NEW k, NEW m, NEW t \in Types, NEW d, d = Desc[t], Sound(d), OwnParts(k, m, d),
           NEW v \in Shape(k.values, d, FALSE), NEW buffered \in BOOLEAN,
           NEW c \in Contexts, NEW pos \in Nat, pos <= c.end, NEW old \in Results(k, d),
           NEW e, e = EncodeOf(k, d, v, buffered), Carries(c, pos, e),
           NEW r, r = DecodeOf(k, d, c, pos, old)
    PROVE  Understands(m, d, d, v, c, pos, e, r)
<1>1. d.kind \in Kinds
  BY DEF Sound
<1>2. CASE d.kind = "skipped"
  BY <1>2, SkippedUnderstood
<1>3. CASE d.kind = "fixed"
  BY <1>3, FixedUnderstood
<1>4. CASE d.kind = "blob"
  BY <1>4, BlobUnderstood
<1>5. CASE d.kind = "slice"
  BY <1>5, SliceUnderstood
<1>6. CASE d.kind = "pointer"
  BY <1>6, PointerUnderstood
<1>7. CASE d.kind = "tuple"
  BY <1>7, OwnTuple
<1>8. CASE d.kind = "map"
  BY <1>8, MapUnderstood
<1>9. CASE d.kind = "union"
  BY <1>9, OwnUnion
<1>10. QED
  BY <1>1, <1>2, <1>3, <1>4, <1>5, <1>6, <1>7, <1>8, <1>9 DEF Kinds

\* An encoding that succeeds has all of its beginnings, and they are no longer.
LEMMA Grows ==
    ASSUME NEW k, NEW types, Len(types) \in Nat, NEW values, NEW buffered,
           \A i \in 1 .. Len(types) : k.encode[types[i]][buffered][values[i]] \in Encodings,
           NEW f, f = EncodeUpTo(k, types, values, buffered), f[Len(types)].ok
    PROVE  \A i \in 0 .. Len(types) : f[i].ok /\ Len(f[i].bytes) <= Len(f[Len(types)].bytes)
<1>1. PICK n \in Nat : n = Len(types)
  OBVIOUS
<1>2. \A i \in 0 .. n : f[i] \in Encodings
  BY <1>1, EncodeSteps
<1>3. \A i \in 0 .. n - 1 : Extended(k, types, values, buffered, f, i)
  BY <1>1, EncodeSteps
<1>4. PICK all : all = Len(f[n].bytes)
  OBVIOUS
<1>5. n \in 0 .. n
  OBVIOUS
<1>6. f[n] \in Encodings
  BY <1>2, <1>5
<1>7. all \in Nat
  BY <1>4, <1>6, LenProperties DEF Encodings
<1> DEFINE T == {j \in Nat : j <= n => f[n - j].ok /\ Len(f[n - j].bytes) <= all}
<1>8. 0 \in T
  BY <1>1, <1>4, <1>7
<1>9. ASSUME NEW j \in Nat, j \in T
      PROVE  j + 1 \in T
  <2>1. SUFFICES ASSUME j + 1 <= n
                 PROVE  f[n - (j + 1)].ok /\ Len(f[n - (j + 1)].bytes) <= all
    OBVIOUS
  <2>2. PICK i : i = n - (j + 1)
    OBVIOUS
  <2>3. i \in 0 .. n - 1 /\ i + 1 = n - j /\ i \in 0 .. n /\ i + 1 \in 1 .. n
    BY <2>1, <2>2
  <2>4. f[i + 1].ok /\ Len(f[i + 1].bytes) <= all
    BY <1>9, <2>1, <2>3
  <2>5. PICK a : a = f[i]
    OBVIOUS
  <2>6. PICK b : b = k.encode[types[i + 1]][buffered][values[i + 1]]
    OBVIOUS
  <2>7. a \in Encodings /\ b \in Encodings
    BY <1>1, <1>2, <2>3, <2>5, <2>6
  <2>8. (a.ok => f[i + 1] = Then(a, b)) /\ (~a.ok => f[i + 1] = a)
    BY <1>3, <2>3, <2>5, <2>6 DEF Extended
  <2>9. a.ok
    BY <2>4, <2>8
  <2>10. PICK e : e = f[i + 1]
    OBVIOUS
  <2>11. Len(e.bytes) = Len(a.bytes) + Len(b.bytes)
    <3>1. e = Then(a, b)
      BY <2>8, <2>9, <2>10
    <3>2. Len(Then(a, b).bytes) = Len(a.bytes) + Len(b.bytes)
      BY <2>7, ThenTyped
    <3>3. QED
      BY <3>1, <3>2
  <2>12. Len(a.bytes) \in Nat /\ Len(b.bytes) \in Nat
    BY <2>7, LenProperties DEF Encodings
  <2>13. PICK la : la = Len(a.bytes)
    OBVIOUS
  <2>14. PICK lb : lb = Len(b.bytes)
    OBVIOUS
  <2>15. la \in Nat /\ lb \in Nat /\ la + lb <= all
    BY <2>4, <2>10, <2>11, <2>12, <2>13, <2>14
  <2>16. la <= all
    BY ONLY <1>7, <2>15
  <2>17. QED
    BY <2>2, <2>5, <2>9, <2>13, <2>16
<1>10. Nat \subseteq T
  <2> HIDE DEF T
  <2>1. QED
    BY <1>8, <1>9, InductionBySet
<1>11. ASSUME NEW i \in 0 .. n
       PROVE  f[i].ok /\ Len(f[i].bytes) <= all
  <2>1. n - i \in Nat /\ n - i <= n /\ n - (n - i) = i
    OBVIOUS
  <2>2. n - i \in T
    BY <1>10, <2>1
  <2>3. QED
    BY <2>1, <2>2
<1>12. QED
  BY <1>1, <1>4, <1>11

\* A loop that failed stays so.
LEMMA StaysFailed ==
    ASSUME NEW k, NEW types, NEW c, NEW g, NEW m \in Nat,
           \A i \in 0 .. m - 1 : g[i + 1] = AndDecode(k, types[i + 1], c, i + 1, g[i]),
           NEW n \in 0 .. m, ~g[n].ok
    PROVE  ~g[m].ok
<1> DEFINE T == {j \in Nat : n + j <= m => ~g[n + j].ok}
<1>1. 0 \in T
  OBVIOUS
<1>2. ASSUME NEW j \in Nat, j \in T
      PROVE  j + 1 \in T
  <2>1. SUFFICES ASSUME n + (j + 1) <= m
                 PROVE  ~g[n + (j + 1)].ok
    OBVIOUS
  <2>2. PICK i : i = n + j
    OBVIOUS
  <2>3. i \in 0 .. m - 1 /\ i + 1 = n + (j + 1) /\ n + j <= m
    BY <2>1, <2>2
  <2>4. ~g[i].ok
    BY <1>2, <2>2, <2>3
  <2>5. g[i + 1] = AndDecode(k, types[i + 1], c, i + 1, g[i])
    BY <2>3
  <2>6. g[i + 1] = g[i]
    BY <2>4, <2>5 DEF AndDecode
  <2>7. QED
    BY <2>3, <2>4, <2>6
<1>3. Nat \subseteq T
  <2> HIDE DEF T
  <2>1. QED
    BY <1>1, <1>2, InductionBySet
<1>4. m - n \in Nat /\ n + (m - n) = m
  OBVIOUS
<1>5. m - n \in T
  BY <1>3, <1>4
<1>6. QED
  BY <1>4, <1>5

\* Structs of which one has more fields than the other, as arms.
PartsTogether(k, m, dt, du) ==
    /\ \A i \in 1 .. Len(dt.parts) : EncodeTyped(k, dt.parts[i])
    /\ \A i \in 1 .. Len(dt.parts) : i <= Len(du.parts) => Understood(k, m, dt.parts[i], du.parts[i])

\* What an arm of one version is read like by the other.
ArmReading(m, dt, du, v, r) ==
    /\ r.ok <=> Legible(m.readable, dt, du, v)
    /\ r.ok => Visible(m.view, du, du, r.val) = Visible(m.view, dt, du, v)

\* The first elements of both.
FirstRead(k, m, tt, uu, v, c, pos, olds, buffered, n) ==
    LET f == EncodeUpTo(k, tt, v, buffered)
        g == DecodeUpTo(k, uu, c, pos, olds)
    IN  /\ \A i \in 0 .. n : ReadsTo(m, tt, uu, v, c, pos, i, f[i], g[i])
        /\ \A i \in 0 .. Len(tt) : f[i] \in Encodings /\ f[i].ok /\ Len(f[i].bytes) <= Len(f[Len(tt)].bytes)
        /\ f[Len(tt)] = EncodeAll(k, tt, v, buffered)
        /\ g[Len(uu)] = DecodeAll(k, uu, c, pos, olds)
        /\ \A i \in 0 .. Len(uu) : Sofar(k, uu, c, pos, olds, i, g[i])
        /\ \A i \in 0 .. Len(uu) - 1 : g[i + 1] = AndDecode(k, uu[i + 1], c, i + 1, g[i])

LEMMA FirstsRead ==
    ASSUME NEW k, NEW m, NEW dt, dt.kind = "tuple", Sound(dt), NEW du, du.kind = "tuple", Sound(du), Inner(k, du),
           PartsTogether(k, m, dt, du),
           NEW v \in Shape(k.values, dt, FALSE), NEW buffered \in BOOLEAN,
           NEW c \in Contexts, NEW pos \in Nat, pos <= c.end, NEW old \in Results(k, du),
           NEW e, e = EncodeAll(k, dt.parts, v, buffered), e.ok, Carries(c, pos, e),
           NEW n \in Nat, n <= Len(dt.parts), n <= Len(du.parts)
    PROVE  FirstRead(k, m, dt.parts, du.parts, v, c, pos, old, buffered, n)
<1>1. PICK tt : tt = dt.parts
  OBVIOUS
<1>2. PICK uu : uu = du.parts
  OBVIOUS
<1>3. Len(tt) \in Nat /\ \A i \in 1 .. Len(tt) : v[i] \in k.values[tt[i]]
  BY <1>1, TupleValue
<1>4. Typed(k, uu)
  BY <1>2, TypedParts
<1>5. uu \in Seq(Types) /\ Len(uu) \in Nat
  BY <1>4 DEF Typed
<1>6. old \in Tuples(k.results, uu)
  BY <1>2, TypedParts
<1>7. Olds(k, uu, old)
  BY <1>5, <1>6, TupleOlds
<1>8. \A i \in 1 .. Len(tt) : k.encode[tt[i]][buffered][v[i]] \in Encodings
  BY <1>1, <1>3 DEF PartsTogether, EncodeTyped
<1>9. PICK f : f = EncodeUpTo(k, tt, v, buffered)
  OBVIOUS
<1>10. PICK g : g = DecodeUpTo(k, uu, c, pos, old)
  OBVIOUS
<1>11. EncodeAll(k, tt, v, buffered) = f[Len(tt)]
  BY <1>3, <1>8, <1>9, EncodeSteps
<1>12. e = f[Len(tt)]
  BY <1>1, <1>11
<1>13. \A i \in 0 .. Len(tt) : f[i] \in Encodings
  BY <1>3, <1>8, <1>9, EncodeSteps
<1>14. \A i \in 0 .. Len(tt) : f[i].ok /\ Len(f[i].bytes) <= Len(f[Len(tt)].bytes)
  <2>1. f[Len(tt)].ok
    BY <1>12
  <2>2. QED
    BY <1>3, <1>8, <1>9, <2>1, Grows
<1>15. Understand(k, m, tt, uu, v, n)
  <2>1. n <= Len(tt) /\ n <= Len(uu)
    BY <1>1, <1>2
  <2>2. \A i \in 1 .. n : i \in 1 .. Len(tt) /\ i <= Len(uu)
    BY <1>3, <1>5, <2>1
  <2>3. QED
    BY <1>1, <1>2, <1>3, <2>2 DEF Understand, PartsTogether
<1>16. \A i \in 0 .. n : ReadsTo(m, tt, uu, v, c, pos, i, f[i], g[i])
  <2>1. n <= Len(tt) /\ n <= Len(uu) /\ Carries(c, pos, f[Len(tt)])
    BY <1>1, <1>2, <1>12
  <2>2. QED
    BY <1>3, <1>4, <1>7, <1>8, <1>9, <1>10, <1>15, <2>1, ReadsUpTo
<1>17. LET h == DecodeUpTo(k, uu, c, pos, old)
       IN  /\ DecodeAll(k, uu, c, pos, old) = h[Len(uu)]
           /\ h[0] = Ok(pos, old)
           /\ \A i \in 0 .. Len(uu) : Sofar(k, uu, c, pos, old, i, h[i])
           /\ \A i \in 0 .. Len(uu) - 1 : h[i + 1] = AndDecode(k, uu[i + 1], c, i + 1, h[i])
  BY <1>4, <1>7, DecodesAll
<1>18. /\ DecodeAll(k, uu, c, pos, old) = g[Len(uu)]
       /\ \A i \in 0 .. Len(uu) : Sofar(k, uu, c, pos, old, i, g[i])
       /\ \A i \in 0 .. Len(uu) - 1 : g[i + 1] = AndDecode(k, uu[i + 1], c, i + 1, g[i])
  BY <1>10, <1>17
<1>19. FirstRead(k, m, tt, uu, v, c, pos, old, buffered, n)
  BY <1>9, <1>10, <1>11, <1>13, <1>14, <1>16, <1>18 DEF FirstRead
<1>20. QED
  BY <1>1, <1>2, <1>19

LEMMA ShorterArm ==
    ASSUME NEW k, NEW m, NEW dt, dt.kind = "tuple", Sound(dt), NEW du, du.kind = "tuple", Sound(du), Inner(k, du),
           PartsTogether(k, m, dt, du), dt # du, ~du.ahead, Len(du.parts) <= Len(dt.parts),
           NEW v \in Shape(k.values, dt, FALSE), NEW buffered \in BOOLEAN,
           NEW c \in Contexts, NEW pos \in Nat, pos <= c.end, NEW old \in Results(k, du),
           NEW e, e = EncodeAll(k, dt.parts, v, buffered), e.ok, Carries(c, pos, e), c.end = pos + Len(e.bytes),
           NEW r, r = DecodeTuple(k, du, c, pos, old)
    PROVE  ArmReading(m, dt, du, v, r)
<1>1. PICK tt : tt = dt.parts
  OBVIOUS
<1>2. PICK uu : uu = du.parts
  OBVIOUS
<1>3. tt \in Seq(Types) /\ uu \in Seq(Types)
  BY <1>1, <1>2 DEF Sound
<1>4. DOMAIN tt = 1 .. Len(tt) /\ DOMAIN uu = 1 .. Len(uu) /\ Len(tt) \in Nat /\ Len(uu) \in Nat
  BY <1>3, LenProperties
<1>5. PICK n : n = Len(uu)
  OBVIOUS
<1>6. n \in Nat /\ n <= Len(tt) /\ n \in 0 .. Len(tt)
  BY <1>1, <1>2, <1>4, <1>5
<1>7. n <= Len(dt.parts) /\ n <= Len(du.parts)
  BY <1>1, <1>2, <1>4, <1>5, <1>6
<1>8. FirstRead(k, m, dt.parts, du.parts, v, c, pos, old, buffered, n)
  BY <1>6, <1>7, FirstsRead
<1>9. FirstRead(k, m, tt, uu, v, c, pos, old, buffered, n)
  BY <1>1, <1>2, <1>8
<1>10. PICK f : f = EncodeUpTo(k, tt, v, buffered)
  OBVIOUS
<1>11. PICK g : g = DecodeUpTo(k, uu, c, pos, old)
  OBVIOUS
<1>12. /\ \A i \in 0 .. n : ReadsTo(m, tt, uu, v, c, pos, i, f[i], g[i])
       /\ \A i \in 0 .. Len(tt) : f[i] \in Encodings /\ f[i].ok /\ Len(f[i].bytes) <= Len(f[Len(tt)].bytes)
       /\ f[Len(tt)] = EncodeAll(k, tt, v, buffered)
       /\ g[Len(uu)] = DecodeAll(k, uu, c, pos, old)
  BY <1>9, <1>10, <1>11 DEF FirstRead
<1>13. r = g[n]
  BY <1>2, <1>5, <1>12 DEF DecodeTuple
<1>14. e = f[Len(tt)]
  BY <1>1, <1>12
<1>15. PICK a : a = f[n]
  OBVIOUS
<1>16. a \in Encodings /\ a.ok /\ Len(a.bytes) <= Len(e.bytes)
  BY <1>6, <1>12, <1>14, <1>15
<1>17. n \in 0 .. n
  BY <1>6
<1>18. ReadsTo(m, tt, uu, v, c, pos, n, a, r)
  BY <1>12, <1>13, <1>15, <1>17
<1>19. pos + Len(a.bytes) <= c.end
  <2>1. PICK la : la = Len(a.bytes)
    OBVIOUS
  <2>2. PICK le : le = Len(e.bytes)
    OBVIOUS
  <2>3. la \in Nat /\ la <= le /\ c.end = pos + le /\ c.end \in Nat
    BY <1>16, <2>1, <2>2, LenProperties, ContextIs DEF Encodings
  <2>4. Len(tt) \in 0 .. Len(tt)
    BY <1>4
  <2>5. e \in Encodings
    BY <1>12, <1>14, <2>4
  <2>6. le \in Nat
    BY <2>2, <2>5, LenProperties DEF Encodings
  <2>7. PICK end : end = c.end
    OBVIOUS
  <2>8. end = pos + le /\ pos \in Nat /\ la \in Nat /\ la <= le
    BY <2>3, <2>7
  <2>9. pos + la <= end
    BY ONLY <2>6, <2>8
  <2>10. QED
    BY <2>1, <2>7, <2>9
<1>20. /\ r.ok <=> AllLegible(m, tt, uu, v, n)
       /\ r.ok => AllSeen(m, tt, uu, v, n, r.val)
  BY <1>16, <1>18, <1>19 DEF ReadsTo
<1>21. Legible(m.readable, dt, du, v) <=> AllLegible(m, tt, uu, v, n)
  <2>1. Legible(m.readable, dt, du, v) <=> Len(uu) <= Len(tt) /\ \A i \in DOMAIN uu : v[i] \in m.readable[tt[i]][uu[i]]
    BY <1>1, <1>2 DEF Legible
  <2>2. QED
    BY <1>4, <1>5, <1>6, <2>1 DEF AllLegible
<1>22. ASSUME r.ok
       PROVE  Visible(m.view, du, du, r.val) = Visible(m.view, dt, du, v)
  <2>1. \A i \in 1 .. n : m.view[uu[i]][uu[i]][r.val[i]] = m.view[tt[i]][uu[i]][v[i]]
    BY <1>20, <1>22 DEF AllSeen
  <2>2. DOMAIN uu \cap DOMAIN tt = 1 .. n /\ DOMAIN uu \cap DOMAIN uu = 1 .. n
    BY <1>4, <1>5, <1>6
  <2>3. Visible(m.view, du, du, r.val) = [i \in 1 .. n |-> m.view[uu[i]][uu[i]][r.val[i]]]
    BY <1>2, <2>2 DEF Visible
  <2>4. Visible(m.view, dt, du, v) = [i \in 1 .. n |-> m.view[tt[i]][uu[i]][v[i]]]
    BY <1>1, <1>2, <2>2 DEF Visible
  <2>5. QED
    BY <2>1, <2>3, <2>4
<1>23. QED
  BY <1>20, <1>21, <1>22 DEF ArmReading

LEMMA LongerArm ==
    ASSUME NEW k, NEW m, NEW dt, dt.kind = "tuple", Sound(dt), NEW du, du.kind = "tuple", Sound(du), Inner(k, du),
           PartsTogether(k, m, dt, du), ~du.ahead, Len(dt.parts) < Len(du.parts),
           k.min[du.parts[Len(dt.parts) + 1]] > 0,
           NEW v \in Shape(k.values, dt, FALSE), NEW buffered \in BOOLEAN,
           NEW c \in Contexts, NEW pos \in Nat, pos <= c.end, NEW old \in Results(k, du),
           NEW e, e = EncodeAll(k, dt.parts, v, buffered), e.ok, Carries(c, pos, e), c.end = pos + Len(e.bytes),
           NEW r, r = DecodeTuple(k, du, c, pos, old)
    PROVE  ArmReading(m, dt, du, v, r)
<1>1. PICK tt : tt = dt.parts
  OBVIOUS
<1>2. PICK uu : uu = du.parts
  OBVIOUS
<1>3. tt \in Seq(Types) /\ uu \in Seq(Types)
  BY <1>1, <1>2 DEF Sound
<1>4. Len(tt) \in Nat /\ Len(uu) \in Nat
  BY <1>3, LenProperties
<1>5. PICK n : n = Len(tt)
  OBVIOUS
<1>6. n \in Nat /\ n + 1 <= Len(uu) /\ n \in 0 .. Len(tt) /\ n \in 0 .. Len(uu) /\ n \in 0 .. Len(uu) - 1
  BY <1>1, <1>2, <1>4, <1>5
<1>7. n <= Len(dt.parts) /\ n <= Len(du.parts)
  BY <1>1, <1>2, <1>4, <1>5, <1>6
<1>8. FirstRead(k, m, dt.parts, du.parts, v, c, pos, old, buffered, n)
  BY <1>6, <1>7, FirstsRead
<1>9. FirstRead(k, m, tt, uu, v, c, pos, old, buffered, n)
  BY <1>1, <1>2, <1>8
<1>10. PICK f : f = EncodeUpTo(k, tt, v, buffered)
  OBVIOUS
<1>11. PICK g : g = DecodeUpTo(k, uu, c, pos, old)
  OBVIOUS
<1>12. /\ \A i \in 0 .. n : ReadsTo(m, tt, uu, v, c, pos, i, f[i], g[i])
       /\ f[Len(tt)] = EncodeAll(k, tt, v, buffered)
       /\ g[Len(uu)] = DecodeAll(k, uu, c, pos, old)
       /\ \A i \in 0 .. Len(uu) : Sofar(k, uu, c, pos, old, i, g[i])
       /\ \A i \in 0 .. Len(uu) - 1 : g[i + 1] = AndDecode(k, uu[i + 1], c, i + 1, g[i])
  BY <1>9, <1>10, <1>11 DEF FirstRead
<1>13. r = g[Len(uu)]
  BY <1>2, <1>12 DEF DecodeTuple
<1>14. e = f[n]
  BY <1>1, <1>5, <1>12
<1>15. n \in 0 .. n
  BY <1>6
<1>16. PICK x : x = g[n]
  OBVIOUS
<1>17. ReadsTo(m, tt, uu, v, c, pos, n, e, x)
  BY <1>12, <1>14, <1>15, <1>16
<1>18. PICK y : y = g[n + 1]
  OBVIOUS
<1>19. PICK u : u = uu[n + 1]
  OBVIOUS
<1>20. y = AndDecode(k, u, c, n + 1, x) /\ Sofar(k, uu, c, pos, old, n, x)
  BY <1>6, <1>12, <1>16, <1>18, <1>19
<1>21. k.min[u] > 0
  BY <1>1, <1>2, <1>5, <1>19
<1>22. ~y.ok
  <2>1. CASE ~x.ok
    BY <1>20, <2>1 DEF AndDecode
  <2>2. CASE x.ok
    <3>1. x.pos = c.end
      BY <1>17, <2>2 DEF ReadsTo
    <3>2. PICK w : w = OldOf(k, u, n + 1, x.val)
      OBVIOUS
    <3>3. PICK z : z = k.decode[u][c][x.pos][w]
      OBVIOUS
    <3>4. Typed(k, uu)
      BY <1>2, TypedParts
    <3>5. Placed(k, c, pos, n, u, w, x, z, y)
      BY <1>6, <1>19, <1>20, <2>2, <3>2, <3>3, <3>4, StepPlaces
    <3>6. Result(k, u, c, x.pos, z) /\ y.ok = z.ok
      BY <3>5 DEF Placed
    <3>7. z.pos <= c.end /\ (z.ok => c.end + k.min[u] <= z.pos) /\ z.pos \in Nat /\ z.ok \in BOOLEAN
      BY <3>1, <3>6 DEF Result
    <3>8. k.min[u] \in Nat
      <4>1. n + 1 \in 1 .. Len(uu)
        BY <1>4, <1>6
      <4>2. DecodeTyped(k, uu[n + 1])
        BY <3>4, <4>1 DEF Typed
      <4>3. QED
        BY <1>19, <4>2 DEF DecodeTyped
    <3>9. PICK min : min = k.min[u]
      OBVIOUS
    <3>10. PICK end : end = c.end
      OBVIOUS
    <3>11. PICK at : at = z.pos
      OBVIOUS
    <3>12. end \in Nat /\ at \in Nat /\ min \in Nat /\ min > 0 /\ at <= end /\ (z.ok => end + min <= at)
      BY <1>21, <3>7, <3>8, <3>9, <3>10, <3>11, ContextIs
    <3>13. ~z.ok
      BY ONLY <3>12
    <3>14. QED
      BY <3>6, <3>13
  <2>3. QED
    BY <2>1, <2>2
<1>23. ~r.ok
  <2>1. PICK l : l = Len(uu)
    OBVIOUS
  <2>2. PICK j : j = n + 1
    OBVIOUS
  <2>3. l \in Nat /\ j \in 0 .. l /\ ~g[j].ok
    BY <1>4, <1>6, <1>18, <1>22, <2>1, <2>2
  <2>4. \A i \in 0 .. l - 1 : g[i + 1] = AndDecode(k, uu[i + 1], c, i + 1, g[i])
    BY <1>12, <2>1
  <2>5. ~g[l].ok
    BY ONLY <2>3, <2>4, StaysFailed, ZenonT(30)
  <2>6. QED
    BY <1>13, <2>1, <2>5
<1>24. ~Legible(m.readable, dt, du, v)
  <2>1. dt # du
    BY <1>1, <1>2, <1>5, <1>6, <1>4
  <2>2. ~(Len(du.parts) <= Len(dt.parts))
    BY <1>1, <1>2, <1>4
  <2>3. QED
    BY <2>1, <2>2 DEF Legible
<1>25. QED
  BY <1>23, <1>24 DEF ArmReading

\* What the parts of two versions make of each other.
CrossParts(k, m, dt, du) ==
    \A x \in Parts(dt), y \in Parts(du) :
        /\ m.versions[x][y] => Understood(k, m, x, y)
        /\ m.arms[x][y] => ArmUnderstood(k, m, x, y)

LEMMA EvolvesRead ==
    ASSUME NEW k, NEW m, NEW t \in Types, NEW dt, dt = Desc[t], NEW u \in Types, NEW du, du = Desc[u],
           OwnParts(k, m, dt), OwnParts(k, m, du), CrossParts(k, m, dt, du), Evolves(m, dt, du),
           NEW v \in Shape(k.values, dt, FALSE), NEW buffered \in BOOLEAN,
           NEW c \in Contexts, NEW pos \in Nat, pos <= c.end, NEW old \in Results(k, du),
           NEW e, e = EncodeOf(k, dt, v, buffered), Carries(c, pos, e),
           NEW r, r = DecodeOf(k, du, c, pos, old)
    PROVE  Understands(m, dt, du, v, c, pos, e, r)
<1>1. Sound(dt) /\ Sound(du)
  BY Described
<1>2. Inner(k, du)
  BY InnerOfOwn
<1>3. \A x \in Parts(dt) : EncodeTyped(k, x)
  BY DEF OwnParts, Owned, CodecTyped
<1>4. CASE dt = du
  <2>1. old \in Results(k, dt) /\ r = DecodeOf(k, dt, c, pos, old)
    BY <1>4
  <2>2. Understands(m, dt, dt, v, c, pos, e, r)
    BY <1>1, <2>1, OwnOf
  <2>3. QED
    BY <1>4, <2>2
<1>5. CASE /\ dt # du
           /\ dt.kind = "tuple" /\ du.kind = "tuple" /\ Len(dt.parts) = Len(du.parts) /\ ~du.ahead
           /\ \A i \in DOMAIN du.parts : m.versions[dt.parts[i]][du.parts[i]]
  <2>1. PICK n : n = Len(dt.parts)
    OBVIOUS
  <2>2. dt.parts \in Seq(Types) /\ du.parts \in Seq(Types)
    BY <1>1, <1>5 DEF Sound
  <2>3. n \in Nat /\ n = Len(du.parts) /\ DOMAIN dt.parts = 1 .. n /\ DOMAIN du.parts = 1 .. n
    BY <1>5, <2>1, <2>2, LenProperties
  <2>4. \A i \in 1 .. n : dt.parts[i] \in Parts(dt) /\ du.parts[i] \in Parts(du)
    BY <1>5, <2>3 DEF Parts, ToSet
  <2>5. PartsUnderstood(k, m, dt.parts, du.parts, n)
    BY <1>3, <1>5, <2>3, <2>4 DEF PartsUnderstood, CrossParts
  <2>6. dt = du => AllLegible(m, dt.parts, du.parts, v, n)
    BY <1>5
  <2>7. QED
    BY <1>1, <1>2, <1>5, <2>1, <2>3, <2>5, <2>6, TupleUnderstood
<1>6. CASE /\ dt # du
           /\ dt.kind = "union" /\ du.kind = "union"
           /\ \A tag \in DOMAIN du.arms \cap DOMAIN dt.arms : m.arms[dt.arms[tag]][du.arms[tag]]
  <2>1. \A tag \in DOMAIN du.arms \cap DOMAIN dt.arms : dt.arms[tag] \in Parts(dt) /\ du.arms[tag] \in Parts(du)
    BY <1>6 DEF Parts
  <2>2. ArmsUnderstood(k, m, dt, du)
    BY <1>6, <2>1 DEF ArmsUnderstood, CrossParts
  <2>3. dt = du => ArmsLegible(m, dt, du, v)
    BY <1>6
  <2>4. QED
    BY <1>1, <1>2, <1>3, <1>6, <2>2, <2>3, UnionUnderstood
<1>7. QED
  BY <1>4, <1>5, <1>6 DEF Evolves

LEMMA ExtendsRead ==
    ASSUME NEW k, NEW m, NEW t \in Types, NEW dt, dt = Desc[t], NEW u \in Types, NEW du, du = Desc[u],
           OwnParts(k, m, dt), OwnParts(k, m, du), CrossParts(k, m, dt, du),
           NEW min, \A x \in Parts(du) : min[x] = k.min[x], Extends(m, min, dt, du),
           NEW v \in Shape(k.values, dt, FALSE), NEW buffered \in BOOLEAN,
           NEW c \in Contexts, NEW pos \in Nat, pos <= c.end, NEW old \in Results(k, du),
           NEW e, e = EncodeOf(k, dt, v, buffered), Carries(c, pos, e), e.ok, c.end = pos + Len(e.bytes),
           NEW r, r = DecodeOf(k, du, c, pos, old)
    PROVE  ArmReading(m, dt, du, v, r)
<1>1. Sound(dt) /\ Sound(du)
  BY Described
<1>2. Inner(k, du)
  BY InnerOfOwn
<1>3. \A x \in Parts(dt) : EncodeTyped(k, x)
  BY DEF OwnParts, Owned, CodecTyped
<1>4. CASE Evolves(m, dt, du)
  <2>1. Understands(m, dt, du, v, c, pos, e, r)
    BY <1>4, EvolvesRead
  <2>2. pos + Len(e.bytes) <= c.end
    BY ContextIs
  <2>3. QED
    BY <2>1, <2>2 DEF Understands, ArmReading
<1>5. CASE /\ ~Evolves(m, dt, du)
           /\ dt.kind = "tuple" /\ du.kind = "tuple" /\ ~du.ahead
           /\ \A i \in DOMAIN du.parts \cap DOMAIN dt.parts : m.versions[dt.parts[i]][du.parts[i]]
           /\ Len(dt.parts) < Len(du.parts) => min[du.parts[Len(dt.parts) + 1]] > 0
  <2>1. dt # du
    BY <1>5 DEF Evolves
  <2>k. dt.kind = "tuple" /\ du.kind = "tuple" /\ ~du.ahead
    BY <1>5
  <2>2. dt.parts \in Seq(Types) /\ du.parts \in Seq(Types)
    BY <1>1, <1>5 DEF Sound
  <2>3. PICK tt : tt = dt.parts
    OBVIOUS
  <2>4. PICK uu : uu = du.parts
    OBVIOUS
  <2>5. Len(tt) \in Nat /\ Len(uu) \in Nat /\ DOMAIN tt = 1 .. Len(tt) /\ DOMAIN uu = 1 .. Len(uu)
    BY <2>2, <2>3, <2>4, LenProperties
  <2>6. (\A i \in 1 .. Len(tt) : tt[i] \in Parts(dt)) /\ (\A i \in 1 .. Len(uu) : uu[i] \in Parts(du))
    <3>1. Parts(dt) = ToSet(tt) /\ Parts(du) = ToSet(uu)
      BY <2>k, <2>3, <2>4 DEF Parts
    <3>2. QED
      BY <2>5, <3>1 DEF ToSet
  <2>7. \A i \in 1 .. Len(tt) : i <= Len(uu) => i \in DOMAIN uu \cap DOMAIN tt /\ i \in 1 .. Len(uu)
    BY <2>5
  <2>8. PartsTogether(k, m, dt, du)
    BY <1>3, <1>5, <2>3, <2>4, <2>6, <2>7 DEF PartsTogether, CrossParts
  <2>9. e = EncodeAll(k, dt.parts, v, buffered)
    BY <1>5 DEF EncodeOf
  <2>10. r = DecodeTuple(k, du, c, pos, old)
    BY <1>5 DEF DecodeOf
  <2>11. CASE Len(uu) <= Len(tt)
    <3>1. Len(du.parts) <= Len(dt.parts)
      BY <2>3, <2>4, <2>11
    <3>2. QED
      BY <1>1, <1>2, <2>k, <2>1, <2>8, <2>9, <2>10, <3>1, ShorterArm
  <2>12. CASE Len(tt) < Len(uu)
    <3>1. Len(dt.parts) < Len(du.parts)
      BY <2>3, <2>4, <2>12
    <3>2. PICK x : x = uu[Len(tt) + 1]
      OBVIOUS
    <3>3. Len(tt) + 1 \in 1 .. Len(uu)
      BY <2>5, <2>12
    <3>4. x \in Parts(du) /\ x = du.parts[Len(dt.parts) + 1]
      BY <2>3, <2>4, <2>6, <3>2, <3>3
    <3>5. k.min[du.parts[Len(dt.parts) + 1]] > 0
      BY <1>5, <3>1, <3>4
    <3>6. QED
      BY <1>1, <1>2, <2>k, <2>8, <2>9, <2>10, <3>1, <3>5, LongerArm
  <2>13. QED
    BY <2>5, <2>11, <2>12
<1>6. QED
  BY <1>4, <1>5 DEF Extends

\* What a codec takes at least is known one level earlier.
LEMMA MinSame ==
    ASSUME NEW a, NEW b, NEW d, Sound(d), \A x \in Parts(d) : a.min[x] = b.min[x]
    PROVE  MinBytes(a, d) = MinBytes(b, d)
<1>1. CASE d.kind = "tuple"
  <2>1. \A i \in DOMAIN d.parts : d.parts[i] \in Parts(d)
    BY <1>1 DEF Parts, ToSet
  <2>2. [i \in DOMAIN d.parts |-> a.min[d.parts[i]]] = [i \in DOMAIN d.parts |-> b.min[d.parts[i]]]
    BY <2>1
  <2>3. QED
    BY <1>1, <2>2 DEF MinBytes
<1>2. CASE d.kind # "tuple"
  BY <1>2 DEF MinBytes
<1>3. QED
  BY <1>1, <1>2

LEMMA MinStays == \A n \in Nat : \A t \in Nested[n] : Codecs[n + 1].min[t] = Codecs[n].min[t]
<1> DEFINE T == {n \in Nat : \A t \in Nested[n] : Codecs[n + 1].min[t] = Codecs[n].min[t]}
<1>1. 0 \in T
  BY NestedIs
<1>2. ASSUME NEW n \in Nat, n \in T
      PROVE  n + 1 \in T
  <2>1. ASSUME NEW t \in Nested[n + 1]
        PROVE  Codecs[(n + 1) + 1].min[t] = Codecs[n + 1].min[t]
    <3>1. t \in Types /\ Parts(Desc[t]) \subseteq Nested[n]
      BY NestedParts
    <3>2. \A x \in Parts(Desc[t]) : Codecs[n + 1].min[x] = Codecs[n].min[x]
      BY <1>2, <3>1
    <3>3. PICK a : a = Codecs[n + 1]
      OBVIOUS
    <3>4. PICK b : b = Codecs[n]
      OBVIOUS
    <3>5. PICK d : d = Desc[t]
      OBVIOUS
    <3>6. Sound(d)
      BY <3>1, <3>5, Described
    <3>7. MinBytes(a, d) = MinBytes(b, d)
      BY <3>2, <3>3, <3>4, <3>5, <3>6, MinSame
    <3>8. Codecs[(n + 1) + 1] = Made(a) /\ Codecs[n + 1] = Made(b)
      <4>1. n + 1 \in Nat
        OBVIOUS
      <4>2. QED
        BY <3>3, <3>4, <4>1, CodecsAre
    <3>9. Made(a).min[t] = MinBytes(a, d) /\ Made(b).min[t] = MinBytes(b, d)
      BY <3>1, <3>5, MadeIs
    <3>10. QED
      BY <3>7, <3>8, <3>9
  <2>2. QED
    BY <2>1
<1>3. Nat \subseteq T
  <2> HIDE DEF T
  <2>1. QED
    BY <1>1, <1>2, InductionBySet
<1>4. QED
  BY <1>3

\* From descriptions to the types they describe.
MadeCase(k, q, t, u, v, buffered, c, pos, old, e, r) ==
    /\ e = EncodeOf(k, Desc[t], v, buffered) /\ r = DecodeOf(k, Desc[u], c, pos, old)
    /\ v \in Shape(k.values, Desc[t], FALSE) /\ old \in Results(k, Desc[u])
    /\ r.val \in q.values[u]

LEMMA MadeCases ==
    ASSUME NEW k, NEW t \in Types, NEW u \in Types, Inner(k, Desc[u]), \A x \in Parts(Desc[u]) : ShapesTyped(k, x),
           NEW q, q = Made(k), NEW v \in q.values[t], NEW buffered \in BOOLEAN,
           NEW c \in Contexts, NEW pos \in Nat, pos <= c.end, NEW old \in q.results[u],
           NEW e, e = q.encode[t][buffered][v], NEW r, r = q.decode[u][c][pos][old]
    PROVE  MadeCase(k, q, t, u, v, buffered, c, pos, old, e, r)
<1>1. PICK d : d = Desc[u]
  OBVIOUS
<1>2. Sound(d) /\ Inner(k, d)
  BY <1>1, Described
<1>3. q.results[u] = Results(k, d)
  BY <1>1, MadeIs DEF Results
<1>4. q.values[t] = Shape(k.values, Desc[t], FALSE)
  BY MadeIs
<1>5. e = EncodeOf(k, Desc[t], v, buffered)
  BY MadeEncode
<1>6. r = DecodeOf(k, d, c, pos, old)
  BY <1>1, MadeDecode
<1>7. old \in Results(k, d)
  BY <1>3
<1>8. r.val \in Results(k, d)
  <2>1. Decoded(k, d, c, pos, DecodeOf(k, d, c, pos, old))
    BY <1>2, <1>7, DecodedOf
  <2>2. Decoded(k, d, c, pos, r)
    BY <1>6, <2>1
  <2>3. QED
    BY <2>2 DEF Decoded
<1>9. Results(k, d) \subseteq q.values[u]
  <2>1. \A x \in Parts(d) : k.results[x] \subseteq k.values[x]
    BY <1>1 DEF ShapesTyped
  <2>2. Shape(k.results, d, TRUE) \subseteq Shape(k.values, d, FALSE)
    BY <1>2, <2>1, ResultsAreValues
  <2>3. q.values[u] = Shape(k.values, d, FALSE)
    BY <1>1, MadeIs
  <2>4. QED
    BY <2>2, <2>3 DEF Results
<1>10. QED
  BY <1>1, <1>4, <1>5, <1>6, <1>7, <1>8, <1>9 DEF MadeCase

LEMMA MadeReads ==
    ASSUME NEW k, NEW m, NEW t \in Types, NEW u \in Types, NEW q, NEW p, p = Meant(m, q),
           NEW v \in q.values[t], NEW c, NEW pos, NEW e, NEW r, r.val \in q.values[u],
           Understands(m, Desc[t], Desc[u], v, c, pos, e, r)
    PROVE  Reads(p, t, u, v, c, pos, e, r)
<1>1. p.view[t][u][v] = Visible(m.view, Desc[t], Desc[u], v)
  BY MeantIs
<1>2. v \in p.readable[t][u] <=> Legible(m.readable, Desc[t], Desc[u], v)
  BY MeantIs
<1>3. p.view[u][u][r.val] = Visible(m.view, Desc[u], Desc[u], r.val)
  BY MeantIs
<1>4. QED
  BY <1>1, <1>2, <1>3 DEF Understands, Reads

LEMMA MadeArmReads ==
    ASSUME NEW k, NEW m, NEW t \in Types, NEW u \in Types, NEW q, NEW p, p = Meant(m, q),
           NEW v \in q.values[t], NEW r, r.val \in q.values[u], ArmReading(m, Desc[t], Desc[u], v, r)
    PROVE  ArmReads(p, t, u, v, r)
<1>1. p.view[t][u][v] = Visible(m.view, Desc[t], Desc[u], v)
  BY MeantIs
<1>2. v \in p.readable[t][u] <=> Legible(m.readable, Desc[t], Desc[u], v)
  BY MeantIs
<1>3. p.view[u][u][r.val] = Visible(m.view, Desc[u], Desc[u], r.val)
  BY MeantIs
<1>4. QED
  BY <1>1, <1>2, <1>3 DEF ArmReading, ArmReads

\* A type and what it is made of.
LEMMA OwnMade ==
    ASSUME NEW k, NEW m, NEW t \in Types, OwnParts(k, m, Desc[t]), NEW q, q = Made(k), NEW p, p = Meant(m, q)
    PROVE  Owned(q, p, t)
<1>1. PICK d : d = Desc[t]
  OBVIOUS
<1>2. Sound(d) /\ OwnParts(k, m, d) /\ Inner(k, d)
  BY <1>1, Described, InnerOfOwn
<1>3. \A x \in Parts(d) : x \in Types /\ CodecTyped(k, x) /\ ShapesTyped(k, x)
  BY <1>2 DEF OwnParts, Owned, CodecTyped
<1>4. CodecTyped(q, t)
  BY <1>1, <1>3, MadeTyped
<1>5. ASSUME NEW buffered \in BOOLEAN, NEW v \in q.values[t], NEW c \in Contexts, NEW pos \in Nat, NEW old \in q.results[t],
             pos <= c.end, Carries(c, pos, q.encode[t][buffered][v])
      PROVE  Reads(p, t, t, v, c, pos, q.encode[t][buffered][v], q.decode[t][c][pos][old])
  <2>1. PICK e : e = q.encode[t][buffered][v]
    OBVIOUS
  <2>2. PICK r : r = q.decode[t][c][pos][old]
    OBVIOUS
  <2>3. MadeCase(k, q, t, t, v, buffered, c, pos, old, e, r)
    BY <1>1, <1>2, <1>3, <1>5, <2>1, <2>2, MadeCases
  <2>4. /\ e = EncodeOf(k, d, v, buffered) /\ r = DecodeOf(k, d, c, pos, old)
        /\ v \in Shape(k.values, d, FALSE) /\ old \in Results(k, d) /\ r.val \in q.values[t]
    BY <1>1, <2>3 DEF MadeCase
  <2>5. Carries(c, pos, e)
    BY <1>5, <2>1
  <2>6. Understands(m, d, d, v, c, pos, e, r)
    BY <1>1, <1>2, <1>5, <2>4, <2>5, OwnOf
  <2>7. Reads(p, t, t, v, c, pos, e, r)
    BY <1>1, <2>4, <2>6, MadeReads
  <2>8. QED
    BY <2>1, <2>2, <2>7
<1>6. Understood(q, p, t, t)
  BY <1>5 DEF Understood
<1>7. ASSUME NEW v \in q.values[t]
      PROVE  v \in p.readable[t][t]
  <2>1. Legible(m.readable, Desc[t], Desc[t], v)
    BY DEF Legible
  <2>2. v \in p.readable[t][t] <=> Legible(m.readable, Desc[t], Desc[t], v)
    BY MeantIs
  <2>3. QED
    BY <2>1, <2>2
<1>8. QED
  BY <1>4, <1>6, <1>7 DEF Owned

\* Two versions and what they are made of.
LEMMA VersionMade ==
    ASSUME NEW k, NEW m, NEW t \in Types, NEW u \in Types, OwnParts(k, m, Desc[t]), OwnParts(k, m, Desc[u]),
           CrossParts(k, m, Desc[t], Desc[u]), NEW q, q = Made(k), NEW p, p = Meant(m, q), p.versions[t][u]
    PROVE  Understood(q, p, t, u)
<1>1. PICK dt : dt = Desc[t]
  OBVIOUS
<1>2. PICK du : du = Desc[u]
  OBVIOUS
<1>3. OwnParts(k, m, dt) /\ OwnParts(k, m, du) /\ CrossParts(k, m, dt, du) /\ Inner(k, Desc[u])
  BY <1>1, <1>2, InnerOfOwn
<1>4. \A x \in Parts(Desc[u]) : ShapesTyped(k, x)
  BY DEF OwnParts, Owned, CodecTyped
<1>5. Evolves(m, dt, du)
  BY <1>1, <1>2, MeantIs
<1>6. ASSUME NEW buffered \in BOOLEAN, NEW v \in q.values[t], NEW c \in Contexts, NEW pos \in Nat, NEW old \in q.results[u],
             pos <= c.end, Carries(c, pos, q.encode[t][buffered][v])
      PROVE  Reads(p, t, u, v, c, pos, q.encode[t][buffered][v], q.decode[u][c][pos][old])
  <2>1. PICK e : e = q.encode[t][buffered][v]
    OBVIOUS
  <2>2. PICK r : r = q.decode[u][c][pos][old]
    OBVIOUS
  <2>3. MadeCase(k, q, t, u, v, buffered, c, pos, old, e, r)
    BY <1>3, <1>4, <1>6, <2>1, <2>2, MadeCases
  <2>4. /\ e = EncodeOf(k, dt, v, buffered) /\ r = DecodeOf(k, du, c, pos, old)
        /\ v \in Shape(k.values, dt, FALSE) /\ old \in Results(k, du) /\ r.val \in q.values[u]
    BY <1>1, <1>2, <2>3 DEF MadeCase
  <2>5. Carries(c, pos, e)
    BY <1>6, <2>1
  <2>6. Understands(m, dt, du, v, c, pos, e, r)
    BY <1>1, <1>2, <1>3, <1>5, <1>6, <2>4, <2>5, EvolvesRead
  <2>7. Reads(p, t, u, v, c, pos, e, r)
    BY <1>1, <1>2, <2>4, <2>6, MadeReads
  <2>8. QED
    BY <2>1, <2>2, <2>7
<1>7. QED
  BY <1>6 DEF Understood

LEMMA ArmMade ==
    ASSUME NEW k, NEW m, NEW t \in Types, NEW u \in Types, OwnParts(k, m, Desc[t]), OwnParts(k, m, Desc[u]),
           CrossParts(k, m, Desc[t], Desc[u]), NEW q, q = Made(k), NEW p, p = Meant(m, q),
           \A x \in Parts(Desc[u]) : q.min[x] = k.min[x], p.arms[t][u], EncodeTyped(q, t)
    PROVE  ArmUnderstood(q, p, t, u)
<1>1. PICK dt : dt = Desc[t]
  OBVIOUS
<1>2. PICK du : du = Desc[u]
  OBVIOUS
<1>3. OwnParts(k, m, dt) /\ OwnParts(k, m, du) /\ CrossParts(k, m, dt, du) /\ Inner(k, Desc[u])
  BY <1>1, <1>2, InnerOfOwn
<1>4. \A x \in Parts(Desc[u]) : ShapesTyped(k, x)
  BY DEF OwnParts, Owned, CodecTyped
<1>m. PICK min : min = q.min
  OBVIOUS
<1>5. Extends(m, min, dt, du) /\ \A x \in Parts(du) : min[x] = k.min[x]
  BY <1>1, <1>2, <1>m, MeantIs
<1>6. ASSUME NEW buffered \in BOOLEAN, NEW v \in q.values[t], NEW c \in Contexts, NEW pos \in Nat, NEW old \in q.results[u],
             NEW e, e = q.encode[t][buffered][v], e.ok, c.end = pos + Len(e.bytes), Carries(c, pos, e)
      PROVE  ArmReads(p, t, u, v, q.decode[u][c][pos][old])
  <2>1. e \in Encodings
    BY <1>6 DEF EncodeTyped
  <2>2. PICK r : r = q.decode[u][c][pos][old]
    OBVIOUS
  <2>p. pos <= c.end
    <3>1. PICK l : l = Len(e.bytes)
      OBVIOUS
    <3>2. l \in Nat
      BY <2>1, <3>1, LenProperties DEF Encodings
    <3>3. PICK end : end = c.end
      OBVIOUS
    <3>4. end = pos + l
      BY <1>6, <3>1, <3>3
    <3>5. pos <= end
      BY ONLY <3>2, <3>4, pos \in Nat
    <3>6. QED
      BY <3>3, <3>5
  <2>3. MadeCase(k, q, t, u, v, buffered, c, pos, old, e, r)
    BY <1>3, <1>4, <1>6, <2>p, <2>2, MadeCases
  <2>4. /\ e = EncodeOf(k, dt, v, buffered) /\ r = DecodeOf(k, du, c, pos, old)
        /\ v \in Shape(k.values, dt, FALSE) /\ old \in Results(k, du) /\ r.val \in q.values[u]
    BY <1>1, <1>2, <2>3 DEF MadeCase
  <2>6. ArmReading(m, dt, du, v, r)
    BY <1>1, <1>2, <1>3, <1>5, <1>6, <2>p, <2>4, ExtendsRead
  <2>7. ArmReads(p, t, u, v, r)
    BY <1>1, <1>2, <2>4, <2>6, MadeArmReads
  <2>8. QED
    BY <2>2, <2>7
<1>7. ASSUME NEW buffered \in BOOLEAN, NEW v \in q.values[t], NEW c \in Contexts, NEW pos \in Nat, NEW old \in q.results[u]
      PROVE  LET e == q.encode[t][buffered][v]
             IN  e.ok /\ c.end = pos + Len(e.bytes) /\ Carries(c, pos, e) =>
                     ArmReads(p, t, u, v, q.decode[u][c][pos][old])
  BY <1>6
<1>8. QED
  BY <1>7 DEF ArmUnderstood

\* All that is read of the types that are nested to some depth.
LevelReads(k, m, types) ==
    /\ \A t \in types : Owned(k, m, t)
    /\ \A t \in types, u \in types : /\ m.versions[t][u] => Understood(k, m, t, u)
                                     /\ m.arms[t][u] => ArmUnderstood(k, m, t, u)

LEMMA LevelRead == \A n \in Nat : LevelReads(Codecs[n], Meanings[n], Nested[n])
<1> DEFINE T == {n \in Nat : LevelReads(Codecs[n], Meanings[n], Nested[n])}
<1>1. 0 \in T
  BY NestedIs DEF LevelReads
<1>2. ASSUME NEW n \in Nat, n \in T
      PROVE  n + 1 \in T
  <2>1. PICK k : k = Codecs[n]
    OBVIOUS
  <2>2. PICK m : m = Meanings[n]
    OBVIOUS
  <2>3. PICK types : types = Nested[n]
    OBVIOUS
  <2>4. PICK q : q = Made(k)
    OBVIOUS
  <2>5. PICK p : p = Meant(m, q)
    OBVIOUS
  <2>6. Codecs[n + 1] = q /\ Meanings[n + 1] = p
    BY <2>1, <2>2, <2>4, <2>5, CodecsAre, MeaningsAre
  <2>7. /\ \A x \in types : Owned(k, m, x)
        /\ \A x \in types, y \in types : /\ m.versions[x][y] => Understood(k, m, x, y)
                                         /\ m.arms[x][y] => ArmUnderstood(k, m, x, y)
    BY <1>2, <2>1, <2>2, <2>3 DEF LevelReads
  <2>8. \A x \in types : x \in Types /\ Known(k, m, x)
    BY <2>1, <2>2, <2>3, LevelKnown
  <2>9. \A t \in Nested[n + 1] : t \in Types /\ Parts(Desc[t]) \subseteq types
    BY <2>3, NestedParts
  <2>10. \A t \in Nested[n + 1] : OwnParts(k, m, Desc[t])
    BY <2>7, <2>8, <2>9 DEF OwnParts
  <2>11. \A x \in types : q.min[x] = k.min[x]
    <3>1. \A x \in Nested[n] : Codecs[n + 1].min[x] = Codecs[n].min[x]
      BY MinStays
    <3>2. QED
      BY <2>1, <2>3, <2>6, <3>1
  <2>12. ASSUME NEW t \in Nested[n + 1]
         PROVE  Owned(q, p, t)
    BY <2>4, <2>5, <2>9, <2>10, OwnMade
  <2>13. ASSUME NEW t \in Nested[n + 1], NEW u \in Nested[n + 1]
         PROVE  /\ p.versions[t][u] => Understood(q, p, t, u)
                /\ p.arms[t][u] => ArmUnderstood(q, p, t, u)
    <3>1. t \in Types /\ u \in Types /\ OwnParts(k, m, Desc[t]) /\ OwnParts(k, m, Desc[u])
      BY <2>9, <2>10
    <3>2. CrossParts(k, m, Desc[t], Desc[u])
      BY <2>7, <2>9 DEF CrossParts
    <3>3. \A x \in Parts(Desc[u]) : q.min[x] = k.min[x]
      BY <2>9, <2>11
    <3>4. EncodeTyped(q, t)
      BY <2>12 DEF Owned, CodecTyped
    <3>5. ASSUME p.versions[t][u]
          PROVE  Understood(q, p, t, u)
      BY <2>4, <2>5, <3>1, <3>2, <3>5, VersionMade
    <3>6. ASSUME p.arms[t][u]
          PROVE  ArmUnderstood(q, p, t, u)
      BY <2>4, <2>5, <3>1, <3>2, <3>3, <3>4, <3>6, ArmMade
    <3>7. QED
      BY <3>5, <3>6
  <2>14. LevelReads(q, p, Nested[n + 1])
    BY <2>12, <2>13 DEF LevelReads
  <2>15. n + 1 \in Nat
    OBVIOUS
  <2>16. QED
    BY <2>6, <2>14, <2>15
<1>3. Nat \subseteq T
  <2> HIDE DEF T
  <2>1. QED
    BY <1>1, <1>2, InductionBySet
<1>4. QED
  BY <1>3

LEMMA VersionsRead ==
    ASSUME NEW t, NEW u, <<t, u>> \in Versions
    PROVE  Understood(Codec, Meaning, t, u)
<1>1. t \in Types /\ u \in Types /\ t \in Nested[Depth] /\ u \in Nested[Depth] /\ Depth \in Nat
  BY VersionTypes, DepthAssumption
<1>2. LevelReads(Codec, Meaning, Nested[Depth])
  BY <1>1, LevelRead DEF Codec, Meaning
<1>3. Meaning.versions[t][u]
  <2>1. PICK pair : pair = <<t, u>>
    OBVIOUS
  <2>2. pair \in Versions /\ pair[1] = t /\ pair[2] = u
    BY <2>1
  <2>3. Meaning.versions[pair[1]][pair[2]]
    BY <2>2, VersionAssumption
  <2>4. QED
    BY <2>2, <2>3
<1>4. QED
  BY <1>1, <1>2, <1>3 DEF LevelReads

\* What arrived, if it was not damaged, is what was encoded or a part of it.
LEMMA InputCarries ==
    ASSUME Inv, fault # "damaged", NEW r \in Readers, NEW c, c = Input(r), NEW zero, zero = 0, NEW e, e = sent
    PROVE  Carries(c, zero, e)
<1>1. /\ wire \in Seq(Byte) /\ sent.bytes \in Seq(Byte) /\ Len(wire) <= Len(sent.bytes)
      /\ fault \in {"none", "cut", "damaged"}
  BY DEF Inv, TypeOK
<1>2. c.end = Len(wire) /\ Len(wire) \in Nat /\ c.bytes = wire
  BY <1>1, InputIs
<1>3. Len(sent.bytes) \in Nat
  BY <1>1, LenProperties
<1>4. \A i \in 1 .. Len(wire) : i \in Nat /\ wire[i] = e.bytes[i]
  BY <1>1, <1>2 DEF Inv, WireIs
<1>5. ASSUME NEW i \in 1 .. Len(e.bytes), zero + i <= c.end
      PROVE  c.bytes[zero + i] = e.bytes[i]
  <2>1. zero + i = i /\ i \in 1 .. Len(wire)
    BY <1>2, <1>3, <1>5
  <2>2. QED
    BY <1>2, <1>4, <2>1
<1>6. c.end <= zero + Len(e.bytes)
  BY <1>1, <1>2, <1>3
<1>7. QED
  BY <1>5, <1>6 DEF Carries

\* What both readers make of what arrived, if it was not damaged.
LEMMA HeardFrom ==
    ASSUME Inv, Received, fault # "damaged", NEW r \in Readers
    PROVE  /\ got[r].ok <=> sent.ok /\ Len(sent.bytes) <= Len(wire) /\ Readable(type, version, value)
           /\ got[r].ok => got[r].pos = Len(sent.bytes) /\ Seen(version, got[r].val) = SeenAs(type, version, value)
<1>1. /\ <<type, version>> \in Versions /\ value \in Values[type] /\ wire \in Seq(Byte)
      /\ sent.bytes \in Seq(Byte) /\ Len(wire) <= Len(sent.bytes) /\ fault \in {"none", "cut", "damaged"}
  BY DEF Inv, TypeOK
<1>2. PICK c : c = Input(r)
  OBVIOUS
<1>3. c \in Contexts /\ c.end = Len(wire) /\ Len(wire) \in Nat /\ c.bytes = wire
  BY <1>1, <1>2, InputIs
<1>4. Len(sent.bytes) \in Nat
  BY <1>1, LenProperties
<1>5. PICK zero : zero = 0
  OBVIOUS
<1>6. PICK e : e = sent
  OBVIOUS
<1>8. Carries(c, zero, e)
  BY <1>2, <1>5, <1>6, InputCarries
<1>9. PICK old \in Codec.results[version] : got[r] = Decode(version, c, zero, old)
  BY <1>2, <1>5 DEF Inv, GotIs
<1>10. PICK buffered \in BOOLEAN : e = Encode(type, value, buffered)
  BY <1>6 DEF Inv, SentIs, Received
<1>11. value \in Codec.values[type] /\ Understood(Codec, Meaning, type, version)
  BY <1>1, VersionTypes, VersionsRead
<1>12. zero \in Nat /\ zero <= c.end
  BY <1>3, <1>5
<1>13. PICK x : x = got[r]
  OBVIOUS
<1>14. e = Codec.encode[type][buffered][value] /\ x = Codec.decode[version][c][zero][old]
  BY <1>9, <1>10, <1>13 DEF Encode, Decode
<1>15. Reads(Meaning, type, version, value, c, zero, e, x)
  BY <1>3, <1>8, <1>9, <1>10, <1>11, <1>12, <1>14 DEF Understood
<1>16. zero + Len(e.bytes) = Len(sent.bytes)
  BY <1>4, <1>5, <1>6
<1>17. QED
  BY <1>3, <1>6, <1>13, <1>15, <1>16 DEF Reads, Readable, Seen, SeenAs

LEMMA WholeNow ==
    ASSUME Inv
    PROVE  fault = "none" => wire = sent.bytes /\ Len(wire) <= Len(wire)
<1>1. wire \in Seq(Byte)
  BY DEF Inv, TypeOK
<1>2. Len(wire) \in Nat
  BY <1>1, LenProperties
<1>3. QED
  BY <1>2 DEF Inv, WireIs

\* A type reads all it wrote.
LEMMA OwnReadable ==
    ASSUME NEW t \in Types, NEW v \in Codec.values[t]
    PROVE  Readable(t, t, v)
<1>1. t \in Nested[Depth] /\ Depth \in Nat
  BY DepthAssumption
<1>2. LevelReads(Codec, Meaning, Nested[Depth])
  BY <1>1, LevelRead DEF Codec, Meaning
<1>3. Owned(Codec, Meaning, t)
  BY <1>1, <1>2 DEF LevelReads
<1>4. QED
  BY <1>3 DEF Owned, Readable

\* What is encoded is decoded as it was, to its last byte, by both readers and
\* into any destination that was used before, for any type that is made of
\* numbers, strings, slices, pointers, structs, maps and unions, however deep
\* (Encode in src/encoder.go, Decode in src/decoder.go, scanType in
\* src/scanner.go): the counts that are refused (src/codecs.go:784-863) are
\* none of those that are written.
THEOREM RoundTrips == Spec => []RoundTrip
<1>1. ASSUME Inv, Received, sent.ok, fault = "none", version = type, NEW r \in Readers
      PROVE  got[r].ok /\ got[r].pos = Len(wire) /\ Seen(type, got[r].val) = Seen(type, value)
  <2>1. <<type, version>> \in Versions /\ value \in Values[type]
    BY <1>1 DEF Inv, TypeOK
  <2>2. type \in Types /\ value \in Codec.values[type]
    BY <2>1, VersionTypes
  <2>3. Readable(type, version, value)
    BY <1>1, <2>2, OwnReadable
  <2>4. wire = sent.bytes /\ Len(wire) <= Len(wire)
    BY <1>1, WholeNow
  <2>5. got[r].ok
    BY <1>1, <2>3, <2>4, HeardFrom
  <2>6. got[r].pos = Len(sent.bytes) /\ Seen(version, got[r].val) = SeenAs(type, version, value)
    BY <1>1, <2>5, HeardFrom
  <2>7. SeenAs(type, version, value) = Seen(type, value)
    BY <1>1 DEF Seen, SeenAs
  <2>8. QED
    BY <1>1, <2>4, <2>5, <2>6, <2>7
<1>2. Inv => RoundTrip
  BY <1>1 DEF RoundTrip
<1>3. QED
  BY <1>2, Invariance, PTL

\* Versions of a type understand each other: arms and fields of arms that the
\* reader does not know are skipped and what follows is intact; what the writer
\* did not know is an error, never read from the bytes behind the arm
\* (reflectUnionCodec in src/union.go, ReadTagged in src/decoder.go).
THEOREM VersionsUnderstood == Spec => []Evolution
<1>1. ASSUME Inv, Received, sent.ok, fault = "none", NEW r \in Readers
      PROVE  IF Readable(type, version, value)
             THEN /\ got[r].ok /\ got[r].pos = Len(wire)
                  /\ Seen(version, got[r].val) = SeenAs(type, version, value)
             ELSE ~got[r].ok
  <2>1. wire = sent.bytes /\ Len(wire) <= Len(wire)
    BY <1>1, WholeNow
  <2>2. got[r].ok <=> sent.ok /\ Len(sent.bytes) <= Len(wire) /\ Readable(type, version, value)
    BY <1>1, HeardFrom
  <2>3. got[r].ok => got[r].pos = Len(sent.bytes) /\ Seen(version, got[r].val) = SeenAs(type, version, value)
    BY <1>1, HeardFrom
  <2>4. QED
    BY <1>1, <2>1, <2>2, <2>3
<1>2. Inv => Evolution
  BY <1>1 DEF Evolution
<1>3. QED
  BY <1>2, Invariance, PTL

\* No part of an encoding is accepted for the whole, whatever counts and
\* prefixes are in it: of bytes that end early nothing is taken (Slice and the
\* readers of src/reader.go, src/decoder.go).
THEOREM CutsRefused == Spec => []CutRefused
<1>1. ASSUME Inv, Received, fault = "cut", NEW r \in Readers
      PROVE  ~got[r].ok
  <2>1. Len(wire) < Len(sent.bytes) /\ wire \in Seq(Byte) /\ sent.bytes \in Seq(Byte)
    BY <1>1 DEF Inv, WireIs, TypeOK
  <2>2. Len(wire) \in Nat /\ Len(sent.bytes) \in Nat
    BY <2>1, LenProperties
  <2>3. ~(Len(sent.bytes) <= Len(wire))
    BY <2>1, <2>2
  <2>4. fault # "damaged"
    BY <1>1
  <2>5. got[r].ok <=> sent.ok /\ Len(sent.bytes) <= Len(wire) /\ Readable(type, version, value)
    BY <1>1, <2>4, HeardFrom
  <2>6. QED
    BY <2>3, <2>5
<1>2. Inv => CutRefused
  BY <1>1 DEF CutRefused
<1>3. QED
  BY <1>2, Invariance, PTL

\* An encoding that failed (a key that is too long, a union of two arms) has
\* written nothing that any reader takes for a value (checkMapKey in
\* src/codecs.go, findArm in src/union.go).
THEOREM PartsRefused == Spec => []PartialRefused
<1>1. ASSUME Inv, Received, ~sent.ok, fault # "damaged", NEW r \in Readers
      PROVE  ~got[r].ok
  BY <1>1, HeardFrom
<1>2. Inv => PartialRefused
  BY <1>1 DEF PartialRefused
<1>3. QED
  BY <1>2, Invariance, PTL

-----------------------------------------------------------------------------
(* What a decoding leaves behind, also one that fails.                      *)

\* Whatever the destination of u held, decoding what t wrote leaves its maps
\* and unions as they were, or with what was written.
Clean(k, m, t, u) ==
    \A buffered \in BOOLEAN : \A v \in k.values[t] : \A c \in Contexts : \A pos \in Nat : \A old \in k.results[u] :
        pos <= c.end /\ Carries(c, pos, k.encode[t][buffered][v]) =>
            <<old, k.decode[u][c][pos][old].val, v>> \in m.unmixed[t][u]

\* A destination that was not touched.
Still(k, m, t, u) ==
    \A v \in k.values[t] : \A old \in k.results[u] : <<old, old, v>> \in m.unmixed[t][u]

LEMMA UnmixedIs ==
    ASSUME NEW m, NEW k, NEW t \in Types, NEW u \in Types, NEW v \in k.values[t],
           NEW old \in k.results[u], NEW new \in k.results[u]
    PROVE  <<old, new, v>> \in Meant(m, k).unmixed[t][u] <=> Unmixed(m, Desc[t], Desc[u], old, new, v)
<1>1. PICK R : R = Anything \cup k.results[u]
  OBVIOUS
<1>2. PICK S : S = Anything \cup k.values[t]
  OBVIOUS
<1>3. Meant(m, k).unmixed[t][u] = {x \in R \X R \X S : Unmixed(m, Desc[t], Desc[u], x[1], x[2], x[3])}
  BY <1>1, <1>2 DEF Meant
<1>4. <<old, new, v>> \in R \X R \X S
  BY <1>1, <1>2
<1>5. QED
  BY <1>3, <1>4

\* Parts that are clean, one by one.
CleanParts(k, m, tt, uu, n) == \A i \in 1 .. n : Clean(k, m, tt[i], uu[i]) /\ Still(k, m, tt[i], uu[i])

\* The first i elements of a loop are clean, the others are as they were.
CleanTo(m, tt, uu, olds, values, n, i, x) ==
    /\ \A j \in 1 .. i : <<olds[j], x.val[j], values[j]>> \in m.unmixed[tt[j]][uu[j]]
    /\ \A j \in i + 1 .. n : x.val[j] = olds[j]

LEMMA CleanStep ==
    ASSUME NEW k, NEW m, NEW tt, NEW uu, Typed(k, uu), NEW c \in Contexts, NEW pos \in Nat,
           NEW n \in Nat, n = Len(uu), NEW olds, Olds(k, uu, olds), Len(olds) = n,
           NEW i \in Nat, i + 1 <= n, NEW values,
           NEW t, t = tt[i + 1], NEW u, u = uu[i + 1], NEW v, v = values[i + 1], v \in k.values[t],
           Clean(k, m, t, u), Still(k, m, t, u),
           NEW buffered \in BOOLEAN, NEW b \in Encodings, b = k.encode[t][buffered][v],
           NEW a \in Encodings, NEW e, a.ok => e = Then(a, b), Carries(c, pos, e),
           NEW x, Sofar(k, uu, c, pos, olds, i, x), ReadsTo(m, tt, uu, values, c, pos, i, a, x),
           CleanTo(m, tt, uu, olds, values, n, i, x),
           NEW y, y = AndDecode(k, u, c, i + 1, x)
    PROVE  CleanTo(m, tt, uu, olds, values, n, i + 1, y)
<1>1. /\ \A j \in 1 .. i : <<olds[j], x.val[j], values[j]>> \in m.unmixed[tt[j]][uu[j]]
      /\ \A j \in i + 1 .. n : x.val[j] = olds[j]
  BY DEF CleanTo
<1>2. i + 1 \in i + 1 .. n /\ i + 1 \in 1 .. n
  OBVIOUS
<1>3. PICK old : old = olds[i + 1]
  OBVIOUS
<1>4. old \in k.results[u] /\ x.val[i + 1] = old
  <2>1. \A j \in 1 .. n : olds[j] \in k.results[uu[j]]
    BY DEF Olds
  <2>2. QED
    BY <1>1, <1>2, <1>3, <2>1
<1>5. \A j \in (i + 1) + 1 .. n : j \in i + 1 .. n /\ j \in 1 .. n /\ j # i + 1
  OBVIOUS
<1>6. \A j : j \in 1 .. i + 1 <=> j \in 1 .. i \/ j = i + 1
  OBVIOUS
<1>7. ASSUME \A j \in 1 .. n : j # i + 1 => y.val[j] = x.val[j],
             <<old, y.val[i + 1], v>> \in m.unmixed[t][u]
      PROVE  CleanTo(m, tt, uu, olds, values, n, i + 1, y)
  <2>1. \A j \in 1 .. i : j \in 1 .. n /\ j # i + 1
    OBVIOUS
  <2>2. \A j \in 1 .. i + 1 : <<olds[j], y.val[j], values[j]>> \in m.unmixed[tt[j]][uu[j]]
    BY <1>1, <1>3, <1>6, <1>7, <2>1
  <2>3. \A j \in (i + 1) + 1 .. n : y.val[j] = olds[j]
    BY <1>1, <1>5, <1>7
  <2>4. QED
    BY <2>2, <2>3 DEF CleanTo
<1>8. CASE ~x.ok
  <2>1. y = x
    BY <1>8 DEF AndDecode
  <2>2. <<old, old, v>> \in m.unmixed[t][u]
    BY <1>4 DEF Still
  <2>3. <<old, y.val[i + 1], v>> \in m.unmixed[t][u]
    BY <1>4, <2>1, <2>2
  <2>4. \A j \in 1 .. n : j # i + 1 => y.val[j] = x.val[j]
    BY <2>1
  <2>5. QED
    BY <1>7, <2>3, <2>4
<1>9. CASE x.ok
  <2>1. a.ok /\ pos + Len(a.bytes) <= c.end /\ x.pos = pos + Len(a.bytes)
    BY <1>9 DEF ReadsTo
  <2>2. PICK next : next = x.pos
    OBVIOUS
  <2>3. next = pos + Len(a.bytes) /\ next \in Nat /\ next <= c.end
    <3>1. next \in Nat
      BY <2>2 DEF Sofar
    <3>2. QED
      BY <2>1, <2>2, <3>1
  <2>4. Carries(c, next, b)
    BY <2>1, <2>3, CarriesBoth
  <2>5. x.val \in Seq(Held(k)) /\ Len(x.val) \in Nat /\ Len(x.val) <= n /\ n <= Len(x.val)
    BY DEF Sofar, Olds
  <2>6. Len(x.val) = n
    BY <2>5
  <2>7. old = OldOf(k, u, i + 1, x.val)
    BY <1>4, <2>6 DEF OldOf
  <2>8. PICK r : r = k.decode[u][c][next][old]
    OBVIOUS
  <2>9. Stepped(k, u, c, i + 1, x)
    BY DecodeStep
  <2>10. Result(k, u, c, next, r) /\ y.val = PutAt(x.val, i + 1, r.val) /\ u \in Types
    BY <1>9, <2>2, <2>7, <2>8, <2>9 DEF Stepped
  <2>11. r.val \in Held(k)
    BY <2>10 DEF Result, Held
  <2>12. PICK vals : vals = x.val
    OBVIOUS
  <2>13. PICK w : w = r.val
    OBVIOUS
  <2>14. PICK at : at = i + 1
    OBVIOUS
  <2>15. PICK H : H = Held(k)
    OBVIOUS
  <2>16. vals \in Seq(H) /\ w \in H /\ at \in Nat \ {0} /\ at <= Len(vals) + 1 /\ Len(vals) = n
    BY <2>5, <2>6, <2>11, <2>12, <2>13, <2>14, <2>15
  <2>17. /\ PutAt(vals, at, w)[at] = w
         /\ \A j \in 1 .. Len(vals) : j # at => PutAt(vals, at, w)[j] = vals[j]
    BY <2>16, PutAtIs
  <2>18. y.val = PutAt(vals, at, w)
    BY <2>10, <2>12, <2>13, <2>14
  <2>19. y.val[at] = w /\ \A j \in 1 .. n : j # at => y.val[j] = vals[j]
    BY <2>16, <2>17, <2>18
  <2>20. <<old, r.val, v>> \in m.unmixed[t][u]
    BY <1>4, <2>3, <2>4, <2>8 DEF Clean
  <2>21. <<old, y.val[i + 1], v>> \in m.unmixed[t][u]
    BY <2>13, <2>14, <2>19, <2>20
  <2>22. \A j \in 1 .. n : j # i + 1 => y.val[j] = x.val[j]
    BY <2>12, <2>14, <2>19
  <2>23. QED
    BY <1>7, <2>21, <2>22
<1>10. QED
  BY <1>8, <1>9

LEMMA CleanAll ==
    ASSUME NEW k, NEW m, NEW tt, NEW uu, Typed(k, uu), NEW values, NEW buffered \in BOOLEAN,
           NEW n \in Nat, n = Len(tt), n = Len(uu),
           \A i \in 1 .. n : k.encode[tt[i]][buffered][values[i]] \in Encodings,
           Understand(k, m, tt, uu, values, n), CleanParts(k, m, tt, uu, n),
           NEW c \in Contexts, NEW pos \in Nat, pos <= c.end, NEW olds, Olds(k, uu, olds), Len(olds) = n,
           NEW e, e = EncodeAll(k, tt, values, buffered), Carries(c, pos, e),
           NEW r, r = DecodeAll(k, uu, c, pos, olds)
    PROVE  CleanTo(m, tt, uu, olds, values, n, n, r)
<1>1. PICK f : f = EncodeUpTo(k, tt, values, buffered)
  OBVIOUS
<1>2. PICK g : g = DecodeUpTo(k, uu, c, pos, olds)
  OBVIOUS
<1>l. Len(tt) \in Nat /\ n <= Len(tt) /\ n <= Len(uu)
  OBVIOUS
<1>e. \A i \in 1 .. Len(tt) : k.encode[tt[i]][buffered][values[i]] \in Encodings
  OBVIOUS
<1>3. /\ \A i \in 0 .. Len(tt) : f[i] \in Encodings
      /\ \A i \in 0 .. Len(tt) - 1 : Extended(k, tt, values, buffered, f, i)
  BY <1>1, <1>l, <1>e, EncodeSteps
<1>4. Carries(c, pos, f[Len(tt)])
  <2>1. LET h == EncodeUpTo(k, tt, values, buffered)
        IN  EncodeAll(k, tt, values, buffered) = h[Len(tt)]
    BY ONLY EncodeLoop
  <2>2. QED
    BY <1>1, <2>1
<1>5. \A i \in 0 .. Len(tt) : Carries(c, pos, f[i])
  BY <1>1, <1>l, <1>e, <1>4, CarriesAll
<1>6. LET h == DecodeUpTo(k, uu, c, pos, olds)
      IN  /\ DecodeAll(k, uu, c, pos, olds) = h[Len(uu)]
          /\ h[0] = Ok(pos, olds)
          /\ \A i \in 0 .. Len(uu) : Sofar(k, uu, c, pos, olds, i, h[i])
          /\ \A i \in 0 .. Len(uu) - 1 : h[i + 1] = AndDecode(k, uu[i + 1], c, i + 1, h[i])
  BY DecodesAll
<1>7. /\ r = g[n]
      /\ g[0] = Ok(pos, olds)
      /\ \A i \in 0 .. n : Sofar(k, uu, c, pos, olds, i, g[i])
      /\ \A i \in 0 .. n - 1 : g[i + 1] = AndDecode(k, uu[i + 1], c, i + 1, g[i])
  BY <1>2, <1>6
<1>8. \A i \in 0 .. n : ReadsTo(m, tt, uu, values, c, pos, i, f[i], g[i])
  BY <1>1, <1>2, <1>l, <1>e, <1>4, ReadsUpTo
<1> DEFINE T == {i \in Nat : i <= n => CleanTo(m, tt, uu, olds, values, n, i, g[i])}
<1>9. 0 \in T
  <2>1. g[0].val = olds
    BY <1>7 DEF Ok
  <2>2. CleanTo(m, tt, uu, olds, values, n, 0, g[0])
    BY <2>1 DEF CleanTo
  <2>3. QED
    BY <2>2
<1>10. ASSUME NEW i \in Nat, i \in T
       PROVE  i + 1 \in T
  <2>1. SUFFICES ASSUME i + 1 <= n
                 PROVE  CleanTo(m, tt, uu, olds, values, n, i + 1, g[i + 1])
    OBVIOUS
  <2>2. CleanTo(m, tt, uu, olds, values, n, i, g[i])
    BY <1>10, <2>1
  <2>3. i \in 0 .. n /\ i \in 0 .. n - 1 /\ i + 1 \in 0 .. n /\ i + 1 \in 1 .. n /\ n = Len(tt)
    BY <2>1
  <2>4. PICK t : t = tt[i + 1]
    OBVIOUS
  <2>5. PICK u : u = uu[i + 1]
    OBVIOUS
  <2>6. PICK v : v = values[i + 1]
    OBVIOUS
  <2>7. v \in k.values[t]
    BY <2>3, <2>4, <2>6 DEF Understand
  <2>8. Clean(k, m, t, u) /\ Still(k, m, t, u)
    BY <2>3, <2>4, <2>5 DEF CleanParts
  <2>9. PICK b : b = k.encode[t][buffered][v]
    OBVIOUS
  <2>10. b \in Encodings
    BY <2>3, <2>4, <2>6, <2>9
  <2>11. PICK a : a = f[i]
    OBVIOUS
  <2>12. PICK s : s = f[i + 1]
    OBVIOUS
  <2>13. a \in Encodings /\ Carries(c, pos, s)
    BY <1>3, <1>5, <2>3, <2>11, <2>12
  <2>14. a.ok => s = Then(a, b)
    <3>1. Extended(k, tt, values, buffered, f, i)
      BY <1>3, <2>3
    <3>2. QED
      BY <2>4, <2>6, <2>9, <2>11, <2>12, <3>1 DEF Extended
  <2>15. PICK x : x = g[i]
    OBVIOUS
  <2>16. PICK y : y = g[i + 1]
    OBVIOUS
  <2>17. Sofar(k, uu, c, pos, olds, i, x)
    BY <1>7, <2>3, <2>15
  <2>18. ReadsTo(m, tt, uu, values, c, pos, i, a, x)
    BY <1>8, <2>3, <2>11, <2>15
  <2>19. CleanTo(m, tt, uu, olds, values, n, i, x)
    BY <2>2, <2>15
  <2>20. y = AndDecode(k, u, c, i + 1, x)
    BY <1>7, <2>3, <2>5, <2>15, <2>16
  <2>21. CleanTo(m, tt, uu, olds, values, n, i + 1, y)
    BY <2>1, <2>4, <2>5, <2>6, <2>7, <2>8, <2>9, <2>10, <2>13, <2>14, <2>17, <2>18, <2>19, <2>20, CleanStep
  <2>22. QED
    BY <2>16, <2>21
<1>11. Nat \subseteq T
  <2> HIDE DEF T
  <2>1. QED
    BY <1>9, <1>10, InductionBySet
<1>12. QED
  BY <1>7, <1>11

\* The parts of a struct or an array: those before the one that fails are
\* decoded, it is clean, and those behind it are as they were.
LEMMA TupleClean ==
    ASSUME NEW k, NEW m, NEW dt, dt.kind = "tuple", Sound(dt),
           NEW du, du.kind = "tuple", Sound(du), Inner(k, du),
           NEW n \in Nat, n = Len(dt.parts), n = Len(du.parts),
           PartsUnderstood(k, m, dt.parts, du.parts, n), CleanParts(k, m, dt.parts, du.parts, n),
           NEW v \in Shape(k.values, dt, FALSE), NEW buffered \in BOOLEAN,
           NEW c \in Contexts, NEW pos \in Nat, pos <= c.end, NEW old \in Results(k, du),
           NEW e, e = EncodeOf(k, dt, v, buffered), Carries(c, pos, e),
           NEW r, r = DecodeOf(k, du, c, pos, old)
    PROVE  Unmixed(m, dt, du, old, r.val, v)
<1>1. PICK tt : tt = dt.parts
  OBVIOUS
<1>2. PICK uu : uu = du.parts
  OBVIOUS
<1>3. Len(tt) = n /\ Len(uu) = n
  BY <1>1, <1>2
<1>4. \A i \in 1 .. n : v[i] \in k.values[tt[i]]
  BY <1>1, TupleValue
<1>5. Typed(k, uu) /\ uu \in Seq(Types) /\ Results(k, du) = Tuples(k.results, uu) /\ DOMAIN uu = 1 .. n
  BY <1>2, <1>3, TypedParts, LenProperties DEF Typed
<1>6. Olds(k, uu, old) /\ Len(old) = n
  <2>1. old \in Tuples(k.results, uu)
    BY <1>5
  <2>2. Olds(k, uu, old) /\ Len(old) = Len(uu)
    BY <1>5, <2>1, TupleOlds
  <2>3. QED
    BY <1>3, <2>2
<1>7. \A i \in 1 .. n : old[i] \in k.results[uu[i]]
  BY <1>6 DEF Olds
<1>8. CleanParts(k, m, tt, uu, n) /\ PartsUnderstood(k, m, tt, uu, n)
  BY <1>1, <1>2
<1>9. e = EncodeAll(k, tt, v, buffered)
  BY <1>1 DEF EncodeOf
<1>10. r = DecodeTuple(k, du, c, pos, old)
  BY DEF DecodeOf
<1>11. ASSUME \A i \in 1 .. n : <<old[i], r.val[i], v[i]>> \in m.unmixed[tt[i]][uu[i]]
       PROVE  Unmixed(m, dt, du, old, r.val, v)
  BY <1>1, <1>2, <1>5, <1>11 DEF Unmixed
<1>12. CASE du.ahead /\ Scarce(c, pos, Len(du.parts), 1)
  <2>1. r.val = old
    BY <1>10, <1>12 DEF DecodeTuple, Bad
  <2>2. \A i \in 1 .. n : <<old[i], old[i], v[i]>> \in m.unmixed[tt[i]][uu[i]]
    BY <1>4, <1>7, <1>8 DEF CleanParts, Still
  <2>3. QED
    BY <1>11, <2>1, <2>2
<1>13. CASE ~(du.ahead /\ Scarce(c, pos, Len(du.parts), 1))
  <2>1. r = DecodeAll(k, uu, c, pos, old)
    BY <1>2, <1>10, <1>13 DEF DecodeTuple
  <2>2. \A i \in 1 .. n : k.encode[tt[i]][buffered][v[i]] \in Encodings
    BY <1>4, <1>8 DEF PartsUnderstood, EncodeTyped
  <2>3. Understand(k, m, tt, uu, v, n)
    BY <1>4, <1>8 DEF PartsUnderstood, Understand
  <2>4. CleanTo(m, tt, uu, old, v, n, n, r)
    BY <1>3, <1>5, <1>6, <1>8, <1>9, <2>1, <2>2, <2>3, CleanAll
  <2>5. \A i \in 1 .. n : <<old[i], r.val[i], v[i]>> \in m.unmixed[tt[i]][uu[i]]
    BY <2>4 DEF CleanTo
  <2>6. QED
    BY <1>11, <2>5
<1>14. QED
  BY <1>12, <1>13

\* The entries that were read so far: all of them, or all but the last.
EntriesTo(m, u, v, i, x) ==
    /\ x.ok => Len(x.val) = i
    /\ ~x.ok => Len(x.val) <= i
    /\ \A j \in 1 .. Len(x.val) : (x.ok \/ j < Len(x.val)) => m.view[u][u][x.val[j]] = m.view[u][u][v[j]]

\* What was read is seen as what was written, if reading went well.
SeenTo(m, u, v, i, x) == x.ok => \A j \in 1 .. i : m.view[u][u][x.val[j]] = m.view[u][u][v[j]]

LEMMA EntriesStep ==
    ASSUME NEW k, NEW m, NEW types, Typed(k, types), NEW c \in Contexts, NEW pos \in Nat, NEW olds,
           NEW i \in Nat, i + 1 <= Len(types), NEW u, u = types[i + 1], NEW v,
           NEW x, Sofar(k, types, c, pos, olds, i, x),
           SeenTo(m, u, v, i, x),
           NEW y, y = AndDecode(k, u, c, i + 1, x),
           SeenTo(m, u, v, i + 1, y),
           EntriesTo(m, u, v, i, x)
    PROVE  EntriesTo(m, u, v, i + 1, y)
<1>1. Len(x.val) \in Nat
  BY DEF Sofar, Olds
<1>2. CASE ~x.ok
  <2>1. y = x
    BY <1>2 DEF AndDecode
  <2>2. Len(x.val) <= i
    BY <1>2 DEF EntriesTo
  <2>3. Len(x.val) <= i + 1
    BY <1>1, <2>2
  <2>4. QED
    BY <1>2, <2>1, <2>3 DEF EntriesTo
<1>3. CASE x.ok
  <2>1. Len(x.val) = i
    BY <1>3 DEF EntriesTo
  <2>2. PICK old : old = OldOf(k, u, i + 1, x.val)
    OBVIOUS
  <2>3. PICK r : r = k.decode[u][c][x.pos][old]
    OBVIOUS
  <2>4. Stepped(k, u, c, i + 1, x)
    BY DecodeStep
  <2>5. Result(k, u, c, x.pos, r) /\ y.val = PutAt(x.val, i + 1, r.val) /\ u \in Types
    BY <1>3, <2>2, <2>3, <2>4 DEF Stepped
  <2>6. x.val \in Seq(Held(k)) /\ r.val \in Held(k)
    BY <2>5 DEF Sofar, Result, Held
  <2>7. PICK vals : vals = x.val
    OBVIOUS
  <2>8. PICK w : w = r.val
    OBVIOUS
  <2>9. PICK at : at = i + 1
    OBVIOUS
  <2>10. PICK H : H = Held(k)
    OBVIOUS
  <2>11. vals \in Seq(H) /\ w \in H /\ at \in Nat \ {0} /\ at <= Len(vals) + 1 /\ Len(vals) = i
    BY <2>1, <2>6, <2>7, <2>8, <2>9, <2>10
  <2>12. /\ Len(PutAt(vals, at, w)) = IF at <= Len(vals) THEN Len(vals) ELSE at
         /\ \A j \in 1 .. Len(vals) : j # at => PutAt(vals, at, w)[j] = vals[j]
    <3>1. vals \in Seq(H) /\ w \in H /\ at \in Nat \ {0} /\ at <= Len(vals) + 1
      BY <2>11
    <3>2. Len(PutAt(vals, at, w)) = IF at <= Len(vals) THEN Len(vals) ELSE at
      BY ONLY <3>1, PutAtIs
    <3>3. \A j \in 1 .. Len(vals) : j # at => PutAt(vals, at, w)[j] = vals[j]
      BY ONLY <3>1, PutAtIs
    <3>4. QED
      BY <3>2, <3>3
  <2>13. y.val = PutAt(vals, at, w)
    BY <2>5, <2>7, <2>8, <2>9
  <2>14. ~(at <= Len(vals))
    BY <2>9, <2>11
  <2>15. Len(y.val) = i + 1
    BY <2>9, <2>12, <2>13, <2>14
  <2>16. ASSUME NEW j \in 1 .. Len(y.val), y.ok \/ j < Len(y.val)
         PROVE  m.view[u][u][y.val[j]] = m.view[u][u][v[j]]
    <3>1. j \in 1 .. i + 1
      BY <2>15
    <3>2. CASE y.ok
      BY <3>1, <3>2 DEF SeenTo
    <3>3. CASE ~y.ok
      <4>1. j \in 1 .. i /\ j # at
        BY <2>9, <2>15, <2>16, <3>1, <3>3
      <4>2. y.val[j] = x.val[j]
        BY <2>7, <2>11, <2>12, <2>13, <4>1
      <4>3. QED
        BY <1>3, <4>1, <4>2 DEF SeenTo
    <3>4. QED
      BY <3>2, <3>3
  <2>17. i + 1 <= i + 1
    OBVIOUS
  <2>18. QED
    BY <2>15, <2>16, <2>17 DEF EntriesTo
<1>4. QED
  BY <1>2, <1>3

LEMMA EntriesAll ==
    ASSUME NEW k, NEW m, NEW u, Owned(k, m, u), NEW n \in Nat, NEW v, NEW buffered \in BOOLEAN,
           \A i \in 1 .. n : v[i] \in k.values[u],
           NEW c \in Contexts, NEW pos \in Nat, pos <= c.end,
           NEW e, e = EncodeAll(k, Many(n, u), v, buffered), Carries(c, pos, e),
           NEW r, r = DecodeAll(k, Many(n, u), c, pos, <<>>)
    PROVE  EntriesTo(m, u, v, n, r)
<1>1. u \in Types /\ DecodeTyped(k, u) /\ ZeroTyped(k, u) /\ EncodeTyped(k, u) /\ Understood(k, m, u, u)
  BY DEF Owned, CodecTyped
<1>2. PICK types : types = Many(n, u)
  OBVIOUS
<1>3. Typed(k, types) /\ Len(types) = n
  BY <1>1, <1>2, ManyTyped
<1>4. \A i \in 1 .. n : types[i] = u
  BY <1>1, <1>2, ManyIs
<1>5. PICK olds : olds = <<>>
  OBVIOUS
<1>6. Olds(k, types, olds)
  <2>1. olds \in Seq(k.results[u]) /\ Len(olds) = 0
    BY <1>5, EmptySeq
  <2>2. Len(olds) <= n
    BY <2>1
  <2>3. QED
    BY <1>1, <1>2, <2>1, <2>2, ManyOlds
<1>7. \A i \in 1 .. Len(types) : k.encode[types[i]][buffered][v[i]] \in Encodings
  BY <1>1, <1>3, <1>4 DEF EncodeTyped
<1>8. Understand(k, m, types, types, v, n)
  BY <1>1, <1>4 DEF Understand
<1>9. PICK f : f = EncodeUpTo(k, types, v, buffered)
  OBVIOUS
<1>10. PICK g : g = DecodeUpTo(k, types, c, pos, olds)
  OBVIOUS
<1>11. Carries(c, pos, f[Len(types)])
  <2>1. LET h == EncodeUpTo(k, types, v, buffered)
        IN  EncodeAll(k, types, v, buffered) = h[Len(types)]
    BY ONLY EncodeLoop
  <2>2. QED
    BY <1>2, <1>9, <2>1
<1>12. LET h == DecodeUpTo(k, types, c, pos, olds)
       IN  /\ DecodeAll(k, types, c, pos, olds) = h[Len(types)]
           /\ h[0] = Ok(pos, olds)
           /\ \A i \in 0 .. Len(types) : Sofar(k, types, c, pos, olds, i, h[i])
           /\ \A i \in 0 .. Len(types) - 1 : h[i + 1] = AndDecode(k, types[i + 1], c, i + 1, h[i])
  BY <1>3, <1>6, DecodesAll
<1>13. /\ r = g[n]
       /\ g[0] = Ok(pos, olds)
       /\ \A i \in 0 .. n : Sofar(k, types, c, pos, olds, i, g[i])
       /\ \A i \in 0 .. n - 1 : g[i + 1] = AndDecode(k, types[i + 1], c, i + 1, g[i])
  BY <1>2, <1>3, <1>5, <1>10, <1>12
<1>14. Len(types) \in Nat /\ n <= Len(types)
  BY <1>3
<1>15. \A i \in 0 .. n : ReadsTo(m, types, types, v, c, pos, i, f[i], g[i])
  BY <1>3, <1>6, <1>7, <1>8, <1>9, <1>10, <1>11, <1>14, ReadsUpTo
<1>16. \A i \in 0 .. n : g[i].ok => \A j \in 1 .. i : m.view[u][u][g[i].val[j]] = m.view[u][u][v[j]]
  <2>1. ASSUME NEW i \in 0 .. n, g[i].ok, NEW j \in 1 .. i
        PROVE  m.view[u][u][g[i].val[j]] = m.view[u][u][v[j]]
    <3>1. AllSeen(m, types, types, v, i, g[i].val)
      BY <1>15, <2>1 DEF ReadsTo
    <3>2. types[j] = u
      BY <1>4
    <3>3. QED
      BY <3>1, <3>2 DEF AllSeen
  <2>2. QED
    BY <2>1
<1> DEFINE T == {i \in Nat : i <= n => EntriesTo(m, u, v, i, g[i])}
<1>17. 0 \in T
  <2>1. g[0].ok /\ g[0].val = olds /\ Len(olds) = 0
    BY <1>5, <1>13, EmptySeq DEF Ok
  <2>2. EntriesTo(m, u, v, 0, g[0])
    BY <2>1 DEF EntriesTo
  <2>3. QED
    BY <2>2
<1>18. ASSUME NEW i \in Nat, i \in T
       PROVE  i + 1 \in T
  <2>1. SUFFICES ASSUME i + 1 <= n
                 PROVE  EntriesTo(m, u, v, i + 1, g[i + 1])
    OBVIOUS
  <2>2. EntriesTo(m, u, v, i, g[i])
    BY <1>18, <2>1
  <2>3. i \in 0 .. n /\ i \in 0 .. n - 1 /\ i + 1 \in 0 .. n /\ i + 1 \in 1 .. n /\ i + 1 <= Len(types)
    BY <1>3, <2>1
  <2>4. PICK x : x = g[i]
    OBVIOUS
  <2>5. PICK y : y = g[i + 1]
    OBVIOUS
  <2>6. u = types[i + 1]
    BY <1>4, <2>3
  <2>7. Sofar(k, types, c, pos, olds, i, x) /\ y = AndDecode(k, u, c, i + 1, x)
    BY <1>13, <2>3, <2>4, <2>5, <2>6
  <2>8. SeenTo(m, u, v, i, x) /\ SeenTo(m, u, v, i + 1, y)
    BY <1>16, <2>3, <2>4, <2>5 DEF SeenTo
  <2>9. EntriesTo(m, u, v, i, x)
    BY <2>2, <2>4
  <2>10. EntriesTo(m, u, v, i + 1, y)
    <3>1. Typed(k, types) /\ i + 1 <= Len(types) /\ u = types[i + 1]
      BY <1>3, <2>3, <2>6
    <3>2. Sofar(k, types, c, pos, olds, i, x) /\ y = AndDecode(k, u, c, i + 1, x)
      BY <2>7
    <3>3. i \in Nat /\ c \in Contexts /\ pos \in Nat
      OBVIOUS
    <3>4. QED
      BY ONLY <2>8, <2>9, <3>1, <3>2, <3>3, EntriesStep
  <2>11. QED
    BY <2>5, <2>10
<1>19. Nat \subseteq T
  <2> HIDE DEF T
  <2>1. QED
    BY <1>17, <1>18, InductionBySet
<1>20. QED
  BY <1>13, <1>19

\* What a map is left with if its entries were read: of those written, and no others.
Among(m, u, n, v, vals) == \A i \in DOMAIN vals : i \in 1 .. n /\ m.view[u][u][vals[i]] = m.view[u][u][v[i]]

LEMMA EntriesClean ==
    ASSUME NEW k, NEW m, NEW d, NEW u, u = d.entry, u \in Types, Owned(k, m, u), NEW n \in Nat,
           NEW v, \A i \in 1 .. n : v[i] \in k.values[u], NEW buffered \in BOOLEAN,
           NEW c \in Contexts, NEW pos \in Nat, pos <= c.end,
           NEW e, e = EncodeAll(k, Many(n, u), v, buffered), Carries(c, pos, e),
           NEW old, NEW r, r = Entries(k, d, c, pos, n, Emptied(old))
    PROVE  Among(m, u, n, v, r.val)
<1>1. DecodeTyped(k, u) /\ ZeroTyped(k, u)
  BY DEF Owned, CodecTyped
<1>2. PICK x : x = DecodeAll(k, Many(n, u), c, pos, <<>>)
  OBVIOUS
<1>3. PICK types : types = Many(n, u)
  OBVIOUS
<1>4. Typed(k, types) /\ Len(types) = n
  BY <1>1, <1>3, ManyTyped
<1>5. PICK o : o = <<>>
  OBVIOUS
<1>6. Olds(k, types, o)
  <2>1. o \in Seq(k.results[u]) /\ Len(o) = 0
    BY <1>5, EmptySeq
  <2>2. Len(o) <= n
    BY <2>1
  <2>3. QED
    BY <1>1, <1>3, <2>1, <2>2, ManyOlds
<1>7. x = DecodeAll(k, types, c, pos, o)
  BY <1>2, <1>3, <1>5
<1>8. x \in [ok : BOOLEAN, pos : Nat, val : Seq(Held(k))]
  BY <1>4, <1>6, <1>7, AllDecoded
<1>9. (~x.ok => 1 <= Len(x.val)) /\ Len(x.val) \in Nat
  BY <1>4, <1>6, <1>7, AllDecoded
<1>10. x = DecodeAll(k, Many(n, d.entry), c, pos, <<>>)
  BY <1>2
<1>11. Completed(Held(k), x, r)
  BY ONLY <1>8, <1>9, <1>10, r = Entries(k, d, c, pos, n, Emptied(old)), EntriesIs
<1>12. EntriesTo(m, u, v, n, x)
  BY <1>2, EntriesAll
<1>13. PICK l \in Nat : l = Len(x.val)
  BY <1>9
<1>14. PICK xs : xs = x.val
  OBVIOUS
<1>15. PICK rs : rs = r.val
  OBVIOUS
<1>16. PICK H : H = Held(k)
  OBVIOUS
<1>17. xs \in Seq(H) /\ rs \in Seq(H) /\ Len(xs) = l
  BY <1>8, <1>11, <1>13, <1>14, <1>15, <1>16 DEF Completed
<1>18. DOMAIN rs = 1 .. Len(rs) /\ Len(rs) \in Nat
  BY <1>17, LenProperties
<1>19. CASE x.ok
  <2>1. rs = xs /\ l = n
    BY <1>11, <1>12, <1>13, <1>14, <1>15, <1>19 DEF Completed, EntriesTo
  <2>2. \A j \in 1 .. l : m.view[u][u][xs[j]] = m.view[u][u][v[j]]
    BY <1>12, <1>13, <1>14, <1>19 DEF EntriesTo
  <2>3. QED
    BY <1>15, <1>17, <1>18, <2>1, <2>2 DEF Among
<1>20. CASE ~x.ok
  <2>1. rs = SubSeq(xs, 1, l - 1) /\ Len(rs) = l - 1 /\ l <= n
    BY <1>11, <1>12, <1>13, <1>14, <1>15, <1>20 DEF Completed, EntriesTo
  <2>2. \A j \in 1 .. l : j < l => m.view[u][u][xs[j]] = m.view[u][u][v[j]]
    BY <1>12, <1>13, <1>14, <1>20 DEF EntriesTo
  <2>3. l - 1 \in 0 .. Len(xs)
    BY <1>9, <1>13, <1>17, <1>20
  <2>4. \A i \in 1 .. l - 1 : rs[i] = xs[i]
    BY <1>17, <2>1, <2>3, PrefixOfSeq
  <2>5. ASSUME NEW i \in DOMAIN rs
        PROVE  i \in 1 .. n /\ m.view[u][u][rs[i]] = m.view[u][u][v[i]]
    <3>1. i \in 1 .. l - 1 /\ i \in 1 .. l /\ i < l /\ i \in 1 .. n
      BY <1>18, <2>1
    <3>2. QED
      BY <2>2, <2>4, <3>1
  <2>6. QED
    BY <1>15, <2>5 DEF Among
<1>21. QED
  BY <1>19, <1>20

\* A map is as before, or has entries that were written, and no others.
LEMMA MapClean ==
    ASSUME NEW k, NEW m, NEW d, d.kind = "map", Sound(d), OwnParts(k, m, d),
           NEW v \in Shape(k.values, d, FALSE), NEW buffered \in BOOLEAN,
           NEW c \in Contexts, NEW pos \in Nat, pos <= c.end, NEW old \in Results(k, d),
           NEW e, e = EncodeOf(k, d, v, buffered), Carries(c, pos, e),
           NEW r, r = DecodeOf(k, d, c, pos, old)
    PROVE  Unmixed(m, d, d, old, r.val, v)
<1>1. PICK u : u = d.entry
  OBVIOUS
<1>2. u \in Types /\ Known(k, m, u) /\ Owned(k, m, u)
  BY <1>1 DEF OwnParts, Parts
<1>3. EncodeTyped(k, u)
  BY <1>2 DEF Known, CodecTyped
<1>5. v \in Seq(k.values[u])
  BY <1>1 DEF Shape
<1>6. PICK n : n = Len(v)
  OBVIOUS
<1>7. n \in Nat /\ DOMAIN v = 1 .. n /\ \A i \in 1 .. n : v[i] \in k.values[u]
  <2>1. n \in Nat /\ DOMAIN v = 1 .. n
    BY <1>5, <1>6, LenProperties
  <2>2. \A i \in 1 .. n : v[i] \in k.values[u]
    BY <1>5, <1>6, ElementOfSeq
  <2>3. QED
    BY <2>1, <2>2
<1>8. PICK width : width = d.prefix
  OBVIOUS
<1>9. PICK w : w = IF width = 0 THEN 1 ELSE width
  OBVIOUS
<1>10. width \in Nat /\ w \in Nat /\ w >= 1
  BY <1>8, <1>9 DEF Sound
<1>11. PICK s : s = ReadPrefix(c, pos, width)
  OBVIOUS
<1>12. s = Slice(c, pos, w)
  BY <1>9, <1>11 DEF ReadPrefix
<1>13. r = DecodeMap(k, d, c, s, old)
  BY <1>8, <1>11 DEF DecodeOf
<1>14. Unmixed(m, d, d, old, old, v)
  BY DEF Unmixed
<1>15. CASE ~s.ok
  <2>1. r.val = old
    BY <1>13, <1>15 DEF DecodeMap, Bad
  <2>2. QED
    BY <1>14, <2>1
<1>16. CASE s.ok
  <2>1. ~ChecksFirst(d, v, buffered)
    <3>1. SUFFICES ASSUME ChecksFirst(d, v, buffered)
                   PROVE  FALSE
      OBVIOUS
    <3>2. e = Failed
      BY <3>1 DEF EncodeOf, EncodeMap
    <3>3. c.end <= pos /\ c.end \in Nat
      BY <3>2, NothingRead, ContextIs
    <3>4. ~s.ok
      BY <1>10, <1>12, <3>3 DEF Slice, Rest, Bad
    <3>5. QED
      BY <1>16, <3>4
  <2>2. PICK h : h = Prefix(width, n)
    OBVIOUS
  <2>3. h \in Seq(Nat) /\ Len(h) = w
    BY <1>7, <1>9, <1>10, <2>2, PrefixTyped
  <2>4. PICK b : b = EncodeAll(k, Many(n, u), v, buffered)
    OBVIOUS
  <2>5. b \in Encodings
    BY <1>2, <1>3, <1>7, <2>4, EncodesMany
  <2>6. e = Then(Written(h), b)
    BY <1>1, <1>6, <1>8, <2>1, <2>2, <2>4 DEF EncodeOf, EncodeMap
  <2>7. HeadDone(c, pos, h, e, b, s)
    BY <1>10, <1>12, <2>3, <2>5, <2>6, HeadRead
  <2>8. Number(s.val) = n
    BY <1>7, <1>10, <1>16, <2>2, <2>7, PrefixSays
  <2>9. PICK next : next = s.pos
    OBVIOUS
  <2>10. next \in Nat /\ next <= c.end /\ Carries(c, next, b)
    BY <1>16, <2>7, <2>9 DEF HeadDone
  <2>11. r = MapBody(k, d, c, next, n, old)
    BY <1>13, <1>16, <2>8, <2>9 DEF DecodeMap
  <2>12. CASE (d.codec = "reflect" => n > 1) /\ Scarce(c, next, n, Least(k, d))
    <3>1. r.val = old
      BY <2>11, <2>12 DEF MapBody, Bad
    <3>2. QED
      BY <1>14, <3>1
  <2>13. CASE ~((d.codec = "reflect" => n > 1) /\ Scarce(c, next, n, Least(k, d)))
    <3>1. r = Entries(k, d, c, next, n, Emptied(old))
      BY <2>11, <2>13 DEF MapBody
    <3>2. Among(m, u, n, v, r.val)
      <4>1. u = d.entry /\ u \in Types /\ Owned(k, m, u) /\ n \in Nat
        BY <1>1, <1>2, <1>7
      <4>2. \A i \in 1 .. n : v[i] \in k.values[u]
        BY <1>7
      <4>3. next \in Nat /\ next <= c.end /\ Carries(c, next, b)
        BY <2>10
      <4>4. QED
        BY ONLY <2>4, <3>1, <4>1, <4>2, <4>3, buffered \in BOOLEAN, c \in Contexts, EntriesClean
    <3>3. Visible(m.view, d, d, r.val) = {m.view[u][u][r.val[i]] : i \in Latest(r.val)}
      BY <1>1 DEF Visible
    <3>4. Latest(r.val) \subseteq DOMAIN r.val
      BY DEF Latest
    <3>5. Visible(m.view, d, d, r.val) \subseteq {m.view[u][u][v[i]] : i \in DOMAIN v}
      BY <1>7, <3>2, <3>3, <3>4 DEF Among
    <3>6. QED
      BY <1>1, <3>5 DEF Unmixed
  <2>14. QED
    BY <2>12, <2>13
<1>17. QED
  BY <1>15, <1>16

\* A union whose decoding fails is as before, or has no arm.
LEMMA UnionLeft ==
    ASSUME NEW k, NEW d, d.kind = "union", NEW c, NEW pos, NEW old,
           NEW r, r = DecodeOf(k, d, c, pos, old), ~r.ok
    PROVE  r.val = old \/ r.val = [other \in DOMAIN d.arms |-> <<>>]
<1>1. PICK s : s = Slice(c, pos, 2)
  OBVIOUS
<1>2. r = DecodeUnion(k, d, c, s, old)
  BY <1>1 DEF DecodeOf
<1>3. CASE ~s.ok
  BY <1>2, <1>3 DEF DecodeUnion, Bad
<1>4. CASE s.ok
  <2>1. PICK tag : tag = s.val[1]
    OBVIOUS
  <2>2. PICK end : end = s.pos + s.val[2]
    OBVIOUS
  <2>3. r = UnionBody(k, d, c, tag, s.pos, end, old)
    BY <1>2, <1>4, <2>1, <2>2 DEF DecodeUnion
  <2>4. CASE end > c.end
    <3>1. r = Bad(old)
      BY <2>3, <2>4 DEF UnionBody
    <3>2. QED
      BY <3>1 DEF Bad
  <2>5. CASE ~(end > c.end) /\ tag \notin DOMAIN d.arms
    <3>1. r.ok
      BY <2>3, <2>5 DEF UnionBody, Ok
    <3>2. QED
      BY <3>1
  <2>6. CASE ~(end > c.end) /\ tag \in DOMAIN d.arms
    <3>1. PICK x : r = SetArm(d, tag, end, x)
      BY <2>3, <2>6 DEF UnionBody
    <3>2. PICK none : none = [other \in DOMAIN d.arms |-> <<>>]
      OBVIOUS
    <3>3. r = IF x.ok THEN Ok(end, [none EXCEPT ![tag] = <<x.val>>]) ELSE Bad(none)
      BY <3>1, <3>2 DEF SetArm
    <3>4. ~x.ok
      BY <3>3 DEF Ok
    <3>5. r.val = none
      BY <3>3, <3>4 DEF Bad
    <3>6. QED
      BY <3>2, <3>5
  <2>7. QED
    BY <2>4, <2>5, <2>6
<1>5. QED
  BY <1>3, <1>4

\* Of what t wrote, a union has all that u knows, or nothing.
LEMMA UnionClean ==
    ASSUME NEW k, NEW m, NEW dt, dt.kind = "union", NEW du, du.kind = "union",
           NEW v, NEW c, NEW pos, NEW e, NEW old,
           NEW r, r = DecodeOf(k, du, c, pos, old), Understands(m, dt, du, v, c, pos, e, r)
    PROVE  Unmixed(m, dt, du, old, r.val, v)
<1>1. PICK none : none = [tag \in DOMAIN du.arms |-> <<>>]
  OBVIOUS
<1>2. CASE r.ok
  <2>1. Visible(m.view, du, du, r.val) = Visible(m.view, dt, du, v)
    BY <1>2 DEF Understands
  <2>2. QED
    BY <2>1 DEF Unmixed
<1>3. CASE ~r.ok /\ r.val = old
  BY <1>3 DEF Unmixed
<1>4. CASE ~r.ok /\ r.val = none
  <2>1. NoArm(du, du, none)
    BY <1>1 DEF NoArm
  <2>2. Visible(m.view, du, du, none) = none
    <3>1. PICK view : view = m.view
      OBVIOUS
    <3>2. Visible(view, du, du, none) = [tag \in DOMAIN du.arms |-> <<>>]
      BY <2>1, NoneSeen
    <3>3. QED
      BY <1>1, <3>1, <3>2
  <2>3. Visible(m.view, du, du, r.val) = [tag \in DOMAIN du.arms |-> <<>>]
    BY <1>1, <1>4, <2>2
  <2>4. QED
    BY <2>3 DEF Unmixed
<1>5. r.ok \/ r.val = old \/ r.val = none
  BY <1>1, UnionLeft
<1>6. QED
  BY <1>2, <1>3, <1>4, <1>5

\* What else is in a destination may be of both: it is overwritten in place.
LEMMA OthersClean ==
    ASSUME NEW m, NEW dt, NEW du, du.kind \notin {"map", "union", "tuple"}, NEW old, NEW new, NEW v
    PROVE  Unmixed(m, dt, du, old, new, v)
  BY DEF Unmixed

\* The parts of two versions.
PartsClean(k, m, dt, du) ==
    \A x \in Parts(dt), y \in Parts(du) : x = y \/ m.versions[x][y] => Clean(k, m, x, y) /\ Still(k, m, x, y)

LEMMA PairsClean ==
    ASSUME NEW k, NEW m, NEW dt, dt.kind = "tuple", Sound(dt), NEW du, du.kind = "tuple", Sound(du),
           NEW n \in Nat, n = Len(dt.parts), n = Len(du.parts), PartsClean(k, m, dt, du),
           dt = du \/ \A i \in DOMAIN du.parts : m.versions[dt.parts[i]][du.parts[i]]
    PROVE  CleanParts(k, m, dt.parts, du.parts, n)
<1>1. PICK tt : tt = dt.parts
  OBVIOUS
<1>2. PICK uu : uu = du.parts
  OBVIOUS
<1>3. tt \in Seq(Types) /\ uu \in Seq(Types) /\ Len(tt) = n /\ Len(uu) = n
  BY <1>1, <1>2 DEF Sound
<1>4. DOMAIN tt = 1 .. n /\ DOMAIN uu = 1 .. n
  BY <1>3, LenProperties
<1>5. \A i \in 1 .. n : tt[i] \in Parts(dt) /\ uu[i] \in Parts(du)
  <2>1. Parts(dt) = ToSet(tt) /\ Parts(du) = ToSet(uu)
    BY <1>1, <1>2 DEF Parts
  <2>2. QED
    BY <1>4, <2>1 DEF ToSet
<1>6. \A i \in 1 .. n : tt[i] = uu[i] \/ m.versions[tt[i]][uu[i]]
  BY <1>1, <1>2, <1>4
<1>7. CleanParts(k, m, tt, uu, n)
  BY <1>5, <1>6 DEF CleanParts, PartsClean
<1>8. QED
  BY <1>1, <1>2, <1>7

LEMMA EvolvesClean ==
    ASSUME NEW k, NEW m, NEW t \in Types, NEW dt, dt = Desc[t], NEW u \in Types, NEW du, du = Desc[u],
           OwnParts(k, m, dt), OwnParts(k, m, du), CrossParts(k, m, dt, du), PartsClean(k, m, dt, du), Evolves(m, dt, du),
           NEW v \in Shape(k.values, dt, FALSE), NEW buffered \in BOOLEAN,
           NEW c \in Contexts, NEW pos \in Nat, pos <= c.end, NEW old \in Results(k, du),
           NEW e, e = EncodeOf(k, dt, v, buffered), Carries(c, pos, e),
           NEW r, r = DecodeOf(k, du, c, pos, old)
    PROVE  Unmixed(m, dt, du, old, r.val, v)
<1>1. Sound(dt) /\ Sound(du)
  BY Described
<1>2. Inner(k, du)
  BY InnerOfOwn
<1>3. CASE du.kind = "union"
  <2>1. dt.kind = "union"
    BY <1>3 DEF Evolves
  <2>2. Understands(m, dt, du, v, c, pos, e, r)
    BY EvolvesRead
  <2>3. QED
    BY <1>3, <2>1, <2>2, UnionClean
<1>4. CASE du.kind = "map"
  <2>1. dt = du
    BY <1>4 DEF Evolves
  <2>2. /\ dt.kind = "map" /\ old \in Results(k, dt) /\ r = DecodeOf(k, dt, c, pos, old)
    BY <1>4, <2>1
  <2>3. Unmixed(m, dt, dt, old, r.val, v)
    BY <1>1, <2>2, MapClean
  <2>4. QED
    BY <2>1, <2>3
<1>5. CASE du.kind = "tuple"
  <2>1. /\ dt.kind = "tuple" /\ Len(dt.parts) = Len(du.parts)
        /\ dt = du \/ \A i \in DOMAIN du.parts : m.versions[dt.parts[i]][du.parts[i]]
    BY <1>5 DEF Evolves
  <2>2. PICK n : n = Len(dt.parts)
    OBVIOUS
  <2>3. dt.parts \in Seq(Types) /\ du.parts \in Seq(Types)
    BY <1>1, <1>5, <2>1 DEF Sound
  <2>4. n \in Nat /\ n = Len(du.parts) /\ DOMAIN dt.parts = 1 .. n /\ DOMAIN du.parts = 1 .. n
    BY <2>1, <2>2, <2>3, LenProperties
  <2>5. \A i \in 1 .. n : dt.parts[i] \in Parts(dt) /\ du.parts[i] \in Parts(du)
    BY <1>5, <2>1, <2>4 DEF Parts, ToSet
  <2>6. \A x \in Parts(dt) : EncodeTyped(k, x) /\ Understood(k, m, x, x)
    BY DEF OwnParts, Owned, CodecTyped
  <2>7. PartsUnderstood(k, m, dt.parts, du.parts, n)
    BY <2>1, <2>4, <2>5, <2>6 DEF PartsUnderstood, CrossParts
  <2>8. CleanParts(k, m, dt.parts, du.parts, n)
    BY <1>1, <1>5, <2>1, <2>2, <2>4, PairsClean
  <2>9. QED
    BY <1>1, <1>2, <1>5, <2>1, <2>2, <2>4, <2>7, <2>8, TupleClean
<1>6. CASE du.kind \notin {"map", "union", "tuple"}
  BY <1>6, OthersClean
<1>7. QED
  BY <1>3, <1>4, <1>5, <1>6

LEMMA EvolvesStill ==
    ASSUME NEW k, NEW m, NEW dt, Sound(dt), NEW du, Sound(du), Inner(k, du), PartsClean(k, m, dt, du), Evolves(m, dt, du),
           NEW v \in Shape(k.values, dt, FALSE), NEW old \in Results(k, du)
    PROVE  Unmixed(m, dt, du, old, old, v)
<1>1. CASE du.kind = "tuple"
  <2>1. /\ dt.kind = "tuple" /\ Len(dt.parts) = Len(du.parts)
        /\ dt = du \/ \A i \in DOMAIN du.parts : m.versions[dt.parts[i]][du.parts[i]]
    BY <1>1 DEF Evolves
  <2>2. PICK n : n = Len(dt.parts)
    OBVIOUS
  <2>3. PICK uu : uu = du.parts
    OBVIOUS
  <2>4. /\ Typed(k, uu) /\ Results(k, du) = Tuples(k.results, uu)
        /\ uu \in Seq(Types) /\ n = Len(uu) /\ n \in Nat /\ DOMAIN uu = 1 .. n
    BY <1>1, <2>1, <2>2, <2>3, TypedParts, LenProperties DEF Typed
  <2>5. Olds(k, uu, old)
    BY <2>4, TupleOlds
  <2>6. Len(old) = Len(uu)
    BY <2>4, TupleOlds
  <2>7. \A i \in 1 .. n : old[i] \in k.results[uu[i]]
    BY <2>4, <2>5, <2>6 DEF Olds
  <2>8. \A i \in 1 .. n : v[i] \in k.values[dt.parts[i]]
    BY <2>1, <2>2, TupleValue
  <2>9. CleanParts(k, m, dt.parts, du.parts, n)
    BY <1>1, <2>1, <2>2, <2>3, <2>4, PairsClean
  <2>10. \A i \in 1 .. n : <<old[i], old[i], v[i]>> \in m.unmixed[dt.parts[i]][du.parts[i]]
    BY <2>3, <2>7, <2>8, <2>9 DEF CleanParts, Still
  <2>11. QED
    BY <1>1, <2>3, <2>4, <2>10 DEF Unmixed
<1>2. CASE du.kind # "tuple"
  BY <1>2 DEF Unmixed
<1>3. QED
  BY <1>1, <1>2

\* From descriptions to types.
LEMMA CleanMade ==
    ASSUME NEW k, NEW m, NEW t \in Types, NEW u \in Types, OwnParts(k, m, Desc[t]), OwnParts(k, m, Desc[u]),
           CrossParts(k, m, Desc[t], Desc[u]), PartsClean(k, m, Desc[t], Desc[u]),
           NEW q, q = Made(k), NEW p, p = Meant(m, q), t = u \/ p.versions[t][u]
    PROVE  Clean(q, p, t, u) /\ Still(q, p, t, u)
<1>1. PICK dt : dt = Desc[t]
  OBVIOUS
<1>2. PICK du : du = Desc[u]
  OBVIOUS
<1>3. /\ OwnParts(k, m, dt) /\ OwnParts(k, m, du) /\ CrossParts(k, m, dt, du) /\ PartsClean(k, m, dt, du)
      /\ Inner(k, Desc[u]) /\ Inner(k, du) /\ Sound(dt) /\ Sound(du)
  BY <1>1, <1>2, InnerOfOwn, Described
<1>4. \A x \in Parts(Desc[u]) : ShapesTyped(k, x)
  BY DEF OwnParts, Owned, CodecTyped
<1>5. Evolves(m, dt, du)
  <2>1. CASE t = u
    BY <1>1, <1>2, <2>1 DEF Evolves
  <2>2. CASE p.versions[t][u]
    BY <1>1, <1>2, <2>2, MeantIs
  <2>3. QED
    BY <2>1, <2>2
<1>6. q.results[u] = Results(k, du) /\ q.values[t] = Shape(k.values, dt, FALSE)
  BY <1>1, <1>2, MadeIs DEF Results
<1>7. ASSUME NEW v \in q.values[t], NEW old \in q.results[u], NEW new \in q.results[u], Unmixed(m, dt, du, old, new, v)
      PROVE  <<old, new, v>> \in p.unmixed[t][u]
  BY <1>1, <1>2, <1>7, UnmixedIs
<1>8. ASSUME NEW buffered \in BOOLEAN, NEW v \in q.values[t], NEW c \in Contexts, NEW pos \in Nat, NEW old \in q.results[u],
             pos <= c.end, Carries(c, pos, q.encode[t][buffered][v])
      PROVE  <<old, q.decode[u][c][pos][old].val, v>> \in p.unmixed[t][u]
  <2>1. PICK e : e = q.encode[t][buffered][v]
    OBVIOUS
  <2>2. PICK r : r = q.decode[u][c][pos][old]
    OBVIOUS
  <2>3. MadeCase(k, q, t, u, v, buffered, c, pos, old, e, r)
    BY <1>3, <1>4, <1>8, <2>1, <2>2, MadeCases
  <2>4. e = EncodeOf(k, dt, v, buffered) /\ r = DecodeOf(k, du, c, pos, old)
    BY <1>1, <1>2, <2>3 DEF MadeCase
  <2>5. v \in Shape(k.values, dt, FALSE) /\ old \in Results(k, du) /\ Carries(c, pos, e)
    BY <1>6, <1>8, <2>1
  <2>6. Unmixed(m, dt, du, old, r.val, v)
    BY <1>1, <1>2, <1>3, <1>5, <1>8, <2>4, <2>5, EvolvesClean
  <2>7. Decoded(k, du, c, pos, DecodeOf(k, du, c, pos, old))
    BY <1>3, <1>8, <2>5, DecodedOf
  <2>8. r.val \in q.results[u]
    BY <1>6, <2>4, <2>7 DEF Decoded
  <2>9. QED
    BY <1>7, <2>2, <2>6, <2>8
<1>9. ASSUME NEW v \in q.values[t], NEW old \in q.results[u]
      PROVE  <<old, old, v>> \in p.unmixed[t][u]
  <2>1. v \in Shape(k.values, dt, FALSE) /\ old \in Results(k, du)
    BY <1>6
  <2>2. Unmixed(m, dt, du, old, old, v)
    BY <1>3, <1>5, <2>1, EvolvesStill
  <2>3. QED
    BY <1>7, <2>2
<1>10. Clean(q, p, t, u)
  BY <1>8 DEF Clean
<1>11. Still(q, p, t, u)
  BY <1>9 DEF Still
<1>12. QED
  BY <1>10, <1>11

LevelIsClean(k, m, types) ==
    \A t \in types, u \in types : t = u \/ m.versions[t][u] => Clean(k, m, t, u) /\ Still(k, m, t, u)

LEMMA LevelClean == \A n \in Nat : LevelIsClean(Codecs[n], Meanings[n], Nested[n])
<1> DEFINE T == {n \in Nat : LevelIsClean(Codecs[n], Meanings[n], Nested[n])}
<1>1. 0 \in T
  BY NestedIs DEF LevelIsClean
<1>2. ASSUME NEW n \in Nat, n \in T
      PROVE  n + 1 \in T
  <2>1. PICK k : k = Codecs[n]
    OBVIOUS
  <2>2. PICK m : m = Meanings[n]
    OBVIOUS
  <2>3. PICK types : types = Nested[n]
    OBVIOUS
  <2>4. PICK q : q = Made(k)
    OBVIOUS
  <2>5. PICK p : p = Meant(m, q)
    OBVIOUS
  <2>6. Codecs[n + 1] = q /\ Meanings[n + 1] = p
    BY <2>1, <2>2, <2>4, <2>5, CodecsAre, MeaningsAre
  <2>7. LevelReads(k, m, types)
    BY <2>1, <2>2, <2>3, LevelRead
  <2>8. /\ \A x \in types : Owned(k, m, x)
        /\ \A x \in types, y \in types : /\ m.versions[x][y] => Understood(k, m, x, y)
                                         /\ m.arms[x][y] => ArmUnderstood(k, m, x, y)
    BY <2>7 DEF LevelReads
  <2>9. \A x \in types : x \in Types /\ Known(k, m, x)
    BY <2>1, <2>2, <2>3, LevelKnown
  <2>10. \A t \in Nested[n + 1] : t \in Types /\ Parts(Desc[t]) \subseteq types
    BY <2>3, NestedParts
  <2>11. \A t \in Nested[n + 1] : OwnParts(k, m, Desc[t])
    BY <2>8, <2>9, <2>10 DEF OwnParts
  <2>12. LevelIsClean(k, m, types)
    BY <1>2, <2>1, <2>2, <2>3
  <2>13. ASSUME NEW t \in Nested[n + 1], NEW u \in Nested[n + 1], t = u \/ p.versions[t][u]
         PROVE  Clean(q, p, t, u) /\ Still(q, p, t, u)
    <3>1. t \in Types /\ u \in Types /\ OwnParts(k, m, Desc[t]) /\ OwnParts(k, m, Desc[u])
      BY <2>10, <2>11
    <3>2. CrossParts(k, m, Desc[t], Desc[u])
      BY <2>8, <2>10 DEF CrossParts
    <3>3. PartsClean(k, m, Desc[t], Desc[u])
      BY <2>10, <2>12 DEF PartsClean, LevelIsClean
    <3>4. QED
      BY <2>4, <2>5, <2>13, <3>1, <3>2, <3>3, CleanMade
  <2>14. LevelIsClean(q, p, Nested[n + 1])
    BY <2>13 DEF LevelIsClean
  <2>15. n + 1 \in Nat
    OBVIOUS
  <2>16. QED
    BY <2>6, <2>14, <2>15
<1>3. Nat \subseteq T
  <2> HIDE DEF T
  <2>1. QED
    BY <1>1, <1>2, InductionBySet
<1>4. QED
  BY <1>3

LEMMA VersionsClean ==
    ASSUME NEW t, NEW u, <<t, u>> \in Versions
    PROVE  Clean(Codec, Meaning, t, u)
<1>1. t \in Types /\ u \in Types /\ t \in Nested[Depth] /\ u \in Nested[Depth] /\ Depth \in Nat
  BY VersionTypes, DepthAssumption
<1>2. LevelIsClean(Codec, Meaning, Nested[Depth])
  BY <1>1, LevelClean DEF Codec, Meaning
<1>3. Meaning.versions[t][u]
  <2>1. PICK pair : pair = <<t, u>>
    OBVIOUS
  <2>2. pair \in Versions /\ pair[1] = t /\ pair[2] = u
    BY <2>1
  <2>3. Meaning.versions[pair[1]][pair[2]]
    BY <2>2, VersionAssumption
  <2>4. QED
    BY <2>2, <2>3
<1>4. QED
  BY <1>1, <1>2, <1>3 DEF LevelIsClean

\* What Receive does to the maps and unions of a destination.
LEMMA ReceiveClean ==
    ASSUME Inv, Receive, fault # "damaged", NEW r \in Readers
    PROVE  <<got[r].val, got'[r].val, value>> \in Meaning.unmixed[type][version]
<1>1. /\ <<type, version>> \in Versions /\ value \in Values[type]
      /\ wire \in Seq(Byte) /\ got[r].val \in Codec.results[version]
  BY DEF Inv, TypeOK
<1>2. PICK c : c = Input(r)
  OBVIOUS
<1>3. PICK zero : zero = 0
  OBVIOUS
<1>4. PICK e : e = sent
  OBVIOUS
<1>5. c \in Contexts /\ zero \in Nat /\ zero <= c.end
  <2>1. c \in Contexts /\ c.end = Len(wire) /\ Len(wire) \in Nat
    BY <1>1, <1>2, InputIs
  <2>2. QED
    BY <1>3, <2>1
<1>6. Carries(c, zero, e)
  BY <1>2, <1>3, <1>4, InputCarries
<1>7. phase = "sent"
  BY DEF Receive
<1>8. PICK buffered \in BOOLEAN : e = Encode(type, value, buffered)
  BY <1>4, <1>7 DEF Inv, SentIs
<1>9. value \in Codec.values[type] /\ Clean(Codec, Meaning, type, version)
  BY <1>1, VersionTypes, VersionsClean
<1>10. PICK old : old = got[r].val
  OBVIOUS
<1>11. got'[r] = Codec.decode[version][c][zero][old]
  BY <1>2, <1>3, <1>10 DEF Receive, Input, Decode
<1>12. <<old, Codec.decode[version][c][zero][old].val, value>> \in Meaning.unmixed[type][version]
  BY <1>1, <1>5, <1>6, <1>8, <1>9, <1>10 DEF Clean, Encode
<1>13. QED
  BY <1>10, <1>11, <1>12

\* Whatever a decoding ends with, also one that fails half way, of the maps and
\* unions of a destination, itself or in its structs and arrays, each is as it
\* was, or has only what was complete in the input: never the entries of two
\* values, never an arm that is half decoded (decodeMap and its kin in
\* src/codecs.go, decodeArm in src/union.go).
THEOREM MapsAndUnionsClean == Spec => NeverMixed
<1> DEFINE Kept == phase = "sent" /\ phase' = "idle" /\ fault # "damaged" =>
                       \A r \in Readers :
                           <<got[r].val, got'[r].val, value>> \in Meaning.unmixed[type][version]
<1>1. ASSUME Inv, [Next]_vars, phase = "sent", phase' = "idle", fault # "damaged", NEW r \in Readers
      PROVE  <<got[r].val, got'[r].val, value>> \in Meaning.unmixed[type][version]
  <2>1. Receive
    BY <1>1 DEF Next, Send, Cut, Damage, vars
  <2>2. QED
    BY <1>1, <2>1, ReceiveClean
<1>2. Inv /\ [Next]_vars => [Kept]_vars
  BY <1>1
<1>3. QED
  BY <1>2, Invariance, PTL DEF Spec, NeverMixed
=============================================================================
