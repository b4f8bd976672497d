------------------------- MODULE SchemaCache_proofs -------------------------
(***************************************************************************)
(* Proofs about SchemaCache, for any number of goroutines and coders, and  *)
(* for any types that are described as Go has them: recursive types too.   *)
(***************************************************************************)
EXTENDS SchemaCache, Facts_proofs

-----------------------------------------------------------------------------
(* The inductive strengthening.                                             *)

\* A codec deals with everything its type is made of.  scanSlice skips the
\* codec of the elements when it is the one of a primitive.
Sound(c) ==
    /\ {u \in Deals[c.of] : Custom(u)} \subseteq c.runs
    /\ \A u \in Deals[c.of] : ~Rejected(u)
    /\ c.name = "primitive" => Undeclared(c.of)

\* The codecs a scanType has so far are those of its first parts.
CallSound(call) ==
    /\ Len(call.kids) <= Len(Visits(call.type))
    /\ \A j \in 1 .. Len(call.kids) :
          call.kids[j].of = Visits(call.type)[j] /\ Sound(call.kids[j])

\* A scanType below the top waits for the codec of its next part.
Awaits(call, above) ==
    /\ Len(call.kids) < Len(Visits(call.type))
    /\ above.type = Visits(call.type)[Len(call.kids) + 1]

StackSound(s, t) ==
    /\ Len(s) > 0 => s[1].type = t
    /\ \A i \in 1 .. Len(s) : CallSound(s[i])
    /\ \A i \in 1 .. Len(s) - 1 : Awaits(s[i], s[i + 1])

Progress(p) ==
    /\ phase[p] # "idle" => coder[p] \in Coders /\ type[p] \in Types
    /\ StackSound(stack[p], type[p])
    /\ phase[p] = "store" => using[p] # NoCodec /\ using[p].of = type[p] /\ Sound(using[p])

CacheInv ==
    /\ TypeOK
    /\ OneCodec
    /\ \A p \in Procs : Progress(p)
    /\ \A t \in Types : schemas[t] # NoCodec => schemas[t].of = t /\ Sound(schemas[t])

-----------------------------------------------------------------------------
(* What a type is made of.                                                  *)

LEMMA TypeFacts ==
    ASSUME NEW t \in Types
    PROVE  /\ Desc[t].kind \in Kinds /\ Desc[t].method \in {"none", "codec", "nil", "marshal"}
           /\ Desc[t].tags \in {"plain", "union", "invalid"}
           /\ Desc[t].parts \in Seq(Types) /\ Len(Desc[t].parts) \in Nat
           /\ \A i \in 1 .. Len(Desc[t].parts) : Desc[t].parts[i] \in Types
           /\ DOMAIN Desc[t].parts = 1 .. Len(Desc[t].parts)
           /\ Desc[t].kind \in {"array", "slice", "pointer"} => Len(Desc[t].parts) = 1
<1>1. Desc[t] \in Description
  BY DescAssumption
<1>2. /\ Desc[t].kind \in Kinds /\ Desc[t].method \in {"none", "codec", "nil", "marshal"}
      /\ Desc[t].tags \in {"plain", "union", "invalid"} /\ Desc[t].parts \in Seq(Types)
  BY <1>1 DEF Description
<1>3. QED
  BY <1>2, LenProperties, ElementOfSeq, DescAssumption

LEMMA PartsAre ==
    ASSUME NEW t \in Types
    PROVE  /\ Parts(t) \subseteq Types
           /\ \A u \in Parts(t) : Desc[t].method = "none"
                 /\ \E i \in 1 .. Len(Desc[t].parts) : u = Desc[t].parts[i]
<1>1. \A u \in ToSet(Desc[t].parts) : \E i \in 1 .. Len(Desc[t].parts) : u = Desc[t].parts[i]
  BY TypeFacts DEF ToSet
<1>2. QED
  BY <1>1, TypeFacts DEF Parts

LEMMA DealsTypes ==
    ASSUME NEW t \in Types
    PROVE  Deals[t] \subseteq Types /\ t \in Deals[t]
BY DEF Deals

LEMMA DealsLeast ==
    ASSUME NEW t \in Types, NEW S \in SUBSET Types, t \in S,
           \A u \in S : Parts(u) \subseteq S
    PROVE  Deals[t] \subseteq S
BY DEF Deals, Closed

LEMMA DealsClosed ==
    ASSUME NEW t \in Types, NEW u \in Deals[t]
    PROVE  Parts(u) \subseteq Deals[t]
<1>1. u \in Types /\ Parts(u) \subseteq Types
  BY DealsTypes, PartsAre
<1>2. ASSUME NEW S \in Closed, t \in S
      PROVE  Parts(u) \subseteq S
  <2>1. u \in S
    BY <1>2 DEF Deals
  <2>2. QED
    BY <2>1 DEF Closed
<1>3. QED
  BY <1>1, <1>2 DEF Deals

\* A type deals with itself and what its parts deal with.
LEMMA DealsUnfold ==
    ASSUME NEW t \in Types
    PROVE  \A u \in Deals[t] : u = t \/ \E v \in Parts(t) : u \in Deals[v]
<1> DEFINE S == {t} \cup UNION {Deals[v] : v \in Parts(t)}
<1>1. Parts(t) \subseteq Types
  BY PartsAre
<1>2. S \in SUBSET Types
  BY <1>1, DealsTypes
<1>3. ASSUME NEW u \in S
      PROVE  Parts(u) \subseteq S
  <2>1. CASE u = t
    <3>1. \A v \in Parts(t) : v \in Deals[v]
      BY <1>1, DealsTypes
    <3>2. QED
      BY <2>1, <3>1
  <2>2. ASSUME NEW v \in Parts(t), u \in Deals[v]
        PROVE  Parts(u) \subseteq S
    <3>1. Parts(u) \subseteq Deals[v]
      BY <1>1, <2>2, DealsClosed
    <3>2. QED
      BY <3>1
  <2>3. QED
    BY <2>1, <2>2
<1>4. Deals[t] \subseteq S
  <2>1. t \in S
    OBVIOUS
  <2>2. QED
    BY <1>2, <1>3, <2>1, DealsLeast
<1>5. QED
  BY <1>4

LEMMA UndeclaredDeals ==
    ASSUME NEW t \in Types, Undeclared(t)
    PROVE  \A u \in Deals[t] : u = t /\ ~Custom(u) /\ ~Rejected(u)
<1>1. Desc[t].parts = <<>> /\ Desc[t].method = "none" /\ Desc[t].tags = "plain"
      /\ Desc[t].kind = "primitive"
  BY GoAssumption DEF Undeclared
<1>2. Parts(t) = {}
  BY <1>1, PartsAre
<1>3. QED
  BY <1>1, <1>2, DealsUnfold DEF Custom, Rejected

\* What is in a type that is known whole has no methods, and can be encoded.
LEMMA KnownDeals ==
    ASSUME NEW t \in Types, Known(t), Desc[t].method = "none"
    PROVE  \A u \in Deals[t] : ~Custom(u) /\ ~Rejected(u)
<1>1. ASSUME NEW v \in Types, Desc[v].kind = "slice", Desc[v].method = "none",
             Undeclared(Desc[v].parts[1])
      PROVE  \A u \in Deals[v] : ~Custom(u) /\ ~Rejected(u)
  <2>1. /\ Len(Desc[v].parts) = 1 /\ Desc[v].parts[1] \in Types
        /\ Desc[v].tags = "plain"
    BY <1>1, TypeFacts, GoAssumption
  <2>2. \A w \in Parts(v) : w = Desc[v].parts[1]
    BY <2>1, PartsAre
  <2>3. \A u \in Deals[v] : u = v \/ u \in Deals[Desc[v].parts[1]]
    BY <2>2, DealsUnfold
  <2>4. QED
    BY <1>1, <2>1, <2>3, UndeclaredDeals DEF Custom, Rejected
<1>2. /\ Desc[t].kind \in {"array", "slice", "map"}
      /\ Desc[t].tags = "plain"
  BY GoAssumption DEF Known
<1>3. ASSUME NEW v \in Parts(t)
      PROVE  \A u \in Deals[v] : ~Custom(u) /\ ~Rejected(u)
  <2>1. PICK i \in 1 .. Len(Desc[t].parts) : v = Desc[t].parts[i]
    BY PartsAre
  <2>2. v \in Types /\ DOMAIN Desc[t].parts = 1 .. Len(Desc[t].parts)
    BY PartsAre, TypeFacts
  <2>3. CASE Desc[t].kind = "map"
    <3>1. Desc[t].exact
      BY <2>3 DEF Known
    <3>2. Undeclared(v) \/ (/\ Desc[v].kind = "slice" /\ Desc[v].method = "none"
                            /\ Undeclared(Desc[v].parts[1]))
      BY <2>1, <2>2, <2>3, <3>1, GoAssumption
    <3>3. QED
      BY <1>1, <2>2, <3>2, UndeclaredDeals
  <2>4. CASE Desc[t].kind \in {"array", "slice"}
    <3>1. v = Desc[t].parts[1]
      BY <2>1, <2>4, TypeFacts
    <3>2. Desc[v].kind = "primitive" /\ Desc[v].exact
      BY <2>4, <3>1 DEF Known
    <3>3. Undeclared(v)
      BY <2>2, <3>2, GoAssumption DEF Undeclared
    <3>4. QED
      BY <2>2, <3>3, UndeclaredDeals
  <2>5. QED
    BY <1>2, <2>3, <2>4
<1>4. QED
  BY <1>2, <1>3, DealsUnfold DEF Custom, Rejected

-----------------------------------------------------------------------------
(* One call of scanType returns a codec that is sound if its kids are.      *)

LEMMA NameTypes ==
    ASSUME NEW t \in Types, NEW kids
    PROVE  /\ CodecName(t, kids) \in Kinds \cup {"custom", "known", "bytes", "bools", "varints",
                                                "pointers", "collection", "union"}
           /\ CodecName(t, kids) = "primitive" => Desc[t].kind = "primitive" /\ ~Custom(t)
           /\ CodecName(t, kids) \in {"bytes", "bools", "varints"} =>
                 /\ Desc[t].kind = "slice" /\ ~Custom(t) /\ ~Known(t)
                 /\ kids[1].name = "primitive"
<1>1. SliceName(t, kids[1]) \in {"bytes", "bools", "varints", "pointers", "collection"}
      /\ (SliceName(t, kids[1]) \in {"bytes", "bools", "varints"} => kids[1].name = "primitive")
  BY DEF SliceName
<1>2. Desc[t].kind \in Kinds
  BY TypeFacts
<1> HIDE DEF SliceName
<1>3. QED
  BY <1>1, <1>2 DEF CodecName, Kinds

LEMMA MadeType ==
    ASSUME NEW p \in Procs, NEW t \in Types, NEW kids \in Seq(Codec)
    PROVE  Made(p, t, kids) \in Codec
<1>0. \A i \in DOMAIN kids : kids[i] \in Codec
  OBVIOUS
<1>1. \A i \in DOMAIN kids : kids[i].runs \subseteq Types
  BY <1>0 DEF Codec
<1>2. CodecName(t, kids) \in Kinds \cup {"custom", "known", "bytes", "bools", "varints",
                                         "pointers", "collection", "union"}
  BY NameTypes
<1>3. QED
  BY <1>1, <1>2 DEF Made, Codec

LEMMA MadeSound ==
    ASSUME NEW p \in Procs, NEW call \in Call, CallSound(call),
           Len(call.kids) = Len(Visits(call.type)), ~Rejected(call.type)
    PROVE  /\ Made(p, call.type, call.kids) \in Codec
           /\ Made(p, call.type, call.kids).of = call.type
           /\ Sound(Made(p, call.type, call.kids))
<1> DEFINE t == call.type
           kids == call.kids
           made == Made(p, t, kids)
<1>1. t \in Types /\ kids \in Seq(Codec)
  BY DEF Call
<1>2. made \in Codec
  BY <1>1, MadeType
<1>3. made.of = t /\ made.name = CodecName(t, kids) /\ t \in made.runs
  BY DEF Made
<1>4. CASE Desc[t].method # "none"
  <2>1. Custom(t)
    BY <1>1, <1>4, TypeFacts DEF Rejected, Custom
  <2>2. Parts(t) = {}
    BY <1>4 DEF Parts
  <2>3. \A u \in Deals[t] : u = t
    BY <1>1, <2>2, DealsUnfold
  <2>4. made.name # "primitive"
    BY <1>1, <1>3, <2>1, NameTypes
  <2>5. QED
    BY <1>2, <1>3, <2>3, <2>4 DEF Sound
<1>5. CASE Desc[t].method = "none" /\ Known(t)
  <2>1. \A u \in Deals[t] : ~Custom(u) /\ ~Rejected(u)
    BY <1>1, <1>5, KnownDeals
  <2>2. made.name # "primitive"
    BY <1>3, <1>5 DEF CodecName, Custom
  <2>3. QED
    BY <1>2, <1>3, <2>1, <2>2 DEF Sound
<1>6. CASE Desc[t].method = "none" /\ ~Known(t)
  <2>1. Visits(t) = Desc[t].parts
    BY <1>6 DEF Visits
  <2>2. \A v \in Parts(t) : \E j \in 1 .. Len(kids) :
           kids[j].of = v /\ Sound(kids[j])
    BY <1>1, <2>1, PartsAre DEF CallSound
  <2>3. \A u \in Deals[t] : u = t \/ \E j \in 1 .. Len(kids) : Sound(kids[j]) /\ u \in Deals[kids[j].of]
    BY <1>1, <2>2, DealsUnfold
  <2>4. \A u \in Deals[t] : ~Rejected(u)
    BY <2>3 DEF Sound
  <2>5. ~Custom(t)
    BY <1>6 DEF Custom
  <2>6. {u \in Deals[t] : Custom(u)} \subseteq made.runs
    <3>1. CASE CodecName(t, kids) \in {"bytes", "bools", "varints"}
      <4>1. Desc[t].kind = "slice" /\ kids[1].name = "primitive"
        BY <1>1, <3>1, NameTypes
      <4>a. Len(kids) = 1 /\ kids[1] \in Codec
        BY <1>1, <2>1, <4>1, TypeFacts
      <4>2. Len(kids) = 1 /\ kids[1].of \in Types
        BY <4>a DEF Codec
      <4>3. Sound(kids[1])
        BY <4>2 DEF CallSound
      <4>4. Undeclared(kids[1].of)
        BY <4>1, <4>3 DEF Sound
      <4>5. \A u \in Deals[t] : u = t \/ u \in Deals[kids[1].of]
        BY <2>3, <4>2
      <4>6. QED
        BY <2>5, <4>2, <4>4, <4>5, UndeclaredDeals
    <3>2. CASE CodecName(t, kids) \notin {"bytes", "bools", "varints"}
      <4>1. made.runs = {t} \cup UNION {kids[i].runs : i \in DOMAIN kids}
        BY <3>2 DEF Made
      <4>2. DOMAIN kids = 1 .. Len(kids)
        BY <1>1, LenProperties
      <4>3. \A j \in 1 .. Len(kids) : Sound(kids[j]) =>
               \A u \in Deals[kids[j].of] : Custom(u) => u \in made.runs
        BY <4>1, <4>2 DEF Sound
      <4>4. QED
        BY <2>3, <2>5, <4>3
    <3>3. QED
      BY <3>1, <3>2
  <2>7. made.name = "primitive" => Undeclared(t)
    BY <1>1, <1>3, <1>6, NameTypes DEF Undeclared
  <2>8. QED
    BY <1>2, <1>3, <2>4, <2>6, <2>7 DEF Sound
<1>7. QED
  BY <1>4, <1>5, <1>6

-----------------------------------------------------------------------------
(* The stack of scanType calls.                                             *)

LEMMA CallTypes ==
    /\ \A call \in Call : call.type \in Types /\ call.kids \in Seq(Codec) /\ Len(call.kids) \in Nat
    /\ \A t \in Types : Visits(t) \in Seq(Types) /\ Len(Visits(t)) \in Nat
<1>1. \A call \in Call : call.type \in Types /\ call.kids \in Seq(Codec)
  BY DEF Call
<1>2. \A t \in Types : Visits(t) \in Seq(Types)
  BY TypeFacts DEF Visits
<1>3. QED
  BY <1>1, <1>2, LenProperties

LEMMA StackParts ==
    ASSUME NEW s \in Seq(Call), s # <<>>
    PROVE  /\ Len(s) \in Nat \ {0} /\ Last(s) = s[Len(s)] /\ Last(s) \in Call
           /\ Front(s) \in Seq(Call) /\ Len(Front(s)) = Len(s) - 1
           /\ \A i \in 1 .. Len(s) - 1 : Front(s)[i] = s[i]
           /\ \A i \in 1 .. Len(s) : s[i] \in Call
<1>1. Len(s) \in Nat \ {0} /\ \A i \in 1 .. Len(s) : s[i] \in Call
  BY LenProperties, ElementOfSeq, EmptySeq
<1>2. Last(s) = s[Len(s)]
  BY DEF Last
<1>3. QED
  BY <1>1, <1>2, FrontProperties

\* scanType calls scanType for its next part.
LEMMA Pushed ==
    ASSUME NEW s \in Seq(Call), s # <<>>, NEW t, StackSound(s, t), NEW call,
           Len(Last(s).kids) # Len(Visits(Last(s).type)),
           call = [type |-> Visits(Last(s).type)[Len(Last(s).kids) + 1], kids |-> <<>>]
    PROVE  /\ Append(s, call) \in Seq(Call) /\ Append(s, call) # <<>>
           /\ StackSound(Append(s, call), t)
<1> DEFINE top == Last(s)
<1>1. /\ Len(s) \in Nat \ {0} /\ top = s[Len(s)] /\ top \in Call
      /\ \A i \in 1 .. Len(s) : s[i] \in Call
  BY StackParts
<1>2. CallSound(top) /\ top.type \in Types
  BY <1>1, CallTypes DEF StackSound
<1>3. Len(top.kids) < Len(Visits(top.type)) /\ Len(top.kids) \in Nat
  BY <1>1, <1>2, CallTypes DEF CallSound
<1>4. Visits(top.type)[Len(top.kids) + 1] \in Types
  <2>1. Len(top.kids) + 1 \in 1 .. Len(Visits(top.type))
    BY <1>2, <1>3, CallTypes
  <2>2. QED
    BY <1>2, <2>1, CallTypes, ElementOfSeq
<1>5. call \in Call
  BY <1>4 DEF Call
<1>6. Awaits(top, call)
  BY <1>3 DEF Awaits
<1>7. CallSound(call)
  <2>1. call.kids = <<>> /\ Len(Visits(call.type)) \in Nat
    BY <1>4, CallTypes
  <2>2. QED
    BY <2>1, EmptySeq DEF CallSound
<1> DEFINE r == Append(s, call)
<1>8. /\ r \in Seq(Call) /\ Len(r) = Len(s) + 1 /\ r[Len(s) + 1] = call
      /\ \A i \in 1 .. Len(s) : r[i] = s[i]
  BY <1>5, AppendProperties
<1>9. StackSound(r, t)
  <2>1. r[1].type = t
    BY <1>1, <1>8 DEF StackSound
  <2>2. ASSUME NEW i \in 1 .. Len(r)
        PROVE  CallSound(r[i])
    BY <1>1, <1>7, <1>8 DEF StackSound
  <2>3. ASSUME NEW i \in 1 .. Len(r) - 1
        PROVE  Awaits(r[i], r[i + 1])
    <3>1. CASE i = Len(s)
      BY <1>1, <1>6, <1>8, <3>1
    <3>2. CASE i < Len(s)
      <4>1. i \in 1 .. Len(s) - 1 /\ r[i] = s[i] /\ r[i + 1] = s[i + 1]
        BY <1>1, <1>8, <3>2
      <4>2. QED
        BY <4>1 DEF StackSound
    <3>3. QED
      BY <1>1, <1>8, <3>1, <3>2
  <2>4. QED
    BY <2>1, <2>2, <2>3 DEF StackSound
<1>10. r # <<>>
  BY <1>1, <1>8, EmptySeq
<1>11. QED
  BY <1>8, <1>9, <1>10

\* scanType returns to the scanType that called it.
LEMMA Popped ==
    ASSUME NEW s \in Seq(Call), NEW t, StackSound(s, t), Len(s) > 1,
           NEW made \in Codec, made.of = Last(s).type, Sound(made), NEW r,
           r = [Front(s) EXCEPT ![Len(Front(s))].kids = Append(@, made)]
    PROVE  r \in Seq(Call) /\ r # <<>> /\ StackSound(r, t)
<1> DEFINE below == Front(s)
           n == Len(below)
           caller == below[n]
           call == [caller EXCEPT !.kids = Append(@, made)]
<1>1. /\ Len(s) \in Nat \ {0} /\ Last(s) = s[Len(s)]
      /\ below \in Seq(Call) /\ n = Len(s) - 1 /\ n > 0 /\ n \in Nat
      /\ \A i \in 1 .. n : below[i] = s[i] /\ s[i] \in Call
  <2>1. s # <<>>
    BY EmptySeq
  <2>2. QED
    BY <2>1, StackParts
<1>2. /\ caller = s[n] /\ caller \in Call /\ caller.type \in Types /\ caller.kids \in Seq(Codec)
      /\ Len(caller.kids) \in Nat
  <2>1. caller = s[n] /\ caller \in Call
    BY <1>1
  <2>2. QED
    BY <2>1, CallTypes
<1>3. /\ call.type = caller.type
      /\ call.kids = Append(caller.kids, made) /\ call.kids \in Seq(Codec)
      /\ Len(call.kids) = Len(caller.kids) + 1
      /\ call.kids[Len(caller.kids) + 1] = made
      /\ \A j \in 1 .. Len(caller.kids) : call.kids[j] = caller.kids[j]
  <2>1. call.type = caller.type /\ call.kids = Append(caller.kids, made)
    BY <1>2 DEF Call
  <2>2. QED
    BY <1>2, <2>1, AppendProperties
<1>4. call \in Call
  <2>1. caller = [type |-> caller.type, kids |-> caller.kids]
    BY <1>2 DEF Call
  <2>2. QED
    BY <1>2, <1>3, <2>1 DEF Call
<1>5. CallSound(caller) /\ Awaits(caller, Last(s))
  BY <1>1, <1>2 DEF StackSound
<1>6. CallSound(call)
  <2>1. Len(call.kids) <= Len(Visits(call.type))
    BY <1>2, <1>3, <1>5, CallTypes DEF Awaits
  <2>2. ASSUME NEW j \in 1 .. Len(call.kids)
        PROVE  call.kids[j].of = Visits(call.type)[j] /\ Sound(call.kids[j])
    BY <1>2, <1>3, <1>5 DEF Awaits, CallSound
  <2>3. QED
    BY <2>1, <2>2 DEF CallSound
<1>7. /\ r \in Seq(Call) /\ Len(r) = n /\ r[n] = call
      /\ \A i \in 1 .. n - 1 : r[i] = s[i]
  <2>1. r = [below EXCEPT ![Len(below)] = call]
    OBVIOUS
  <2>2. below \in Seq(Call) /\ Len(below) > 0 /\ call \in Call
    BY <1>1, <1>4
  <2> HIDE DEF call, caller, below
  <2>3. /\ [below EXCEPT ![Len(below)] = call] \in Seq(Call)
        /\ Len([below EXCEPT ![Len(below)] = call]) = Len(below)
        /\ [below EXCEPT ![Len(below)] = call][Len(below)] = call
        /\ \A i \in 1 .. Len(below) - 1 : [below EXCEPT ![Len(below)] = call][i] = below[i]
    BY ONLY <2>2, LastReplaced
  <2>4. /\ r \in Seq(Call) /\ Len(r) = Len(below) /\ r[Len(below)] = call
        /\ \A i \in 1 .. Len(below) - 1 : r[i] = below[i]
    BY ONLY <2>1, <2>3
  <2>5. QED
    BY <1>1, <2>4
<1>8. r[1].type = t
  <2>1. s[1].type = t
    BY <1>1 DEF StackSound
  <2>2. QED
    BY <1>1, <1>2, <1>3, <1>7, <2>1
<1>9. ASSUME NEW i \in 1 .. Len(r)
      PROVE  CallSound(r[i])
  <2>1. CASE i = n
    BY <1>6, <1>7, <2>1
  <2>2. CASE i < n
    BY <1>1, <1>7, <2>2 DEF StackSound
  <2>3. QED
    BY <1>1, <1>7, <2>1, <2>2
<1>10. ASSUME NEW i \in 1 .. Len(r) - 1
       PROVE  Awaits(r[i], r[i + 1])
  <2>1. i \in 1 .. Len(s) - 1 /\ r[i] = s[i] /\ Awaits(s[i], s[i + 1])
    BY <1>1, <1>7 DEF StackSound
  <2>2. r[i + 1].type = s[i + 1].type
    BY <1>1, <1>2, <1>3, <1>7
  <2>3. QED
    BY <2>1, <2>2 DEF Awaits
<1>11. StackSound(r, t)
  BY <1>8, <1>9, <1>10 DEF StackSound
<1>12. r # <<>>
  BY <1>1, <1>7, EmptySeq
<1>13. QED
  BY <1>7, <1>11, <1>12

-----------------------------------------------------------------------------
(* One step of a goroutine.                                                 *)

Others(p) == \A q \in Procs \ {p} :
    /\ phase'[q] = phase[q] /\ coder'[q] = coder[q] /\ type'[q] = type[q]
    /\ stack'[q] = stack[q] /\ using'[q] = using[q]

LEMMA ProgressOthers ==
    ASSUME CacheInv, NEW p \in Procs, Others(p), Progress(p)'
    PROVE  \A q \in Procs : Progress(q)'
<1>1. ASSUME NEW q \in Procs \ {p}
      PROVE  Progress(q)'
  BY DEF CacheInv, Progress, Others
<1>2. QED
  BY <1>1

LEMMA EmptyStack ==
    ASSUME NEW t
    PROVE  StackSound(<<>>, t)
BY EmptySeq DEF StackSound

\* A step that leaves the cache and the coders alone, and puts no codec to use.
LEMMA InvLocal ==
    ASSUME CacheInv, NEW p \in Procs, Others(p), Progress(p)', TypeOK',
           UNCHANGED <<schemas, last, codec>>,
           phase'[p] = "use" => using'[p] # NoCodec /\ using'[p] = schemas[type'[p]]
    PROVE  CacheInv'
<1>1. \A q \in Procs : Progress(q)'
  BY ProgressOthers
<1>2. OneCodec'
  BY DEF CacheInv, OneCodec, Others
<1>3. QED
  BY <1>1, <1>2 DEF CacheInv

LEMMA InvBegin ==
    ASSUME CacheInv, NEW p \in Procs, Begin(p)
    PROVE  CacheInv'
<1>1. PICK c \in Coders \ {coder[q] : q \in Procs}, t \in Roots :
          /\ coder' = [coder EXCEPT ![p] = c]
          /\ type' = [type EXCEPT ![p] = t]
          /\ \/ /\ t = last[c]
                /\ phase' = [phase EXCEPT ![p] = "use"]
                /\ using' = [using EXCEPT ![p] = codec[c]]
             \/ /\ t # last[c]
                /\ phase' = [phase EXCEPT ![p] = "load"]
                /\ UNCHANGED using
  BY DEF Begin
<1>2. /\ phase[p] = "idle" /\ UNCHANGED <<schemas, last, codec, stack>>
      /\ c \in Coders /\ t \in Types /\ t # NoType /\ TypeOK
  BY DescAssumption DEF Begin, CacheInv
<1>3. t = last[c] => codec[c] # NoCodec /\ codec[c] = schemas[t]
  BY <1>2 DEF CacheInv, OneCodec
<1>4. stack[p] = <<>>
  BY <1>2 DEF TypeOK
<1>5. TypeOK'
  BY <1>1, <1>2, <1>4 DEF TypeOK
<1>6. Others(p)
  BY <1>1, <1>2 DEF Others, TypeOK
<1>7. coder'[p] = c /\ type'[p] = t /\ phase'[p] \in {"use", "load"}
      /\ (phase'[p] = "use" => using'[p] = codec[c] /\ t = last[c])
  BY <1>1, <1>2 DEF TypeOK
<1>8. Progress(p)'
  BY <1>2, <1>4, <1>7, EmptyStack DEF Progress
<1>9. QED
  BY <1>2, <1>3, <1>5, <1>6, <1>7, <1>8, InvLocal

LEMMA InvLoadMiss ==
    ASSUME CacheInv, NEW p \in Procs, LoadMiss(p)
    PROVE  CacheInv'
<1> DEFINE call == [type |-> type[p], kids |-> <<>>]
<1>1. /\ phase[p] = "load" /\ phase' = [phase EXCEPT ![p] = "scan"]
      /\ stack' = [stack EXCEPT ![p] = <<call>>]
      /\ UNCHANGED <<schemas, last, codec, coder, type, using>>
  BY DEF LoadMiss
<1>2. TypeOK /\ type[p] \in Types /\ coder[p] \in Coders
  BY <1>1 DEF CacheInv, Progress
<1>3. call \in Call /\ call.type = type[p] /\ Len(call.kids) = 0
  BY <1>2 DEF Call
<1>4. stack'[p] = <<call>> /\ phase'[p] = "scan"
  BY <1>1, <1>2 DEF TypeOK
<1>5. TypeOK'
  <2>1. <<call>> \in Seq(Call) /\ <<call>> # <<>>
    BY <1>3
  <2> HIDE DEF call
  <2>2. QED
    BY <1>1, <1>2, <2>1 DEF TypeOK
<1>6. StackSound(<<call>>, type[p])
  <2>1. CallSound(call)
    BY <1>2, <1>3, CallTypes DEF CallSound
  <2> HIDE DEF call
  <2>2. Len(<<call>>) = 1 /\ <<call>>[1] = call
    OBVIOUS
  <2>3. QED
    BY <1>3, <2>1, <2>2 DEF StackSound
<1>7. Progress(p)'
  BY <1>1, <1>2, <1>4, <1>6 DEF Progress
<1>8. Others(p)
  BY <1>1, <1>2 DEF Others, TypeOK
<1>9. QED
  BY <1>1, <1>4, <1>5, <1>7, <1>8, InvLocal

LEMMA InvVisit ==
    ASSUME CacheInv, NEW p \in Procs, Visit(p)
    PROVE  CacheInv'
<1>1. /\ phase[p] = "scan" /\ ~Scanned(p)
      /\ UNCHANGED <<schemas, last, codec, coder, type, using>>
      /\ TypeOK /\ stack[p] \in Seq(Call) /\ stack[p] # <<>>
      /\ StackSound(stack[p], type[p]) /\ type[p] \in Types /\ coder[p] \in Coders
  BY DEF Visit, CacheInv, Progress, TypeOK
<1>2. CASE stack' = [stack EXCEPT ![p] = Append(@, [type |-> Child(p), kids |-> <<>>])] /\ UNCHANGED phase
  <2> DEFINE s == Append(stack[p], [type |-> Child(p), kids |-> <<>>])
  <2>1. s \in Seq(Call) /\ s # <<>> /\ StackSound(s, type[p])
    BY <1>1, Pushed DEF Scanned, Child, Top
  <2> HIDE DEF s
  <2>2. stack' = [stack EXCEPT ![p] = s]
    BY <1>2 DEF s
  <2>3. stack'[p] = s
    BY <1>1, <2>2 DEF TypeOK
  <2>4. TypeOK'
    BY <1>1, <1>2, <2>1, <2>2 DEF TypeOK
  <2>5. Progress(p)'
    BY <1>1, <1>2, <2>1, <2>3 DEF Progress
  <2>6. Others(p)
    BY <1>1, <1>2, <2>2 DEF Others, TypeOK
  <2>7. QED
    BY <1>1, <1>2, <2>4, <2>5, <2>6, InvLocal
<1>3. CASE phase' = [phase EXCEPT ![p] = "overflow"] /\ UNCHANGED stack
  <2>1. phase'[p] = "overflow"
    BY <1>1, <1>3 DEF TypeOK
  <2>2. TypeOK'
    BY <1>1, <1>3 DEF TypeOK
  <2>3. Progress(p)'
    BY <1>1, <1>3, <2>1 DEF Progress
  <2>4. Others(p)
    BY <1>1, <1>3 DEF Others, TypeOK
  <2>5. QED
    BY <1>1, <2>1, <2>2, <2>3, <2>4, InvLocal
<1>4. QED
  BY <1>2, <1>3 DEF Visit

LEMMA InvReturn ==
    ASSUME CacheInv, NEW p \in Procs, Return(p)
    PROVE  CacheInv'
<1> DEFINE made  == Made(p, Top(p).type, Top(p).kids)
           below == Front(stack[p])
<1>1. /\ phase[p] = "scan" /\ Scanned(p) /\ ~Rejected(Top(p).type)
      /\ UNCHANGED <<schemas, last, codec, coder, type>>
      /\ TypeOK /\ stack[p] \in Seq(Call) /\ stack[p] # <<>>
      /\ StackSound(stack[p], type[p]) /\ type[p] \in Types /\ coder[p] \in Coders
  BY DEF Return, CacheInv, Progress, TypeOK
<1>2. /\ Len(stack[p]) \in Nat \ {0} /\ Top(p) = stack[p][Len(stack[p])] /\ Top(p) \in Call
      /\ CallSound(Top(p))
  <2>1. Len(stack[p]) \in Nat \ {0} /\ Top(p) = stack[p][Len(stack[p])] /\ Top(p) \in Call
    BY <1>1, StackParts DEF Top
  <2>2. QED
    BY <1>1, <2>1 DEF StackSound
<1>3. made \in Codec /\ made.of = Top(p).type /\ Sound(made)
  BY <1>1, <1>2, MadeSound DEF Scanned
<1>4. CASE /\ Len(stack[p]) > 1 /\ UNCHANGED <<phase, using>>
           /\ stack' = [stack EXCEPT ![p] = [below EXCEPT ![Len(below)].kids = Append(@, made)]]
  <2> DEFINE r == [below EXCEPT ![Len(below)].kids = Append(@, made)]
  <2>1. r \in Seq(Call) /\ r # <<>> /\ StackSound(r, type[p])
    <3>1. made \in Codec /\ made.of = Last(stack[p]).type /\ Sound(made)
      BY <1>3 DEF Top
    <3> HIDE DEF made
    <3>2. QED
      BY <1>1, <1>4, <3>1, Popped
  <2>2. stack' = [stack EXCEPT ![p] = r]
    BY <1>4
  <2> HIDE DEF r
  <2>3. stack'[p] = r
    BY <1>1, <2>2 DEF TypeOK
  <2>4. TypeOK'
    BY <1>1, <1>4, <2>1, <2>2 DEF TypeOK
  <2>5. Progress(p)'
    BY <1>1, <1>4, <2>1, <2>3 DEF Progress
  <2>6. Others(p)
    BY <1>1, <1>4, <2>2 DEF Others, TypeOK
  <2>7. QED
    BY <1>1, <1>4, <2>4, <2>5, <2>6, InvLocal
<1>5. CASE /\ Len(stack[p]) = 1 /\ stack' = [stack EXCEPT ![p] = <<>>]
           /\ using' = [using EXCEPT ![p] = made] /\ phase' = [phase EXCEPT ![p] = "store"]
  <2>1. made.of = type[p]
    BY <1>1, <1>2, <1>3, <1>5 DEF StackSound
  <2>2. made # NoCodec
    BY <1>3, NoCodecAssumption
  <2> HIDE DEF made
  <2>3. stack'[p] = <<>> /\ using'[p] = made /\ phase'[p] = "store"
    BY <1>1, <1>5 DEF TypeOK
  <2>4. TypeOK'
    <3>1. <<>> \in Seq(Call)
      BY EmptySeq
    <3>2. QED
      BY <1>1, <1>3, <1>5, <3>1 DEF TypeOK
  <2>5. Progress(p)'
    BY <1>1, <1>3, <2>1, <2>2, <2>3, EmptyStack DEF Progress
  <2>6. Others(p)
    BY <1>1, <1>5 DEF Others, TypeOK
  <2>7. QED
    BY <1>1, <2>3, <2>4, <2>5, <2>6, InvLocal
<1>6. QED
  BY <1>4, <1>5 DEF Return

\* A call that ends, with an error or without.
LEMMA InvLeave ==
    ASSUME CacheInv, NEW p \in Procs, Leave(p), UNCHANGED <<schemas, last, codec>>
    PROVE  CacheInv'
<1>1. /\ phase' = [phase EXCEPT ![p] = "idle"] /\ stack' = [stack EXCEPT ![p] = <<>>]
      /\ coder' = [coder EXCEPT ![p] = NoCoder] /\ type' = [type EXCEPT ![p] = NoType]
      /\ using' = [using EXCEPT ![p] = NoCodec] /\ TypeOK
  BY DEF Leave, CacheInv
<1>2. phase'[p] = "idle" /\ stack'[p] = <<>>
  BY <1>1 DEF TypeOK
<1>3. TypeOK'
  <2>1. <<>> \in Seq(Call)
    BY EmptySeq
  <2>2. QED
    BY <1>1, <2>1 DEF TypeOK
<1>4. Progress(p)'
  BY <1>2, EmptyStack DEF Progress
<1>5. Others(p)
  BY <1>1 DEF Others, TypeOK
<1>6. QED
  BY <1>2, <1>3, <1>4, <1>5, InvLocal

\* A goroutine that puts the cached codec of its type to use.
LEMMA InvAdopt ==
    ASSUME CacheInv, NEW p \in Procs, NEW c \in Codec, Adopt(p, c),
           phase[p] \in {"load", "store"}, UNCHANGED <<coder, type, stack>>,
           c.of = type[p], Sound(c),
           schemas' = [schemas EXCEPT ![type[p]] = c],
           schemas[type[p]] \in {NoCodec, c}
    PROVE  CacheInv'
<1>1. /\ TypeOK /\ type[p] \in Types /\ coder[p] \in Coders /\ StackSound(stack[p], type[p])
      /\ c # NoCodec /\ type[p] # NoType
  BY DescAssumption, NoCodecAssumption DEF CacheInv, Progress
<1>2. /\ last' = [last EXCEPT ![coder[p]] = type[p]] /\ codec' = [codec EXCEPT ![coder[p]] = c]
      /\ using' = [using EXCEPT ![p] = c] /\ phase' = [phase EXCEPT ![p] = "use"]
  BY DEF Adopt
<1>3. /\ phase'[p] = "use" /\ using'[p] = c /\ schemas'[type[p]] = c
      /\ \A t \in Types : schemas[t] # NoCodec => schemas'[t] = schemas[t]
      /\ \A t \in Types \ {type[p]} : schemas'[t] = schemas[t]
  BY <1>1, <1>2 DEF TypeOK
<1>4. TypeOK'
  BY <1>1, <1>2 DEF TypeOK
<1>5. Others(p)
  BY <1>1, <1>2 DEF Others, TypeOK
<1>6. Progress(p)'
  BY <1>1, <1>3 DEF Progress
<1>7. \A q \in Procs : Progress(q)'
  BY <1>5, <1>6, ProgressOthers
<1>8. OneCodec'
  <2>1. ASSUME NEW x \in Coders, last'[x] # NoType
        PROVE  codec'[x] # NoCodec /\ codec'[x] = schemas'[last'[x]]
    <3>1. CASE x = coder[p]
      BY <1>1, <1>2, <1>3, <3>1 DEF TypeOK
    <3>2. CASE x # coder[p]
      <4>1. last'[x] = last[x] /\ codec'[x] = codec[x] /\ last[x] \in Types
        BY <1>1, <1>2, <2>1, <3>2 DEF TypeOK
      <4>2. QED
        BY <1>3, <2>1, <4>1 DEF CacheInv, OneCodec
    <3>3. QED
      BY <3>1, <3>2
  <2>2. ASSUME NEW q \in Procs, phase'[q] = "use"
        PROVE  using'[q] # NoCodec /\ using'[q] = schemas'[type'[q]]
    <3>1. CASE q = p
      BY <1>1, <1>3, <3>1
    <3>2. CASE q # p
      <4>1. phase[q] = "use" /\ using'[q] = using[q] /\ type'[q] = type[q]
        BY <1>5, <2>2, <3>2 DEF Others
      <4>2. type[q] \in Types
        BY <4>1 DEF CacheInv, Progress
      <4>3. QED
        BY <1>3, <4>1, <4>2 DEF CacheInv, OneCodec
    <3>3. QED
      BY <3>1, <3>2
  <2>3. QED
    BY <2>1, <2>2 DEF OneCodec
<1>9. \A t \in Types : schemas'[t] # NoCodec => schemas'[t].of = t /\ Sound(schemas'[t])
  BY <1>1, <1>3 DEF CacheInv
<1>10. QED
  BY <1>4, <1>7, <1>8, <1>9 DEF CacheInv

\* What is in the cache stays.
LEMMA InvFound ==
    ASSUME CacheInv, NEW p \in Procs, phase[p] \in {"load", "store"},
           schemas[type[p]] # NoCodec, Adopt(p, schemas[type[p]]),
           UNCHANGED <<schemas, coder, type, stack>>
    PROVE  CacheInv'
<1>1. type[p] \in Types /\ schemas \in [Types -> Codec \cup {NoCodec}]
  BY DEF CacheInv, Progress, TypeOK
<1>2. /\ schemas[type[p]] \in Codec /\ schemas[type[p]].of = type[p] /\ Sound(schemas[type[p]])
      /\ schemas' = [schemas EXCEPT ![type[p]] = schemas[type[p]]]
  BY <1>1 DEF CacheInv
<1>3. QED
  BY <1>2, InvAdopt

LEMMA InvStoreFirst ==
    ASSUME CacheInv, NEW p \in Procs, StoreFirst(p)
    PROVE  CacheInv'
<1>1. /\ using[p] \in Codec /\ using[p].of = type[p] /\ Sound(using[p])
  BY DEF StoreFirst, CacheInv, Progress, TypeOK
<1>2. QED
  BY <1>1, InvAdopt DEF StoreFirst

-----------------------------------------------------------------------------
LEMMA CacheStep ==
    ASSUME CacheInv, [Next]_vars
    PROVE  CacheInv'
<1>1. CASE UNCHANGED vars
  BY <1>1 DEF vars, CacheInv, TypeOK, OneCodec, Progress
<1>2. ASSUME NEW p \in Procs, Begin(p) \/ Encode(p)
      PROVE  CacheInv'
  <2>1. Reject(p) \/ Use(p) => Leave(p) /\ UNCHANGED <<schemas, last, codec>>
    BY DEF Reject, Use
  <2>2. LoadHit(p) \/ StoreLate(p) =>
           /\ phase[p] \in {"load", "store"} /\ schemas[type[p]] # NoCodec
           /\ Adopt(p, schemas[type[p]]) /\ UNCHANGED <<schemas, coder, type, stack>>
    BY DEF LoadHit, StoreLate
  <2>3. QED
    BY <1>2, <2>1, <2>2, InvBegin, InvLoadMiss, InvVisit, InvReturn, InvLeave, InvFound,
       InvStoreFirst DEF Encode
<1>3. QED
  BY <1>1, <1>2 DEF Next

LEMMA CacheInit ==
    ASSUME Init
    PROVE  CacheInv
<1>1. TypeOK
  BY EmptySeq DEF Init, TypeOK
<1>2. OneCodec
  BY DEF Init, OneCodec
<1>3. \A p \in Procs : Progress(p)
  BY EmptyStack DEF Init, Progress
<1>4. \A t \in Types : schemas[t] = NoCodec
  BY DEF Init
<1>5. QED
  BY <1>1, <1>2, <1>3, <1>4 DEF CacheInv

LEMMA CacheHolds == Spec => []CacheInv
<1>1. Init => CacheInv
  BY CacheInit
<1>2. CacheInv /\ [Next]_vars => CacheInv'
  BY CacheStep
<1>3. QED
  BY <1>1, <1>2, PTL DEF Spec

\* The variables stay in their types; a goroutine has scanType calls open only
\* while it scans.
THEOREM CacheTypes == Spec => []TypeOK
<1>1. CacheInv => TypeOK
  BY DEF CacheInv
<1>2. QED
  BY <1>1, CacheHolds, PTL

\* All goroutines and all coders use one codec for a type (LoadOrStore in scan,
\* and the pair e.last and e.codec).
THEOREM OneCodecPerType == Spec => []OneCodec
<1>1. CacheInv => OneCodec
  BY DEF CacheInv
<1>2. QED
  BY <1>1, CacheHolds, PTL

\* A cached codec is for its type, and leaves to its own codec every type in it
\* that has one (the *primitiveCodec tests of scanSlice).
THEOREM MethodsHonoured == Spec => []CodecHonoursMethods
<1>1. CacheInv => CodecHonoursMethods
  BY DEF CacheInv, Sound, CodecHonoursMethods
<1>2. QED
  BY <1>1, CacheHolds, PTL

\* Only types that can be encoded, down to their last part, are cached: no error
\* of scanType is lost on its way up.
THEOREM OnlyScannableCached == Spec => []OnlyScannable
<1>1. CacheInv => OnlyScannable
  BY DEF CacheInv, Sound, OnlyScannable
<1>2. QED
  BY <1>1, CacheHolds, PTL

=============================================================================
