------------------------- MODULE MarshalPools_proofs ------------------------
(***************************************************************************)
(* The types of MarshalPools; who owns what in it: every pooled object and *)
(* every backing array has one owner; what the buffers hold, and what a    *)
(* caller sees: the bytes of an encoder's own codecs while a call runs,    *)
(* the bytes of the value in what Marshal returned, and the bytes a dst    *)
(* receives, in order and all of them when MarshalTo returns nil; and,     *)
(* from these, that the pools implement MarshalSpec: for any number of     *)
(* goroutines, objects, arrays and values.                                 *)
(***************************************************************************)
EXTENDS MarshalPools, Facts_proofs

-----------------------------------------------------------------------------
(* The inductive strengthening: types.                                      *)

\* A slice lies within its array.
InBounds(s) == IF s.arr = NoArray THEN s.len = 0 ELSE s.len <= Len(mem[s.arr])

Fits ==
    /\ \A o \in Objects : InBounds(buf[o])
    /\ \A p \in Procs : InBounds(ret[p]) /\ InBounds(kept[p])

Depth(p)  == Len(Trace[val[p]][ip[p]])
Ending(p) == ip[p] < Len(Script[val[p]]) /\ OpOf(p).name = "endcustom"

\* How the stack of a call and its place in the script belong together.
Shape(p) ==
    /\ ip[p] \in 0 .. Len(Script[val[p]])
    /\ phase[p] = "idle" <=> Len(frames[p]) = 0
    /\ \A i \in 1 .. Len(frames[p]) :
          (frames[p][i].kind = "tag" => i > 1) /\ (frames[p][i].kind = "encoder" => i = 1)
    /\ phase[p] = "run" => Len(frames[p]) = Depth(p) /\ ret[p] = NoSlice
    /\ phase[p] = "put" =>
          \/ Top(p).kind = "tag" /\ Len(frames[p]) = Depth(p) + 1 /\ ret[p] = NoSlice
          \/ /\ Top(p).kind = "marshal" /\ Len(frames[p]) = Depth(p)
             /\ IF Len(frames[p]) = 1 THEN AtEnd(p) ELSE Ending(p)
    /\ phase[p] = "copy" => Len(frames[p]) = Depth(p) - 1 /\ Ending(p)
    /\ phase[p] \in {"idle", "unwind"} => ret[p] = NoSlice

TypeInv == TypeOK /\ Fits /\ \A p \in Procs : Shape(p)

-----------------------------------------------------------------------------
(* Facts about the data.                                                    *)

LEMMA ContentsType ==
    ASSUME TypeOK, NEW s \in Slices, InBounds(s)
    PROVE  Contents(s) \in Seq(Token) /\ Len(Contents(s)) = s.len
BY DEF TypeOK, Contents, Slices, InBounds

LEMMA TokenTypes ==
    ASSUME NEW body \in Seq(Token), NEW n \in Nat
    PROVE  /\ Data(n) \in Seq(Token)
           /\ Sized(body) \in Seq(Token)
           /\ Tagged(n, body) \in Seq(Token)
           /\ <<>> \in Seq(Token)
           /\ Junk \in Token
BY DEF Data, Sized, Size, Tagged, Token, Junk

\* The stack of outputs is never empty, and an operation changes its depth
\* as the call changes the number of its frames.
LEMMA TraceDepth ==
    ASSUME NEW v \in Values, NEW i \in 0 .. Len(Script[v])
    PROVE  /\ Script[v] \in Seq(Op)
           /\ Trace[v][i] \in Seq(Seq(Token))
           /\ Len(Trace[v][i]) \in Nat \ {0}
           /\ Len(Trace[v][0]) = 1
           /\ i < Len(Script[v]) =>
                 /\ Script[v][i + 1] \in Op
                 /\ Trace[v][i + 1] = PureStep(Trace[v][i], Script[v][i + 1])
<1>1. Script[v] \in Seq(Op) /\ Trace[v] \in [0 .. Len(Script[v]) -> Seq(Seq(Token))]
  BY ScriptAssumption, TraceAssumption
<1>2. Trace[v][i] \in Seq(Seq(Token))
  BY <1>1
<1>3. Trace[v][0] = << <<>> >> /\ Len(Trace[v][0]) = 1
  <2>1. Trace[v][0] = << <<>> >>
    BY TraceAssumption
  <2>2. Len(<< <<>> >>) = 1
    OBVIOUS
  <2>3. QED
    BY <2>1, <2>2
<1>4. Trace[v][i] # <<>>
  <2>1. CASE i = 0
    BY <2>1, <1>3
  <2>2. CASE i # 0
    <3>1. i \in 1 .. Len(Script[v])
      BY <2>2, <1>1
    <3>2. QED
      BY <3>1, TraceAssumption
  <2>3. QED
    BY <2>1, <2>2
<1>5. Len(Trace[v][i]) \in Nat \ {0}
  BY <1>2, <1>4, EmptySeq
<1>6. ASSUME i < Len(Script[v])
      PROVE  /\ Script[v][i + 1] \in Op
             /\ Trace[v][i + 1] = PureStep(Trace[v][i], Script[v][i + 1])
  <2>1. i + 1 \in 1 .. Len(Script[v]) /\ (i + 1) - 1 = i
    BY <1>6, <1>1
  <2>2. QED
    BY <2>1, <1>1, TraceAssumption
<1>7. QED
  BY <1>1, <1>2, <1>3, <1>5, <1>6

LEMMA PureStepDepth ==
    ASSUME NEW s \in Seq(Seq(Token)), Len(s) > 0, NEW op \in Op
    PROVE  LET m == Len(PureStep(s, op))
           IN  /\ op.name \in {"write", "none"} => m = Len(s)
               /\ op.name \in {"arm", "custom"} => m = Len(s) + 1
               /\ op.name \in {"endarm", "endcustom"} => m = Len(s) - 1
<1>1. ASSUME NEW t \in Seq(Seq(Token)), NEW b
      PROVE  Len(Onto(t, b)) = Len(t)
  BY DEF Onto
<1>2. Front(s) \in Seq(Seq(Token)) /\ Len(Front(s)) = Len(s) - 1
  BY FrontProperties
<1>3. Len(Append(s, <<>>)) = Len(s) + 1
  OBVIOUS
<1>4. QED
  BY <1>1, <1>2, <1>3 DEF PureStep

LEMMA StepDepth ==
    ASSUME NEW v \in Values, NEW i \in 0 .. Len(Script[v]), i < Len(Script[v])
    PROVE  LET n == Len(Trace[v][i])
               m == Len(Trace[v][i + 1])
               name == Script[v][i + 1].name
           IN  /\ name \in {"write", "none"} => m = n
               /\ name \in {"arm", "custom"} => m = n + 1
               /\ name \in {"endarm", "endcustom"} => m = n - 1
<1>1. /\ Trace[v][i] \in Seq(Seq(Token)) /\ Len(Trace[v][i]) \in Nat \ {0}
      /\ Script[v][i + 1] \in Op
      /\ Trace[v][i + 1] = PureStep(Trace[v][i], Script[v][i + 1])
  BY TraceDepth
<1>2. Len(Trace[v][i]) > 0
  BY <1>1
<1>3. QED
  BY <1>1, <1>2, PureStepDepth

\* Writing over the start of a sequence keeps the rest of it.
LEMMA OverwriteProperties ==
    ASSUME NEW S, NEW front \in Seq(S), NEW rest \in Seq(S)
    PROVE  /\ front \o rest \in Seq(S)
           /\ Len(front \o rest) = Len(front) + Len(rest)
           /\ SubSeq(front \o rest, 1, Len(front)) = front
<1> DEFINE all == front \o rest
           start == SubSeq(all, 1, Len(front))
<1>1. /\ all \in Seq(S) /\ Len(all) = Len(front) + Len(rest)
      /\ Len(front) \in Nat /\ Len(rest) \in Nat
      /\ \A i \in 1 .. Len(front) : all[i] = front[i]
  BY ConcatProperties, LenProperties
<1>2. /\ start \in Seq(S)
      /\ Len(start) = Len(front)
      /\ \A i \in 1 .. Len(front) : start[i] = all[i]
  <2>1. \A i \in 1 .. Len(front) : all[i] \in S
    BY <1>1, ElementOfSeq
  <2>2. /\ start \in Seq(S)
        /\ Len(start) = IF 1 <= Len(front) THEN Len(front) - 1 + 1 ELSE 0
        /\ \A i \in 1 .. Len(front) - 1 + 1 : start[i] = all[1 + i - 1]
    <3> HIDE DEF all
    <3>1. 1 \in Int /\ Len(front) \in Int
      BY <1>1
    <3>2. QED
      BY <2>1, <3>1, SubSeqProperties
  <2>3. \A n \in Nat : (IF 1 <= n THEN n - 1 + 1 ELSE 0) = n
    OBVIOUS
  <2>4. \A n \in Nat : \A i \in 1 .. n : i \in 1 .. n - 1 + 1 /\ 1 + i - 1 = i
    OBVIOUS
  <2> HIDE DEF all, start
  <2>5. QED
    BY <1>1, <2>2, <2>3, <2>4
<1>3. start = front
  <2> HIDE DEF start
  <2>1. \A i \in 1 .. Len(start) : start[i] = front[i]
    BY <1>1, <1>2
  <2>2. QED
    BY <1>2, <2>1, SeqEqual
<1>4. QED
  BY <1>1, <1>3

-----------------------------------------------------------------------------
(* What the steps the actions are built from do.                            *)

LEMMA Allocation ==
    /\ FreeArrays \subseteq Arrays
    /\ FreeArrays # {} => NewArray \in FreeArrays
    /\ Unused \subseteq Objects
    /\ Unused # {} => NewObject \in Unused
<1>1. ASSUME FreeArrays # {} PROVE NewArray \in FreeArrays
  BY <1>1 DEF NewArray
<1>2. ASSUME Unused # {} PROVE NewObject \in Unused
  BY <1>2 DEF NewObject
<1>3. FreeArrays \subseteq Arrays /\ Unused \subseteq Objects
  BY DEF FreeArrays, Unused
<1>4. QED
  BY <1>1, <1>2, <1>3

\* Appending to the buffer of o changes the slice of o and one array: its own
\* or one nothing refers to.
LEMMA AppendEffect ==
    ASSUME TypeOK, Fits, NEW o \in Objects, NEW w \in Seq(Token), AppendBytes(o, w)
    PROVE  /\ mem' \in [Arrays -> Seq(Token)]
           /\ buf' \in [Objects -> Slices]
           /\ \A x \in Objects \ {o} : buf'[x] = buf[x]
           /\ buf'[o].arr \in Arrays
           /\ buf'[o].arr = buf[o].arr \/ buf'[o].arr \in FreeArrays
           /\ buf'[o].len <= Len(mem'[buf'[o].arr])
           /\ SubSeq(mem'[buf'[o].arr], 1, buf'[o].len) = Contents(buf[o]) \o w
           /\ \A a \in Arrays \ {buf'[o].arr} : mem'[a] = mem[a]
           /\ \A a \in Arrays \ FreeArrays : Len(mem[a]) <= Len(mem'[a])
<1> DEFINE b == buf[o]
           held == Contents(b)
           n == b.len + Len(w)
<1>1. /\ b \in Slices /\ b.len \in Nat /\ b.arr \in Arrays \cup {NoArray}
      /\ held \in Seq(Token) /\ Len(held) = b.len
      /\ Len(w) \in Nat /\ n \in Nat
  <2>1. b \in Slices /\ InBounds(b)
    BY DEF TypeOK, Fits
  <2>2. held \in Seq(Token) /\ Len(held) = b.len
    BY <2>1, ContentsType
  <2>3. b.len \in Nat /\ b.arr \in Arrays \cup {NoArray}
    BY <2>1 DEF Slices
  <2>4. Len(w) \in Nat
    BY LenProperties
  <2>5. QED
    BY <2>1, <2>2, <2>3, <2>4
<1>2. held \o w \in Seq(Token) /\ Len(held \o w) = n
  <2> HIDE DEF held, b
  <2>1. QED
    BY <1>1, ConcatProperties
<1>3. CASE /\ b.arr # NoArray
           /\ mem' = [mem EXCEPT ![b.arr] = (held \o w) \o SubSeq(@, n + 1, Len(@))]
           /\ buf' = [buf EXCEPT ![o] = [arr |-> b.arr, len |-> n]]
  <2> DEFINE old == mem[b.arr]
             rest == SubSeq(old, n + 1, Len(old))
             new == (held \o w) \o rest
  <2>1. b.arr \in Arrays /\ old \in Seq(Token) /\ Len(old) \in Nat
    BY <1>1, <1>3, LenProperties DEF TypeOK
  <2>2. rest \in Seq(Token) /\ Len(rest) = IF n < Len(old) THEN Len(old) - n ELSE 0
    <3> HIDE DEF old, n
    <3>1. QED
      BY <1>1, <2>1, TailOfSeq
  <2>3. /\ new \in Seq(Token) /\ Len(new) = n + Len(rest)
        /\ SubSeq(new, 1, n) = held \o w
    <3> HIDE DEF rest, held, n
    <3>1. QED
      BY <1>2, <2>2, OverwriteProperties
  <2>4. n <= Len(new) /\ Len(old) <= Len(new)
    <3> HIDE DEF rest, new, old, n
    <3>1. QED
      BY <1>1, <2>1, <2>2, <2>3
  <2>5. mem' = [mem EXCEPT ![b.arr] = new]
    BY <1>3
  <2>6. buf'[o].arr = b.arr /\ buf'[o].len = n /\ mem'[b.arr] = new
    BY <1>3, <2>1, <2>5 DEF TypeOK
  <2> HIDE DEF new
  <2>7. mem' \in [Arrays -> Seq(Token)] /\ \A a \in Arrays \ {b.arr} : mem'[a] = mem[a]
    BY <2>3, <2>5, <2>1 DEF TypeOK
  <2>8. \A a \in Arrays : Len(mem[a]) <= Len(mem'[a])
    <3>1. \A a \in Arrays : Len(mem[a]) \in Nat
      BY LenProperties DEF TypeOK
    <3>2. QED
      BY <3>1, <2>4, <2>6, <2>7
  <2>9. buf' \in [Objects -> Slices] /\ \A x \in Objects \ {o} : buf'[x] = buf[x]
    <3> HIDE DEF n
    <3>1. [arr |-> b.arr, len |-> n] \in Slices
      BY <1>1 DEF Slices
    <3>2. QED
      BY <1>3, <3>1 DEF TypeOK
  <2>10. QED
    BY <2>1, <2>3, <2>4, <2>6, <2>7, <2>8, <2>9
<1>4. CASE /\ FreeArrays # {}
           /\ mem' = [mem EXCEPT ![NewArray] = held \o w]
           /\ buf' = [buf EXCEPT ![o] = [arr |-> NewArray, len |-> n]]
  <2>1. NewArray \in FreeArrays /\ NewArray \in Arrays
    BY <1>4, Allocation
  <2>2. buf'[o].arr = NewArray /\ buf'[o].len = n /\ mem'[NewArray] = held \o w
    BY <1>4, <2>1 DEF TypeOK
  <2>3. SubSeq(held \o w, 1, n) = held \o w
    <3> HIDE DEF held, n
    <3>1. QED
      BY <1>2, SubSeqFull
  <2>4. mem' \in [Arrays -> Seq(Token)] /\ \A a \in Arrays \ {NewArray} : mem'[a] = mem[a]
    BY <1>2, <1>4, <2>1 DEF TypeOK
  <2>5. \A a \in Arrays \ FreeArrays : Len(mem[a]) <= Len(mem'[a])
    <3>1. \A a \in Arrays \ FreeArrays : mem'[a] = mem[a] /\ Len(mem[a]) \in Nat
      BY <2>1, <2>4, LenProperties DEF TypeOK
    <3>2. QED
      BY <3>1
  <2>6. buf' \in [Objects -> Slices] /\ \A x \in Objects \ {o} : buf'[x] = buf[x]
    <3> HIDE DEF n
    <3>1. [arr |-> NewArray, len |-> n] \in Slices
      BY <1>1, <2>1 DEF Slices
    <3>2. QED
      BY <1>4, <3>1 DEF TypeOK
  <2>7. n <= Len(mem'[NewArray])
    BY <1>1, <1>2, <2>2
  <2>8. QED
    BY <2>1, <2>2, <2>3, <2>4, <2>5, <2>6, <2>7
<1>5. QED
  BY <1>3, <1>4 DEF AppendBytes

\* The encoder of o writes to its own buffer, to a caller's dst, or nowhere.
LEMMA WriteEffect ==
    ASSUME TypeOK, Fits, NEW o \in Objects, NEW w \in Seq(Token), Write(o, w)
    PROVE  /\ mem' \in [Arrays -> Seq(Token)]
           /\ buf' \in [Objects -> Slices]
           /\ err' \in [Objects -> BOOLEAN]
           /\ sink' \in [Procs -> Seq(Token)]
           /\ out' = out
           /\ \A x \in Objects \ {o} : buf'[x] = buf[x] /\ err'[x] = err[x]
           /\ buf'[o].arr = buf[o].arr \/ buf'[o].arr \in FreeArrays
           /\ InBounds(buf[o])'
           /\ \A s \in Slices : s.arr \notin FreeArrays /\ InBounds(s) => InBounds(s)'
           /\ \A s \in Slices :
                 s.arr \notin FreeArrays /\ (s.arr = buf[o].arr => s.arr = NoArray)
                     => Contents(s)' = Contents(s)
           /\ ~err[o] /\ out[o] = Self =>
                 Contents(buf[o])' = Contents(buf[o]) \o w
           /\ out[o] = Self => err' = err /\ sink' = sink
<1>1. out' = out /\ InBounds(buf[o]) /\ buf[o] \in Slices
  BY DEF Write, TypeOK, Fits
<1>2. CASE err[o] /\ UNCHANGED <<mem, buf, err, sink>>
  <2>1. /\ \A s \in Slices : InBounds(s)' = InBounds(s) /\ Contents(s)' = Contents(s)
        /\ InBounds(buf[o])' = InBounds(buf[o])
    BY <1>2 DEF InBounds, Contents
  <2>2. QED
    BY <1>1, <1>2, <2>1 DEF TypeOK
<1>3. CASE ~err[o] /\ out[o] = Self /\ AppendBytes(o, w) /\ UNCHANGED <<err, sink>>
  <2>1. /\ mem' \in [Arrays -> Seq(Token)]
        /\ buf' \in [Objects -> Slices]
        /\ \A x \in Objects \ {o} : buf'[x] = buf[x]
        /\ buf'[o].arr \in Arrays
        /\ buf'[o].arr = buf[o].arr \/ buf'[o].arr \in FreeArrays
        /\ buf'[o].len <= Len(mem'[buf'[o].arr])
        /\ SubSeq(mem'[buf'[o].arr], 1, buf'[o].len) = Contents(buf[o]) \o w
        /\ \A a \in Arrays \ {buf'[o].arr} : mem'[a] = mem[a]
        /\ \A a \in Arrays \ FreeArrays : Len(mem[a]) <= Len(mem'[a])
    BY <1>3, AppendEffect
  <2>2. buf'[o].arr # NoArray
    BY <2>1, IdentityAssumption
  <2>3. InBounds(buf[o])' /\ Contents(buf[o])' = Contents(buf[o]) \o w
    BY <2>1, <2>2 DEF InBounds, Contents
  <2>4. ASSUME NEW s \in Slices, s.arr \notin FreeArrays, InBounds(s)
        PROVE  InBounds(s)'
    <3>1. CASE s.arr = NoArray
      BY <2>4, <3>1 DEF InBounds
    <3>2. CASE s.arr # NoArray
      <4>1. s.arr \in Arrays \ FreeArrays /\ s.len \in Nat
        BY <2>4, <3>2 DEF Slices
      <4>2. /\ s.len <= Len(mem[s.arr]) /\ Len(mem[s.arr]) <= Len(mem'[s.arr])
            /\ Len(mem[s.arr]) \in Nat /\ Len(mem'[s.arr]) \in Nat
        BY <2>1, <2>4, <3>2, <4>1, LenProperties DEF InBounds, TypeOK
      <4>3. QED
        BY <3>2, <4>1, <4>2 DEF InBounds
    <3>3. QED
      BY <3>1, <3>2
  <2>5. ASSUME NEW s \in Slices, s.arr \notin FreeArrays,
               s.arr = buf[o].arr => s.arr = NoArray
        PROVE  Contents(s)' = Contents(s)
    <3>1. CASE s.arr = NoArray
      BY <3>1 DEF Contents
    <3>2. CASE s.arr # NoArray
      <4>1. s.arr \in Arrays /\ s.arr # buf'[o].arr
        BY <2>1, <2>5, <3>2 DEF Slices
      <4>2. mem'[s.arr] = mem[s.arr]
        BY <2>1, <4>1
      <4>3. QED
        BY <3>2, <4>2 DEF Contents
    <3>3. QED
      BY <3>1, <3>2
  <2>6. QED
    BY <1>1, <1>3, <2>1, <2>3, <2>4, <2>5 DEF TypeOK
<1>4. CASE ~err[o] /\ out[o] # Self /\ WriteSink(o, w) /\ UNCHANGED <<mem, buf>>
  <2>1. PICK n \in 0 .. Len(w), failed \in BOOLEAN :
           /\ sink' = [sink EXCEPT ![out[o]] = @ \o SubSeq(w, 1, n)]
           /\ err' = [err EXCEPT ![o] = failed]
    BY <1>4 DEF WriteSink
  <2>2. SubSeq(w, 1, n) \in Seq(Token)
    BY PrefixOfSeq
  <2>3. out[o] \in Procs
    BY <1>4 DEF TypeOK
  <2>4. sink[out[o]] \o SubSeq(w, 1, n) \in Seq(Token)
    BY <2>2, <2>3, ConcatProperties DEF TypeOK
  <2>5. sink' \in [Procs -> Seq(Token)]
    BY <2>1, <2>3, <2>4 DEF TypeOK
  <2>6. err' \in [Objects -> BOOLEAN] /\ \A x \in Objects \ {o} : err'[x] = err[x]
    BY <2>1 DEF TypeOK
  <2>7. /\ \A s \in Slices : InBounds(s)' = InBounds(s) /\ Contents(s)' = Contents(s)
        /\ InBounds(buf[o])' = InBounds(buf[o])
    BY <1>4 DEF InBounds, Contents
  <2>8. QED
    BY <1>1, <1>4, <2>5, <2>6, <2>7 DEF TypeOK
<1>5. QED
  BY <1>2, <1>3, <1>4 DEF Write

LEMMA SlicesInUse ==
    /\ \A o \in Objects : buf[o].arr \notin FreeArrays
    /\ \A p \in Procs : ret[p].arr \notin FreeArrays /\ kept[p].arr \notin FreeArrays
BY DEF FreeArrays, Referenced

\* Object o has left its pool, or is new, and is ready to be written to.
Taken(p, kind, w, isNil, o) ==
    /\ o \in pool[kind] \cup Unused
    /\ pool' = [pool EXCEPT ![kind] = @ \ {o}]
    /\ err' = [err EXCEPT ![o] = isNil]
    /\ out' = [out EXCEPT ![o] = w]
    /\ mem' = mem
    /\ frames' = [frames EXCEPT ![p] = Append(@, [kind |-> kind, obj |-> o])]
    /\ pool' \in [Kinds -> SUBSET Objects]
    /\ frames' \in [Procs -> Seq(Frame)]
    /\ buf' \in [Objects -> Slices]
    /\ err' \in [Objects -> BOOLEAN]
    /\ out' \in [Objects -> Procs \cup {Self}]
    /\ \A x \in Objects \ {o} : buf'[x] = buf[x]
    /\ buf'[o].arr = buf[o].arr \/ buf'[o].arr \in FreeArrays
    /\ kind # "encoder" => buf'[o].len = 0
    /\ \A x \in Objects : InBounds(buf[x])'

LEMMA GetEffect ==
    ASSUME TypeOK, Fits, NEW p \in Procs, NEW kind \in Kinds,
           NEW w \in Procs \cup {Self}, NEW isNil \in BOOLEAN,
           Get(p, kind, w, isNil)
    PROVE  \E o \in Objects : Taken(p, kind, w, isNil, o)
<1>1. PICK o \in Available(kind) :
         /\ pool' = [pool EXCEPT ![kind] = @ \ {o}]
         /\ ResetBuffer(o, kind)
         /\ ResetEncoder(o, w, isNil)
         /\ frames' = [frames EXCEPT ![p] = Append(@, [kind |-> kind, obj |-> o])]
  BY DEF Get
<1>2. mem' = mem
  BY DEF Get
<1>3. o \in pool[kind] \cup Unused /\ o \in Objects
  BY Allocation DEF Available, TypeOK
<1>4. pool' \in [Kinds -> SUBSET Objects]
  BY <1>1 DEF TypeOK
<1>5. frames' \in [Procs -> Seq(Frame)]
  <2>1. [kind |-> kind, obj |-> o] \in Frame
    BY <1>3 DEF Frame
  <2>2. Append(frames[p], [kind |-> kind, obj |-> o]) \in Seq(Frame)
    BY <2>1 DEF TypeOK
  <2>3. QED
    BY <1>1, <2>2 DEF TypeOK
<1>6. /\ err' = [err EXCEPT ![o] = isNil] /\ err' \in [Objects -> BOOLEAN]
      /\ out' = [out EXCEPT ![o] = w] /\ out' \in [Objects -> Procs \cup {Self}]
  BY <1>1 DEF ResetEncoder, TypeOK
<1>7. /\ buf' \in [Objects -> Slices]
      /\ \A x \in Objects \ {o} : buf'[x] = buf[x]
      /\ buf'[o].arr = buf[o].arr \/ buf'[o].arr \in FreeArrays
      /\ kind # "encoder" => buf'[o].len = 0
      /\ kind = "encoder" => buf' = buf
  <2>1. buf[o].arr \in Arrays \cup {NoArray}
    BY <1>3 DEF TypeOK, Slices
  <2>2. CASE kind = "encoder" /\ UNCHANGED buf
    BY <2>2 DEF TypeOK
  <2>3. CASE kind # "encoder" /\ buf' = [buf EXCEPT ![o] = [arr |-> @.arr, len |-> 0]]
    <3>1. [arr |-> buf[o].arr, len |-> 0] \in Slices
      BY <2>1 DEF Slices
    <3>2. QED
      BY <1>3, <2>3, <3>1 DEF TypeOK
  <2>4. CASE /\ kind # "encoder" /\ FreeArrays # {}
             /\ buf' = [buf EXCEPT ![o] = [arr |-> NewArray, len |-> 0]]
    <3>1. NewArray \in FreeArrays /\ [arr |-> NewArray, len |-> 0] \in Slices
      BY <2>4, Allocation DEF Slices
    <3>2. QED
      BY <1>3, <2>4, <3>1 DEF TypeOK
  <2>5. QED
    BY <1>1, <2>2, <2>3, <2>4 DEF ResetBuffer
<1>8. ASSUME NEW x \in Objects
      PROVE  InBounds(buf[x])'
  <2>1. CASE buf'[x] = buf[x]
    BY <1>2, <2>1 DEF Fits, InBounds
  <2>2. CASE x = o /\ kind # "encoder"
    <3>1. buf'[x].len = 0 /\ buf'[x].arr \in Arrays \cup {NoArray}
      BY <1>7, <2>2 DEF Slices
    <3>2. buf'[x].arr # NoArray => 0 <= Len(mem[buf'[x].arr])
      BY <3>1, LenProperties DEF TypeOK
    <3>3. QED
      BY <1>2, <3>1, <3>2 DEF InBounds
  <2>3. QED
    BY <1>7, <2>1, <2>2
<1>9. QED
  BY <1>1, <1>2, <1>3, <1>4, <1>5, <1>6, <1>7, <1>8 DEF Taken

LEMMA FrameTypes ==
    ASSUME TypeOK, NEW p \in Procs
    PROVE  /\ frames[p] \in Seq(Frame)
           /\ Len(frames[p]) \in Nat
           /\ \A i \in 1 .. Len(frames[p]) :
                 frames[p][i].kind \in Kinds /\ frames[p][i].obj \in Objects
           /\ Len(frames[p]) > 0 =>
                 /\ Top(p) = frames[p][Len(frames[p])]
                 /\ Top(p).kind \in Kinds /\ Top(p).obj \in Objects
           /\ Len(frames[p]) > 1 =>
                 /\ Last(Front(frames[p])) = frames[p][Len(frames[p]) - 1]
                 /\ Last(Front(frames[p])).obj \in Objects
<1>1. frames[p] \in Seq(Frame) /\ Len(frames[p]) \in Nat
  BY LenProperties DEF TypeOK
<1>2. \A i \in 1 .. Len(frames[p]) : frames[p][i] \in Frame
  BY <1>1, ElementOfSeq
<1>3. \A f \in Frame : f.kind \in Kinds /\ f.obj \in Objects
  BY DEF Frame
<1>4. Top(p) = frames[p][Len(frames[p])]
  BY DEF Top, Last
<1>5. ASSUME Len(frames[p]) > 1
      PROVE  Last(Front(frames[p])) = frames[p][Len(frames[p]) - 1]
  <2>1. /\ Len(Front(frames[p])) = Len(frames[p]) - 1
        /\ \A i \in 1 .. Len(frames[p]) - 1 : Front(frames[p])[i] = frames[p][i]
    BY <1>1, <1>5, FrontProperties
  <2>2. Len(frames[p]) - 1 \in 1 .. Len(frames[p]) - 1
    BY <1>1, <1>5
  <2>3. QED
    BY <2>1, <2>2 DEF Last
<1>6. QED
  BY <1>1, <1>2, <1>3, <1>4, <1>5

LEMMA PutEffect ==
    ASSUME TypeOK, NEW p \in Procs, Len(frames[p]) > 0, Put(p)
    PROVE  /\ pool' \in [Kinds -> SUBSET Objects]
           /\ frames' \in [Procs -> Seq(Frame)]
           /\ frames' = [frames EXCEPT ![p] = Front(@)]
           /\ Len(frames'[p]) = Len(frames[p]) - 1
           /\ \A i \in 1 .. Len(frames[p]) - 1 : frames'[p][i] = frames[p][i]
           /\ pool' = [pool EXCEPT ![Top(p).kind] = @ \cup {Top(p).obj}]
<1>1. /\ Front(frames[p]) \in Seq(Frame)
      /\ Len(Front(frames[p])) = Len(frames[p]) - 1
      /\ \A i \in 1 .. Len(frames[p]) - 1 : Front(frames[p])[i] = frames[p][i]
  BY FrameTypes, FrontProperties
<1>2. Top(p).kind \in Kinds /\ Top(p).obj \in Objects
  BY FrameTypes
<1>3. QED
  BY <1>1, <1>2 DEF Put, TypeOK

-----------------------------------------------------------------------------
(* Type correctness.                                                        *)

LEMMA CallFacts ==
    ASSUME TypeInv, NEW p \in Procs
    PROVE  /\ val[p] \in Values /\ ip[p] \in Nat /\ ip[p] \in 0 .. Len(Script[val[p]])
           /\ Script[val[p]] \in Seq(Op) /\ Len(Script[val[p]]) \in Nat
           /\ Depth(p) \in Nat \ {0}
           /\ ip[p] # Len(Script[val[p]]) =>
                 /\ OpOf(p) \in Op /\ OpOf(p).arg \in Nat
                 /\ ip[p] + 1 \in 0 .. Len(Script[val[p]])
                 /\ ip[p] < Len(Script[val[p]])
<1>1. val[p] \in Values /\ ip[p] \in 0 .. Len(Script[val[p]]) /\ ip[p] \in Nat
  BY DEF TypeInv, TypeOK, Shape
<1>2. Script[val[p]] \in Seq(Op) /\ Len(Script[val[p]]) \in Nat /\ Depth(p) \in Nat \ {0}
  BY <1>1, TraceDepth, LenProperties DEF Depth
<1>3. ASSUME ip[p] # Len(Script[val[p]])
      PROVE  /\ OpOf(p) \in Op /\ OpOf(p).arg \in Nat
             /\ ip[p] + 1 \in 0 .. Len(Script[val[p]])
             /\ ip[p] < Len(Script[val[p]])
  <2>1. ip[p] < Len(Script[val[p]]) /\ ip[p] + 1 \in 0 .. Len(Script[val[p]])
    BY <1>1, <1>2, <1>3
  <2>2. OpOf(p) \in Op
    BY <1>1, <2>1, TraceDepth DEF OpOf
  <2>3. QED
    BY <2>1, <2>2 DEF Op
<1>4. QED
  BY <1>1, <1>2, <1>3

LEMMA DepthAfter ==
    ASSUME TypeInv, NEW p \in Procs, ip[p] # Len(Script[val[p]]),
           val' = val, ip' = [ip EXCEPT ![p] = @ + 1]
    PROVE  /\ OpOf(p).name \in {"write", "none"} => Depth(p)' = Depth(p)
           /\ OpOf(p).name \in {"arm", "custom"} => Depth(p)' = Depth(p) + 1
           /\ OpOf(p).name \in {"endarm", "endcustom"} => Depth(p)' = Depth(p) - 1
           /\ ip' \in [Procs -> Nat]
           /\ ip'[p] = ip[p] + 1
           /\ ip'[p] \in 0 .. Len(Script[val[p]])
<1>1. ip' \in [Procs -> Nat] /\ ip'[p] = ip[p] + 1 /\ ip'[p] \in 0 .. Len(Script[val[p]])
  BY CallFacts DEF TypeInv, TypeOK
<1>2. Depth(p)' = Len(Trace[val[p]][ip[p] + 1])
  BY <1>1 DEF Depth
<1>3. QED
  BY <1>1, <1>2, CallFacts, StepDepth DEF Depth, OpOf

\* A call that takes no step keeps its shape.
LEMMA ShapeFrame ==
    ASSUME NEW q \in Procs, Shape(q),
           phase'[q] = phase[q], val'[q] = val[q], ip'[q] = ip[q],
           frames'[q] = frames[q], ret'[q] = ret[q]
    PROVE  Shape(q)'
BY DEF Shape, Depth, Ending, OpOf, AtEnd, Top

\* The buffers of an action that writes, and the slices it leaves alone.
LEMMA WriteFits ==
    ASSUME TypeOK, Fits, NEW o \in Objects, NEW w \in Seq(Token), Write(o, w),
           NEW r \in [Procs -> Slices], NEW k \in [Procs -> Slices], ret' = r, kept' = k,
           \A p \in Procs : r[p] \in {ret[p], NoSlice} /\ k[p] = kept[p]
    PROVE  Fits'
<1>1. NoSlice \in Slices /\ NoSlice.arr = NoArray /\ NoSlice.len = 0
  BY DEF NoSlice, Slices
<1>2. /\ \A x \in Objects \ {o} : buf'[x] = buf[x]
      /\ InBounds(buf[o])'
      /\ \A s \in Slices : s.arr \notin FreeArrays /\ InBounds(s) => InBounds(s)'
  BY WriteEffect
<1>3. \A x \in Objects : InBounds(buf[x])'
  <2>1. ASSUME NEW x \in Objects \ {o}
        PROVE  InBounds(buf[x])'
    <3>1. buf[x] \in Slices /\ buf[x].arr \notin FreeArrays /\ InBounds(buf[x]) /\ buf'[x] = buf[x]
      BY <1>2, SlicesInUse DEF TypeOK, Fits
    <3> DEFINE s == buf[x]
    <3>2. s \in Slices /\ s.arr \notin FreeArrays /\ (IF s.arr = NoArray THEN s.len = 0 ELSE s.len <= Len(mem[s.arr]))
      BY <3>1 DEF InBounds
    <3>3. IF s.arr = NoArray THEN s.len = 0 ELSE s.len <= Len(mem'[s.arr])
      <4> HIDE DEF s
      <4>1. QED
        BY <1>2, <3>2 DEF InBounds
    <3>4. QED
      BY <3>1, <3>3 DEF InBounds
  <2>2. QED
    BY <1>2, <2>1
<1>4. \A p \in Procs : InBounds(kept[p])' /\ InBounds(ret[p])'
  <2>1. ASSUME NEW s \in Slices, s.arr \notin FreeArrays, InBounds(s)
        PROVE  IF s.arr = NoArray THEN s.len = 0 ELSE s.len <= Len(mem'[s.arr])
    BY <1>2, <2>1 DEF InBounds
  <2>2. \A p \in Procs : /\ kept[p] \in Slices /\ kept[p].arr \notin FreeArrays /\ InBounds(kept[p])
                         /\ ret[p] \in Slices /\ ret[p].arr \notin FreeArrays /\ InBounds(ret[p])
    BY SlicesInUse DEF TypeOK, Fits
  <2>3. \A p \in Procs : kept'[p] = kept[p] /\ ret'[p] \in {ret[p], NoSlice}
    OBVIOUS
  <2>4. QED
    BY <1>1, <2>1, <2>2, <2>3 DEF InBounds
<1>5. QED
  BY <1>3, <1>4 DEF Fits

LEMMA TypeWriteChunk ==
    ASSUME TypeInv, NEW p \in Procs, WriteChunk(p)
    PROVE  TypeInv'
<1> DEFINE o == Top(p).obj
           w == Data(OpOf(p).arg)
<1>1. /\ phase[p] = "run" /\ ip[p] # Len(Script[val[p]]) /\ OpOf(p).name = "write"
      /\ Write(o, w) /\ ip' = [ip EXCEPT ![p] = @ + 1]
      /\ UNCHANGED <<pool, phase, val, frames, ret, kept, want, res>>
  BY DEF WriteChunk, Doing, AtEnd, Advance, caller
<1>2. Len(frames[p]) > 0 /\ Len(frames[p]) = Depth(p) /\ ret[p] = NoSlice
  BY <1>1, CallFacts, FrameTypes DEF TypeInv, Shape
<1>3. o \in Objects /\ w \in Seq(Token)
  BY <1>1, <1>2, CallFacts, FrameTypes, TokenTypes, EmptySeq DEF TypeInv
<1>4. TypeOK'
  <2>1. ip' \in [Procs -> Nat]
    BY <1>1, DepthAfter
  <2>2. QED
    BY <1>1, <1>3, <2>1, WriteEffect DEF TypeInv, TypeOK
<1>5. Fits'
  BY <1>1, <1>3, WriteFits DEF TypeInv, TypeOK
<1>6. ASSUME NEW q \in Procs
      PROVE  Shape(q)'
  <2>1. CASE q = p
    <3>1. Depth(p)' = Depth(p) /\ ip'[p] \in 0 .. Len(Script[val[p]])
      BY <1>1, DepthAfter
    <3>2. QED
      BY <1>1, <1>2, <2>1, <3>1 DEF TypeInv, Shape
  <2>2. CASE q # p
    BY <1>1, <2>2, ShapeFrame DEF TypeInv, TypeOK
  <2>3. QED
    BY <2>1, <2>2
<1>7. QED
  BY <1>4, <1>5, <1>6 DEF TypeInv

LEMMA TypeEncodeNone ==
    ASSUME TypeInv, NEW p \in Procs, EncodeNone(p)
    PROVE  TypeInv'
<1> DEFINE o == Top(p).obj
           w == Tagged(0, <<>>)
<1>1. /\ phase[p] = "run" /\ ip[p] # Len(Script[val[p]]) /\ OpOf(p).name = "none"
      /\ Write(o, w) /\ ip' = [ip EXCEPT ![p] = @ + 1]
      /\ phase' = [phase EXCEPT ![p] = IF err'[o] THEN "unwind" ELSE @]
      /\ UNCHANGED <<pool, val, frames, ret, kept, want, res>>
  BY DEF EncodeNone, Doing, AtEnd, Advance, caller
<1>2. Len(frames[p]) > 0 /\ Len(frames[p]) = Depth(p) /\ ret[p] = NoSlice
  BY <1>1, CallFacts, FrameTypes DEF TypeInv, Shape
<1>3. o \in Objects /\ w \in Seq(Token)
  <2>1. o \in Objects
    BY <1>2, FrameTypes DEF TypeInv
  <2>2. <<>> \in Seq(Token) /\ 0 \in Nat
    BY EmptySeq
  <2>3. QED
    BY <2>1, <2>2, TokenTypes
<1>4. phase'[p] \in {"run", "unwind"} /\ phase' \in [Procs -> {"idle", "run", "put", "copy", "unwind"}]
  BY <1>1 DEF TypeInv, TypeOK
<1>5. TypeOK'
  <2>1. ip' \in [Procs -> Nat]
    BY <1>1, DepthAfter
  <2>2. QED
    BY <1>1, <1>3, <1>4, <2>1, WriteEffect DEF TypeInv, TypeOK
<1>6. Fits'
  BY <1>1, <1>3, WriteFits DEF TypeInv, TypeOK
<1>7. ASSUME NEW q \in Procs
      PROVE  Shape(q)'
  <2>1. CASE q = p
    <3>1. Depth(p)' = Depth(p) /\ ip'[p] \in 0 .. Len(Script[val[p]])
      BY <1>1, DepthAfter
    <3>2. QED
      BY <1>1, <1>2, <1>4, <2>1, <3>1 DEF TypeInv, Shape
  <2>2. CASE q # p
    BY <1>1, <2>2, ShapeFrame DEF TypeInv, TypeOK
  <2>3. QED
    BY <2>1, <2>2
<1>8. QED
  BY <1>5, <1>6, <1>7 DEF TypeInv

\* Pushing a frame.
LEMMA AppendFrame ==
    ASSUME TypeOK, NEW p \in Procs, NEW kind \in Kinds, NEW o \in Objects,
           frames' = [frames EXCEPT ![p] = Append(@, [kind |-> kind, obj |-> o])]
    PROVE  /\ Len(frames'[p]) = Len(frames[p]) + 1
           /\ \A i \in 1 .. Len(frames[p]) : frames'[p][i] = frames[p][i]
           /\ frames'[p][Len(frames[p]) + 1] = [kind |-> kind, obj |-> o]
           /\ \A q \in Procs \ {p} : frames'[q] = frames[q]
<1>1. frames[p] \in Seq(Frame) /\ [kind |-> kind, obj |-> o] \in Frame
  BY FrameTypes DEF Frame
<1>2. frames'[p] = Append(frames[p], [kind |-> kind, obj |-> o])
  BY DEF TypeOK
<1>3. QED
  BY <1>1, <1>2 DEF TypeOK

LEMMA TypeOpen ==
    ASSUME TypeInv, NEW p \in Procs, Open(p)
    PROVE  TypeInv'
<1>1. PICK kind \in {"tag", "marshal"} :
         /\ phase[p] = "run" /\ ip[p] # Len(Script[val[p]])
         /\ OpOf(p).name \in {"arm", "custom"}
         /\ Get(p, kind, Self, FALSE) /\ ip' = [ip EXCEPT ![p] = @ + 1]
         /\ UNCHANGED <<phase, val, ret, sink, kept, want, res>>
  BY DEF Open, Doing, AtEnd, Advance, caller
<1>2. Len(frames[p]) > 0 /\ Len(frames[p]) = Depth(p) /\ ret[p] = NoSlice
  BY <1>1, CallFacts, FrameTypes DEF TypeInv, Shape
<1>3. PICK o \in Objects : Taken(p, kind, Self, FALSE, o)
  <2>1. kind \in Kinds /\ Self \in Procs \cup {Self} /\ FALSE \in BOOLEAN
    BY DEF Kinds
  <2>2. TypeOK /\ Fits
    BY DEF TypeInv
  <2>3. QED
    BY <1>1, <2>1, <2>2, GetEffect
<1>4. TypeOK'
  <2>1. ip' \in [Procs -> Nat]
    BY <1>1, DepthAfter
  <2>2. QED
    BY <1>1, <1>3, <2>1 DEF TypeInv, TypeOK, Taken
<1>5. Fits'
  BY <1>1, <1>3 DEF TypeInv, Fits, InBounds, Taken
<1>6. ASSUME NEW q \in Procs
      PROVE  Shape(q)'
  <2>1. /\ Len(frames'[p]) = Len(frames[p]) + 1
        /\ \A i \in 1 .. Len(frames[p]) : frames'[p][i] = frames[p][i]
        /\ frames'[p][Len(frames[p]) + 1].kind = kind
        /\ \A x \in Procs \ {p} : frames'[x] = frames[x]
    <3>1. kind \in Kinds
      BY DEF Kinds
    <3>2. QED
      BY <1>3, <3>1, AppendFrame DEF TypeInv, Taken
  <2>2. CASE q = p
    <3>1. Depth(p)' = Depth(p) + 1 /\ ip'[p] \in 0 .. Len(Script[val[p]])
      BY <1>1, DepthAfter
    <3>2. \A i \in 1 .. Len(frames'[p]) :
             /\ frames'[p][i].kind = "tag" => i > 1
             /\ frames'[p][i].kind = "encoder" => i = 1
      <4>1. ASSUME NEW i \in 1 .. Len(frames[p])
            PROVE  /\ frames'[p][i].kind = "tag" => i > 1
                   /\ frames'[p][i].kind = "encoder" => i = 1
        BY <2>1 DEF TypeInv, Shape
      <4>2. kind # "encoder" /\ Len(frames[p]) + 1 > 1
        BY <1>2, FrameTypes DEF TypeInv
      <4>3. Len(frames[p]) \in Nat
        BY FrameTypes DEF TypeInv
      <4>4. \A i \in 1 .. Len(frames[p]) + 1 : i \in 1 .. Len(frames[p]) \/ i = Len(frames[p]) + 1
        BY <4>3
      <4>5. QED
        BY <2>1, <4>1, <4>2, <4>4
    <3>3. Len(frames'[p]) # 0
      BY <1>2, <2>1, FrameTypes DEF TypeInv
    <3>4. QED
      BY <1>1, <1>2, <2>1, <2>2, <3>1, <3>2, <3>3 DEF TypeInv, Shape
  <2>3. CASE q # p
    BY <1>1, <2>1, <2>3, ShapeFrame DEF TypeInv, TypeOK
  <2>4. QED
    BY <2>2, <2>3
<1>7. QED
  BY <1>4, <1>5, <1>6 DEF TypeInv

LEMMA TypeWriteArm ==
    ASSUME TypeInv, NEW p \in Procs, WriteArm(p)
    PROVE  TypeInv'
<1> DEFINE o == Last(Front(frames[p])).obj
           body == Contents(buf[Top(p).obj])
           w == Tagged(OpOf(p).arg, body)
<1>1. /\ phase[p] = "run" /\ ip[p] # Len(Script[val[p]]) /\ OpOf(p).name = "endarm"
      /\ Top(p).kind = "tag"
      /\ Write(o, w) /\ ip' = [ip EXCEPT ![p] = @ + 1]
      /\ phase' = [phase EXCEPT ![p] = "put"]
      /\ UNCHANGED <<pool, val, frames, ret, kept, want, res>>
  BY DEF WriteArm, Doing, AtEnd, Advance, caller
<1>2. Len(frames[p]) > 0 /\ Len(frames[p]) = Depth(p) /\ ret[p] = NoSlice
  BY <1>1, CallFacts, FrameTypes DEF TypeInv, Shape
<1>3. Len(frames[p]) > 1
  BY <1>1, <1>2, FrameTypes DEF TypeInv, Shape
<1>4. o \in Objects /\ w \in Seq(Token)
  <2>1. o \in Objects /\ Top(p).obj \in Objects
    BY <1>2, <1>3, FrameTypes DEF TypeInv
  <2>2. buf[Top(p).obj] \in Slices /\ InBounds(buf[Top(p).obj])
    BY <2>1 DEF TypeInv, TypeOK, Fits
  <2>3. body \in Seq(Token)
    BY <2>2, ContentsType DEF TypeInv
  <2>4. OpOf(p).arg \in Nat
    BY <1>1, CallFacts
  <2> HIDE DEF body
  <2>5. QED
    BY <2>1, <2>3, <2>4, TokenTypes
<1> HIDE DEF w, o
<1>5. TypeOK'
  <2>1. ip' \in [Procs -> Nat]
    BY <1>1, DepthAfter
  <2>2. QED
    BY <1>1, <1>4, <2>1, WriteEffect DEF TypeInv, TypeOK
<1>6. Fits'
  BY <1>1, <1>4, WriteFits DEF TypeInv, TypeOK
<1>7. ASSUME NEW q \in Procs
      PROVE  Shape(q)'
  <2>1. CASE q = p
    <3>1. Depth(p)' = Depth(p) - 1 /\ ip'[p] \in 0 .. Len(Script[val[p]])
      BY <1>1, DepthAfter
    <3>2. Top(p)' = Top(p) /\ phase'[p] = "put"
      BY <1>1 DEF Top, TypeInv, TypeOK
    <3>3. Depth(p) \in Nat
      BY CallFacts
    <3>4. QED
      BY <1>1, <1>2, <2>1, <3>1, <3>2, <3>3 DEF TypeInv, Shape
  <2>2. CASE q # p
    BY <1>1, <2>2, ShapeFrame DEF TypeInv, TypeOK
  <2>3. QED
    BY <2>1, <2>2
<1>8. QED
  BY <1>5, <1>6, <1>7 DEF TypeInv

LEMMA TypePutArm ==
    ASSUME TypeInv, NEW p \in Procs, PutArm(p)
    PROVE  TypeInv'
<1>1. /\ phase[p] = "put" /\ Top(p).kind = "tag" /\ Put(p)
      /\ phase' = [phase EXCEPT ![p] =
                      IF err[Last(Front(frames[p])).obj] THEN "unwind" ELSE "run"]
      /\ UNCHANGED <<buf, err, out, mem, val, ip, ret, sink, kept, want, res>>
  BY DEF PutArm, heap, caller
<1>2. /\ Len(frames[p]) > 0 /\ Len(frames[p]) = Depth(p) + 1 /\ ret[p] = NoSlice
      /\ Depth(p) \in Nat \ {0}
  BY <1>1, CallFacts, FrameTypes DEF TypeInv, Shape
<1>3. phase'[p] \in {"run", "unwind"} /\ phase' \in [Procs -> {"idle", "run", "put", "copy", "unwind"}]
  BY <1>1 DEF TypeInv, TypeOK
<1>4. /\ pool' \in [Kinds -> SUBSET Objects]
      /\ frames' \in [Procs -> Seq(Frame)]
      /\ frames' = [frames EXCEPT ![p] = Front(@)]
      /\ Len(frames'[p]) = Len(frames[p]) - 1
      /\ \A i \in 1 .. Len(frames[p]) - 1 : frames'[p][i] = frames[p][i]
  BY <1>1, <1>2, PutEffect DEF TypeInv
<1>5. TypeOK'
  BY <1>1, <1>3, <1>4 DEF TypeInv, TypeOK
<1>6. Fits'
  BY <1>1 DEF TypeInv, Fits, InBounds
<1>7. ASSUME NEW q \in Procs
      PROVE  Shape(q)'
  <2>1. CASE q = p
    <3>1. Depth(p)' = Depth(p)
      BY <1>1 DEF Depth
    <3>2. Len(frames'[p]) = Depth(p) /\ Len(frames'[p]) # 0
      BY <1>2, <1>4
    <3>3. \A i \in 1 .. Len(frames'[p]) : i \in 1 .. Len(frames[p]) /\ frames'[p][i] = frames[p][i]
      BY <1>4, FrameTypes DEF TypeInv
    <3>4. QED
      BY <1>1, <1>2, <1>3, <2>1, <3>1, <3>2, <3>3 DEF TypeInv, Shape
  <2>2. CASE q # p
    BY <1>1, <1>4, <2>2, ShapeFrame DEF TypeInv, TypeOK
  <2>3. QED
    BY <2>1, <2>2
<1>8. QED
  BY <1>5, <1>6, <1>7 DEF TypeInv

LEMMA TypeTakeOutput ==
    ASSUME TypeInv, NEW p \in Procs, TakeOutput(p)
    PROVE  TypeInv'
<1> DEFINE o == Top(p).obj
<1>1. /\ phase[p] = "run" /\ Top(p).kind = "marshal"
      /\ IF Len(frames[p]) = 1 THEN AtEnd(p) ELSE ~AtEnd(p) /\ OpOf(p).name = "endcustom"
      /\ ret' = [ret EXCEPT ![p] = buf[o]]
      /\ buf' = [buf EXCEPT ![o] = NoSlice]
      /\ phase' = [phase EXCEPT ![p] = "put"]
      /\ UNCHANGED <<pool, err, out, mem, val, ip, frames, sink, kept, want, res>>
  BY DEF TakeOutput, Doing, Forgotten, caller
<1>2. Len(frames[p]) > 0 /\ Len(frames[p]) = Depth(p)
  BY <1>1, CallFacts, FrameTypes DEF TypeInv, Shape
<1>3. o \in Objects /\ NoSlice \in Slices /\ NoSlice.arr = NoArray /\ NoSlice.len = 0
  BY <1>2, FrameTypes DEF TypeInv, NoSlice, Slices
<1>4. TypeOK'
  BY <1>1, <1>3 DEF TypeInv, TypeOK
<1>5. Fits'
  <2>1. \A x \in Objects : buf'[x] \in {buf[x], NoSlice}
    BY <1>1 DEF TypeInv, TypeOK
  <2>2. \A q \in Procs : ret'[q] \in {ret[q], buf[o]} /\ kept'[q] = kept[q]
    BY <1>1 DEF TypeInv, TypeOK
  <2>3. QED
    BY <1>1, <1>3, <2>1, <2>2 DEF TypeInv, Fits, InBounds
<1>6. ASSUME NEW q \in Procs
      PROVE  Shape(q)'
  <2>1. CASE q = p
    <3>1. /\ Depth(p)' = Depth(p) /\ Top(p)' = Top(p) /\ phase'[p] = "put"
          /\ AtEnd(p)' = AtEnd(p) /\ Ending(p)' = Ending(p)
      BY <1>1 DEF Depth, Top, AtEnd, Ending, OpOf, TypeInv, TypeOK
    <3>2. Len(frames[p]) # 1 => Ending(p)
      BY <1>1, CallFacts DEF Ending, AtEnd
    <3>3. QED
      BY <1>1, <1>2, <2>1, <3>1, <3>2 DEF TypeInv, Shape
  <2>2. CASE q # p
    BY <1>1, <2>2, ShapeFrame DEF TypeInv, TypeOK
  <2>3. QED
    BY <2>1, <2>2
<1>7. QED
  BY <1>4, <1>5, <1>6 DEF TypeInv

LEMMA WireType ==
    ASSUME NEW v \in Values
    PROVE  Wire(v) \in Seq(Token)
<1>1. Len(Script[v]) \in 0 .. Len(Script[v])
  <2>1. Script[v] \in Seq(Op)
    BY ScriptAssumption
  <2>2. QED
    BY <2>1, LenProperties
<1>2. /\ Trace[v][Len(Script[v])] \in Seq(Seq(Token))
      /\ Len(Trace[v][Len(Script[v])]) \in Nat \ {0}
  BY <1>1, TraceDepth
<1>3. 1 \in 1 .. Len(Trace[v][Len(Script[v])])
  BY <1>2
<1>4. QED
  BY <1>2, <1>3, ElementOfSeq DEF Wire

LEMMA TypePutMarshal ==
    ASSUME TypeInv, NEW p \in Procs, PutMarshal(p)
    PROVE  TypeInv'
<1>1. /\ phase[p] = "put" /\ Top(p).kind = "marshal" /\ Put(p)
      /\ UNCHANGED <<buf, err, out, mem, val, ip, sink>>
  BY DEF PutMarshal, heap
<1>2. /\ Len(frames[p]) > 0 /\ Len(frames[p]) = Depth(p) /\ Depth(p) \in Nat \ {0}
      /\ Len(frames[p]) > 1 => Ending(p)
  BY <1>1, CallFacts, FrameTypes DEF TypeInv, Shape
<1>3. /\ pool' \in [Kinds -> SUBSET Objects]
      /\ frames' \in [Procs -> Seq(Frame)]
      /\ frames' = [frames EXCEPT ![p] = Front(@)]
      /\ Len(frames'[p]) = Len(frames[p]) - 1
      /\ \A i \in 1 .. Len(frames[p]) - 1 : frames'[p][i] = frames[p][i]
  BY <1>1, <1>2, PutEffect DEF TypeInv
<1>4. \A i \in 1 .. Len(frames'[p]) : i \in 1 .. Len(frames[p]) /\ frames'[p][i] = frames[p][i]
  BY <1>3, FrameTypes DEF TypeInv
<1>5. NoSlice \in Slices /\ NoSlice.arr = NoArray /\ NoSlice.len = 0
  BY DEF NoSlice, Slices
<1>6. Depth(p)' = Depth(p) /\ Ending(p)' = Ending(p)
  BY <1>1 DEF Depth, Ending, OpOf
<1>7. CASE /\ Len(frames[p]) > 1
           /\ phase' = [phase EXCEPT ![p] = "copy"]
           /\ UNCHANGED <<ret, kept, want, res>>
  <2>1. TypeOK'
    BY <1>1, <1>3, <1>7 DEF TypeInv, TypeOK
  <2>2. Fits'
    BY <1>1, <1>7 DEF TypeInv, Fits, InBounds
  <2>3. ASSUME NEW q \in Procs
        PROVE  Shape(q)'
    <3>1. CASE q = p
      <4>1. phase'[p] = "copy"
        BY <1>7 DEF TypeInv, TypeOK
      <4>2. Len(frames'[p]) # 0 /\ Len(frames'[p]) = Depth(p) - 1
        BY <1>2, <1>3, <1>7
      <4>3. QED
        BY <1>1, <1>2, <1>4, <1>6, <3>1, <4>1, <4>2 DEF TypeInv, Shape
    <3>2. CASE q # p
      BY <1>1, <1>3, <1>7, <3>2, ShapeFrame DEF TypeInv, TypeOK
    <3>3. QED
      BY <3>1, <3>2
  <2>4. QED
    BY <2>1, <2>2, <2>3 DEF TypeInv
<1>8. CASE /\ Len(frames[p]) = 1
           /\ phase' = [phase EXCEPT ![p] = "idle"]
           /\ kept' = [kept EXCEPT ![p] = ret[p]]
           /\ want' = [want EXCEPT ![p] = Wire(val[p])]
           /\ ret' = [ret EXCEPT ![p] = NoSlice]
           /\ res' = [res EXCEPT ![p] = "returned"]
  <2>1. TypeOK'
    <3>1. Wire(val[p]) \in Seq(Token)
      BY WireType DEF TypeInv, TypeOK
    <3>2. QED
      BY <1>1, <1>3, <1>5, <1>8, <3>1 DEF TypeInv, TypeOK
  <2>2. Fits'
    <3>1. \A q \in Procs : ret'[q] \in {ret[q], NoSlice} /\ kept'[q] \in {kept[q], ret[q]}
      BY <1>8 DEF TypeInv, TypeOK
    <3>2. QED
      BY <1>1, <1>5, <3>1 DEF TypeInv, Fits, InBounds
  <2>3. ASSUME NEW q \in Procs
        PROVE  Shape(q)'
    <3>1. CASE q = p
      <4>1. phase'[p] = "idle" /\ ret'[p] = NoSlice
        BY <1>8 DEF TypeInv, TypeOK
      <4>2. Len(frames'[p]) = 0
        BY <1>3, <1>8
      <4>3. QED
        BY <1>1, <1>4, <3>1, <4>1, <4>2 DEF TypeInv, Shape
    <3>2. CASE q # p
      BY <1>1, <1>3, <1>8, <3>2, ShapeFrame DEF TypeInv, TypeOK
    <3>3. QED
      BY <3>1, <3>2
  <2>4. QED
    BY <2>1, <2>2, <2>3 DEF TypeInv
<1>9. QED
  BY <1>7, <1>8 DEF PutMarshal, caller

LEMMA TypeWriteCustom ==
    ASSUME TypeInv, NEW p \in Procs, WriteCustom(p)
    PROVE  TypeInv'
<1> DEFINE o == Top(p).obj
           w == Sized(Contents(ret[p]))
<1>1. /\ phase[p] = "copy" /\ Write(o, w)
      /\ ret' = [ret EXCEPT ![p] = NoSlice]
      /\ phase' = [phase EXCEPT ![p] = "run"]
      /\ ip' = [ip EXCEPT ![p] = @ + 1]
      /\ UNCHANGED <<pool, val, frames, kept, want, res>>
  BY DEF WriteCustom, Advance, caller
<1>2. /\ Len(frames[p]) > 0 /\ Len(frames[p]) = Depth(p) - 1 /\ Depth(p) \in Nat
      /\ ip[p] # Len(Script[val[p]]) /\ OpOf(p).name = "endcustom"
  BY <1>1, CallFacts, FrameTypes DEF TypeInv, Shape, Ending
<1>3. o \in Objects /\ w \in Seq(Token)
  <2>1. o \in Objects
    BY <1>2, FrameTypes DEF TypeInv
  <2>2. ret[p] \in Slices /\ InBounds(ret[p])
    BY DEF TypeInv, TypeOK, Fits
  <2>3. Contents(ret[p]) \in Seq(Token)
    BY <2>2, ContentsType DEF TypeInv
  <2>4. QED
    BY <2>1, <2>3, TokenTypes
<1>4. NoSlice \in Slices
  BY DEF NoSlice, Slices
<1> HIDE DEF w, o
<1>5. TypeOK'
  <2>1. ip' \in [Procs -> Nat]
    BY <1>1, <1>2, DepthAfter
  <2>2. QED
    BY <1>1, <1>3, <1>4, <2>1, WriteEffect DEF TypeInv, TypeOK
<1>6. Fits'
  <2>1. /\ ret' \in [Procs -> Slices] /\ kept' \in [Procs -> Slices]
        /\ \A q \in Procs : ret'[q] \in {ret[q], NoSlice} /\ kept'[q] = kept[q]
    BY <1>1, <1>4 DEF TypeInv, TypeOK
  <2>2. QED
    BY <1>1, <1>3, <2>1, WriteFits DEF TypeInv
<1>7. ASSUME NEW q \in Procs
      PROVE  Shape(q)'
  <2>1. CASE q = p
    <3>1. Depth(p)' = Depth(p) - 1 /\ ip'[p] \in 0 .. Len(Script[val[p]])
      BY <1>1, <1>2, DepthAfter
    <3>2. phase'[p] = "run" /\ ret'[p] = NoSlice
      BY <1>1 DEF TypeInv, TypeOK
    <3>3. QED
      BY <1>1, <1>2, <2>1, <3>1, <3>2 DEF TypeInv, Shape
  <2>2. CASE q # p
    BY <1>1, <2>2, ShapeFrame DEF TypeInv, TypeOK
  <2>3. QED
    BY <2>1, <2>2
<1>8. QED
  BY <1>5, <1>6, <1>7 DEF TypeInv

LEMMA TypeEndTo ==
    ASSUME TypeInv, NEW p \in Procs, EndTo(p)
    PROVE  TypeInv'
<1>1. /\ phase[p] = "run" /\ Top(p).kind = "encoder" /\ Put(p)
      /\ phase' = [phase EXCEPT ![p] = "idle"]
      /\ res' = [res EXCEPT ![p] = IF err[Top(p).obj] THEN "error" ELSE "written"]
      /\ UNCHANGED <<buf, err, out, mem, val, ip, ret, sink, kept, want>>
  BY DEF EndTo, heap
<1>2. Len(frames[p]) > 0 /\ ret[p] = NoSlice
  BY <1>1, CallFacts, FrameTypes DEF TypeInv, Shape
<1>3. Len(frames[p]) = 1
  <2>1. Len(frames[p]) \in 1 .. Len(frames[p]) /\ frames[p][Len(frames[p])].kind = "encoder"
    BY <1>1, <1>2, FrameTypes DEF TypeInv
  <2>2. QED
    BY <2>1 DEF TypeInv, Shape
<1>4. /\ pool' \in [Kinds -> SUBSET Objects]
      /\ frames' \in [Procs -> Seq(Frame)]
      /\ frames' = [frames EXCEPT ![p] = Front(@)]
      /\ Len(frames'[p]) = Len(frames[p]) - 1
  BY <1>1, <1>2, PutEffect DEF TypeInv
<1>5. TypeOK'
  BY <1>1, <1>4 DEF TypeInv, TypeOK
<1>6. Fits'
  BY <1>1 DEF TypeInv, Fits, InBounds
<1>7. ASSUME NEW q \in Procs
      PROVE  Shape(q)'
  <2>1. CASE q = p
    <3>1. phase'[p] = "idle"
      BY <1>1 DEF TypeInv, TypeOK
    <3>2. Len(frames'[p]) = 0
      BY <1>3, <1>4
    <3>3. QED
      BY <1>1, <1>2, <2>1, <3>1, <3>2 DEF TypeInv, Shape
  <2>2. CASE q # p
    BY <1>1, <1>4, <2>2, ShapeFrame DEF TypeInv, TypeOK
  <2>3. QED
    BY <2>1, <2>2
<1>8. QED
  BY <1>5, <1>6, <1>7 DEF TypeInv

LEMMA TypeFail ==
    ASSUME TypeInv, NEW p \in Procs, Fail(p)
    PROVE  TypeInv'
<1>1. /\ phase[p] = "run" /\ phase' = [phase EXCEPT ![p] = "unwind"]
      /\ UNCHANGED <<pool, buf, err, out, mem, val, ip, frames, ret, sink, kept, want, res>>
  BY DEF Fail, Doing, heap, caller
<1>2. TypeOK'
  BY <1>1 DEF TypeInv, TypeOK
<1>3. Fits'
  BY <1>1 DEF TypeInv, Fits, InBounds
<1>4. ASSUME NEW q \in Procs
      PROVE  Shape(q)'
  <2>1. CASE q = p
    <3>1. phase'[p] = "unwind"
      BY <1>1 DEF TypeInv, TypeOK
    <3>2. QED
      BY <1>1, <2>1, <3>1 DEF TypeInv, Shape
  <2>2. CASE q # p
    BY <1>1, <2>2, ShapeFrame DEF TypeInv, TypeOK
  <2>3. QED
    BY <2>1, <2>2
<1>5. QED
  BY <1>2, <1>3, <1>4 DEF TypeInv

LEMMA TypeUnwind ==
    ASSUME TypeInv, NEW p \in Procs, Unwind(p)
    PROVE  TypeInv'
<1> DEFINE o == Top(p).obj
<1>1. /\ phase[p] = "unwind" /\ Put(p)
      /\ buf' = IF Top(p).kind = "marshal" THEN [buf EXCEPT ![o] = NoSlice] ELSE buf
      /\ UNCHANGED <<err, out, mem, val, ip, ret, sink, kept, want>>
  BY DEF Unwind, Forgotten
<1>2. Len(frames[p]) > 0 /\ ret[p] = NoSlice
  BY <1>1, FrameTypes DEF TypeInv, Shape
<1>3. /\ pool' \in [Kinds -> SUBSET Objects]
      /\ frames' \in [Procs -> Seq(Frame)]
      /\ frames' = [frames EXCEPT ![p] = Front(@)]
      /\ Len(frames'[p]) = Len(frames[p]) - 1
      /\ \A i \in 1 .. Len(frames[p]) - 1 : frames'[p][i] = frames[p][i]
  BY <1>1, <1>2, PutEffect DEF TypeInv
<1>4. \A i \in 1 .. Len(frames'[p]) : i \in 1 .. Len(frames[p]) /\ frames'[p][i] = frames[p][i]
  BY <1>3, FrameTypes DEF TypeInv
<1>5. /\ o \in Objects /\ NoSlice \in Slices /\ NoSlice.arr = NoArray /\ NoSlice.len = 0
      /\ Len(frames[p]) \in Nat
  BY <1>2, FrameTypes DEF TypeInv, NoSlice, Slices
<1>6. \/ Len(frames[p]) > 1 /\ UNCHANGED <<phase, res>>
      \/ /\ Len(frames[p]) = 1
         /\ phase' = [phase EXCEPT ![p] = "idle"]
         /\ res' = [res EXCEPT ![p] = "error"]
  BY DEF Unwind
<1>7. TypeOK'
  <2>1. buf' \in [Objects -> Slices]
    BY <1>1, <1>5 DEF TypeInv, TypeOK
  <2>2. /\ phase' \in [Procs -> {"idle", "run", "put", "copy", "unwind"}]
        /\ res' \in [Procs -> {"none", "returned", "written", "error", "panic"}]
    BY <1>6 DEF TypeInv, TypeOK
  <2>3. QED
    BY <1>1, <1>3, <2>1, <2>2 DEF TypeInv, TypeOK
<1>8. Fits'
  <2>1. \A x \in Objects : buf'[x] \in {buf[x], NoSlice}
    BY <1>1 DEF TypeInv, TypeOK
  <2>2. QED
    BY <1>1, <1>5, <2>1 DEF TypeInv, Fits, InBounds
<1>9. ASSUME NEW q \in Procs
      PROVE  Shape(q)'
  <2>1. CASE q = p
    <3>1. phase'[p] \in {"idle", "unwind"} /\ (phase'[p] = "idle" <=> Len(frames'[p]) = 0)
      <4>1. CASE Len(frames[p]) > 1 /\ UNCHANGED <<phase, res>>
        BY <1>1, <1>3, <1>5, <4>1
      <4>2. CASE Len(frames[p]) = 1 /\ phase' = [phase EXCEPT ![p] = "idle"]
        <5>1. phase'[p] = "idle"
          BY <4>2 DEF TypeInv, TypeOK
        <5>2. QED
          BY <1>3, <4>2, <5>1
      <4>3. QED
        BY <1>6, <4>1, <4>2
    <3>2. QED
      BY <1>1, <1>2, <1>4, <2>1, <3>1 DEF TypeInv, Shape
  <2>2. CASE q # p
    BY <1>1, <1>3, <1>6, <2>2, ShapeFrame DEF TypeInv, TypeOK
  <2>3. QED
    BY <2>1, <2>2
<1>10. QED
  BY <1>7, <1>8, <1>9 DEF TypeInv

LEMMA CollectEffect ==
    ASSUME TypeOK, Fits, NEW S \in SUBSET Objects, Collect(S), mem' = mem
    PROVE  /\ buf' \in [Objects -> Slices]
           /\ err' \in [Objects -> BOOLEAN]
           /\ out' \in [Objects -> Procs \cup {Self}]
           /\ \A x \in Objects : buf'[x] \in {buf[x], NoSlice} /\ InBounds(buf[x])'
<1>1. NoSlice \in Slices /\ NoSlice.arr = NoArray /\ NoSlice.len = 0
  BY DEF NoSlice, Slices
<1>2. /\ buf' \in [Objects -> Slices] /\ err' \in [Objects -> BOOLEAN]
      /\ out' \in [Objects -> Procs \cup {Self}]
      /\ \A x \in Objects : buf'[x] \in {buf[x], NoSlice}
  BY <1>1 DEF Collect, TypeOK
<1>3. \A x \in Objects : InBounds(buf[x])'
  BY <1>1, <1>2 DEF Fits, InBounds
<1>4. QED
  BY <1>2, <1>3

LEMMA TypePanic ==
    ASSUME TypeInv, NEW p \in Procs, Panic(p)
    PROVE  TypeInv'
<1>1. /\ phase[p] = "run" /\ Collect(Held(p))
      /\ frames' = [frames EXCEPT ![p] = <<>>]
      /\ phase' = [phase EXCEPT ![p] = "idle"]
      /\ res' = [res EXCEPT ![p] = "panic"]
      /\ UNCHANGED <<pool, mem, val, ip, ret, sink, kept, want>>
  BY DEF Panic, Doing
<1>2. Held(p) \in SUBSET Objects
  BY FrameTypes, LenProperties DEF Held, TypeInv
<1>3. /\ buf' \in [Objects -> Slices] /\ err' \in [Objects -> BOOLEAN]
      /\ out' \in [Objects -> Procs \cup {Self}]
      /\ \A x \in Objects : InBounds(buf[x])'
  BY <1>1, <1>2, CollectEffect DEF TypeInv
<1>4. frames' \in [Procs -> Seq(Frame)] /\ frames'[p] = <<>> /\ Len(frames'[p]) = 0
  BY <1>1, EmptySeq DEF TypeInv, TypeOK
<1>5. TypeOK'
  BY <1>1, <1>3, <1>4 DEF TypeInv, TypeOK
<1>6. Fits'
  BY <1>1, <1>3 DEF TypeInv, Fits, InBounds
<1>7. ASSUME NEW q \in Procs
      PROVE  Shape(q)'
  <2>1. CASE q = p
    <3>1. phase'[p] = "idle"
      BY <1>1 DEF TypeInv, TypeOK
    <3>2. QED
      BY <1>1, <1>4, <2>1, <3>1 DEF TypeInv, Shape
  <2>2. CASE q # p
    BY <1>1, <2>2, ShapeFrame DEF TypeInv, TypeOK
  <2>3. QED
    BY <2>1, <2>2
<1>8. QED
  BY <1>5, <1>6, <1>7 DEF TypeInv

LEMMA TypeBegin ==
    ASSUME TypeInv, NEW p \in Procs, Begin(p)
    PROVE  TypeInv'
<1>1. /\ phase[p] = "idle" /\ phase' = [phase EXCEPT ![p] = "run"]
      /\ ip' = [ip EXCEPT ![p] = 0]
      /\ sink' = [sink EXCEPT ![p] = <<>>]
      /\ res' = [res EXCEPT ![p] = "none"]
      /\ UNCHANGED <<ret, kept, want>>
  BY DEF Begin
<1>2. PICK v \in Values : val' = [val EXCEPT ![p] = v]
  BY DEF Begin
<1>3. PICK kind \in {"marshal", "encoder"}, w \in Procs \cup {Self}, isNil \in BOOLEAN :
         Get(p, kind, w, isNil)
  BY DEF Begin
<1>4. kind \in Kinds
  BY DEF Kinds
<1>5. PICK o \in Objects : Taken(p, kind, w, isNil, o)
  BY <1>3, <1>4, GetEffect DEF TypeInv
<1>6. Len(frames[p]) = 0 /\ ret[p] = NoSlice
  BY <1>1 DEF TypeInv, Shape
<1>7. TypeOK'
  <2>1. <<>> \in Seq(Token)
    BY EmptySeq
  <2>2. QED
    BY <1>1, <1>2, <1>5, <2>1 DEF TypeInv, TypeOK, Taken
<1>8. Fits'
  BY <1>1, <1>5 DEF TypeInv, Fits, InBounds, Taken
<1>9. /\ Len(frames'[p]) = 1
      /\ frames'[p][1].kind = kind
      /\ \A x \in Procs \ {p} : frames'[x] = frames[x]
  <2>1. /\ Len(frames'[p]) = Len(frames[p]) + 1
        /\ frames'[p][Len(frames[p]) + 1] = [kind |-> kind, obj |-> o]
        /\ \A x \in Procs \ {p} : frames'[x] = frames[x]
    BY <1>4, <1>5, AppendFrame DEF TypeInv, Taken
  <2>2. QED
    BY <1>6, <2>1
<1>10. ASSUME NEW q \in Procs
       PROVE  Shape(q)'
  <2>1. CASE q = p
    <3>1. /\ val'[p] = v /\ ip'[p] = 0 /\ phase'[p] = "run"
      BY <1>1, <1>2 DEF TypeInv, TypeOK
    <3>2. 0 \in 0 .. Len(Script[v])
      <4>1. Script[v] \in Seq(Op)
        BY ScriptAssumption
      <4>2. QED
        BY <4>1, LenProperties
    <3>3. Depth(p)' = 1
      BY <3>1, <3>2, TraceDepth DEF Depth
    <3>4. \A i \in 1 .. Len(frames'[p]) :
             /\ frames'[p][i].kind = "tag" => i > 1
             /\ frames'[p][i].kind = "encoder" => i = 1
      BY <1>9
    <3>5. QED
      BY <1>1, <1>6, <1>9, <2>1, <3>1, <3>2, <3>3, <3>4 DEF Shape
  <2>2. CASE q # p
    BY <1>1, <1>2, <1>9, <2>2, ShapeFrame DEF TypeInv, TypeOK
  <2>3. QED
    BY <2>1, <2>2
<1>11. QED
  BY <1>7, <1>8, <1>10 DEF TypeInv

LEMMA TypeEvict ==
    ASSUME TypeInv, Evict
    PROVE  TypeInv'
<1>0. PICK k \in Kinds : \E o \in pool[k] :
         pool' = [pool EXCEPT ![k] = @ \ {o}] /\ Collect({o})
  BY DEF Evict
<1>1. PICK o \in pool[k] : pool' = [pool EXCEPT ![k] = @ \ {o}] /\ Collect({o})
  BY <1>0
<1>2. UNCHANGED <<mem, phase, val, ip, frames, ret, sink, kept, want, res>>
  BY DEF Evict, call, caller
<1>3. {o} \in SUBSET Objects
  BY <1>1 DEF TypeInv, TypeOK
<1>4. /\ buf' \in [Objects -> Slices] /\ err' \in [Objects -> BOOLEAN]
      /\ out' \in [Objects -> Procs \cup {Self}]
      /\ \A x \in Objects : InBounds(buf[x])'
  BY <1>1, <1>2, <1>3, CollectEffect DEF TypeInv
<1>5. TypeOK'
  BY <1>1, <1>2, <1>4 DEF TypeInv, TypeOK
<1>6. Fits'
  BY <1>2, <1>4 DEF TypeInv, Fits, InBounds
<1>7. \A q \in Procs : Shape(q)'
  BY <1>2, ShapeFrame DEF TypeInv
<1>8. QED
  BY <1>5, <1>6, <1>7 DEF TypeInv

LEMMA JunkProperties ==
    ASSUME NEW s \in Seq(Token)
    PROVE  /\ [i \in DOMAIN s |-> Junk] \in Seq(Token)
           /\ Len([i \in DOMAIN s |-> Junk]) = Len(s)
<1>1. DOMAIN s = 1 .. Len(s) /\ Len(s) \in Nat /\ Junk \in Token
  BY LenProperties, TokenTypes, EmptySeq
<1>2. [i \in 1 .. Len(s) |-> Junk] \in Seq(Token) /\ Len([i \in 1 .. Len(s) |-> Junk]) = Len(s)
  BY <1>1
<1>3. QED
  BY <1>1, <1>2

LEMMA TypeScribble ==
    ASSUME TypeInv, NEW p \in Procs, Scribble(p)
    PROVE  TypeInv'
<1> DEFINE a == kept[p].arr
<1>1. /\ a # NoArray
      /\ mem' = [mem EXCEPT ![a] = [i \in DOMAIN @ |-> Junk]]
      /\ want' = [want EXCEPT ![p] = [i \in DOMAIN @ |-> Junk]]
      /\ UNCHANGED <<pool, buf, err, out, phase, val, ip, frames, ret, sink, kept, res>>
  BY DEF Scribble, call
<1>2. a \in Arrays
  BY <1>1 DEF TypeInv, TypeOK, Slices
<1>3. /\ mem' \in [Arrays -> Seq(Token)]
      /\ \A x \in Arrays : Len(mem'[x]) = Len(mem[x])
      /\ want' \in [Procs -> Seq(Token)]
  BY <1>1, <1>2, JunkProperties DEF TypeInv, TypeOK
<1>4. TypeOK'
  BY <1>1, <1>3 DEF TypeInv, TypeOK
<1>5. Fits'
  <2>1. ASSUME NEW s \in Slices, InBounds(s)
        PROVE  IF s.arr = NoArray THEN s.len = 0 ELSE s.len <= Len(mem'[s.arr])
    BY <1>3, <2>1 DEF InBounds, Slices
  <2>2. /\ \A x \in Objects : buf[x] \in Slices /\ InBounds(buf[x])
        /\ \A q \in Procs : ret[q] \in Slices /\ InBounds(ret[q]) /\ kept[q] \in Slices /\ InBounds(kept[q])
    BY DEF TypeInv, TypeOK, Fits
  <2>3. QED
    BY <1>1, <2>1, <2>2 DEF Fits, InBounds
<1>6. \A q \in Procs : Shape(q)'
  BY <1>1, ShapeFrame DEF TypeInv
<1>7. QED
  BY <1>4, <1>5, <1>6 DEF TypeInv

LEMMA TypeForget ==
    ASSUME TypeInv, NEW p \in Procs, Forget(p)
    PROVE  TypeInv'
<1>1. /\ kept' = [kept EXCEPT ![p] = NoSlice]
      /\ want' = [want EXCEPT ![p] = <<>>]
      /\ UNCHANGED <<pool, buf, err, out, mem, phase, val, ip, frames, ret, sink, res>>
  BY DEF Forget, heap, call
<1>2. NoSlice \in Slices /\ NoSlice.arr = NoArray /\ NoSlice.len = 0 /\ <<>> \in Seq(Token)
  BY EmptySeq DEF NoSlice, Slices
<1>3. TypeOK'
  BY <1>1, <1>2 DEF TypeInv, TypeOK
<1>4. Fits'
  <2>1. \A q \in Procs : kept'[q] \in {kept[q], NoSlice}
    BY <1>1 DEF TypeInv, TypeOK
  <2>2. QED
    BY <1>1, <1>2, <2>1 DEF TypeInv, Fits, InBounds
<1>5. \A q \in Procs : Shape(q)'
  BY <1>1, ShapeFrame DEF TypeInv
<1>6. QED
  BY <1>3, <1>4, <1>5 DEF TypeInv

LEMMA TypeInit ==
    ASSUME Init
    PROVE  TypeInv
<1>1. NoSlice \in Slices /\ NoSlice.arr = NoArray /\ NoSlice.len = 0
  BY DEF NoSlice, Slices
<1>2. <<>> \in Seq(Token) /\ <<>> \in Seq(Frame) /\ Len(<<>>) = 0
  BY EmptySeq
<1>3. TypeOK
  BY <1>1, <1>2 DEF Init, TypeOK
<1>4. Fits
  BY <1>1 DEF Init, Fits, InBounds
<1>5. ASSUME NEW p \in Procs
      PROVE  Shape(p)
  <2>1. val[p] \in Values /\ Script[val[p]] \in Seq(Op)
    BY ScriptAssumption DEF Init
  <2>2. 0 \in 0 .. Len(Script[val[p]])
    BY <2>1, LenProperties
  <2>3. /\ ip[p] = 0 /\ phase[p] = "idle" /\ frames[p] = <<>> /\ ret[p] = NoSlice
    BY DEF Init
  <2>4. QED
    BY <1>2, <2>2, <2>3 DEF Shape
<1>6. QED
  BY <1>3, <1>4, <1>5 DEF TypeInv

LEMMA TypeStep ==
    ASSUME TypeInv, [Next]_vars
    PROVE  TypeInv'
<1>1. CASE UNCHANGED vars
  <2>1. UNCHANGED <<pool, buf, err, out, mem, phase, val, ip, frames, ret, sink, kept, want, res>>
    BY <1>1 DEF vars, heap, call, caller
  <2>2. TypeOK'
    BY <2>1 DEF TypeInv, TypeOK
  <2>3. Fits'
    BY <2>1 DEF TypeInv, Fits, InBounds
  <2>4. \A q \in Procs : Shape(q)'
    BY <2>1, ShapeFrame DEF TypeInv
  <2>5. QED
    BY <2>2, <2>3, <2>4 DEF TypeInv
<1>2. CASE Evict
  BY <1>2, TypeEvict
<1>3. ASSUME NEW p \in Procs, Begin(p) \/ Encode(p) \/ Scribble(p) \/ Forget(p)
      PROVE  TypeInv'
  BY <1>3, TypeBegin, TypeWriteChunk, TypeEncodeNone, TypeOpen, TypeWriteArm, TypePutArm,
     TypeTakeOutput, TypePutMarshal, TypeWriteCustom, TypeEndTo, TypeFail, TypeUnwind,
     TypePanic, TypeScribble, TypeForget DEF Encode
<1>4. QED
  BY <1>1, <1>2, <1>3 DEF Next

\* Every variable keeps its type: in particular no slice outgrows its array,
\* and a call's frames agree with its place in the script.
THEOREM TypeCorrect == Spec => []TypeInv
<1>1. Init => TypeInv
  BY TypeInit
<1>2. TypeInv /\ [Next]_vars => TypeInv'
  BY TypeStep
<1>3. QED
  BY <1>1, <1>2, PTL DEF Spec

\* The types of the variables, as TLC checks them, for every set of goroutines,
\* objects, arrays and values.
THEOREM TypesHold == Spec => []TypeOK
<1>1. TypeInv => TypeOK
  BY DEF TypeInv
<1>2. QED
  BY <1>1, TypeCorrect, PTL

-----------------------------------------------------------------------------
(* Who owns what: every pooled object, and every backing array, has one     *)
(* owner.  Objects first.                                                   *)

LEMMA ExclusiveFrame ==
    ASSUME Exclusive, UNCHANGED <<pool, frames>>
    PROVE  Exclusive'
BY DEF Exclusive

\* A pool that loses idle objects, and calls that lose all their frames.
LEMMA ExclusiveLess ==
    ASSUME Exclusive,
           \A k \in Kinds : pool'[k] \subseteq pool[k],
           \A p \in Procs : frames'[p] \in {frames[p], <<>>}
    PROVE  Exclusive'
<1>1. \A p \in Procs : \A i \in DOMAIN frames'[p] :
         i \in DOMAIN frames[p] /\ frames'[p][i] = frames[p][i]
  OBVIOUS
<1>2. ASSUME NEW p \in Procs, NEW q \in Procs,
             NEW i \in DOMAIN frames'[p], NEW j \in DOMAIN frames'[q],
             frames'[p][i].obj = frames'[q][j].obj
      PROVE  p = q /\ i = j
  BY <1>1, <1>2 DEF Exclusive
<1>3. \A p \in Procs : \A i \in DOMAIN frames'[p], k \in Kinds : frames'[p][i].obj \notin pool'[k]
  BY <1>1 DEF Exclusive
<1>4. \A k, l \in Kinds : k # l => pool'[k] \cap pool'[l] = {}
  BY DEF Exclusive
<1>5. QED
  BY <1>2, <1>3, <1>4 DEF Exclusive

LEMMA ExclusiveTake ==
    ASSUME TypeOK, Exclusive, NEW p \in Procs, NEW kind \in Kinds,
           NEW w \in Procs \cup {Self}, NEW isNil \in BOOLEAN,
           Get(p, kind, w, isNil), Fits
    PROVE  Exclusive'
<1>1. PICK o \in Objects : Taken(p, kind, w, isNil, o)
  BY GetEffect
<1> DEFINE n == Len(frames[p]) + 1
<1>2. /\ Len(frames'[p]) = n
      /\ \A i \in 1 .. Len(frames[p]) : frames'[p][i] = frames[p][i]
      /\ frames'[p][n].obj = o
      /\ \A q \in Procs \ {p} : frames'[q] = frames[q]
  BY <1>1, AppendFrame DEF Taken
<1>3. /\ \A q \in Procs : frames[q] \in Seq(Frame) /\ Len(frames[q]) \in Nat
      /\ \A q \in Procs : frames'[q] \in Seq(Frame)
  BY <1>1, FrameTypes DEF Taken
<1>4. /\ \A q \in Procs : DOMAIN frames[q] = 1 .. Len(frames[q])
      /\ \A q \in Procs : DOMAIN frames'[q] = 1 .. Len(frames'[q])
  BY <1>3, LenProperties
<1>5. \A q \in Procs : \A i \in DOMAIN frames'[q] :
         \/ i \in DOMAIN frames[q] /\ frames'[q][i] = frames[q][i]
         \/ q = p /\ i = n /\ frames'[q][i].obj = o
  BY <1>2, <1>3, <1>4
<1>6. \A q \in Procs : \A i \in DOMAIN frames[q] : frames[q][i].obj # o
  <2>1. CASE o \in pool[kind]
    BY <2>1 DEF Exclusive
  <2>2. CASE o \in Unused
    BY <2>2 DEF Unused, Held
  <2>3. QED
    BY <1>1, <2>1, <2>2 DEF Taken
<1>7. \A k \in Kinds : pool'[k] \subseteq pool[k] /\ o \notin pool'[k]
  <2>1. CASE o \in pool[kind]
    BY <1>1, <2>1 DEF Taken, Exclusive, TypeOK
  <2>2. CASE o \in Unused
    BY <1>1, <2>2 DEF Taken, Unused, TypeOK
  <2>3. QED
    BY <1>1, <2>1, <2>2 DEF Taken
<1> HIDE DEF n
<1>8. ASSUME NEW q \in Procs, NEW r \in Procs,
             NEW i \in DOMAIN frames'[q], NEW j \in DOMAIN frames'[r],
             frames'[q][i].obj = frames'[r][j].obj
      PROVE  q = r /\ i = j
  BY <1>5, <1>6, <1>8 DEF Exclusive
<1>9. \A q \in Procs : \A i \in DOMAIN frames'[q], k \in Kinds : frames'[q][i].obj \notin pool'[k]
  BY <1>5, <1>7 DEF Exclusive
<1>10. \A k, l \in Kinds : k # l => pool'[k] \cap pool'[l] = {}
  BY <1>7 DEF Exclusive
<1>11. QED
  BY <1>8, <1>9, <1>10 DEF Exclusive

LEMMA ExclusivePut ==
    ASSUME TypeOK, Exclusive, NEW p \in Procs, Len(frames[p]) > 0, Put(p)
    PROVE  Exclusive'
<1> DEFINE n == Len(frames[p])
           o == Top(p).obj
<1>1. /\ frames' \in [Procs -> Seq(Frame)]
      /\ Len(frames'[p]) = n - 1
      /\ \A i \in 1 .. n - 1 : frames'[p][i] = frames[p][i]
      /\ \A q \in Procs \ {p} : frames'[q] = frames[q]
      /\ pool' = [pool EXCEPT ![Top(p).kind] = @ \cup {o}]
  BY PutEffect DEF TypeOK
<1>2. /\ \A q \in Procs : frames[q] \in Seq(Frame) /\ Len(frames[q]) \in Nat
      /\ Top(p) = frames[p][n] /\ Top(p).kind \in Kinds
  BY FrameTypes
<1>3. /\ \A q \in Procs : DOMAIN frames[q] = 1 .. Len(frames[q])
      /\ \A q \in Procs : DOMAIN frames'[q] = 1 .. Len(frames'[q])
  BY <1>1, <1>2, LenProperties
<1>4. \A q \in Procs : \A i \in DOMAIN frames'[q] :
         /\ i \in DOMAIN frames[q] /\ frames'[q][i] = frames[q][i]
         /\ q = p => i # n
  BY <1>1, <1>2, <1>3
<1>5. n \in DOMAIN frames[p] /\ frames[p][n].obj = o
  BY <1>2, <1>3
<1>6. \A k \in Kinds : pool'[k] = pool[k] \/ (k = Top(p).kind /\ pool'[k] = pool[k] \cup {o})
  BY <1>1, <1>2 DEF TypeOK
<1> HIDE DEF n, o
<1>7. ASSUME NEW q \in Procs, NEW i \in DOMAIN frames'[q]
      PROVE  frames'[q][i].obj # o
  BY <1>4, <1>5, <1>7 DEF Exclusive
<1>8. ASSUME NEW q \in Procs, NEW r \in Procs,
             NEW i \in DOMAIN frames'[q], NEW j \in DOMAIN frames'[r],
             frames'[q][i].obj = frames'[r][j].obj
      PROVE  q = r /\ i = j
  BY <1>4, <1>8 DEF Exclusive
<1>9. \A q \in Procs : \A i \in DOMAIN frames'[q], k \in Kinds : frames'[q][i].obj \notin pool'[k]
  BY <1>4, <1>6, <1>7 DEF Exclusive
<1>10. \A k \in Kinds : o \notin pool[k]
  BY <1>5 DEF Exclusive
<1>11. \A k, l \in Kinds : k # l => pool'[k] \cap pool'[l] = {}
  BY <1>6, <1>10 DEF Exclusive
<1>12. QED
  BY <1>8, <1>9, <1>11 DEF Exclusive

LEMMA ExclusiveStep ==
    ASSUME TypeInv, Exclusive, [Next]_vars
    PROVE  Exclusive'
<1> USE DEF TypeInv
<1>1. CASE UNCHANGED vars
  BY <1>1, ExclusiveFrame DEF vars, call
<1>2. CASE Evict
  <2>1. \A k \in Kinds : pool'[k] \subseteq pool[k]
    BY <1>2 DEF Evict, TypeOK
  <2>2. frames' = frames
    BY <1>2 DEF Evict, call
  <2>3. QED
    BY <2>1, <2>2, ExclusiveLess
<1>3. ASSUME NEW p \in Procs, Scribble(p) \/ Forget(p) \/ WriteChunk(p) \/ EncodeNone(p)
                \/ WriteArm(p) \/ TakeOutput(p) \/ WriteCustom(p) \/ Fail(p)
      PROVE  Exclusive'
  BY <1>3, ExclusiveFrame
     DEF Scribble, Forget, WriteChunk, EncodeNone, WriteArm, TakeOutput, WriteCustom, Fail, call
<1>4. ASSUME NEW p \in Procs, Begin(p) \/ Open(p)
      PROVE  Exclusive'
  <2>1. PICK kind \in Kinds, w \in Procs \cup {Self}, isNil \in BOOLEAN : Get(p, kind, w, isNil)
    BY <1>4 DEF Begin, Open, Kinds
  <2>2. QED
    BY <2>1, ExclusiveTake
<1>5. ASSUME NEW p \in Procs, PutArm(p) \/ PutMarshal(p) \/ EndTo(p) \/ Unwind(p)
      PROVE  Exclusive'
  <2>1. Put(p) /\ phase[p] # "idle"
    BY <1>5 DEF PutArm, PutMarshal, EndTo, Unwind
  <2>2. Len(frames[p]) > 0
    BY <2>1, FrameTypes DEF Shape
  <2>3. QED
    BY <2>1, <2>2, ExclusivePut
<1>6. ASSUME NEW p \in Procs, Panic(p)
      PROVE  Exclusive'
  <2>1. pool' = pool /\ \A q \in Procs : frames'[q] \in {frames[q], <<>>}
    BY <1>6 DEF Panic, TypeOK
  <2>2. QED
    BY <2>1, ExclusiveLess
<1>7. QED
  BY <1>1, <1>2, <1>3, <1>4, <1>5, <1>6 DEF Next, Encode

\* A pooled object is never in the hands of two calls, nor of a call and a
\* pool, on any way out of Marshal, MarshalTo and a union's EncodeTo.
THEOREM ObjectsExclusive == Spec => []Exclusive
<1>1. Init => Exclusive
  BY EmptySeq DEF Init, Exclusive
<1>2. TypeInv /\ Exclusive /\ [Next]_vars => Exclusive'
  BY ExclusiveStep
<1>3. QED
  BY <1>1, <1>2, TypeCorrect, PTL DEF Spec

-----------------------------------------------------------------------------
(* Arrays.                                                                  *)

\* What a step does to the owners of arrays: each slice either keeps its
\* array, gives it up, or takes an array nothing referred to; and at most one
\* slice, the buffer of o, takes one.
LEMMA UnsharedStep ==
    ASSUME Unshared, NEW o \in Objects,
           \A x \in Objects \ {o} : buf'[x].arr \in {buf[x].arr, NoArray},
           buf'[o].arr \in {buf[o].arr, NoArray} \cup FreeArrays,
           \A p \in Procs : ret'[p].arr \in {ret[p].arr, NoArray},
           \A p \in Procs : kept'[p].arr \in {kept[p].arr, NoArray}
    PROVE  Unshared'
<1>1. /\ \A x \in Objects : buf[x].arr \notin FreeArrays
      /\ \A p \in Procs : ret[p].arr \notin FreeArrays /\ kept[p].arr \notin FreeArrays
  BY SlicesInUse
<1>2. NoArray \notin FreeArrays
  BY IdentityAssumption DEF FreeArrays
<1>3. \A x, y \in Objects : buf'[x].arr = buf'[y].arr /\ x # y => buf'[x].arr = NoArray
  BY <1>1 DEF Unshared
<1>4. \A p, q \in Procs :
          /\ ret'[p].arr = ret'[q].arr /\ p # q => ret'[p].arr = NoArray
          /\ kept'[p].arr = kept'[q].arr /\ p # q => kept'[p].arr = NoArray
          /\ ret'[p].arr = kept'[q].arr => ret'[p].arr = NoArray
  BY <1>1 DEF Unshared
<1>5. \A p \in Procs, x \in Objects :
          /\ buf'[x].arr = ret'[p].arr => buf'[x].arr = NoArray
          /\ buf'[x].arr = kept'[p].arr => buf'[x].arr = NoArray
  BY <1>1, <1>2 DEF Unshared
<1>6. QED
  BY <1>3, <1>4, <1>5 DEF Unshared

\* A step that only gives arrays up.
LEMMA UnsharedLess ==
    ASSUME Unshared,
           \A x \in Objects : buf'[x].arr \in {buf[x].arr, NoArray},
           \A p \in Procs : ret'[p].arr \in {ret[p].arr, NoArray},
           \A p \in Procs : kept'[p].arr \in {kept[p].arr, NoArray}
    PROVE  Unshared'
<1>1. \A x, y \in Objects : buf'[x].arr = buf'[y].arr /\ x # y => buf'[x].arr = NoArray
  BY DEF Unshared
<1>2. \A p, q \in Procs :
          /\ ret'[p].arr = ret'[q].arr /\ p # q => ret'[p].arr = NoArray
          /\ kept'[p].arr = kept'[q].arr /\ p # q => kept'[p].arr = NoArray
          /\ ret'[p].arr = kept'[q].arr => ret'[p].arr = NoArray
  BY DEF Unshared
<1>3. \A p \in Procs, x \in Objects :
          /\ buf'[x].arr = ret'[p].arr => buf'[x].arr = NoArray
          /\ buf'[x].arr = kept'[p].arr => buf'[x].arr = NoArray
  BY DEF Unshared
<1>4. QED
  BY <1>1, <1>2, <1>3 DEF Unshared

\* The hand-over of Marshal: from its buffer to the slice it returns ...
LEMMA UnsharedTakeOutput ==
    ASSUME TypeInv, Unshared, NEW p \in Procs, TakeOutput(p)
    PROVE  Unshared'
<1> DEFINE o == Top(p).obj
<1>1. /\ phase[p] = "run" /\ ret' = [ret EXCEPT ![p] = buf[o]] /\ kept' = kept
      /\ buf' = [buf EXCEPT ![o] = NoSlice]
  BY DEF TakeOutput, Forgotten, caller
<1>2. Len(frames[p]) > 0
  BY <1>1, FrameTypes DEF TypeInv, Shape
<1>3. o \in Objects
  BY <1>2, FrameTypes DEF TypeInv
<1>4. NoSlice.arr = NoArray
  BY DEF NoSlice
<1>5. /\ ret'[p] = buf[o] /\ \A q \in Procs \ {p} : ret'[q] = ret[q]
      /\ buf'[o].arr = NoArray /\ \A x \in Objects \ {o} : buf'[x] = buf[x]
  BY <1>1, <1>3, <1>4 DEF TypeInv, TypeOK
<1> HIDE DEF o
<1>6. \A x, y \in Objects : buf'[x].arr = buf'[y].arr /\ x # y => buf'[x].arr = NoArray
  BY <1>5 DEF Unshared
<1>7. \A q, r \in Procs :
          /\ ret'[q].arr = ret'[r].arr /\ q # r => ret'[q].arr = NoArray
          /\ kept'[q].arr = kept'[r].arr /\ q # r => kept'[q].arr = NoArray
          /\ ret'[q].arr = kept'[r].arr => ret'[q].arr = NoArray
  BY <1>1, <1>3, <1>5 DEF Unshared
<1>8. \A q \in Procs, x \in Objects :
          /\ buf'[x].arr = ret'[q].arr => buf'[x].arr = NoArray
          /\ buf'[x].arr = kept'[q].arr => buf'[x].arr = NoArray
  BY <1>1, <1>3, <1>5 DEF Unshared
<1>9. QED
  BY <1>6, <1>7, <1>8 DEF Unshared

\* ... and from there to the caller.
LEMMA UnsharedReturn ==
    ASSUME Unshared, NEW p \in Procs, buf' = buf,
           ret'[p].arr = NoArray, kept'[p].arr = ret[p].arr,
           \A q \in Procs \ {p} : ret'[q] = ret[q] /\ kept'[q] = kept[q]
    PROVE  Unshared'
<1>1. \A q, r \in Procs :
          /\ ret'[q].arr = ret'[r].arr /\ q # r => ret'[q].arr = NoArray
          /\ kept'[q].arr = kept'[r].arr /\ q # r => kept'[q].arr = NoArray
          /\ ret'[q].arr = kept'[r].arr => ret'[q].arr = NoArray
  BY DEF Unshared
<1>2. \A q \in Procs, x \in Objects :
          /\ buf'[x].arr = ret'[q].arr => buf'[x].arr = NoArray
          /\ buf'[x].arr = kept'[q].arr => buf'[x].arr = NoArray
  BY DEF Unshared
<1>3. QED
  BY <1>1, <1>2 DEF Unshared

\* The object whose buffer an action writes to.
LEMMA Writes ==
    ASSUME TypeInv, NEW p \in Procs,
           WriteChunk(p) \/ EncodeNone(p) \/ WriteArm(p) \/ WriteCustom(p)
    PROVE  \E o \in Objects, w \in Seq(Token) : Write(o, w)
<1>1. TypeOK /\ Fits /\ Shape(p)
  BY DEF TypeInv
<1>2. CASE WriteChunk(p) \/ EncodeNone(p)
  <2>1. /\ phase[p] = "run" /\ ~AtEnd(p)
        /\ \/ Write(Top(p).obj, Data(OpOf(p).arg))
           \/ Write(Top(p).obj, Tagged(0, <<>>))
    BY <1>2 DEF WriteChunk, EncodeNone, Doing
  <2>2. Len(frames[p]) > 0
    BY <1>1, <2>1, FrameTypes DEF Shape
  <2>3. Top(p).obj \in Objects
    BY <1>1, <2>2, FrameTypes
  <2>4. OpOf(p).arg \in Nat
    BY <2>1, CallFacts DEF AtEnd
  <2>5. Data(OpOf(p).arg) \in Seq(Token) /\ Tagged(0, <<>>) \in Seq(Token)
    BY <2>4, TokenTypes, EmptySeq
  <2>6. QED
    BY <2>1, <2>3, <2>5
<1>3. CASE WriteArm(p)
  <2>1. /\ phase[p] = "run" /\ ~AtEnd(p) /\ Top(p).kind = "tag"
        /\ Write(Last(Front(frames[p])).obj,
                 Tagged(OpOf(p).arg, Contents(buf[Top(p).obj])))
    BY <1>3 DEF WriteArm, Doing
  <2>2. Len(frames[p]) > 0
    BY <1>1, <2>1, FrameTypes DEF Shape
  <2>3. Len(frames[p]) \in Nat /\ Top(p) = frames[p][Len(frames[p])] /\ Top(p).obj \in Objects
    BY <1>1, <2>2, FrameTypes
  <2>4. Len(frames[p]) > 1
    BY <1>1, <2>1, <2>2, <2>3 DEF Shape
  <2>5. Last(Front(frames[p])).obj \in Objects
    BY <1>1, <2>4, FrameTypes
  <2>6. Contents(buf[Top(p).obj]) \in Seq(Token)
    BY <1>1, <2>3, ContentsType DEF Fits, TypeOK
  <2>7. Tagged(OpOf(p).arg, Contents(buf[Top(p).obj])) \in Seq(Token)
    BY <2>1, <2>6, CallFacts, TokenTypes DEF AtEnd
  <2>8. QED
    BY <2>1, <2>5, <2>7
<1>4. CASE WriteCustom(p)
  <2>1. phase[p] = "copy" /\ Write(Top(p).obj, Sized(Contents(ret[p])))
    BY <1>4 DEF WriteCustom
  <2>2. Len(frames[p]) > 0
    BY <1>1, <2>1, FrameTypes DEF Shape
  <2>3. Top(p).obj \in Objects
    BY <1>1, <2>2, FrameTypes
  <2>4. Contents(ret[p]) \in Seq(Token)
    BY <1>1, ContentsType DEF Fits, TypeOK
  <2>5. Sized(Contents(ret[p])) \in Seq(Token)
    BY <2>4, TokenTypes
  <2>6. QED
    BY <2>1, <2>3, <2>5
<1>5. QED
  BY <1>2, <1>3, <1>4

LEMMA UnsharedNext ==
    ASSUME TypeInv, Unshared, [Next]_vars
    PROVE  Unshared'
<1>1. TypeOK /\ Fits /\ NoSlice.arr = NoArray
  BY DEF TypeInv, NoSlice
<1>2. CASE UNCHANGED vars
  BY <1>2, UnsharedLess DEF vars, heap, call, caller
<1>3. ASSUME NEW S \in SUBSET Objects, Collect(S), ret' = ret, kept' = kept
      PROVE  Unshared'
  BY <1>1, <1>3, UnsharedLess DEF Collect
<1>4. CASE Evict
  <2>1. PICK o \in Objects : Collect({o})
    BY <1>1, <1>4 DEF Evict, TypeOK
  <2>2. ret' = ret /\ kept' = kept
    BY <1>4 DEF Evict, call, caller
  <2>3. QED
    BY <1>3, <2>1, <2>2
<1>5. ASSUME NEW p \in Procs, Panic(p)
      PROVE  Unshared'
  <2>1. Held(p) \in SUBSET Objects
    <3>1. DOMAIN frames[p] = 1 .. Len(frames[p])
      BY <1>1, FrameTypes, LenProperties
    <3>2. QED
      BY <1>1, <3>1, FrameTypes DEF Held
  <2>2. Collect(Held(p)) /\ ret' = ret /\ kept' = kept
    BY <1>5 DEF Panic
  <2>3. QED
    BY <1>3, <2>1, <2>2
<1>6. ASSUME NEW p \in Procs,
             Scribble(p) \/ Fail(p) \/ PutArm(p) \/ EndTo(p)
      PROVE  Unshared'
  BY <1>6, UnsharedLess DEF Scribble, Fail, PutArm, EndTo, heap, call, caller
<1>7. ASSUME NEW p \in Procs, Forget(p)
      PROVE  Unshared'
  <2>1. buf' = buf /\ ret' = ret /\ kept' = [kept EXCEPT ![p] = NoSlice]
    BY <1>7 DEF Forget, heap, call
  <2>2. \A q \in Procs : kept'[q].arr \in {kept[q].arr, NoArray}
    BY <1>1, <2>1 DEF TypeOK
  <2>3. QED
    BY <2>1, <2>2, UnsharedLess
<1>8. ASSUME NEW p \in Procs, Unwind(p)
      PROVE  Unshared'
  <2>1. ret' = ret /\ kept' = kept /\ (buf' = buf \/ buf' = [buf EXCEPT ![Top(p).obj] = NoSlice])
    BY <1>8 DEF Unwind, Forgotten
  <2>2. \A x \in Objects : buf'[x].arr \in {buf[x].arr, NoArray}
    BY <1>1, <2>1 DEF TypeOK
  <2>3. QED
    BY <2>1, <2>2, UnsharedLess
<1>9. ASSUME NEW p \in Procs, Begin(p) \/ Open(p)
      PROVE  Unshared'
  <2>1. PICK kind \in Kinds, w \in Procs \cup {Self}, isNil \in BOOLEAN : Get(p, kind, w, isNil)
    BY <1>9 DEF Begin, Open, Kinds
  <2>2. PICK o \in Objects : Taken(p, kind, w, isNil, o)
    BY <1>1, <2>1, GetEffect
  <2>3. ret' = ret /\ kept' = kept
    BY <1>9 DEF Begin, Open, caller
  <2>4. /\ \A x \in Objects \ {o} : buf'[x] = buf[x]
        /\ buf'[o].arr = buf[o].arr \/ buf'[o].arr \in FreeArrays
    BY <2>2 DEF Taken
  <2>5. QED
    BY <2>3, <2>4, UnsharedStep
<1>10. ASSUME NEW p \in Procs, WriteChunk(p) \/ EncodeNone(p) \/ WriteArm(p) \/ WriteCustom(p)
       PROVE  Unshared'
  <2>1. PICK o \in Objects, w \in Seq(Token) : Write(o, w)
    BY <1>10, Writes
  <2>2. /\ \A x \in Objects \ {o} : buf'[x] = buf[x]
        /\ buf'[o].arr = buf[o].arr \/ buf'[o].arr \in FreeArrays
    BY <1>1, <2>1, WriteEffect
  <2>3. kept' = kept /\ (ret' = ret \/ ret' = [ret EXCEPT ![p] = NoSlice])
    BY <1>10 DEF WriteChunk, EncodeNone, WriteArm, WriteCustom, caller
  <2>4. \A q \in Procs : ret'[q].arr \in {ret[q].arr, NoArray}
    BY <1>1, <2>3 DEF TypeOK
  <2>5. QED
    BY <2>2, <2>3, <2>4, UnsharedStep
<1>11. ASSUME NEW p \in Procs, PutMarshal(p)
       PROVE  Unshared'
  <2>1. buf' = buf
    BY <1>11 DEF PutMarshal, heap
  <2>2. CASE UNCHANGED <<ret, caller>>
    BY <2>1, <2>2, UnsharedLess DEF caller
  <2>3. CASE kept' = [kept EXCEPT ![p] = ret[p]] /\ ret' = [ret EXCEPT ![p] = NoSlice]
    <3>1. /\ ret'[p].arr = NoArray /\ kept'[p].arr = ret[p].arr
          /\ \A q \in Procs \ {p} : ret'[q] = ret[q] /\ kept'[q] = kept[q]
      BY <1>1, <2>3 DEF TypeOK
    <3>2. QED
      BY <2>1, <3>1, UnsharedReturn
  <2>4. QED
    BY <1>11, <2>2, <2>3 DEF PutMarshal
<1>12. ASSUME NEW p \in Procs, TakeOutput(p)
       PROVE  Unshared'
  BY <1>12, UnsharedTakeOutput
<1>13. QED
  BY <1>2, <1>4, <1>5, <1>6, <1>7, <1>8, <1>9, <1>10, <1>11, <1>12 DEF Next, Encode

\* No backing array has two owners: what Marshal returned is in no pooled
\* buffer, and no two buffers, calls or callers share an array.
THEOREM ArraysUnshared == Spec => []Unshared
<1>1. Init => Unshared
  BY DEF Init, Unshared, NoSlice
<1>2. TypeInv /\ Unshared /\ [Next]_vars => Unshared'
  BY UnsharedNext
<1>3. QED
  BY <1>1, <1>2, TypeCorrect, PTL DEF Spec

-----------------------------------------------------------------------------
(* The inductive strengthening: contents.                                   *)

\* The frames whose buffers still hold what their codecs wrote: Marshal's own
\* buffer does until its output is taken.
Live(p) ==
    {i \in 1 .. Len(frames[p]) :
        /\ i <= Depth(p)
        /\ frames[p][i].kind # "encoder"
        /\ phase[p] = "put" /\ Top(p).kind = "marshal" => i # Len(frames[p])}

\* Marshal has its output, and the pool or the enclosing call comes next.
Handing(p) == phase[p] = "copy" \/ (phase[p] = "put" /\ Top(p).kind = "marshal")

Bytes(p) ==
    /\ \A i \in 1 .. Len(frames[p]) : frames[p][i].kind # "encoder" =>
          ~err[frames[p][i].obj] /\ out[frames[p][i].obj] = Self
    /\ phase[p] \in {"run", "put", "copy"} => \A i \in Live(p) :
          Contents(buf[frames[p][i].obj]) = Trace[val[p]][ip[p]][i]
    /\ Handing(p) => Contents(ret[p]) = Trace[val[p]][ip[p]][Depth(p)]
    /\ Contents(kept[p]) = want[p]

BytesInv == TypeInv /\ Exclusive /\ Unshared /\ \A p \in Procs : Bytes(p)

-----------------------------------------------------------------------------
(* How one operation changes the stack of outputs.                          *)

LEMMA OntoProperties ==
    ASSUME NEW s \in Seq(Seq(Token)), Len(s) > 0, NEW w
    PROVE  \A j \in 1 .. Len(s) :
              Onto(s, w)[j] = IF j = Len(s) THEN s[j] \o w ELSE s[j]
BY DEF Onto

\* The output below the last one receives w when the last one is closed.
LEMMA CloseProperties ==
    ASSUME NEW s \in Seq(Seq(Token)), Len(s) > 0, NEW w
    PROVE  \A j \in 1 .. Len(s) - 1 :
              Onto(Front(s), w)[j] = IF j = Len(s) - 1 THEN s[j] \o w ELSE s[j]
<1> DEFINE S == Seq(Token)
<1>a. s \in Seq(S)
  OBVIOUS
<1> HIDE DEF S
<1>b. /\ Front(s) \in Seq(S) /\ Len(Front(s)) = Len(s) - 1
      /\ \A j \in 1 .. Len(s) - 1 : Front(s)[j] = s[j]
  BY <1>a, FrontProperties
<1>1. /\ Front(s) \in Seq(Seq(Token)) /\ Len(Front(s)) = Len(s) - 1
      /\ \A j \in 1 .. Len(s) - 1 : Front(s)[j] = s[j]
      /\ Len(s) \in Nat
  BY <1>b DEF S
<1>2. CASE Len(s) = 1
  BY <1>2
<1>3. CASE Len(s) > 1
  <2>1. Len(Front(s)) > 0
    BY <1>1, <1>3
  <2>2. \A j \in 1 .. Len(Front(s)) :
           Onto(Front(s), w)[j] = IF j = Len(Front(s)) THEN Front(s)[j] \o w ELSE Front(s)[j]
    BY <1>1, <2>1, OntoProperties
  <2>3. QED
    BY <1>1, <2>2
<1>4. QED
  BY <1>1, <1>2, <1>3

\* Stack t is what operation op makes of stack s.
Becomes(s, op, t) ==
    /\ op.name = "write" => \A j \in 1 .. Len(s) :
          t[j] = IF j = Len(s) THEN s[j] \o Data(op.arg) ELSE s[j]
    /\ op.name = "none" => \A j \in 1 .. Len(s) :
          t[j] = IF j = Len(s) THEN s[j] \o Tagged(0, <<>>) ELSE s[j]
    /\ op.name \in {"arm", "custom"} => \A j \in 1 .. Len(s) + 1 :
          t[j] = IF j = Len(s) + 1 THEN <<>> ELSE s[j]
    /\ op.name = "endarm" => \A j \in 1 .. Len(s) - 1 :
          t[j] = IF j = Len(s) - 1 THEN s[j] \o Tagged(op.arg, s[Len(s)]) ELSE s[j]
    /\ op.name = "endcustom" => \A j \in 1 .. Len(s) - 1 :
          t[j] = IF j = Len(s) - 1 THEN s[j] \o Sized(s[Len(s)]) ELSE s[j]

LEMMA PureStepBecomes ==
    ASSUME NEW s \in Seq(Seq(Token)), Len(s) > 0, NEW op \in Op
    PROVE  Becomes(s, op, PureStep(s, op))
<1>1. ASSUME op.name = "write"
      PROVE  PureStep(s, op) = Onto(s, Data(op.arg))
  BY <1>1 DEF PureStep
<1>2. ASSUME op.name = "none"
      PROVE  PureStep(s, op) = Onto(s, Tagged(0, <<>>))
  BY <1>2 DEF PureStep
<1>3. ASSUME op.name \in {"arm", "custom"}
      PROVE  \A j \in 1 .. Len(s) + 1 : PureStep(s, op)[j] = IF j = Len(s) + 1 THEN <<>> ELSE s[j]
  <2>1. PureStep(s, op) = Append(s, <<>>)
    BY <1>3 DEF PureStep
  <2>2. \A j \in 1 .. Len(s) + 1 : Append(s, <<>>)[j] = IF j = Len(s) + 1 THEN <<>> ELSE s[j]
    OBVIOUS
  <2>3. QED
    BY <2>1, <2>2
<1>4. Last(s) = s[Len(s)]
  BY DEF Last
<1>5. ASSUME op.name = "endarm"
      PROVE  PureStep(s, op) = Onto(Front(s), Tagged(op.arg, s[Len(s)]))
  BY <1>4, <1>5 DEF PureStep
<1>6. ASSUME op.name = "endcustom"
      PROVE  PureStep(s, op) = Onto(Front(s), Sized(s[Len(s)]))
  BY <1>4, <1>6 DEF PureStep
<1>7. ASSUME op.name = "write"
      PROVE  \A j \in 1 .. Len(s) :
                PureStep(s, op)[j] = IF j = Len(s) THEN s[j] \o Data(op.arg) ELSE s[j]
  BY <1>1, <1>7, OntoProperties
<1>8. ASSUME op.name = "none"
      PROVE  \A j \in 1 .. Len(s) :
                PureStep(s, op)[j] = IF j = Len(s) THEN s[j] \o Tagged(0, <<>>) ELSE s[j]
  BY <1>2, <1>8, OntoProperties
<1>9. ASSUME op.name = "endarm"
      PROVE  \A j \in 1 .. Len(s) - 1 : PureStep(s, op)[j] =
                IF j = Len(s) - 1 THEN s[j] \o Tagged(op.arg, s[Len(s)]) ELSE s[j]
  BY <1>5, <1>9, CloseProperties
<1>10. ASSUME op.name = "endcustom"
       PROVE  \A j \in 1 .. Len(s) - 1 : PureStep(s, op)[j] =
                 IF j = Len(s) - 1 THEN s[j] \o Sized(s[Len(s)]) ELSE s[j]
  BY <1>6, <1>10, CloseProperties
<1>11. QED
  BY <1>3, <1>7, <1>8, <1>9, <1>10 DEF Becomes

\* The operation a call is about to do, and the trace of its value.
LEMMA CallStep ==
    ASSUME TypeInv, NEW p \in Procs, ip[p] # Len(Script[val[p]]),
           val' = val, ip' = [ip EXCEPT ![p] = @ + 1]
    PROVE  Becomes(Trace[val[p]][ip[p]], OpOf(p), Trace[val'[p]][ip'[p]])
<1>1. /\ val[p] \in Values /\ ip[p] \in 0 .. Len(Script[val[p]]) /\ ip[p] < Len(Script[val[p]])
      /\ OpOf(p) \in Op
  BY CallFacts
<1>2. /\ Trace[val[p]][ip[p]] \in Seq(Seq(Token))
      /\ Len(Trace[val[p]][ip[p]]) > 0
      /\ Trace[val[p]][ip[p] + 1] = PureStep(Trace[val[p]][ip[p]], OpOf(p))
  BY <1>1, TraceDepth DEF OpOf
<1>3. ip'[p] = ip[p] + 1 /\ val'[p] = val[p]
  BY DEF TypeInv, TypeOK
<1>4. QED
  BY <1>1, <1>2, <1>3, PureStepBecomes

-----------------------------------------------------------------------------
(* What a step leaves alone.                                                *)

LEMMA BytesFrame ==
    ASSUME NEW q \in Procs, Bytes(q),
           phase'[q] = phase[q], val'[q] = val[q], ip'[q] = ip[q],
           frames'[q] = frames[q],
           \A i \in 1 .. Len(frames[q]) :
              /\ err'[frames[q][i].obj] = err[frames[q][i].obj]
              /\ out'[frames[q][i].obj] = out[frames[q][i].obj]
              /\ Contents(buf[frames[q][i].obj])' = Contents(buf[frames[q][i].obj]),
           Contents(ret[q])' = Contents(ret[q]),
           Contents(kept[q])' = Contents(kept[q]), want'[q] = want[q]
    PROVE  Bytes(q)'
<1>1. /\ Live(q)' = Live(q) /\ Depth(q)' = Depth(q) /\ Handing(q)' = Handing(q)
      /\ Live(q) \subseteq 1 .. Len(frames[q])
  BY DEF Live, Depth, Top, Handing
<1>2. ASSUME NEW i \in 1 .. Len(frames'[q]), frames'[q][i].kind # "encoder"
      PROVE  ~err'[frames'[q][i].obj] /\ out'[frames'[q][i].obj] = Self
  BY <1>2 DEF Bytes
<1>3. ASSUME phase'[q] \in {"run", "put", "copy"}, NEW i \in Live(q)'
      PROVE  Contents(buf[frames[q][i].obj])' = Trace[val'[q]][ip'[q]][i]
  <2>1. i \in 1 .. Len(frames[q]) /\ i \in Live(q)
    BY <1>1
  <2>2. Contents(buf[frames[q][i].obj]) = Trace[val[q]][ip[q]][i]
    BY <1>3, <2>1 DEF Bytes
  <2>3. QED
    BY <2>1, <2>2 DEF Contents
<1>4. Handing(q)' => Contents(ret[q])' = Trace[val'[q]][ip'[q]][Depth(q)']
  BY <1>1 DEF Bytes
<1>5. Contents(kept[q])' = want'[q]
  BY DEF Bytes
<1>6. QED
  BY <1>2, <1>3, <1>4, <1>5 DEF Bytes

\* Contents depend on the slice and its own array.
LEMMA ContentsKept ==
    /\ \A x \in Objects : buf'[x] = buf[x] /\ (buf[x].arr # NoArray => mem'[buf[x].arr] = mem[buf[x].arr])
          => Contents(buf[x])' = Contents(buf[x])
    /\ \A q \in Procs : ret'[q] = ret[q] /\ (ret[q].arr # NoArray => mem'[ret[q].arr] = mem[ret[q].arr])
          => Contents(ret[q])' = Contents(ret[q])
    /\ \A q \in Procs : kept'[q] = kept[q] /\ (kept[q].arr # NoArray => mem'[kept[q].arr] = mem[kept[q].arr])
          => Contents(kept[q])' = Contents(kept[q])
BY DEF Contents

\* Objects in two frames of a call, or in frames of two calls, differ.
LEMMA FramesApart ==
    ASSUME BytesInv, NEW p \in Procs, NEW q \in Procs,
           NEW i \in 1 .. Len(frames[p]), NEW j \in 1 .. Len(frames[q]),
           p # q \/ i # j
    PROVE  frames[p][i].obj # frames[q][j].obj
<1>1. DOMAIN frames[p] = 1 .. Len(frames[p]) /\ DOMAIN frames[q] = 1 .. Len(frames[q])
  BY FrameTypes, LenProperties DEF BytesInv, TypeInv
<1>2. QED
  BY <1>1 DEF BytesInv, Exclusive

\* What one goroutine holds is none of what another one has in its frames.
LEMMA HeldApart ==
    ASSUME BytesInv, NEW p \in Procs, NEW q \in Procs \ {p}
    PROVE  \A i \in 1 .. Len(frames[q]) : frames[q][i].obj \in Objects \ Held(p)
<1>1. TypeOK
  BY DEF BytesInv, TypeInv
<1>2. DOMAIN frames[p] = 1 .. Len(frames[p])
  BY <1>1, FrameTypes, LenProperties
<1>3. ASSUME NEW i \in 1 .. Len(frames[q])
      PROVE  frames[q][i].obj \in Objects \ Held(p)
  <2>1. frames[q][i].obj \in Objects
    BY <1>1, FrameTypes
  <2>2. ASSUME NEW k \in DOMAIN frames[p]
        PROVE  frames[p][k].obj # frames[q][i].obj
    <3>1. k \in 1 .. Len(frames[p]) /\ p # q
      BY <1>2
    <3>2. QED
      BY <3>1, FramesApart
  <2>3. QED
    BY <2>1, <2>2 DEF Held
<1>4. QED
  BY <1>3

\* A write to the encoder of o changes no other buffer and no output.
LEMMA WriteKeeps ==
    ASSUME BytesInv, NEW o \in Objects, NEW w \in Seq(Token), Write(o, w)
    PROVE  /\ \A x \in Objects \ {o} :
                 /\ err'[x] = err[x]
                 /\ Contents(buf[x])' = Contents(buf[x])
           /\ out' = out
           /\ \A q \in Procs : ret'[q] = ret[q] => Contents(ret[q])' = Contents(ret[q])
           /\ \A q \in Procs : kept'[q] = kept[q] => Contents(kept[q])' = Contents(kept[q])
           /\ ~err[o] /\ out[o] = Self =>
                 err' = err /\ Contents(buf[o])' = Contents(buf[o]) \o w
<1>1. TypeOK /\ Fits /\ Unshared
  BY DEF BytesInv, TypeInv
<1>2. /\ \A x \in Objects \ {o} : buf'[x] = buf[x] /\ err'[x] = err[x]
      /\ out' = out
      /\ \A s \in Slices :
            s.arr \notin FreeArrays /\ (s.arr = buf[o].arr => s.arr = NoArray)
                => Contents(s)' = Contents(s)
      /\ ~err[o] /\ out[o] = Self => Contents(buf[o])' = Contents(buf[o]) \o w
      /\ out[o] = Self => err' = err
  BY <1>1, WriteEffect
<1>3. ASSUME NEW x \in Objects \ {o}
      PROVE  Contents(buf[x])' = Contents(buf[x])
  <2>1. buf[x] \in Slices /\ buf[x].arr \notin FreeArrays
    BY <1>1, SlicesInUse DEF TypeOK
  <2>2. buf[x].arr = buf[o].arr => buf[x].arr = NoArray
    BY <1>1 DEF Unshared
  <2>3. PICK s \in Slices : s = buf[x]
    BY <2>1
  <2>4. Contents(s)' = Contents(s)
    BY <1>2, <2>1, <2>2, <2>3
  <2>5. s = buf'[x]
    BY <1>2, <2>3
  <2>6. QED
    BY <2>3, <2>4, <2>5 DEF Contents
<1>4. ASSUME NEW q \in Procs, ret'[q] = ret[q]
      PROVE  Contents(ret[q])' = Contents(ret[q])
  <2>1. ret[q] \in Slices /\ ret[q].arr \notin FreeArrays
    BY <1>1, SlicesInUse DEF TypeOK
  <2>2. ret[q].arr = buf[o].arr => ret[q].arr = NoArray
    BY <1>1 DEF Unshared
  <2>3. PICK s \in Slices : s = ret[q]
    BY <2>1
  <2>4. Contents(s)' = Contents(s)
    BY <1>2, <2>1, <2>2, <2>3
  <2>5. QED
    BY <1>4, <2>3, <2>4 DEF Contents
<1>5. ASSUME NEW q \in Procs, kept'[q] = kept[q]
      PROVE  Contents(kept[q])' = Contents(kept[q])
  <2>1. kept[q] \in Slices /\ kept[q].arr \notin FreeArrays
    BY <1>1, SlicesInUse DEF TypeOK
  <2>2. kept[q].arr = buf[o].arr => kept[q].arr = NoArray
    BY <1>1 DEF Unshared
  <2>3. PICK s \in Slices : s = kept[q]
    BY <2>1
  <2>4. Contents(s)' = Contents(s)
    BY <1>2, <2>1, <2>2, <2>3
  <2>5. QED
    BY <1>5, <2>3, <2>4 DEF Contents
<1>6. QED
  BY <1>2, <1>3, <1>4, <1>5

\* The other calls, and so everything but the call that writes.
LEMMA WriteOthers ==
    ASSUME BytesInv, NEW p \in Procs, NEW k \in 1 .. Len(frames[p]),
           NEW w \in Seq(Token), Write(frames[p][k].obj, w),
           NEW q \in Procs \ {p},
           phase'[q] = phase[q], val'[q] = val[q], ip'[q] = ip[q],
           frames'[q] = frames[q], ret'[q] = ret[q], kept' = kept, want' = want
    PROVE  Bytes(q)'
<1>1. frames[p][k].obj \in Objects /\ TypeInv /\ Bytes(q)
  BY FrameTypes DEF BytesInv, TypeInv
<1>2. \A i \in 1 .. Len(frames[q]) :
         frames[q][i].obj \in Objects /\ frames[q][i].obj # frames[p][k].obj
  BY FrameTypes, FramesApart DEF BytesInv, TypeInv
<1>3. /\ \A i \in 1 .. Len(frames[q]) :
            /\ err'[frames[q][i].obj] = err[frames[q][i].obj]
            /\ out'[frames[q][i].obj] = out[frames[q][i].obj]
            /\ Contents(buf[frames[q][i].obj])' = Contents(buf[frames[q][i].obj])
      /\ Contents(ret[q])' = Contents(ret[q])
      /\ Contents(kept[q])' = Contents(kept[q])
  BY <1>1, <1>2, WriteKeeps
<1>4. QED
  BY <1>1, <1>3, BytesFrame

-----------------------------------------------------------------------------
(* The actions that write.                                                  *)

Extends(k, w, s, t) == \A j \in 1 .. k : t[j] = IF j = k THEN s[j] \o w ELSE s[j]

Holds(p, k) == \A j \in 1 .. k : frames[p][j].kind # "encoder" =>
                  Contents(buf[frames[p][j].obj]) = Trace[val[p]][ip[p]][j]

\* A call writes w to its k-th buffer, and the value's trace says so.
WriteStep(p, k, w) ==
    /\ k \in 1 .. Len(frames[p]) /\ w \in Seq(Token)
    /\ Write(frames[p][k].obj, w)
    /\ UNCHANGED <<val, frames, kept, want>>
    /\ \A q \in Procs \ {p} :
          phase'[q] = phase[q] /\ ip'[q] = ip[q] /\ ret'[q] = ret[q]
    /\ ~Handing(p)' /\ Depth(p)' = k
    /\ Extends(k, w, Trace[val[p]][ip[p]], Trace[val'[p]][ip'[p]])
    /\ Holds(p, k)

LEMMA BytesWrite ==
    ASSUME BytesInv, NEW p \in Procs, NEW k, NEW w, WriteStep(p, k, w)
    PROVE  \A q \in Procs : Bytes(q)'
<1> USE DEF WriteStep
<1> DEFINE s == Trace[val[p]][ip[p]]
           t == Trace[val'[p]][ip'[p]]
<1>a. /\ \A j \in 1 .. k : t[j] = IF j = k THEN s[j] \o w ELSE s[j]
      /\ \A j \in 1 .. k : frames[p][j].kind # "encoder" => Contents(buf[frames[p][j].obj]) = s[j]
      /\ t = Trace[val'[p]][ip'[p]]
  BY DEF Extends, Holds
<1> HIDE DEF s, t
<1>1. ASSUME NEW q \in Procs \ {p}
      PROVE  Bytes(q)'
  BY WriteOthers
<1> DEFINE Obj(j) == frames[p][j].obj
<1>2. \A j \in 1 .. Len(frames[p]) : Obj(j) \in Objects
  BY FrameTypes DEF BytesInv, TypeInv
<1>3. \A j \in 1 .. Len(frames[p]) : j # k => Obj(j) # Obj(k)
  BY FramesApart
<1>4. /\ \A x \in Objects \ {Obj(k)} : err'[x] = err[x] /\ Contents(buf[x])' = Contents(buf[x])
      /\ out' = out
      /\ Contents(kept[p])' = Contents(kept[p])
      /\ ~err[Obj(k)] /\ out[Obj(k)] = Self =>
            err' = err /\ Contents(buf[Obj(k)])' = Contents(buf[Obj(k)]) \o w
  BY <1>2, WriteKeeps
<1>5. \A j \in 1 .. Len(frames[p]) : frames[p][j].kind # "encoder" =>
         ~err[Obj(j)] /\ out[Obj(j)] = Self
  BY DEF BytesInv, Bytes
<1>6. ASSUME NEW j \in 1 .. Len(frames[p]), frames[p][j].kind # "encoder"
      PROVE  ~err'[Obj(j)] /\ out'[Obj(j)] = Self
  BY <1>2, <1>3, <1>4, <1>5, <1>6
<1>7. ASSUME NEW j \in 1 .. k, frames[p][j].kind # "encoder"
      PROVE  Contents(buf[Obj(j)])' = t[j]
  <2>1. j \in 1 .. Len(frames[p]) /\ Contents(buf[Obj(j)]) = s[j]
    <3>1. Len(frames[p]) \in Nat
      BY FrameTypes DEF BytesInv, TypeInv
    <3>2. QED
      BY <1>a, <1>7, <3>1
  <2>2. CASE j = k
    BY <1>4, <1>5, <1>7, <1>a, <2>1, <2>2
  <2>3. CASE j # k
    BY <1>2, <1>3, <1>4, <1>a, <2>1, <2>3
  <2>4. QED
    BY <2>2, <2>3
<1>8. ASSUME NEW j \in Live(p)'
      PROVE  j \in 1 .. k /\ frames[p][j].kind # "encoder"
  BY <1>8 DEF Live
<1>9. \A j \in Live(p)' : Contents(buf[frames[p][j].obj])' = Trace[val'[p]][ip'[p]][j]
  BY <1>7, <1>8, <1>a
<1>10. Contents(kept[p])' = want'[p]
  BY <1>4 DEF BytesInv, Bytes
<1>11. Bytes(p)'
  BY <1>6, <1>9, <1>10 DEF Bytes
<1>12. QED
  BY <1>1, <1>11

\* A call that runs, and is not at its end.
LEMMA Running ==
    ASSUME BytesInv, NEW p \in Procs, phase[p] = "run"
    PROVE  /\ Len(frames[p]) = Depth(p) /\ Depth(p) \in Nat \ {0}
           /\ Top(p) = frames[p][Len(frames[p])]
           /\ \A j \in 1 .. Len(frames[p]) : frames[p][j].kind # "encoder" =>
                 Contents(buf[frames[p][j].obj]) = Trace[val[p]][ip[p]][j]
<1>1. Len(frames[p]) = Depth(p) /\ Depth(p) \in Nat \ {0}
  BY CallFacts DEF BytesInv, TypeInv, Shape
<1>2. Top(p) = frames[p][Len(frames[p])]
  BY <1>1, FrameTypes DEF BytesInv, TypeInv
<1>3. ASSUME NEW j \in 1 .. Len(frames[p]), frames[p][j].kind # "encoder"
      PROVE  j \in Live(p)
  BY <1>1, <1>3 DEF Live
<1>4. QED
  BY <1>1, <1>2, <1>3 DEF BytesInv, Bytes

LEMMA ChunkIsWrite ==
    ASSUME BytesInv, NEW p \in Procs, WriteChunk(p) \/ EncodeNone(p)
    PROVE  \E k, w : WriteStep(p, k, w)
<1> DEFINE w == IF OpOf(p).name = "write" THEN Data(OpOf(p).arg) ELSE Tagged(0, <<>>)
           k == Len(frames[p])
           s == Trace[val[p]][ip[p]]
           t == Trace[val'[p]][ip'[p]]
<1>1. /\ phase[p] = "run" /\ ip[p] # Len(Script[val[p]])
      /\ OpOf(p).name \in {"write", "none"}
      /\ Write(Top(p).obj, w)
      /\ ip' = [ip EXCEPT ![p] = @ + 1]
      /\ UNCHANGED <<val, frames, ret, kept, want>>
  BY DEF WriteChunk, EncodeNone, Doing, AtEnd, Advance, caller
<1>2. /\ \A q \in Procs \ {p} : phase'[q] = phase[q] /\ ip'[q] = ip[q]
      /\ phase'[p] \in {"run", "unwind"}
  BY <1>1 DEF WriteChunk, EncodeNone, BytesInv, TypeInv, TypeOK
<1>3. /\ k = Depth(p) /\ k \in Nat \ {0} /\ Top(p) = frames[p][k]
      /\ \A j \in 1 .. k : frames[p][j].kind # "encoder" =>
            Contents(buf[frames[p][j].obj]) = s[j]
  BY <1>1, Running
<1>4. w \in Seq(Token)
  BY <1>1, CallFacts, TokenTypes, EmptySeq DEF BytesInv
<1>5. Depth(p)' = k
  BY <1>1, <1>3, DepthAfter DEF BytesInv
<1>6. Becomes(s, OpOf(p), t) /\ Len(s) = k
  BY <1>1, <1>3, CallStep DEF BytesInv, Depth
<1>7. \A j \in 1 .. k : t[j] = IF j = k THEN s[j] \o w ELSE s[j]
  BY <1>1, <1>6 DEF Becomes
<1>8. ~Handing(p)' /\ k \in 1 .. Len(frames[p])
  BY <1>2, <1>3 DEF Handing
<1>9. Extends(k, w, Trace[val[p]][ip[p]], Trace[val'[p]][ip'[p]]) /\ Holds(p, k)
  BY <1>3, <1>7 DEF Extends, Holds
<1> HIDE DEF w
<1>10. Write(frames[p][k].obj, w)
  BY <1>1, <1>3
<1>11. QED
  BY <1>1, <1>2, <1>4, <1>5, <1>8, <1>9, <1>10 DEF WriteStep

LEMMA ArmIsWrite ==
    ASSUME BytesInv, NEW p \in Procs, WriteArm(p)
    PROVE  \E k, w : WriteStep(p, k, w)
<1> DEFINE n == Len(frames[p])
           k == n - 1
           s == Trace[val[p]][ip[p]]
           t == Trace[val'[p]][ip'[p]]
           w == Tagged(OpOf(p).arg, Contents(buf[Top(p).obj]))
<1>1. /\ phase[p] = "run" /\ ip[p] # Len(Script[val[p]])
      /\ OpOf(p).name = "endarm" /\ Top(p).kind = "tag"
      /\ Write(Last(Front(frames[p])).obj, w)
      /\ ip' = [ip EXCEPT ![p] = @ + 1]
      /\ phase' = [phase EXCEPT ![p] = "put"]
      /\ UNCHANGED <<val, frames, ret, kept, want>>
  BY DEF WriteArm, Doing, AtEnd, Advance, caller
<1>2. /\ n = Depth(p) /\ n \in Nat \ {0} /\ Top(p) = frames[p][n]
      /\ \A j \in 1 .. n : frames[p][j].kind # "encoder" =>
            Contents(buf[frames[p][j].obj]) = s[j]
  BY <1>1, Running
<1>3. n > 1 /\ k \in 1 .. Len(frames[p])
  BY <1>1, <1>2 DEF BytesInv, TypeInv, Shape
<1>4. Last(Front(frames[p])) = frames[p][k]
  BY <1>3, FrameTypes DEF BytesInv, TypeInv
<1>5. Contents(buf[Top(p).obj]) = s[n]
  BY <1>1, <1>2
<1>6. w \in Seq(Token)
  <2>1. s[n] \in Seq(Token)
    <3>1. s \in Seq(Seq(Token)) /\ Len(s) = n
      BY <1>2, CallFacts, TraceDepth DEF BytesInv, Depth
    <3>2. QED
      BY <1>2, <3>1
  <2>2. QED
    BY <1>1, <1>5, <2>1, CallFacts, TokenTypes DEF BytesInv
<1>7. Depth(p)' = k
  BY <1>1, <1>2, DepthAfter DEF BytesInv
<1>8. Becomes(s, OpOf(p), t) /\ Len(s) = n
  BY <1>1, <1>2, CallStep DEF BytesInv, Depth
<1>9. \A j \in 1 .. k : t[j] = IF j = k THEN s[j] \o w ELSE s[j]
  BY <1>1, <1>5, <1>8 DEF Becomes
<1>10. ~Handing(p)'
  BY <1>1 DEF Handing, Top, BytesInv, TypeInv, TypeOK
<1>11. \A q \in Procs \ {p} : phase'[q] = phase[q] /\ ip'[q] = ip[q] /\ ret'[q] = ret[q]
  BY <1>1 DEF BytesInv, TypeInv, TypeOK
<1>12. \A j \in 1 .. k : frames[p][j].kind # "encoder" => Contents(buf[frames[p][j].obj]) = s[j]
  BY <1>2
<1>13. Extends(k, w, Trace[val[p]][ip[p]], Trace[val'[p]][ip'[p]]) /\ Holds(p, k)
  BY <1>9, <1>12 DEF Extends, Holds
<1> HIDE DEF w, s, t
<1>14. Write(frames[p][k].obj, w)
  BY <1>1, <1>4
<1> HIDE DEF k
<1>15. QED
  BY <1>1, <1>3, <1>6, <1>7, <1>10, <1>11, <1>13, <1>14 DEF WriteStep

LEMMA CustomIsWrite ==
    ASSUME BytesInv, NEW p \in Procs, WriteCustom(p)
    PROVE  \E k, w : WriteStep(p, k, w)
<1> DEFINE k == Len(frames[p])
           s == Trace[val[p]][ip[p]]
           t == Trace[val'[p]][ip'[p]]
           w == Sized(Contents(ret[p]))
<1>1. /\ phase[p] = "copy" /\ Write(Top(p).obj, w)
      /\ ret' = [ret EXCEPT ![p] = NoSlice]
      /\ phase' = [phase EXCEPT ![p] = "run"]
      /\ ip' = [ip EXCEPT ![p] = @ + 1]
      /\ UNCHANGED <<val, frames, kept, want>>
  BY DEF WriteCustom, Advance, caller
<1>2. /\ k = Depth(p) - 1 /\ Ending(p) /\ k # 0 /\ Depth(p) \in Nat \ {0}
  BY <1>1, CallFacts DEF BytesInv, TypeInv, Shape
<1>3. k \in 1 .. Len(frames[p]) /\ k \in Nat \ {0} /\ Top(p) = frames[p][k]
  BY <1>2, FrameTypes DEF BytesInv, TypeInv
<1>4. OpOf(p).name = "endcustom" /\ ip[p] # Len(Script[val[p]])
  BY <1>2, CallFacts DEF Ending, BytesInv
<1>5. Len(s) = k + 1 /\ Contents(ret[p]) = s[k + 1]
  BY <1>1, <1>2 DEF BytesInv, Bytes, Handing, Depth
<1>6. w \in Seq(Token)
  <2>1. Contents(ret[p]) \in Seq(Token)
    BY ContentsType DEF BytesInv, TypeInv, TypeOK, Fits
  <2>2. QED
    BY <2>1, TokenTypes
<1>7. Depth(p)' = k
  BY <1>1, <1>2, <1>4, DepthAfter DEF BytesInv
<1>8. Becomes(s, OpOf(p), t)
  BY <1>1, <1>4, CallStep DEF BytesInv
<1>9. \A j \in 1 .. k : t[j] = IF j = k THEN s[j] \o w ELSE s[j]
  BY <1>3, <1>4, <1>5, <1>8 DEF Becomes
<1>10. ~Handing(p)'
  BY <1>1 DEF Handing, BytesInv, TypeInv, TypeOK
<1>11. \A q \in Procs \ {p} : phase'[q] = phase[q] /\ ip'[q] = ip[q] /\ ret'[q] = ret[q]
  BY <1>1 DEF BytesInv, TypeInv, TypeOK
<1>12. \A j \in 1 .. k : frames[p][j].kind # "encoder" => Contents(buf[frames[p][j].obj]) = s[j]
  <2>1. \A j \in 1 .. k : frames[p][j].kind # "encoder" => j \in Live(p)
    BY <1>1, <1>2, <1>3 DEF Live
  <2>2. QED
    BY <1>1, <2>1 DEF BytesInv, Bytes
<1>13. Extends(k, w, Trace[val[p]][ip[p]], Trace[val'[p]][ip'[p]]) /\ Holds(p, k)
  BY <1>9, <1>12 DEF Extends, Holds
<1> HIDE DEF w, s, t, k
<1>14. Write(frames[p][k].obj, w)
  BY <1>1, <1>3
<1>15. QED
  BY <1>1, <1>3, <1>6, <1>7, <1>10, <1>11, <1>13, <1>14 DEF WriteStep

LEMMA BytesWrites ==
    ASSUME BytesInv, NEW p \in Procs,
           WriteChunk(p) \/ EncodeNone(p) \/ WriteArm(p) \/ WriteCustom(p)
    PROVE  \A q \in Procs : Bytes(q)'
<1>1. PICK k, w : WriteStep(p, k, w)
  BY ChunkIsWrite, ArmIsWrite, CustomIsWrite
<1>2. QED
  BY <1>1, BytesWrite

-----------------------------------------------------------------------------
(* The actions that take an object.                                         *)

\* The object taken is in no frame, so every open buffer is as it was.
LEMMA TakenApart ==
    ASSUME BytesInv, NEW p \in Procs, NEW kind \in Kinds, NEW w, NEW isNil,
           NEW o \in Objects, Taken(p, kind, w, isNil, o),
           NEW q \in Procs, NEW i \in 1 .. Len(frames[q]), frames'[q][i] = frames[q][i]
    PROVE  /\ err'[frames[q][i].obj] = err[frames[q][i].obj]
           /\ out'[frames[q][i].obj] = out[frames[q][i].obj]
           /\ Contents(buf[frames[q][i].obj])' = Contents(buf[frames[q][i].obj])
<1>1. i \in DOMAIN frames[q] /\ frames[q][i].obj \in Objects
  BY FrameTypes, LenProperties DEF BytesInv, TypeInv
<1>2. frames[q][i].obj # o
  <2>1. CASE o \in pool[kind]
    BY <1>1, <2>1 DEF BytesInv, Exclusive
  <2>2. CASE o \in Unused
    BY <1>1, <2>2 DEF Unused, Held
  <2>3. QED
    BY <2>1, <2>2 DEF Taken
<1>3. PICK x \in Objects : x = frames[q][i].obj
  BY <1>1
<1>4. err'[x] = err[x] /\ out'[x] = out[x] /\ buf'[x] = buf[x] /\ mem' = mem
  BY <1>2, <1>3 DEF Taken, BytesInv, TypeInv, TypeOK
<1>5. Contents(buf[x])' = Contents(buf[x])
  BY <1>4, ContentsKept
<1>6. QED
  BY <1>3, <1>4, <1>5 DEF Contents

LEMMA OutputsKept ==
    ASSUME mem' = mem, NEW q \in Procs
    PROVE  /\ ret'[q] = ret[q] => Contents(ret[q])' = Contents(ret[q])
           /\ kept'[q] = kept[q] => Contents(kept[q])' = Contents(kept[q])
BY ContentsKept

\* The object taken is ready: it writes to its own, empty, buffer.
LEMMA TakenReady ==
    ASSUME BytesInv, NEW p \in Procs, NEW kind \in Kinds \ {"encoder"},
           NEW o \in Objects, Taken(p, kind, Self, FALSE, o)
    PROVE  ~err'[o] /\ out'[o] = Self /\ Contents(buf[o])' = <<>>
<1>1. ~err'[o] /\ out'[o] = Self /\ buf'[o].len = 0 /\ buf' \in [Objects -> Slices]
      /\ mem' = mem
  BY DEF Taken, BytesInv, TypeInv, TypeOK
<1>2. buf'[o].arr # NoArray => SubSeq(mem'[buf'[o].arr], 1, 0) = <<>>
  <2>1. buf'[o].arr # NoArray => buf'[o].arr \in Arrays
    BY <1>1 DEF Slices
  <2>2. buf'[o].arr # NoArray => mem'[buf'[o].arr] \in Seq(Token)
    BY <1>1, <2>1 DEF BytesInv, TypeInv, TypeOK
  <2>3. \A m \in Seq(Token) : SubSeq(m, 1, 0) = <<>>
    OBVIOUS
  <2>4. QED
    BY <2>2, <2>3
<1>3. QED
  BY <1>1, <1>2 DEF Contents

LEMMA BytesOpen ==
    ASSUME BytesInv, NEW p \in Procs, Open(p)
    PROVE  \A q \in Procs : Bytes(q)'
<1>1. PICK kind \in {"tag", "marshal"} :
         /\ phase[p] = "run" /\ ip[p] # Len(Script[val[p]])
         /\ OpOf(p).name \in {"arm", "custom"}
         /\ Get(p, kind, Self, FALSE) /\ ip' = [ip EXCEPT ![p] = @ + 1]
         /\ UNCHANGED <<phase, val, ret, sink, kept, want, res>>
  BY DEF Open, Doing, AtEnd, Advance, caller
<1>2. kind \in Kinds \ {"encoder"} /\ TypeOK /\ Fits
  BY DEF Kinds, BytesInv, TypeInv
<1>3. PICK o \in Objects : Taken(p, kind, Self, FALSE, o)
  <2>1. kind \in Kinds /\ Self \in Procs \cup {Self} /\ FALSE \in BOOLEAN
    BY <1>2
  <2>2. QED
    BY <1>1, <1>2, <2>1, GetEffect
<1> DEFINE n == Len(frames[p])
           s == Trace[val[p]][ip[p]]
           t == Trace[val'[p]][ip'[p]]
<1>4. /\ n = Depth(p) /\ n \in Nat \ {0}
      /\ \A j \in 1 .. n : frames[p][j].kind # "encoder" =>
            Contents(buf[frames[p][j].obj]) = s[j]
  BY <1>1, Running
<1>5. /\ Len(frames'[p]) = n + 1
      /\ \A j \in 1 .. n : frames'[p][j] = frames[p][j]
      /\ frames'[p][n + 1] = [kind |-> kind, obj |-> o]
      /\ \A q \in Procs \ {p} : frames'[q] = frames[q]
  BY <1>2, <1>3, AppendFrame DEF Taken
<1>6. ASSUME NEW q \in Procs \ {p}
      PROVE  Bytes(q)'
  <2>1. Contents(ret[q])' = Contents(ret[q]) /\ Contents(kept[q])' = Contents(kept[q])
    BY <1>1, <1>3, OutputsKept DEF Taken
  <2>2. ip'[q] = ip[q]
    BY <1>1 DEF BytesInv, TypeInv, TypeOK
  <2>3. \A i \in 1 .. Len(frames[q]) :
              /\ err'[frames[q][i].obj] = err[frames[q][i].obj]
              /\ out'[frames[q][i].obj] = out[frames[q][i].obj]
              /\ Contents(buf[frames[q][i].obj])' = Contents(buf[frames[q][i].obj])
    BY <1>2, <1>3, <1>5, TakenApart
  <2>4. Bytes(q)
    BY DEF BytesInv
  <2>5. QED
    BY <1>1, <1>5, <2>1, <2>2, <2>3, <2>4, BytesFrame
<1>7. Becomes(s, OpOf(p), t) /\ Len(s) = n
  BY <1>1, <1>4, CallStep DEF BytesInv, Depth
<1>8. \A j \in 1 .. n + 1 : t[j] = IF j = n + 1 THEN <<>> ELSE s[j]
  BY <1>1, <1>7 DEF Becomes
<1>9. ASSUME NEW j \in 1 .. n + 1, frames'[p][j].kind # "encoder"
      PROVE  /\ ~err'[frames'[p][j].obj] /\ out'[frames'[p][j].obj] = Self
             /\ Contents(buf[frames[p][j].obj])' = t[j]
  <2>1. CASE j = n + 1
    <3>1. frames'[p][j].obj = o
      BY <1>5, <2>1
    <3>2. t[j] = <<>>
      BY <1>8, <2>1
    <3>3. ~err'[o] /\ out'[o] = Self /\ Contents(buf[o])' = <<>>
      BY <1>2, <1>3, TakenReady
    <3>4. QED
      BY <3>1, <3>2, <3>3 DEF Contents
  <2>2. CASE j # n + 1
    <3>1. j \in 1 .. n /\ frames'[p][j] = frames[p][j]
      BY <1>4, <1>5, <2>2
    <3>2. ~err[frames[p][j].obj] /\ out[frames[p][j].obj] = Self
      BY <1>9, <3>1 DEF BytesInv, Bytes
    <3>3. Contents(buf[frames[p][j].obj]) = s[j] /\ t[j] = s[j]
      BY <1>4, <1>8, <1>9, <2>2, <3>1
    <3>4. /\ err'[frames[p][j].obj] = err[frames[p][j].obj]
          /\ out'[frames[p][j].obj] = out[frames[p][j].obj]
          /\ Contents(buf[frames[p][j].obj])' = Contents(buf[frames[p][j].obj])
      BY <1>2, <1>3, <3>1, TakenApart
    <3>5. QED
      BY <3>1, <3>2, <3>3, <3>4 DEF Contents
  <2>3. QED
    BY <2>1, <2>2
<1>10. Live(p)' \subseteq 1 .. n + 1 /\ \A j \in Live(p)' : frames'[p][j].kind # "encoder"
  BY <1>5 DEF Live
<1>11. ~Handing(p)'
  BY <1>1 DEF Handing
<1>12. Contents(kept[p])' = want'[p]
  BY <1>1, <1>3, OutputsKept DEF Taken, BytesInv, Bytes
<1>13. Bytes(p)'
  BY <1>5, <1>9, <1>10, <1>11, <1>12 DEF Bytes
<1>14. QED
  BY <1>6, <1>13

LEMMA BytesBegin ==
    ASSUME BytesInv, NEW p \in Procs, Begin(p)
    PROVE  \A q \in Procs : Bytes(q)'
<1>1. /\ phase[p] = "idle" /\ phase' = [phase EXCEPT ![p] = "run"]
      /\ ip' = [ip EXCEPT ![p] = 0]
      /\ UNCHANGED <<ret, kept, want>>
  BY DEF Begin
<1>2. PICK v \in Values : val' = [val EXCEPT ![p] = v]
  BY DEF Begin
<1>3. PICK kind \in {"marshal", "encoder"}, w \in Procs \cup {Self}, isNil \in BOOLEAN :
         Get(p, kind, w, isNil) /\ (kind = "marshal" => w = Self /\ isNil = FALSE)
  BY DEF Begin
<1>4. kind \in Kinds /\ TypeOK /\ Fits
  BY DEF Kinds, BytesInv, TypeInv
<1>5. PICK o \in Objects : Taken(p, kind, w, isNil, o)
  BY <1>3, <1>4, GetEffect
<1>6. Len(frames[p]) = 0
  BY <1>1 DEF BytesInv, TypeInv, Shape
<1>7. /\ Len(frames'[p]) = 1
      /\ frames'[p][1] = [kind |-> kind, obj |-> o]
      /\ \A q \in Procs \ {p} : frames'[q] = frames[q]
  <2>1. /\ Len(frames'[p]) = Len(frames[p]) + 1
        /\ frames'[p][Len(frames[p]) + 1] = [kind |-> kind, obj |-> o]
        /\ \A q \in Procs \ {p} : frames'[q] = frames[q]
    BY <1>4, <1>5, AppendFrame DEF Taken
  <2>2. QED
    BY <1>6, <2>1
<1>8. ASSUME NEW q \in Procs \ {p}
      PROVE  Bytes(q)'
  <2>1. Contents(ret[q])' = Contents(ret[q]) /\ Contents(kept[q])' = Contents(kept[q])
    BY <1>1, <1>5, OutputsKept DEF Taken
  <2>2. ip'[q] = ip[q] /\ val'[q] = val[q] /\ phase'[q] = phase[q]
    BY <1>1, <1>2 DEF BytesInv, TypeInv, TypeOK
  <2>3. \A i \in 1 .. Len(frames[q]) :
              /\ err'[frames[q][i].obj] = err[frames[q][i].obj]
              /\ out'[frames[q][i].obj] = out[frames[q][i].obj]
              /\ Contents(buf[frames[q][i].obj])' = Contents(buf[frames[q][i].obj])
    BY <1>4, <1>5, <1>7, TakenApart
  <2>4. Bytes(q)
    BY DEF BytesInv
  <2>5. QED
    BY <1>1, <1>7, <2>1, <2>2, <2>3, <2>4, BytesFrame
<1>9. ASSUME kind # "encoder"
      PROVE  ~err'[o] /\ out'[o] = Self /\ Contents(buf[o])' = <<>>
  <2>1. Taken(p, kind, Self, FALSE, o) /\ kind \in Kinds \ {"encoder"}
    BY <1>3, <1>4, <1>5, <1>9
  <2>2. QED
    BY <2>1, TakenReady
<1>10. Trace[val'[p]][ip'[p]][1] = <<>>
  <2>1. val'[p] = v /\ ip'[p] = 0
    BY <1>1, <1>2 DEF BytesInv, TypeInv, TypeOK
  <2>2. QED
    BY <2>1, TraceAssumption
<1>11. Live(p)' \subseteq {1} /\ \A j \in Live(p)' : frames'[p][j].kind # "encoder"
  BY <1>7 DEF Live
<1>12. \A j \in 1 .. Len(frames'[p]) : frames'[p][j].kind # "encoder" =>
          ~err'[frames'[p][j].obj] /\ out'[frames'[p][j].obj] = Self
  BY <1>7, <1>9
<1>13. \A j \in Live(p)' : Contents(buf[frames[p][j].obj])' = Trace[val'[p]][ip'[p]][j]
  <2>1. Contents(buf[o])' = Contents(buf[frames[p][1].obj])'
    BY <1>7 DEF Contents
  <2>2. QED
    BY <1>7, <1>9, <1>10, <1>11, <2>1
<1>14. ~Handing(p)'
  BY <1>1 DEF Handing, BytesInv, TypeInv, TypeOK
<1>15. Contents(kept[p])' = want'[p]
  BY <1>1, <1>5, OutputsKept DEF Taken, BytesInv, Bytes
<1>16. Bytes(p)'
  BY <1>12, <1>13, <1>14, <1>15 DEF Bytes
<1>17. QED
  BY <1>8, <1>16

-----------------------------------------------------------------------------
(* The actions that give an object back.                                    *)

\* A step that leaves the bytes alone, seen from a call it does not touch.
LEMMA BytesOthers ==
    ASSUME BytesInv, NEW q \in Procs,
           phase'[q] = phase[q], val'[q] = val[q], ip'[q] = ip[q], frames'[q] = frames[q],
           ret'[q] = ret[q], kept'[q] = kept[q], want'[q] = want[q], mem' = mem,
           \A i \in 1 .. Len(frames[q]) :
              /\ err'[frames[q][i].obj] = err[frames[q][i].obj]
              /\ out'[frames[q][i].obj] = out[frames[q][i].obj]
              /\ buf'[frames[q][i].obj] = buf[frames[q][i].obj]
    PROVE  Bytes(q)'
<1>1. ASSUME NEW i \in 1 .. Len(frames[q])
      PROVE  Contents(buf[frames[q][i].obj])' = Contents(buf[frames[q][i].obj])
  BY <1>1 DEF Contents
<1>2. Contents(ret[q])' = Contents(ret[q]) /\ Contents(kept[q])' = Contents(kept[q])
  BY OutputsKept
<1>3. Bytes(q)
  BY DEF BytesInv
<1>4. QED
  BY <1>1, <1>2, <1>3, BytesFrame

\* A call that has lost its last frame, or is unwinding, promises nothing but
\* that the encoders it still holds have not failed.
LEMMA BytesLeaving ==
    ASSUME BytesInv, NEW p \in Procs, phase'[p] \in {"idle", "unwind"},
           Len(frames'[p]) <= Len(frames[p]),
           \A i \in 1 .. Len(frames'[p]) : i \in 1 .. Len(frames[p]) /\ frames'[p][i] = frames[p][i],
           \A i \in 1 .. Len(frames'[p]) :
              /\ err'[frames[p][i].obj] = err[frames[p][i].obj]
              /\ out'[frames[p][i].obj] = out[frames[p][i].obj],
           Contents(kept[p])' = want'[p]
    PROVE  Bytes(p)'
<1>1. \A i \in 1 .. Len(frames'[p]) : frames'[p][i].kind # "encoder" =>
         ~err'[frames'[p][i].obj] /\ out'[frames'[p][i].obj] = Self
  BY DEF BytesInv, Bytes
<1>2. ~Handing(p)' /\ phase'[p] \notin {"run", "put", "copy"}
  BY DEF Handing
<1>3. QED
  BY <1>1, <1>2 DEF Bytes

LEMMA BytesPutArm ==
    ASSUME BytesInv, NEW p \in Procs, PutArm(p)
    PROVE  \A q \in Procs : Bytes(q)'
<1>1. /\ phase[p] = "put" /\ Top(p).kind = "tag" /\ Put(p)
      /\ UNCHANGED <<buf, err, out, mem, val, ip, ret, kept, want>>
      /\ \A q \in Procs \ {p} : phase'[q] = phase[q]
      /\ phase'[p] \in {"run", "unwind"}
  BY DEF PutArm, heap, caller, BytesInv, TypeInv, TypeOK
<1>2. /\ Len(frames[p]) = Depth(p) + 1 /\ Depth(p) \in Nat \ {0}
      /\ Len(frames[p]) > 0
  BY <1>1, CallFacts DEF BytesInv, TypeInv, Shape
<1>3. /\ Len(frames'[p]) = Len(frames[p]) - 1
      /\ \A i \in 1 .. Len(frames[p]) - 1 : frames'[p][i] = frames[p][i]
      /\ \A q \in Procs \ {p} : frames'[q] = frames[q]
  BY <1>1, <1>2, PutEffect DEF BytesInv, TypeInv, TypeOK
<1>4. ASSUME NEW q \in Procs \ {p}
      PROVE  Bytes(q)'
  BY <1>1, <1>3, BytesOthers
<1>5. Depth(p)' = Depth(p)
  BY <1>1 DEF Depth
<1>6. ASSUME NEW j \in Live(p)'
      PROVE  j \in Live(p) /\ frames'[p][j] = frames[p][j]
  BY <1>1, <1>2, <1>3, <1>5 DEF Live
<1>7. ASSUME NEW j \in Live(p)'
      PROVE  Contents(buf[frames[p][j].obj])' = Trace[val'[p]][ip'[p]][j]
  <2>1. Contents(buf[frames[p][j].obj]) = Trace[val[p]][ip[p]][j]
    BY <1>1, <1>6 DEF BytesInv, Bytes
  <2>2. QED
    BY <1>1, <1>6, <2>1 DEF Contents
<1>8. ~Handing(p)'
  BY <1>1 DEF Handing
<1>9. \A i \in 1 .. Len(frames'[p]) : frames'[p][i].kind # "encoder" =>
         ~err'[frames'[p][i].obj] /\ out'[frames'[p][i].obj] = Self
  BY <1>1, <1>2, <1>3 DEF BytesInv, Bytes
<1>10. Contents(kept[p])' = want'[p]
  BY <1>1, OutputsKept DEF BytesInv, Bytes
<1>11. Bytes(p)'
  BY <1>7, <1>8, <1>9, <1>10 DEF Bytes
<1>12. QED
  BY <1>4, <1>11

LEMMA BytesTakeOutput ==
    ASSUME BytesInv, NEW p \in Procs, TakeOutput(p)
    PROVE  \A q \in Procs : Bytes(q)'
<1> DEFINE n == Len(frames[p])
<1>1. /\ phase[p] = "run" /\ Top(p).kind = "marshal"
      /\ ret' = [ret EXCEPT ![p] = buf[Top(p).obj]]
      /\ buf' = [buf EXCEPT ![Top(p).obj] = NoSlice]
      /\ phase' = [phase EXCEPT ![p] = "put"]
      /\ UNCHANGED <<err, out, mem, val, ip, frames, kept, want>>
  BY DEF TakeOutput, Forgotten, caller
<1>2. /\ n = Depth(p) /\ n \in Nat \ {0} /\ Top(p) = frames[p][n]
      /\ \A j \in 1 .. n : frames[p][j].kind # "encoder" =>
            Contents(buf[frames[p][j].obj]) = Trace[val[p]][ip[p]][j]
  BY <1>1, Running
<1>3. \A q \in Procs : \A i \in 1 .. Len(frames[q]) :
         q # p \/ i # n => buf'[frames[q][i].obj] = buf[frames[q][i].obj]
  <2>1. n \in 1 .. Len(frames[p])
    BY <1>2
  <2>2. \A q \in Procs : \A i \in 1 .. Len(frames[q]) : frames[q][i].obj \in Objects
    BY FrameTypes DEF BytesInv, TypeInv
  <2>3. \A q \in Procs : \A i \in 1 .. Len(frames[q]) :
           q # p \/ i # n => frames[q][i].obj # frames[p][n].obj
    BY <2>1, FramesApart
  <2>4. QED
    BY <1>1, <1>2, <2>2, <2>3 DEF BytesInv, TypeInv, TypeOK
<1>4. ASSUME NEW q \in Procs \ {p}
      PROVE  Bytes(q)'
  <2>1. phase'[q] = phase[q] /\ ret'[q] = ret[q]
    BY <1>1 DEF BytesInv, TypeInv, TypeOK
  <2>2. QED
    BY <1>1, <1>3, <2>1, BytesOthers
<1>5. Depth(p)' = Depth(p) /\ Top(p)' = Top(p) /\ phase'[p] = "put"
  BY <1>1 DEF Depth, Top, BytesInv, TypeInv, TypeOK
<1>6. ASSUME NEW j \in Live(p)'
      PROVE  j \in 1 .. n /\ j # n /\ frames[p][j].kind # "encoder"
  BY <1>1, <1>5 DEF Live
<1>7. ASSUME NEW j \in Live(p)'
      PROVE  Contents(buf[frames[p][j].obj])' = Trace[val'[p]][ip'[p]][j]
  <2>1. Contents(buf[frames[p][j].obj]) = Trace[val[p]][ip[p]][j]
    BY <1>2, <1>6
  <2>2. buf'[frames[p][j].obj] = buf[frames[p][j].obj]
    BY <1>3, <1>6
  <2>3. QED
    BY <1>1, <2>1, <2>2 DEF Contents
<1>8. Contents(ret[p])' = Trace[val'[p]][ip'[p]][Depth(p)']
  <2>1. ret'[p] = buf[frames[p][n].obj]
    BY <1>1, <1>2 DEF BytesInv, TypeInv, TypeOK
  <2>2. Contents(buf[frames[p][n].obj]) = Trace[val[p]][ip[p]][n]
    BY <1>1, <1>2
  <2>3. QED
    BY <1>1, <1>2, <1>5, <2>1, <2>2 DEF Contents
<1>9. \A i \in 1 .. Len(frames'[p]) : frames'[p][i].kind # "encoder" =>
         ~err'[frames'[p][i].obj] /\ out'[frames'[p][i].obj] = Self
  BY <1>1 DEF BytesInv, Bytes
<1>10. Contents(kept[p])' = want'[p]
  BY <1>1, OutputsKept DEF BytesInv, Bytes
<1>11. Bytes(p)'
  BY <1>7, <1>8, <1>9, <1>10 DEF Bytes
<1>12. QED
  BY <1>4, <1>11

LEMMA BytesPutMarshal ==
    ASSUME BytesInv, NEW p \in Procs, PutMarshal(p)
    PROVE  \A q \in Procs : Bytes(q)'
<1>1. /\ phase[p] = "put" /\ Top(p).kind = "marshal" /\ Put(p)
      /\ UNCHANGED <<buf, err, out, mem, val, ip>>
      /\ \A q \in Procs \ {p} :
            phase'[q] = phase[q] /\ ret'[q] = ret[q] /\ kept'[q] = kept[q] /\ want'[q] = want[q]
  BY DEF PutMarshal, heap, caller, BytesInv, TypeInv, TypeOK
<1>2. /\ Len(frames[p]) = Depth(p) /\ Depth(p) \in Nat \ {0} /\ Len(frames[p]) > 0
      /\ Contents(ret[p]) = Trace[val[p]][ip[p]][Depth(p)]
  BY <1>1, CallFacts DEF BytesInv, TypeInv, Shape, Bytes, Handing
<1>3. /\ Len(frames'[p]) = Len(frames[p]) - 1
      /\ \A i \in 1 .. Len(frames[p]) - 1 : frames'[p][i] = frames[p][i]
      /\ \A q \in Procs \ {p} : frames'[q] = frames[q]
  BY <1>1, <1>2, PutEffect DEF BytesInv, TypeInv, TypeOK
<1>4. ASSUME NEW q \in Procs \ {p}
      PROVE  Bytes(q)'
  BY <1>1, <1>3, <1>4, BytesOthers
<1>5. \A i \in 1 .. Len(frames'[p]) : frames'[p][i].kind # "encoder" =>
         ~err'[frames'[p][i].obj] /\ out'[frames'[p][i].obj] = Self
  BY <1>1, <1>2, <1>3 DEF BytesInv, Bytes
<1>6. Depth(p)' = Depth(p)
  BY <1>1 DEF Depth
<1>7. ASSUME phase' = [phase EXCEPT ![p] = "copy"], UNCHANGED <<ret, caller>>
      PROVE  Bytes(p)'
  <2>1. phase'[p] = "copy" /\ ret' = ret /\ kept' = kept /\ want' = want
    BY <1>7 DEF caller, BytesInv, TypeInv, TypeOK
  <2>2. ASSUME NEW j \in Live(p)'
        PROVE  j \in Live(p) /\ frames'[p][j] = frames[p][j]
    BY <1>1, <1>2, <1>3, <1>6 DEF Live
  <2>3. ASSUME NEW j \in Live(p)'
        PROVE  Contents(buf[frames[p][j].obj])' = Trace[val'[p]][ip'[p]][j]
    <3>1. Contents(buf[frames[p][j].obj]) = Trace[val[p]][ip[p]][j]
      BY <1>1, <2>2 DEF BytesInv, Bytes
    <3>2. QED
      BY <1>1, <2>2, <3>1 DEF Contents
  <2>4. Contents(ret[p])' = Trace[val'[p]][ip'[p]][Depth(p)']
    BY <1>1, <1>2, <1>6, <2>1, OutputsKept
  <2>5. Contents(kept[p])' = want'[p]
    BY <1>1, <2>1, OutputsKept DEF BytesInv, Bytes
  <2>6. QED
    BY <1>5, <2>3, <2>4, <2>5 DEF Bytes
<1>8. ASSUME Len(frames[p]) = 1, phase' = [phase EXCEPT ![p] = "idle"],
             kept' = [kept EXCEPT ![p] = ret[p]],
             want' = [want EXCEPT ![p] = Wire(val[p])]
      PROVE  Bytes(p)'
  <2>1. phase'[p] = "idle" /\ kept'[p] = ret[p] /\ want'[p] = Wire(val[p])
    BY <1>8 DEF BytesInv, TypeInv, TypeOK
  <2>2. ip[p] = Len(Script[val[p]])
    BY <1>1, <1>8 DEF BytesInv, TypeInv, Shape, AtEnd
  <2>3. Contents(ret[p]) = Wire(val[p])
    BY <1>2, <1>8, <2>2 DEF Wire
  <2>4. Contents(kept[p])' = want'[p]
    BY <1>1, <2>1, <2>3 DEF Contents
  <2>5. ~Handing(p)'
    BY <2>1 DEF Handing
  <2>6. QED
    BY <1>5, <2>1, <2>4, <2>5 DEF Bytes
<1>9. Bytes(p)'
  BY <1>7, <1>8 DEF PutMarshal
<1>10. QED
  BY <1>4, <1>9

LEMMA BytesEndTo ==
    ASSUME BytesInv, NEW p \in Procs, EndTo(p)
    PROVE  \A q \in Procs : Bytes(q)'
<1>1. /\ phase[p] = "run" /\ Put(p)
      /\ phase' = [phase EXCEPT ![p] = "idle"]
      /\ UNCHANGED <<buf, err, out, mem, val, ip, ret, kept, want>>
  BY DEF EndTo, heap
<1>2. Len(frames[p]) > 0 /\ Len(frames[p]) \in Nat
  BY <1>1, FrameTypes DEF BytesInv, TypeInv, Shape
<1>3. /\ Len(frames'[p]) = Len(frames[p]) - 1
      /\ \A i \in 1 .. Len(frames[p]) - 1 : frames'[p][i] = frames[p][i]
      /\ \A q \in Procs \ {p} : frames'[q] = frames[q]
  BY <1>1, <1>2, PutEffect DEF BytesInv, TypeInv, TypeOK
<1>4. ASSUME NEW q \in Procs \ {p}
      PROVE  Bytes(q)'
  <2>1. phase'[q] = phase[q]
    BY <1>1 DEF BytesInv, TypeInv, TypeOK
  <2>2. QED
    BY <1>1, <1>3, <2>1, BytesOthers
<1>5. Contents(kept[p])' = want'[p] /\ phase'[p] = "idle"
  BY <1>1, OutputsKept DEF BytesInv, Bytes, TypeInv, TypeOK
<1>6. Len(frames'[p]) <= Len(frames[p]) /\ \A i \in 1 .. Len(frames'[p]) : i \in 1 .. Len(frames[p])
  BY <1>2, <1>3
<1>7. Bytes(p)'
  BY <1>1, <1>3, <1>5, <1>6, BytesLeaving
<1>8. QED
  BY <1>4, <1>7

LEMMA BytesFail ==
    ASSUME BytesInv, NEW p \in Procs, Fail(p)
    PROVE  \A q \in Procs : Bytes(q)'
<1>1. /\ phase' = [phase EXCEPT ![p] = "unwind"]
      /\ UNCHANGED <<buf, err, out, mem, val, ip, frames, ret, kept, want>>
  BY DEF Fail, heap, caller
<1>2. ASSUME NEW q \in Procs \ {p}
      PROVE  Bytes(q)'
  <2>1. phase'[q] = phase[q]
    BY <1>1 DEF BytesInv, TypeInv, TypeOK
  <2>2. QED
    BY <1>1, <2>1, BytesOthers
<1>3. Contents(kept[p])' = want'[p] /\ phase'[p] = "unwind" /\ Len(frames[p]) \in Nat
  BY <1>1, OutputsKept, FrameTypes DEF BytesInv, Bytes, TypeInv, TypeOK
<1>4. Bytes(p)'
  BY <1>1, <1>3, BytesLeaving
<1>5. QED
  BY <1>2, <1>4

LEMMA BytesUnwind ==
    ASSUME BytesInv, NEW p \in Procs, Unwind(p)
    PROVE  \A q \in Procs : Bytes(q)'
<1> DEFINE n == Len(frames[p])
<1>1. /\ phase[p] = "unwind" /\ Put(p)
      /\ buf' = buf \/ buf' = [buf EXCEPT ![Top(p).obj] = NoSlice]
      /\ \A q \in Procs \ {p} : phase'[q] = phase[q]
      /\ phase'[p] \in {"idle", "unwind"}
      /\ UNCHANGED <<err, out, mem, val, ip, ret, kept, want>>
  BY DEF Unwind, Forgotten, BytesInv, TypeInv, TypeOK
<1>2. n > 0 /\ n \in Nat
  BY <1>1, FrameTypes DEF BytesInv, TypeInv, Shape
<1>3. /\ Len(frames'[p]) = n - 1
      /\ \A i \in 1 .. n - 1 : frames'[p][i] = frames[p][i]
      /\ \A q \in Procs \ {p} : frames'[q] = frames[q]
  BY <1>1, <1>2, PutEffect DEF BytesInv, TypeInv, TypeOK
<1>4. n \in 1 .. Len(frames[p]) /\ Top(p) = frames[p][n]
  BY <1>2, FrameTypes DEF BytesInv, TypeInv
<1>5. ASSUME NEW q \in Procs \ {p}
      PROVE  Bytes(q)'
  <2>1. \A i \in 1 .. Len(frames[q]) :
           frames[q][i].obj \in Objects /\ frames[q][i].obj # frames[p][n].obj
    BY <1>4, FrameTypes, FramesApart DEF BytesInv, TypeInv
  <2>2. \A i \in 1 .. Len(frames[q]) : buf'[frames[q][i].obj] = buf[frames[q][i].obj]
    BY <1>1, <1>4, <2>1 DEF BytesInv, TypeInv, TypeOK
  <2>3. QED
    BY <1>1, <1>3, <2>2, BytesOthers
<1>6. Contents(kept[p])' = want'[p]
  BY <1>1, OutputsKept DEF BytesInv, Bytes
<1>7. Len(frames'[p]) <= Len(frames[p]) /\ \A i \in 1 .. Len(frames'[p]) : i \in 1 .. Len(frames[p])
  BY <1>2, <1>3
<1>8. Bytes(p)'
  BY <1>1, <1>3, <1>6, <1>7, BytesLeaving
<1>9. QED
  BY <1>5, <1>8

LEMMA BytesPanic ==
    ASSUME BytesInv, NEW p \in Procs, Panic(p)
    PROVE  \A q \in Procs : Bytes(q)'
<1>1. /\ Collect(Held(p))
      /\ frames' = [frames EXCEPT ![p] = <<>>]
      /\ phase' = [phase EXCEPT ![p] = "idle"]
      /\ UNCHANGED <<mem, val, ip, ret, kept, want>>
  BY DEF Panic
<1>2. ASSUME NEW q \in Procs \ {p}
      PROVE  Bytes(q)'
  <2>1. phase'[q] = phase[q] /\ frames'[q] = frames[q]
    BY <1>1 DEF BytesInv, TypeInv, TypeOK
  <2>2. \A i \in 1 .. Len(frames[q]) : frames[q][i].obj \in Objects \ Held(p)
    BY HeldApart
  <2>3. \A x \in Objects \ Held(p) : buf'[x] = buf[x] /\ err'[x] = err[x] /\ out'[x] = out[x]
    BY <1>1 DEF Collect
  <2>4. QED
    BY <1>1, <2>1, <2>2, <2>3, BytesOthers
<1>3. Contents(kept[p])' = want'[p] /\ phase'[p] = "idle" /\ frames'[p] = <<>>
  BY <1>1, OutputsKept DEF BytesInv, Bytes, TypeInv, TypeOK
<1>4. Bytes(p)'
  BY <1>3 DEF Bytes, Handing
<1>5. QED
  BY <1>2, <1>4

-----------------------------------------------------------------------------
(* The garbage collector and the callers.                                   *)

LEMMA BytesEvict ==
    ASSUME BytesInv, Evict
    PROVE  \A q \in Procs : Bytes(q)'
<1>1. UNCHANGED <<mem, phase, val, ip, frames, ret, kept, want>>
  BY DEF Evict, call, caller
<1>2. PICK k \in Kinds : \E o \in pool[k] : Collect({o})
  BY DEF Evict
<1>3. PICK o \in pool[k] : Collect({o})
  BY <1>2
<1>4. ASSUME NEW q \in Procs
      PROVE  Bytes(q)'
  <2>1. \A i \in 1 .. Len(frames[q]) : frames[q][i].obj \in Objects /\ frames[q][i].obj # o
    <3>1. DOMAIN frames[q] = 1 .. Len(frames[q])
      BY FrameTypes, LenProperties DEF BytesInv, TypeInv
    <3>2. QED
      BY <3>1, FrameTypes DEF BytesInv, TypeInv, Exclusive
  <2>2. \A x \in Objects \ {o} : buf'[x] = buf[x] /\ err'[x] = err[x] /\ out'[x] = out[x]
    BY <1>3 DEF Collect
  <2>3. QED
    BY <1>1, <2>1, <2>2, BytesOthers
<1>5. QED
  BY <1>4

LEMMA BytesScribble ==
    ASSUME BytesInv, NEW p \in Procs, Scribble(p)
    PROVE  \A q \in Procs : Bytes(q)'
<1> DEFINE a == kept[p].arr
<1>1. /\ a # NoArray
      /\ mem' = [mem EXCEPT ![a] = [i \in DOMAIN @ |-> Junk]]
      /\ want' = [want EXCEPT ![p] = [i \in DOMAIN @ |-> Junk]]
      /\ UNCHANGED <<buf, err, out, phase, val, ip, frames, ret, kept>>
  BY DEF Scribble, call
<1>2. a \in Arrays /\ Unshared /\ TypeOK /\ Fits
  BY <1>1 DEF BytesInv, TypeInv, TypeOK, Slices
<1>3. \A b \in Arrays \ {a} : mem'[b] = mem[b]
  BY <1>1, <1>2 DEF TypeOK
<1>4. \A x \in Objects : Contents(buf[x])' = Contents(buf[x])
  <2>1. \A x \in Objects : buf[x].arr # a /\ buf[x].arr \in Arrays \cup {NoArray}
    BY <1>1, <1>2 DEF Unshared, TypeOK, Slices
  <2>2. QED
    BY <1>1, <1>3, <2>1, ContentsKept
<1>5. \A q \in Procs : Contents(ret[q])' = Contents(ret[q])
  <2>1. \A q \in Procs : ret[q].arr # a /\ ret[q].arr \in Arrays \cup {NoArray}
    BY <1>1, <1>2 DEF Unshared, TypeOK, Slices
  <2>2. QED
    BY <1>1, <1>3, <2>1, ContentsKept
<1>6. ASSUME NEW q \in Procs \ {p}
      PROVE  Contents(kept[q])' = Contents(kept[q]) /\ want'[q] = want[q]
  <2>1. kept[q].arr # a /\ kept[q].arr \in Arrays \cup {NoArray}
    BY <1>1, <1>2 DEF Unshared, TypeOK, Slices
  <2>2. Contents(kept[q])' = Contents(kept[q])
    BY <1>1, <1>3, <2>1, ContentsKept
  <2>3. QED
    BY <1>1, <1>2, <2>2 DEF TypeOK
<1>7. ASSUME NEW q \in Procs
      PROVE  \A i \in 1 .. Len(frames[q]) :
                Contents(buf[frames[q][i].obj])' = Contents(buf[frames[q][i].obj])
  <2>1. ASSUME NEW i \in 1 .. Len(frames[q])
        PROVE  Contents(buf[frames[q][i].obj])' = Contents(buf[frames[q][i].obj])
    <3>1. PICK x \in Objects : x = frames[q][i].obj
      BY <1>2, FrameTypes
    <3>2. Contents(buf[x])' = Contents(buf[x])
      BY <1>4
    <3>3. QED
      BY <1>1, <3>1, <3>2 DEF Contents
  <2>2. QED
    BY <2>1
<1>8. ASSUME NEW q \in Procs \ {p}
      PROVE  Bytes(q)'
  <2>1. Bytes(q)
    BY DEF BytesInv
  <2>2. QED
    BY <1>1, <1>5, <1>6, <1>7, <2>1, BytesFrame
<1>9. Contents(kept[p])' = want'[p]
  <2>1. /\ Contents(kept[p]) = want[p]
        /\ kept[p] \in Slices /\ kept[p].len <= Len(mem[a]) /\ mem[a] \in Seq(Token)
    BY <1>1, <1>2 DEF BytesInv, Bytes, TypeOK, Fits, InBounds
  <2>2. kept[p].len \in 0 .. Len(mem[a])
    BY <2>1 DEF Slices
  <2>3. want[p] = SubSeq(mem[a], 1, kept[p].len)
    BY <1>1, <2>1 DEF Contents
  <2>4. want'[p] = [i \in DOMAIN want[p] |-> Junk]
    BY <1>1, <1>2 DEF TypeOK
  <2>5. mem'[a] = [i \in DOMAIN mem[a] |-> Junk]
    BY <1>1, <1>2 DEF TypeOK
  <2>6. ASSUME NEW m \in Seq(Token), NEW k \in 0 .. Len(m)
        PROVE  SubSeq([i \in DOMAIN m |-> Junk], 1, k) = [i \in DOMAIN SubSeq(m, 1, k) |-> Junk]
    <3>1. DOMAIN m = 1 .. Len(m) /\ Len(m) \in Nat
      BY LenProperties
    <3>2. SubSeq(m, 1, k) \in Seq(Token) /\ Len(SubSeq(m, 1, k)) = k
      BY PrefixOfSeq
    <3>3. DOMAIN SubSeq(m, 1, k) = 1 .. k
      BY <3>2, LenProperties
    <3>4. SubSeq([i \in 1 .. Len(m) |-> Junk], 1, k) = [i \in 1 .. k |-> Junk]
      <4>1. SubSeq([i \in 1 .. Len(m) |-> Junk], 1, k)
               = [i \in 1 .. k |-> [j \in 1 .. Len(m) |-> Junk][1 + i - 1]]
        BY <3>1
      <4>2. \A i \in 1 .. k : [j \in 1 .. Len(m) |-> Junk][1 + i - 1] = Junk
        BY <3>1
      <4>3. QED
        BY <4>1, <4>2
    <3>5. QED
      BY <3>1, <3>3, <3>4
  <2>7. SubSeq(mem'[a], 1, kept[p].len) = want'[p]
    BY <2>1, <2>2, <2>3, <2>4, <2>5, <2>6
  <2>8. QED
    BY <1>1, <2>7 DEF Contents
<1>10. Bytes(p)'
  <2>1. /\ Live(p)' = Live(p) /\ Depth(p)' = Depth(p) /\ Handing(p)' = Handing(p)
        /\ Live(p) \subseteq 1 .. Len(frames[p])
    BY <1>1 DEF Live, Depth, Top, Handing
  <2>2. \A j \in 1 .. Len(frames'[p]) : frames'[p][j].kind # "encoder" =>
           ~err'[frames'[p][j].obj] /\ out'[frames'[p][j].obj] = Self
    BY <1>1 DEF BytesInv, Bytes
  <2>3. phase'[p] \in {"run", "put", "copy"} => \A j \in Live(p)' :
           Contents(buf[frames[p][j].obj])' = Trace[val'[p]][ip'[p]][j]
    BY <1>1, <1>7, <2>1 DEF BytesInv, Bytes
  <2>4. Handing(p)' => Contents(ret[p])' = Trace[val'[p]][ip'[p]][Depth(p)']
    BY <1>1, <1>5, <2>1 DEF BytesInv, Bytes
  <2>5. QED
    BY <1>9, <2>2, <2>3, <2>4 DEF Bytes
<1>11. QED
  BY <1>8, <1>10

LEMMA BytesForget ==
    ASSUME BytesInv, NEW p \in Procs, Forget(p)
    PROVE  \A q \in Procs : Bytes(q)'
<1>1. /\ kept' = [kept EXCEPT ![p] = NoSlice] /\ want' = [want EXCEPT ![p] = <<>>]
      /\ UNCHANGED <<buf, err, out, mem, phase, val, ip, frames, ret>>
  BY DEF Forget, heap, call
<1>2. ASSUME NEW q \in Procs \ {p}
      PROVE  Bytes(q)'
  <2>1. kept'[q] = kept[q] /\ want'[q] = want[q]
    BY <1>1 DEF BytesInv, TypeInv, TypeOK
  <2>2. QED
    BY <1>1, <2>1, BytesOthers
<1>3. Contents(kept[p])' = want'[p]
  BY <1>1 DEF BytesInv, TypeInv, TypeOK, Contents, NoSlice
<1>4. /\ Live(p)' = Live(p) /\ Depth(p)' = Depth(p) /\ Handing(p)' = Handing(p)
  BY <1>1 DEF Live, Depth, Top, Handing
<1>5. Bytes(p)'
  <2>1. phase'[p] \in {"run", "put", "copy"} => \A j \in Live(p)' :
           Contents(buf[frames[p][j].obj])' = Trace[val'[p]][ip'[p]][j]
    BY <1>1, <1>4 DEF BytesInv, Bytes, Contents
  <2>2. Handing(p)' => Contents(ret[p])' = Trace[val'[p]][ip'[p]][Depth(p)']
    BY <1>1, <1>4 DEF BytesInv, Bytes, Contents
  <2>3. \A j \in 1 .. Len(frames'[p]) : frames'[p][j].kind # "encoder" =>
           ~err'[frames'[p][j].obj] /\ out'[frames'[p][j].obj] = Self
    BY <1>1 DEF BytesInv, Bytes
  <2>4. QED
    BY <1>3, <2>1, <2>2, <2>3 DEF Bytes
<1>6. QED
  BY <1>2, <1>5

-----------------------------------------------------------------------------
LEMMA BytesStep ==
    ASSUME BytesInv, [Next]_vars
    PROVE  BytesInv'
<1>1. TypeInv' /\ Exclusive' /\ Unshared'
  BY TypeStep, ExclusiveStep, UnsharedNext DEF BytesInv
<1>2. CASE UNCHANGED vars
  <2>1. UNCHANGED <<buf, err, out, mem, phase, val, ip, frames, ret, kept, want>>
    BY <1>2 DEF vars, heap, call, caller
  <2>2. \A q \in Procs : Bytes(q)'
    BY <2>1, BytesOthers
  <2>3. QED
    BY <1>1, <2>2 DEF BytesInv
<1>3. CASE Evict
  BY <1>1, <1>3, BytesEvict DEF BytesInv
<1>4. ASSUME NEW p \in Procs, Begin(p) \/ Encode(p) \/ Scribble(p) \/ Forget(p)
      PROVE  \A q \in Procs : Bytes(q)'
  BY <1>4, BytesBegin, BytesWrites, BytesOpen, BytesPutArm,
     BytesTakeOutput, BytesPutMarshal, BytesEndTo, BytesFail, BytesUnwind,
     BytesPanic, BytesScribble, BytesForget DEF Encode
<1>5. QED
  BY <1>1, <1>2, <1>3, <1>4 DEF Next, BytesInv

LEMMA BytesInit ==
    ASSUME Init
    PROVE  BytesInv
<1>1. TypeInv
  BY TypeInit
<1>2. Exclusive /\ Unshared
  BY EmptySeq DEF Init, Exclusive, Unshared, NoSlice
<1>3. \A p \in Procs : Bytes(p)
  BY EmptySeq DEF Init, Bytes, Handing, Contents, NoSlice
<1>4. QED
  BY <1>1, <1>2, <1>3 DEF BytesInv

LEMMA BytesHold == Spec => []BytesInv
<1>1. Init => BytesInv
  BY BytesInit
<1>2. BytesInv /\ [Next]_vars => BytesInv'
  BY BytesStep
<1>3. QED
  BY <1>1, <1>2, PTL DEF Spec

\* While a call runs, each of its open buffers holds exactly what its codecs
\* wrote, whatever the other goroutines and the pools do.
THEOREM BuffersHoldTheirBytes == Spec => []HeldBytes
<1>1. BytesInv => HeldBytes
  <2>1. SUFFICES ASSUME BytesInv, NEW p \in Procs, phase[p] = "run",
                        NEW i \in DOMAIN frames[p], frames[p][i].kind # "encoder"
                 PROVE  Contents(buf[frames[p][i].obj]) = Trace[val[p]][ip[p]][i]
    BY DEF HeldBytes
  <2>2. i \in 1 .. Len(frames[p])
    BY <2>1, FrameTypes, LenProperties DEF BytesInv, TypeInv
  <2>3. QED
    BY <2>1, <2>2, Running
<1>2. QED
  BY <1>1, BytesHold, PTL

\* What Marshal returned is the bytes of the value, and stays so until its
\* caller changes it.
THEOREM OutputsStable == Spec => []OutputStable
<1>1. BytesInv => OutputStable
  BY DEF BytesInv, Bytes, OutputStable
<1>2. QED
  BY <1>1, BytesHold, PTL

-----------------------------------------------------------------------------
(* The trace of a value: what is written first stays.                       *)

LEMMA TraceFirst ==
    ASSUME NEW v \in Values, NEW i \in 0 .. Len(Script[v])
    PROVE  /\ Trace[v][i][1] \in Seq(Token)
           /\ Wire(v) \in Seq(Token)
<1>1. Trace[v][i] \in Seq(Seq(Token)) /\ Len(Trace[v][i]) \in Nat \ {0}
  BY TraceDepth
<1>2. QED
  BY <1>1, WireType

LEMMA TraceGrows ==
    ASSUME NEW v \in Values, NEW i \in 0 .. Len(Script[v]), i < Len(Script[v])
    PROVE  IsPrefix(Trace[v][i][1], Trace[v][i + 1][1])
<1> DEFINE s == Trace[v][i]
           t == Trace[v][i + 1]
           op == Script[v][i + 1]
<1>1. /\ s \in Seq(Seq(Token)) /\ Len(s) \in Nat \ {0}
      /\ op \in Op /\ t = PureStep(s, op)
  BY TraceDepth
<1>2. Becomes(s, op, t)
  BY <1>1, PureStepBecomes
<1>3. Len(t) \in Nat \ {0}
  <2>1. Len(Script[v]) \in Nat
    BY TraceDepth
  <2>2. i + 1 \in 0 .. Len(Script[v])
    BY <2>1
  <2>3. QED
    BY <2>2, TraceDepth
<1>a. s = Trace[v][i] /\ t = Trace[v][i + 1]
  OBVIOUS
<1> HIDE DEF s, t, op
<1>4. op.name \in {"endarm", "endcustom"} => Len(t) = Len(s) - 1
  BY <1>1, PureStepDepth
<1>5. s[1] \in Seq(Token) /\ s[Len(s)] \in Seq(Token)
  BY ONLY <1>1
<1>6. op.arg \in Nat
  BY <1>1 DEF Op
<1>7. ASSUME t[1] = s[1] \/ \E w \in Seq(Token) : t[1] = s[1] \o w
      PROVE  IsPrefix(s[1], t[1])
  <2>1. CASE t[1] = s[1]
    <3>1. IsPrefix(s[1], s[1])
      BY <1>5, PrefixOrder
    <3>2. QED
      BY <2>1, <3>1
  <2>2. ASSUME NEW w \in Seq(Token), t[1] = s[1] \o w
        PROVE  IsPrefix(s[1], t[1])
    <3>1. 0 \in 0 .. Len(w)
      BY LenProperties
    <3>2. IsPrefix(s[1], s[1] \o w)
      BY <1>5, <3>1, PrefixAppended
    <3>3. QED
      BY <2>2, <3>2
  <2>3. QED
    BY <1>7, <2>1, <2>2
<1>8. /\ Data(op.arg) \in Seq(Token) /\ Tagged(0, <<>>) \in Seq(Token)
      /\ Tagged(op.arg, s[Len(s)]) \in Seq(Token) /\ Sized(s[Len(s)]) \in Seq(Token)
  BY <1>5, <1>6, TokenTypes, EmptySeq
<1>9. ASSUME op.name \in {"arm", "custom"}
      PROVE  t[1] = s[1]
  <2>1. \A j \in 1 .. Len(s) + 1 : t[j] = IF j = Len(s) + 1 THEN <<>> ELSE s[j]
    BY <1>2, <1>9 DEF Becomes
  <2>2. Len(s) \in Nat \ {0}
    BY <1>1
  <2>3. 1 \in 1 .. Len(s) + 1 /\ ~(1 = Len(s) + 1)
    BY ONLY <2>2
  <2>4. QED
    BY ONLY <2>1, <2>3
<1>10. ASSUME op.name = "write"
      PROVE  t[1] = s[1] \o Data(op.arg) \/ t[1] = s[1]
  <2>1. 1 \in 1 .. Len(s)
    BY <1>1, <1>3, <1>4, <1>10
  <2>2. \A j \in 1 .. Len(s) : t[j] = IF j = Len(s) THEN s[j] \o Data(op.arg) ELSE s[j]
    BY <1>2, <1>10 DEF Becomes
  <2>3. QED
    BY ONLY <2>1, <2>2
<1>11. ASSUME op.name = "none"
      PROVE  t[1] = s[1] \o Tagged(0, <<>>) \/ t[1] = s[1]
  <2>1. 1 \in 1 .. Len(s)
    BY <1>1, <1>3, <1>4, <1>11
  <2>2. \A j \in 1 .. Len(s) : t[j] = IF j = Len(s) THEN s[j] \o Tagged(0, <<>>) ELSE s[j]
    BY <1>2, <1>11 DEF Becomes
  <2>3. QED
    BY ONLY <2>1, <2>2
<1>12. ASSUME op.name = "endarm"
      PROVE  t[1] = s[1] \o Tagged(op.arg, s[Len(s)]) \/ t[1] = s[1]
  <2>1. 1 \in 1 .. Len(s) - 1
    BY <1>1, <1>3, <1>4, <1>12
  <2>2. \A j \in 1 .. Len(s) - 1 : t[j] = IF j = Len(s) - 1 THEN s[j] \o Tagged(op.arg, s[Len(s)]) ELSE s[j]
    BY <1>2, <1>12 DEF Becomes
  <2>3. QED
    BY ONLY <2>1, <2>2
<1>13. ASSUME op.name = "endcustom"
      PROVE  t[1] = s[1] \o Sized(s[Len(s)]) \/ t[1] = s[1]
  <2>1. 1 \in 1 .. Len(s) - 1
    BY <1>1, <1>3, <1>4, <1>13
  <2>2. \A j \in 1 .. Len(s) - 1 : t[j] = IF j = Len(s) - 1 THEN s[j] \o Sized(s[Len(s)]) ELSE s[j]
    BY <1>2, <1>13 DEF Becomes
  <2>3. QED
    BY ONLY <2>1, <2>2
<1>14. op.name \in {"fail", "panic"} => t = s
  BY <1>1 DEF PureStep
<1>15. op.name \in {"write", "none", "arm", "endarm", "custom", "endcustom", "fail", "panic"}
  BY <1>1 DEF Op
<1>16. t[1] = s[1] \/ \E w \in Seq(Token) : t[1] = s[1] \o w
  BY <1>8, <1>9, <1>10, <1>11, <1>12, <1>13, <1>14, <1>15
<1>17. QED
  BY <1>a, <1>7, <1>16

\* The bytes written so far are the first bytes of the value's encoding.
LEMMA TraceOfWire ==
    ASSUME NEW v \in Values, NEW i \in 0 .. Len(Script[v])
    PROVE  IsPrefix(Trace[v][i][1], Wire(v))
<1> DEFINE n == Len(Script[v])
           S == {k \in Nat : k <= n => IsPrefix(Trace[v][n - k][1], Wire(v))}
<1>1. n \in Nat /\ \A j \in 0 .. n : Trace[v][j][1] \in Seq(Token)
  BY TraceDepth, TraceFirst
<1>2. 0 \in S
  <2>1. Trace[v][n - 0][1] = Wire(v) /\ Wire(v) \in Seq(Token)
    BY <1>1, TraceFirst DEF Wire
  <2>2. QED
    BY <2>1, PrefixOrder
<1>3. ASSUME NEW k \in Nat, k \in S, k + 1 <= n
      PROVE  IsPrefix(Trace[v][n - (k + 1)][1], Wire(v))
  <2> DEFINE j == n - (k + 1)
  <2>1. j \in 0 .. n /\ j < n /\ j + 1 = n - k /\ n - k \in 0 .. n
    BY <1>1, <1>3
  <2>2. IsPrefix(Trace[v][j][1], Trace[v][j + 1][1])
    <3> HIDE DEF j
    <3>1. QED
      BY <2>1, TraceGrows
  <2>3. IsPrefix(Trace[v][n - k][1], Wire(v))
    BY <1>1, <1>3
  <2>4. Trace[v][j][1] \in Seq(Token) /\ Trace[v][n - k][1] \in Seq(Token) /\ Wire(v) \in Seq(Token)
    BY <1>1, <2>1, TraceFirst
  <2> HIDE DEF j
  <2>5. IsPrefix(Trace[v][j][1], Trace[v][n - k][1])
    BY <2>1, <2>2
  <2>6. IsPrefix(Trace[v][j][1], Wire(v))
    BY ONLY <2>3, <2>4, <2>5, PrefixOrder
  <2>7. QED
    BY <2>6 DEF j
<1>4. \A k \in Nat : k \in S => k + 1 \in S
  BY <1>3
<1>5. Nat \subseteq S
  <2> HIDE DEF S
  <2>1. QED
    BY <1>2, <1>4, InductionBySet
<1>6. n - i \in Nat /\ n - i <= n /\ n - (n - i) = i
  BY <1>1
<1>7. n - i \in S
  BY <1>5, <1>6
<1>8. QED
  BY <1>6, <1>7

-----------------------------------------------------------------------------
(* The inductive strengthening: what a dst has received while its call runs. *)

Streams(p) == Len(frames[p]) > 0 /\ frames[p][1].kind = "encoder"
Dst(p)     == frames[p][1].obj
Written(p) == Trace[val[p]][ip[p]][1]

Sink(p) ==
    /\ Streams(p) => out[Dst(p)] = p
    /\ Streams(p) /\ phase[p] # "unwind" =>
          IF err[Dst(p)] THEN IsPrefix(sink[p], Written(p)) ELSE sink[p] = Written(p)
    /\ IsPrefix(sink[p], Wire(val[p]))
    /\ phase[p] # "idle" => res[p] = "none"
    /\ res[p] = "written" => sink[p] = Wire(val[p])

SinkInv == BytesInv /\ \A p \in Procs : Sink(p)

LEMMA SinkTypes ==
    ASSUME BytesInv, NEW p \in Procs
    PROVE  /\ sink[p] \in Seq(Token) /\ Written(p) \in Seq(Token)
           /\ Wire(val[p]) \in Seq(Token)
           /\ IsPrefix(Written(p), Wire(val[p]))
<1>1. val[p] \in Values /\ ip[p] \in 0 .. Len(Script[val[p]]) /\ sink[p] \in Seq(Token)
  BY CallFacts DEF BytesInv, TypeInv, TypeOK
<1>2. QED
  BY <1>1, TraceFirst, TraceOfWire DEF Written

\* A step in which the dst of q receives nothing.
LEMMA SinkFrame ==
    ASSUME NEW q \in Procs, Sink(q), sink'[q] = sink[q], val'[q] = val[q],
           Streams(q)' =>
              /\ Streams(q) /\ frames'[q][1] = frames[q][1]
              /\ out'[Dst(q)] = out[Dst(q)]
              /\ phase'[q] # "unwind" =>
                    /\ phase[q] # "unwind" /\ err'[Dst(q)] = err[Dst(q)]
                    /\ Written(q)' = Written(q),
           phase'[q] # "idle" => phase[q] # "idle" /\ res'[q] = res[q],
           res'[q] = "written" => res[q] = "written"
    PROVE  Sink(q)'
<1>1. Streams(q)' => Dst(q)' = Dst(q)
  BY DEF Dst
<1>2. Streams(q)' => out'[Dst(q)'] = q
  BY <1>1 DEF Sink
<1>3. ASSUME Streams(q)', phase'[q] # "unwind"
      PROVE  IF err'[Dst(q)'] THEN IsPrefix(sink'[q], Written(q)') ELSE sink'[q] = Written(q)'
  BY <1>1, <1>3 DEF Sink
<1>4. IsPrefix(sink'[q], Wire(val'[q])) /\ (res'[q] = "written" => sink'[q] = Wire(val'[q]))
  BY DEF Sink
<1>5. phase'[q] # "idle" => res'[q] = "none"
  BY DEF Sink
<1>6. Wire(val[q])' = Wire(val'[q])
  BY DEF Wire
<1>7. QED
  BY <1>2, <1>3, <1>4, <1>5, <1>6 DEF Sink

\* A step of another call, or of the pools.
LEMMA SinkOthers ==
    ASSUME NEW q \in Procs, SinkInv, sink'[q] = sink[q], val'[q] = val[q], ip'[q] = ip[q],
           frames'[q] = frames[q], phase'[q] = phase[q], res'[q] = res[q],
           \A i \in 1 .. Len(frames[q]) :
              /\ err'[frames[q][i].obj] = err[frames[q][i].obj]
              /\ out'[frames[q][i].obj] = out[frames[q][i].obj]
    PROVE  Sink(q)'
<1>1. Sink(q) /\ Len(frames[q]) \in Nat
  BY FrameTypes DEF SinkInv, BytesInv, TypeInv
<1>2. Streams(q)' = Streams(q) /\ (Streams(q) => 1 \in 1 .. Len(frames[q]))
  BY <1>1 DEF Streams
<1>3. Written(q)' = Written(q)
  BY DEF Written
<1>4. Streams(q) => err'[Dst(q)] = err[Dst(q)] /\ out'[Dst(q)] = out[Dst(q)]
  BY <1>2 DEF Dst
<1>5. QED
  BY <1>1, <1>2, <1>3, <1>4, SinkFrame

-----------------------------------------------------------------------------
(* The actions that write.                                                  *)

\* What the dst of call p receives in a write, and what is then written of
\* the value.
LEMMA SinkReceives ==
    ASSUME SinkInv, NEW p \in Procs, NEW k, NEW w, WriteStep(p, k, w), Streams(p), k = 1,
           phase[p] # "unwind"
    PROVE  /\ sink' = [sink EXCEPT ![p] = sink'[p]]
           /\ IsPrefix(sink[p], sink'[p])
           /\ sink'[p] \in Seq(Token)
           /\ Written(p)' = Written(p) \o w
           /\ IF err'[Dst(p)] THEN IsPrefix(sink'[p], Written(p)') ELSE sink'[p] = Written(p)'
<1> DEFINE o == Dst(p)
<1>1. o \in Objects /\ out[o] = p /\ w \in Seq(Token) /\ Len(w) \in Nat
      /\ IF err[o] THEN IsPrefix(sink[p], Written(p)) ELSE sink[p] = Written(p)
  BY FrameTypes, LenProperties DEF SinkInv, Sink, WriteStep, Dst, BytesInv, TypeInv
<1>2. Write(o, w)
  BY DEF WriteStep, Dst
<1>3. Written(p)' = Written(p) \o w
  <2> DEFINE s == Trace[val[p]][ip[p]]
             t == Trace[val'[p]][ip'[p]]
  <2>1. \A j \in 1 .. k : t[j] = IF j = k THEN s[j] \o w ELSE s[j]
    BY DEF WriteStep, Extends
  <2> HIDE DEF s, t
  <2>2. t[1] = s[1] \o w
    BY <2>1
  <2>3. QED
    BY <2>2 DEF s, t, Written
<1>4. sink[p] \in Seq(Token) /\ Written(p) \in Seq(Token) /\ sink \in [Procs -> Seq(Token)]
      /\ err \in [Objects -> BOOLEAN]
  BY SinkTypes DEF SinkInv, BytesInv, TypeInv, TypeOK
<1> HIDE DEF o
<1>5. 0 \in 0 .. Len(w) /\ Len(w) \in 0 .. Len(w)
  BY <1>1
<1>6. IsPrefix(Written(p), Written(p) \o w) /\ Written(p) \o w \in Seq(Token)
  BY <1>1, <1>4, <1>5, PrefixAppended
<1>7. CASE err[o]
  <2>1. sink' = sink /\ err' = err
    BY <1>2, <1>7 DEF Write
  <2>2. IsPrefix(sink[p], sink[p]) /\ IsPrefix(sink[p], Written(p) \o w)
    BY <1>1, <1>4, <1>6, <1>7, PrefixOrder
  <2>3. sink' = [sink EXCEPT ![p] = sink'[p]]
    BY <1>4, <2>1
  <2>4. QED
    BY <1>3, <1>4, <1>7, <2>1, <2>2, <2>3 DEF o
<1>8. CASE ~err[o]
  <2>1. WriteSink(o, w)
    <3>1. out[o] # Self
      BY <1>1, IdentityAssumption
    <3>2. QED
      BY <1>2, <1>8, <3>1 DEF Write
  <2>2. PICK n \in 0 .. Len(w), failed \in BOOLEAN :
           /\ n < Len(w) => failed
           /\ sink' = [sink EXCEPT ![p] = @ \o SubSeq(w, 1, n)]
           /\ err' = [err EXCEPT ![o] = failed]
    BY <1>1, <2>1 DEF WriteSink
  <2>3. /\ sink'[p] = Written(p) \o SubSeq(w, 1, n)
        /\ err'[o] = failed
        /\ sink[p] = Written(p)
    BY <1>1, <1>4, <1>8, <2>2
  <2>4. /\ SubSeq(w, 1, n) \in Seq(Token)
        /\ IsPrefix(Written(p), sink'[p])
        /\ IsPrefix(sink'[p], Written(p) \o w)
        /\ n = Len(w) => sink'[p] = Written(p) \o w
    <3>1. Written(p) \in Seq(Token) /\ w \in Seq(Token) /\ n \in 0 .. Len(w)
      BY <1>1, <1>4
    <3>2. /\ SubSeq(w, 1, n) \in Seq(Token)
          /\ IsPrefix(Written(p), Written(p) \o SubSeq(w, 1, n))
          /\ IsPrefix(Written(p) \o SubSeq(w, 1, n), Written(p) \o w)
          /\ n = Len(w) => Written(p) \o SubSeq(w, 1, n) = Written(p) \o w
      BY ONLY <3>1, PrefixAppended
    <3>3. QED
      BY ONLY <2>3, <3>2
  <2>5. sink'[p] \in Seq(Token)
    BY <1>4, <2>3, <2>4
  <2>6. sink' = [sink EXCEPT ![p] = sink'[p]]
    BY <1>4, <2>2
  <2>7. ~failed => n = Len(w)
    BY <1>1, <2>2
  <2>8. QED
    BY <1>3, <2>3, <2>4, <2>5, <2>6, <2>7 DEF o
<1>9. QED
  BY <1>7, <1>8

\* A write that goes to a buffer of the call's own is not seen by its dst.
LEMMA SinkSpared ==
    ASSUME SinkInv, NEW p \in Procs, NEW k, NEW w, WriteStep(p, k, w), ~(Streams(p) /\ k = 1)
    PROVE  /\ sink' = sink /\ err' = err
           /\ k # 1 => Written(p)' = Written(p)
<1>1. /\ k \in 1 .. Len(frames[p]) /\ Len(frames[p]) \in Nat /\ w \in Seq(Token)
      /\ frames[p][k].obj \in Objects /\ TypeOK /\ Fits
  BY FrameTypes DEF SinkInv, BytesInv, TypeInv, WriteStep
<1>2. frames[p][k].kind # "encoder"
  BY <1>1 DEF Streams, SinkInv, BytesInv, TypeInv, Shape
<1>3. out[frames[p][k].obj] = Self
  BY <1>1, <1>2 DEF SinkInv, BytesInv, Bytes
<1>4. Write(frames[p][k].obj, w)
  BY DEF WriteStep
<1>5. sink' = sink /\ err' = err
  BY <1>1, <1>3, <1>4, WriteEffect
<1>6. k # 1 => Written(p)' = Written(p)
  BY <1>1 DEF WriteStep, Extends, Written
<1>7. QED
  BY <1>5, <1>6

LEMMA SinkWrites ==
    ASSUME SinkInv, NEW p \in Procs,
           WriteChunk(p) \/ EncodeNone(p) \/ WriteArm(p) \/ WriteCustom(p)
    PROVE  /\ \A q \in Procs : Sink(q)'
           /\ sink' = [sink EXCEPT ![p] = sink'[p]]
           /\ IsPrefix(sink[p], sink'[p])
<1>1. PICK k, w : WriteStep(p, k, w)
  BY ChunkIsWrite, ArmIsWrite, CustomIsWrite DEF SinkInv
<1>2. /\ phase[p] \in {"run", "copy"} /\ phase'[p] \in {"run", "put", "unwind"}
      /\ \A q \in Procs \ {p} : phase'[q] = phase[q] /\ ip'[q] = ip[q]
      /\ res' = res
      /\ ip[p] # Len(Script[val[p]])
      /\ ip' = [ip EXCEPT ![p] = @ + 1]
  <2>1. /\ phase[p] \in {"run", "copy"} /\ res' = res
        /\ phase'[p] \in {"run", "put", "unwind"}
        /\ ip' = [ip EXCEPT ![p] = @ + 1]
    BY DEF WriteChunk, EncodeNone, WriteArm, WriteCustom, Doing, Advance, caller,
           SinkInv, BytesInv, TypeInv, TypeOK
  <2>2. ip[p] # Len(Script[val[p]])
    <3>1. CASE phase[p] = "run"
      BY <3>1 DEF WriteChunk, EncodeNone, WriteArm, WriteCustom, Doing, AtEnd
    <3>2. CASE phase[p] = "copy"
      BY <3>2, CallFacts DEF SinkInv, BytesInv, TypeInv, Shape, Ending
    <3>3. QED
      BY <2>1, <3>1, <3>2
  <2>3. QED
    BY <1>1, <2>1, <2>2 DEF WriteStep
<1>3. /\ val' = val /\ frames' = frames /\ k \in 1 .. Len(frames[p]) /\ w \in Seq(Token)
      /\ Write(frames[p][k].obj, w)
      /\ sink \in [Procs -> Seq(Token)]
  BY <1>1 DEF WriteStep, SinkInv, BytesInv, TypeInv, TypeOK
<1>4. frames[p][k].obj \in Objects
  BY <1>3, FrameTypes DEF SinkInv, BytesInv, TypeInv
<1>5. /\ \A x \in Objects \ {frames[p][k].obj} : err'[x] = err[x]
      /\ out' = out
  BY <1>3, <1>4, WriteKeeps DEF SinkInv
<1>6. /\ sink' = [sink EXCEPT ![p] = sink'[p]]
      /\ IsPrefix(sink[p], sink'[p])
  <2>1. CASE Streams(p) /\ k = 1
    BY <1>1, <1>2, <2>1, SinkReceives
  <2>2. CASE ~(Streams(p) /\ k = 1)
    <3>1. sink' = sink
      BY <1>1, <2>2, SinkSpared
    <3>2. IsPrefix(sink[p], sink[p])
      BY SinkTypes, PrefixOrder DEF SinkInv
    <3>3. QED
      BY <1>3, <3>1, <3>2
  <2>3. QED
    BY <2>1, <2>2
<1>7. ASSUME NEW q \in Procs \ {p}
      PROVE  Sink(q)'
  <2>1. \A i \in 1 .. Len(frames[q]) :
           frames[q][i].obj \in Objects /\ frames[q][i].obj # frames[p][k].obj
    BY <1>3, FrameTypes, FramesApart DEF SinkInv, BytesInv, TypeInv
  <2>2. sink'[q] = sink[q]
    BY <1>3, <1>6
  <2>3. QED
    BY <1>2, <1>3, <1>5, <2>1, <2>2, SinkOthers
<1>8. Sink(p)'
  <2>1. Sink(p) /\ res'[p] = "none" /\ Streams(p)' = Streams(p) /\ Dst(p)' = Dst(p)
        /\ Wire(val[p])' = Wire(val[p])
    BY <1>2, <1>3 DEF SinkInv, Sink, Streams, Dst, Wire
  <2>2. CASE Streams(p) /\ k = 1
    <3>1. /\ sink'[p] \in Seq(Token)
          /\ Written(p)' = Written(p) \o w
          /\ IF err'[Dst(p)] THEN IsPrefix(sink'[p], Written(p)') ELSE sink'[p] = Written(p)'
      BY <1>1, <1>2, <2>2, SinkReceives
    <3>2. /\ Written(p)' \in Seq(Token) /\ Wire(val[p]) \in Seq(Token)
          /\ IsPrefix(Written(p)', Wire(val[p]))
      <4>1. val[p] \in Values /\ ip'[p] \in 0 .. Len(Script[val[p]])
        BY <1>2, <1>3, CallFacts, DepthAfter DEF SinkInv, BytesInv
      <4>2. Written(p)' = Trace[val[p]][ip'[p]][1]
        BY <1>3 DEF Written
      <4>3. QED
        BY <4>1, <4>2, TraceFirst, TraceOfWire
    <3>3. IsPrefix(sink'[p], Written(p)')
      BY <3>1, <3>2, PrefixOrder
    <3>4. IsPrefix(sink'[p], Wire(val[p]))
      BY <3>1, <3>2, <3>3, PrefixOrder
    <3>5. out'[Dst(p)] = p
      BY <1>5, <2>1, <2>2 DEF Sink
    <3>6. QED
      BY <2>1, <3>1, <3>4, <3>5 DEF Sink
  <2>3. CASE ~(Streams(p) /\ k = 1)
    <3>1. /\ sink' = sink /\ err' = err
          /\ k # 1 => Written(p)' = Written(p)
      BY <1>1, <2>3, SinkSpared
    <3>2. QED
      BY <1>2, <1>5, <2>1, <2>3, <3>1 DEF Sink
  <2>4. QED
    BY <2>2, <2>3
<1>9. QED
  BY <1>6, <1>7, <1>8

-----------------------------------------------------------------------------
(* The actions that take an object.                                         *)

LEMMA SinkBegin ==
    ASSUME SinkInv, NEW p \in Procs, Begin(p)
    PROVE  \A q \in Procs : Sink(q)'
<1>1. /\ phase[p] = "idle" /\ phase' = [phase EXCEPT ![p] = "run"]
      /\ ip' = [ip EXCEPT ![p] = 0]
      /\ sink' = [sink EXCEPT ![p] = <<>>]
      /\ res' = [res EXCEPT ![p] = "none"]
  BY DEF Begin
<1>2. PICK v \in Values : val' = [val EXCEPT ![p] = v]
  BY DEF Begin
<1>3. PICK kind \in {"marshal", "encoder"}, w \in Procs \cup {Self}, isNil \in BOOLEAN :
         Get(p, kind, w, isNil) /\ (kind = "encoder" => w = p)
  BY DEF Begin
<1>4. kind \in Kinds /\ TypeOK /\ Fits
  BY DEF Kinds, SinkInv, BytesInv, TypeInv
<1>5. PICK o \in Objects : Taken(p, kind, w, isNil, o)
  BY <1>3, <1>4, GetEffect
<1>6. /\ Len(frames'[p]) = 1 /\ frames'[p][1] = [kind |-> kind, obj |-> o]
      /\ \A q \in Procs \ {p} : frames'[q] = frames[q]
  <2>1. Len(frames[p]) = 0
    BY <1>1 DEF SinkInv, BytesInv, TypeInv, Shape
  <2>2. /\ Len(frames'[p]) = Len(frames[p]) + 1
        /\ frames'[p][Len(frames[p]) + 1] = [kind |-> kind, obj |-> o]
        /\ \A q \in Procs \ {p} : frames'[q] = frames[q]
    BY <1>4, <1>5, AppendFrame DEF Taken
  <2>3. QED
    BY <2>1, <2>2
<1>7. /\ sink'[p] = <<>> /\ res'[p] = "none" /\ val'[p] = v /\ ip'[p] = 0
      /\ phase'[p] = "run"
      /\ \A q \in Procs \ {p} : /\ sink'[q] = sink[q] /\ res'[q] = res[q] /\ val'[q] = val[q]
                                /\ ip'[q] = ip[q] /\ phase'[q] = phase[q]
  BY <1>1, <1>2 DEF SinkInv, BytesInv, TypeInv, TypeOK
<1>8. ASSUME NEW q \in Procs \ {p}
      PROVE  Sink(q)'
  <2>1. \A i \in 1 .. Len(frames[q]) :
              /\ err'[frames[q][i].obj] = err[frames[q][i].obj]
              /\ out'[frames[q][i].obj] = out[frames[q][i].obj]
    BY <1>4, <1>5, <1>6, TakenApart DEF SinkInv
  <2>2. QED
    BY <1>6, <1>7, <2>1, SinkOthers
<1>9. Sink(p)'
  <2>1. Written(p)' = <<>>
    BY <1>7, TraceAssumption DEF Written
  <2>2. IsPrefix(<<>>, <<>>) /\ IsPrefix(<<>>, Wire(v)) /\ Wire(val[p])' = Wire(v)
    <3>1. <<>> \in Seq(Token) /\ Wire(v) \in Seq(Token)
      BY WireType, EmptySeq
    <3>2. Wire(val[p])' = Wire(v)
      BY <1>7 DEF Wire
    <3>3. QED
      BY <3>1, <3>2, PrefixOrder
  <2>3. Streams(p)' => out'[Dst(p)'] = p
    <3>1. Streams(p)' => kind = "encoder" /\ Dst(p)' = o
      BY <1>6 DEF Streams, Dst
    <3>2. out'[o] = w
      BY <1>4, <1>5 DEF Taken, TypeOK
    <3>3. QED
      BY <1>3, <3>1, <3>2
  <2>4. QED
    BY <1>7, <2>1, <2>2, <2>3 DEF Sink
<1>10. QED
  BY <1>8, <1>9

LEMMA SinkOpen ==
    ASSUME SinkInv, NEW p \in Procs, Open(p)
    PROVE  \A q \in Procs : Sink(q)'
<1>1. PICK kind \in {"tag", "marshal"} :
         /\ phase[p] = "run" /\ ip[p] # Len(Script[val[p]])
         /\ OpOf(p).name \in {"arm", "custom"}
         /\ Get(p, kind, Self, FALSE) /\ ip' = [ip EXCEPT ![p] = @ + 1]
         /\ UNCHANGED <<phase, val, ret, sink, kept, want, res>>
  BY DEF Open, Doing, AtEnd, Advance, caller
<1>2. kind \in Kinds /\ TypeOK /\ Fits /\ Self \in Procs \cup {Self} /\ FALSE \in BOOLEAN
  BY DEF Kinds, SinkInv, BytesInv, TypeInv
<1>3. PICK o \in Objects : Taken(p, kind, Self, FALSE, o)
  BY <1>1, <1>2, GetEffect
<1>4. Len(frames[p]) = Depth(p) /\ Len(frames[p]) \in Nat \ {0}
  BY <1>1, Running DEF SinkInv
<1>5. /\ \A i \in 1 .. Len(frames[p]) : frames'[p][i] = frames[p][i]
      /\ \A q \in Procs \ {p} : frames'[q] = frames[q]
      /\ Len(frames'[p]) > 0
  BY <1>2, <1>3, <1>4, AppendFrame DEF Taken
<1>6. ASSUME NEW q \in Procs, NEW i \in 1 .. Len(frames[q])
      PROVE  /\ err'[frames[q][i].obj] = err[frames[q][i].obj]
             /\ out'[frames[q][i].obj] = out[frames[q][i].obj]
  <2>1. frames'[q][i] = frames[q][i]
    BY <1>5
  <2>2. QED
    BY <1>2, <1>3, <2>1, TakenApart DEF SinkInv
<1>7. ASSUME NEW q \in Procs \ {p}
      PROVE  Sink(q)'
  <2>1. ip'[q] = ip[q]
    BY <1>1 DEF SinkInv, BytesInv, TypeInv, TypeOK
  <2>2. QED
    BY <1>1, <1>5, <1>6, <2>1, SinkOthers
<1>8. Sink(p)'
  <2>1. Written(p)' = Written(p)
    <3> DEFINE s == Trace[val[p]][ip[p]]
               t == Trace[val'[p]][ip'[p]]
    <3>1. Becomes(s, OpOf(p), t) /\ Len(s) \in Nat \ {0}
      BY <1>1, <1>4, CallStep DEF SinkInv, BytesInv, Depth
    <3> HIDE DEF s, t
    <3>2. \A j \in 1 .. Len(s) + 1 : t[j] = IF j = Len(s) + 1 THEN <<>> ELSE s[j]
      BY <1>1, <3>1 DEF Becomes
    <3>3. t[1] = s[1]
      BY ONLY <3>1, <3>2
    <3>4. QED
      BY <3>3 DEF s, t, Written
  <2>2. 1 \in 1 .. Len(frames[p]) /\ frames'[p][1] = frames[p][1]
    BY <1>4, <1>5
  <2>3. Streams(p)' = Streams(p)
    BY <1>4, <1>5, <2>2 DEF Streams
  <2>4. err'[Dst(p)] = err[Dst(p)] /\ out'[Dst(p)] = out[Dst(p)]
    BY <1>6, <2>2 DEF Dst
  <2>5. Sink(p)
    BY DEF SinkInv
  <2>6. QED
    BY <1>1, <2>1, <2>2, <2>3, <2>4, <2>5, SinkFrame
<1>9. QED
  BY <1>7, <1>8

-----------------------------------------------------------------------------
(* The actions that give an object back.                                    *)

\* A call gives its last object back: what is left of its stack.
LEMMA SinkPut ==
    ASSUME SinkInv, NEW p \in Procs, phase[p] # "idle", Put(p),
           UNCHANGED <<err, out, val, ip, sink>>
    PROVE  /\ \A q \in Procs \ {p} :
                 phase'[q] = phase[q] /\ res'[q] = res[q] => Sink(q)'
           /\ Len(frames[p]) \in Nat \ {0}
           /\ Len(frames'[p]) = Len(frames[p]) - 1
           /\ Streams(p)' => Streams(p) /\ frames'[p][1] = frames[p][1] /\ Len(frames[p]) > 1
           /\ Written(p)' = Written(p) /\ Sink(p)
<1>1. Len(frames[p]) \in Nat \ {0}
  BY FrameTypes DEF SinkInv, BytesInv, TypeInv, Shape
<1>2. /\ Len(frames'[p]) = Len(frames[p]) - 1
      /\ \A i \in 1 .. Len(frames[p]) - 1 : frames'[p][i] = frames[p][i]
      /\ \A q \in Procs \ {p} : frames'[q] = frames[q]
  BY <1>1, PutEffect DEF SinkInv, BytesInv, TypeInv, TypeOK
<1>3. Streams(p)' => Streams(p) /\ frames'[p][1] = frames[p][1] /\ Len(frames[p]) > 1
  BY <1>1, <1>2 DEF Streams
<1>4. ASSUME NEW q \in Procs \ {p}, phase'[q] = phase[q], res'[q] = res[q]
      PROVE  Sink(q)'
  BY <1>2, <1>4, SinkOthers
<1>5. Written(p)' = Written(p) /\ Sink(p)
  BY DEF Written, SinkInv
<1>6. QED
  BY <1>1, <1>2, <1>3, <1>4, <1>5

LEMMA SinkPutArm ==
    ASSUME SinkInv, NEW p \in Procs, PutArm(p)
    PROVE  \A q \in Procs : Sink(q)'
<1>1. /\ phase[p] = "put" /\ Put(p) /\ UNCHANGED <<err, out, val, ip, sink, res>>
      /\ phase'[p] \in {"run", "unwind"}
      /\ \A q \in Procs \ {p} : phase'[q] = phase[q]
  BY DEF PutArm, heap, caller, SinkInv, BytesInv, TypeInv, TypeOK
<1>2. /\ \A q \in Procs \ {p} : Sink(q)'
      /\ Streams(p)' => Streams(p) /\ frames'[p][1] = frames[p][1]
      /\ Written(p)' = Written(p) /\ Sink(p)
  BY <1>1, SinkPut
<1>3. Sink(p)'
  BY <1>1, <1>2, SinkFrame
<1>4. QED
  BY <1>2, <1>3

LEMMA SinkTakeOutput ==
    ASSUME SinkInv, NEW p \in Procs, TakeOutput(p)
    PROVE  \A q \in Procs : Sink(q)'
<1>1. /\ phase[p] = "run" /\ UNCHANGED <<err, out, val, ip, frames, sink, res>>
      /\ phase'[p] = "put"
      /\ \A q \in Procs \ {p} : phase'[q] = phase[q]
  BY DEF TakeOutput, caller, SinkInv, BytesInv, TypeInv, TypeOK
<1>2. \A q \in Procs \ {p} : Sink(q)'
  BY <1>1, SinkOthers
<1>3. Streams(p)' = Streams(p) /\ Written(p)' = Written(p) /\ Sink(p)
  BY <1>1 DEF Streams, Written, SinkInv
<1>4. Sink(p)'
  BY <1>1, <1>3, SinkFrame
<1>5. QED
  BY <1>2, <1>4

LEMMA SinkPutMarshal ==
    ASSUME SinkInv, NEW p \in Procs, PutMarshal(p)
    PROVE  \A q \in Procs : Sink(q)'
<1>1. /\ phase[p] = "put" /\ Put(p) /\ UNCHANGED <<err, out, val, ip, sink>>
      /\ \/ phase'[p] = "copy" /\ res'[p] = res[p]
         \/ phase'[p] = "idle" /\ res'[p] = "returned" /\ Len(frames[p]) = 1
      /\ \A q \in Procs \ {p} : phase'[q] = phase[q] /\ res'[q] = res[q]
  BY DEF PutMarshal, heap, caller, SinkInv, BytesInv, TypeInv, TypeOK
<1>2. /\ \A q \in Procs \ {p} : Sink(q)'
      /\ Streams(p)' => Streams(p) /\ frames'[p][1] = frames[p][1] /\ Len(frames[p]) > 1
      /\ Written(p)' = Written(p) /\ Sink(p)
  BY <1>1, SinkPut
<1>3. Sink(p)'
  BY <1>1, <1>2, SinkFrame
<1>4. QED
  BY <1>2, <1>3

\* MarshalTo returns nil only when its dst has taken every byte of the value.
LEMMA SinkEndTo ==
    ASSUME SinkInv, NEW p \in Procs, EndTo(p)
    PROVE  /\ \A q \in Procs : Sink(q)'
           /\ ~err[Top(p).obj] => sink[p] = Wire(val[p])
<1>1. /\ phase[p] = "run" /\ AtEnd(p) /\ Top(p).kind = "encoder"
      /\ Put(p) /\ UNCHANGED <<err, out, val, ip, sink>>
      /\ phase'[p] = "idle"
      /\ res'[p] = IF err[Top(p).obj] THEN "error" ELSE "written"
      /\ \A q \in Procs \ {p} : phase'[q] = phase[q] /\ res'[q] = res[q]
  BY DEF EndTo, heap, SinkInv, BytesInv, TypeInv, TypeOK
<1>2. /\ \A q \in Procs \ {p} : Sink(q)'
      /\ Len(frames[p]) \in Nat \ {0} /\ Len(frames'[p]) = Len(frames[p]) - 1
      /\ Written(p)' = Written(p) /\ Sink(p)
  BY <1>1, SinkPut
<1>3. Len(frames[p]) = 1 /\ Top(p) = frames[p][1]
  <2>1. Top(p) = frames[p][Len(frames[p])] /\ Len(frames[p]) \in 1 .. Len(frames[p])
    BY <1>2, FrameTypes DEF SinkInv, BytesInv, TypeInv
  <2>2. QED
    BY <1>1, <1>2, <2>1 DEF SinkInv, BytesInv, TypeInv, Shape
<1>4. Streams(p) /\ Dst(p) = Top(p).obj /\ Written(p) = Wire(val[p])
  BY <1>1, <1>3 DEF Streams, Dst, Written, Wire, AtEnd
<1>5. ~err[Top(p).obj] => sink[p] = Wire(val[p])
  BY <1>1, <1>2, <1>4 DEF Sink
<1>6. ~Streams(p)' /\ Wire(val[p])' = Wire(val[p])
  BY <1>1, <1>2, <1>3 DEF Streams, Wire
<1>7. Sink(p)'
  BY <1>1, <1>2, <1>5, <1>6 DEF Sink
<1>8. QED
  BY <1>2, <1>5, <1>7

LEMMA SinkFail ==
    ASSUME SinkInv, NEW p \in Procs, Fail(p)
    PROVE  \A q \in Procs : Sink(q)'
<1>1. /\ phase[p] = "run" /\ UNCHANGED <<err, out, val, ip, frames, sink, res>>
      /\ phase'[p] = "unwind"
      /\ \A q \in Procs \ {p} : phase'[q] = phase[q]
  BY DEF Fail, Doing, heap, caller, SinkInv, BytesInv, TypeInv, TypeOK
<1>2. \A q \in Procs \ {p} : Sink(q)'
  BY <1>1, SinkOthers
<1>3. Streams(p)' = Streams(p) /\ Sink(p)
  BY <1>1 DEF Streams, SinkInv
<1>4. Sink(p)'
  BY <1>1, <1>3, SinkFrame
<1>5. QED
  BY <1>2, <1>4

LEMMA SinkUnwind ==
    ASSUME SinkInv, NEW p \in Procs, Unwind(p)
    PROVE  \A q \in Procs : Sink(q)'
<1>1. /\ phase[p] = "unwind" /\ Put(p) /\ UNCHANGED <<err, out, val, ip, sink>>
      /\ \/ phase'[p] = "unwind" /\ res'[p] = res[p]
         \/ phase'[p] = "idle" /\ res'[p] = "error" /\ Len(frames[p]) = 1
      /\ \A q \in Procs \ {p} : phase'[q] = phase[q] /\ res'[q] = res[q]
  BY DEF Unwind, SinkInv, BytesInv, TypeInv, TypeOK
<1>2. /\ \A q \in Procs \ {p} : Sink(q)'
      /\ Streams(p)' => Streams(p) /\ frames'[p][1] = frames[p][1] /\ Len(frames[p]) > 1
      /\ Written(p)' = Written(p) /\ Sink(p)
  BY <1>1, SinkPut
<1>3. Sink(p)'
  <2>1. CASE phase'[p] = "unwind"
    BY <1>1, <1>2, <2>1, SinkFrame
  <2>2. CASE phase'[p] = "idle"
    <3>1. res'[p] = "error" /\ Len(frames[p]) = 1
      BY <1>1, <2>2
    <3>2. ~Streams(p)'
      BY <1>2, <3>1
    <3>3. QED
      BY <1>1, <1>2, <2>2, <3>1, <3>2, SinkFrame
  <2>3. QED
    BY <1>1, <2>1, <2>2
<1>4. QED
  BY <1>2, <1>3

LEMMA SinkPanic ==
    ASSUME SinkInv, NEW p \in Procs, Panic(p)
    PROVE  \A q \in Procs : Sink(q)'
<1>1. /\ Collect(Held(p)) /\ UNCHANGED <<val, ip, sink>>
      /\ frames'[p] = <<>> /\ phase'[p] = "idle" /\ res'[p] = "panic"
      /\ \A q \in Procs \ {p} :
            frames'[q] = frames[q] /\ phase'[q] = phase[q] /\ res'[q] = res[q]
  BY DEF Panic, SinkInv, BytesInv, TypeInv, TypeOK
<1>2. ASSUME NEW q \in Procs \ {p}
      PROVE  Sink(q)'
  <2>1. \A i \in 1 .. Len(frames[q]) : frames[q][i].obj \in Objects \ Held(p)
    <3>1. BytesInv
      BY DEF SinkInv
    <3>2. QED
      BY <3>1, HeldApart
  <2>2. \A x \in Objects \ Held(p) : err'[x] = err[x] /\ out'[x] = out[x]
    BY <1>1 DEF Collect
  <2>3. QED
    BY <1>1, <2>1, <2>2, SinkOthers
<1>3. ~Streams(p)' /\ Sink(p)
  BY <1>1, EmptySeq DEF Streams, SinkInv
<1>4. Sink(p)'
  BY <1>1, <1>3, SinkFrame
<1>5. QED
  BY <1>2, <1>4

-----------------------------------------------------------------------------
LEMMA SinkEvict ==
    ASSUME SinkInv, Evict
    PROVE  \A q \in Procs : Sink(q)'
<1>1. UNCHANGED <<phase, val, ip, frames, sink, res>>
  BY DEF Evict, call, caller
<1>2. PICK k \in Kinds : \E o \in pool[k] : Collect({o})
  BY DEF Evict
<1>3. PICK o \in pool[k] : Collect({o})
  BY <1>2
<1>4. ASSUME NEW q \in Procs
      PROVE  Sink(q)'
  <2>1. \A i \in 1 .. Len(frames[q]) : frames[q][i].obj \in Objects /\ frames[q][i].obj # o
    <3>1. DOMAIN frames[q] = 1 .. Len(frames[q])
      BY FrameTypes, LenProperties DEF SinkInv, BytesInv, TypeInv
    <3>2. QED
      BY <3>1, FrameTypes DEF SinkInv, BytesInv, TypeInv, Exclusive
  <2>2. \A x \in Objects \ {o} : err'[x] = err[x] /\ out'[x] = out[x]
    BY <1>3 DEF Collect
  <2>3. QED
    BY <1>1, <2>1, <2>2, SinkOthers
<1>5. QED
  BY <1>4

LEMMA SinkStep ==
    ASSUME SinkInv, [Next]_vars
    PROVE  SinkInv'
<1>1. BytesInv'
  BY BytesStep DEF SinkInv
<1>2. ASSUME UNCHANGED <<err, out, phase, val, ip, frames, sink, res>>
      PROVE  \A q \in Procs : Sink(q)'
  BY <1>2, SinkOthers
<1>3. CASE UNCHANGED vars
  BY <1>1, <1>2, <1>3 DEF vars, heap, call, caller, SinkInv
<1>4. CASE Evict
  BY <1>1, <1>4, SinkEvict DEF SinkInv
<1>5. ASSUME NEW p \in Procs, Scribble(p) \/ Forget(p)
      PROVE  \A q \in Procs : Sink(q)'
  BY <1>2, <1>5 DEF Scribble, Forget, heap, call
<1>6. ASSUME NEW p \in Procs, Begin(p) \/ Encode(p)
      PROVE  \A q \in Procs : Sink(q)'
  BY <1>6, SinkBegin, SinkWrites, SinkOpen, SinkPutArm, SinkTakeOutput, SinkPutMarshal,
     SinkEndTo, SinkFail, SinkUnwind, SinkPanic DEF Encode
<1>7. QED
  BY <1>1, <1>3, <1>4, <1>5, <1>6 DEF Next, SinkInv

LEMMA SinkInit ==
    ASSUME Init
    PROVE  SinkInv
<1>1. BytesInv
  BY BytesInit
<1>2. ASSUME NEW p \in Procs
      PROVE  Sink(p)
  <2>1. /\ frames[p] = <<>> /\ phase[p] = "idle" /\ res[p] = "none" /\ sink[p] = <<>>
        /\ val[p] \in Values
    BY DEF Init
  <2>2. <<>> \in Seq(Token) /\ Wire(val[p]) \in Seq(Token)
    BY <2>1, WireType, EmptySeq
  <2>3. IsPrefix(<<>>, Wire(val[p])) /\ ~Streams(p)
    BY <2>1, <2>2, PrefixOrder, EmptySeq DEF Streams
  <2>4. QED
    BY <2>1, <2>3 DEF Sink
<1>3. QED
  BY <1>1, <1>2 DEF SinkInv

LEMMA SinkHolds == Spec => []SinkInv
<1>1. Init => SinkInv
  BY SinkInit
<1>2. SinkInv /\ [Next]_vars => SinkInv'
  BY SinkStep
<1>3. QED
  BY <1>1, <1>2, PTL DEF Spec

\* A dst receives the bytes of its own value in order, and has them all when
\* MarshalTo returns nil, whichever writes fail and whoever else is encoding.
THEOREM SinksFaithful == Spec => []SinkFaithful
<1>1. SinkInv => SinkFaithful
  BY DEF SinkInv, Sink, SinkFaithful
<1>2. QED
  BY <1>1, SinkHolds, PTL

-----------------------------------------------------------------------------
(* The refinement of MarshalSpec, step by step.                             *)

Busy    == [p \in Procs |-> phase[p] # "idle"]
Outputs == [p \in Procs |-> Contents(kept[p])]

\* The caller's view: by BytesInv, an output reads as its caller expects.
LEMMA OutputsAsWanted ==
    (BytesInv => Outputs = want) /\ (BytesInv' => Outputs' = want')
BY DEF Outputs, BytesInv, Bytes, TypeInv, TypeOK

\* A step that no caller can see.
LEMMA Unseen ==
    ASSUME BytesInv, BytesInv', UNCHANGED <<val, sink, want, res>>,
           \A q \in Procs : phase'[q] = "idle" <=> phase[q] = "idle"
    PROVE  UNCHANGED Promise!vars
<1>1. Outputs' = Outputs
  BY OutputsAsWanted
<1>2. Busy' = Busy
  BY DEF Busy
<1>3. QED
  BY <1>1, <1>2 DEF Promise!vars, Busy, Outputs

\* A call that ends, in one of the ways the specification allows.
LEMMA Ends ==
    ASSUME SinkInv, SinkInv', NEW p \in Procs, NEW how, phase[p] # "idle",
           phase' = [phase EXCEPT ![p] = "idle"], res' = [res EXCEPT ![p] = how],
           UNCHANGED <<val, sink>>
    PROVE  Promise!Return(p, how)
<1>1. Busy[p] /\ Busy' = [Busy EXCEPT ![p] = FALSE]
  BY DEF Busy, SinkInv, BytesInv, TypeInv, TypeOK
<1>2. QED
  BY <1>1 DEF Promise!Return, Busy

LEMMA SeenFailed ==
    ASSUME SinkInv, SinkInv', NEW p \in Procs, NEW how \in {"error", "panic"}, phase[p] # "idle",
           phase' = [phase EXCEPT ![p] = "idle"], res' = [res EXCEPT ![p] = how],
           UNCHANGED <<val, sink, want>>
    PROVE  Promise!Next
<1>1. Promise!Return(p, how)
  BY Ends
<1>2. Outputs = want /\ Outputs' = want'
  BY OutputsAsWanted DEF SinkInv
<1>3. Promise!Failed(p)
  BY <1>1, <1>2 DEF Promise!Failed, Outputs
<1>4. QED
  BY <1>3 DEF Promise!Next

LEMMA SeenBegin ==
    ASSUME SinkInv, SinkInv', NEW p \in Procs, Begin(p)
    PROVE  Promise!Next
<1>1. Outputs = want /\ Outputs' = want' /\ want' = want
  BY OutputsAsWanted DEF SinkInv, Begin
<1>2. ~Busy[p] /\ Busy' = [Busy EXCEPT ![p] = TRUE]
  BY DEF Begin, Busy, SinkInv, BytesInv, TypeInv, TypeOK
<1>3. Promise!Call(p)
  BY <1>1, <1>2 DEF Promise!Call, Busy, Outputs, Begin
<1>4. QED
  BY <1>3 DEF Promise!Next

LEMMA SeenWrites ==
    ASSUME SinkInv, SinkInv', NEW p \in Procs,
           WriteChunk(p) \/ EncodeNone(p) \/ WriteArm(p) \/ WriteCustom(p)
    PROVE  Promise!Next
<1>1. /\ Outputs = want /\ Outputs' = want' /\ want' = want
      /\ val' = val /\ res' = res
  BY OutputsAsWanted DEF SinkInv, WriteChunk, EncodeNone, WriteArm, WriteCustom, caller
<1>2. Busy[p] /\ Busy' = Busy
  <2>1. /\ phase[p] \in {"run", "copy"} /\ phase'[p] \in {"run", "put", "unwind"}
        /\ \A q \in Procs \ {p} : phase'[q] = phase[q]
    BY DEF WriteChunk, EncodeNone, WriteArm, WriteCustom, Doing, SinkInv, BytesInv, TypeInv, TypeOK
  <2>2. QED
    BY <2>1 DEF Busy
<1>3. /\ sink' = [sink EXCEPT ![p] = sink'[p]]
      /\ IsPrefix(sink[p], sink'[p])
  BY SinkWrites
<1>4. IsPrefix(sink'[p], Wire(val[p]))
  <2>1. IsPrefix(sink'[p], Wire(val[p])')
    BY DEF SinkInv, Sink
  <2>2. QED
    BY <1>1, <2>1 DEF Wire
<1>5. Promise!IsPrefix(sink[p], sink'[p]) /\ Promise!IsPrefix(sink'[p], Wire(val[p]))
  BY <1>3, <1>4 DEF Promise!IsPrefix, IsPrefix
<1>6. Promise!Deliver(p)
  BY <1>1, <1>2, <1>3, <1>5 DEF Promise!Deliver, Busy, Outputs
<1>7. QED
  BY <1>6 DEF Promise!Next

LEMMA SeenPutMarshal ==
    ASSUME SinkInv, SinkInv', NEW p \in Procs, PutMarshal(p)
    PROVE  Promise!Next \/ UNCHANGED Promise!vars
<1>1. phase[p] = "put" /\ UNCHANGED <<val, sink>>
  BY DEF PutMarshal, SinkInv
<1>2. CASE phase' = [phase EXCEPT ![p] = "copy"] /\ UNCHANGED <<ret, caller>>
  <2>1. \A q \in Procs : phase'[q] = "idle" <=> phase[q] = "idle"
    BY <1>1, <1>2 DEF SinkInv, BytesInv, TypeInv, TypeOK
  <2>2. QED
    BY <1>1, <1>2, <2>1, Unseen DEF SinkInv, caller
<1>3. CASE /\ phase' = [phase EXCEPT ![p] = "idle"]
           /\ want' = [want EXCEPT ![p] = Wire(val[p])]
           /\ res' = [res EXCEPT ![p] = "returned"]
  <2>1. Promise!Return(p, "returned")
    BY <1>1, <1>3, Ends
  <2>2. Outputs = want /\ Outputs' = want'
    BY OutputsAsWanted DEF SinkInv
  <2>3. Promise!Returned(p)
    BY <1>3, <2>1, <2>2 DEF Promise!Returned, Outputs
  <2>4. QED
    BY <2>3 DEF Promise!Next
<1>4. QED
  BY <1>2, <1>3 DEF PutMarshal

LEMMA SeenEndTo ==
    ASSUME SinkInv, SinkInv', NEW p \in Procs, EndTo(p)
    PROVE  Promise!Next
<1>1. /\ phase[p] # "idle" /\ phase' = [phase EXCEPT ![p] = "idle"]
      /\ res' = [res EXCEPT ![p] = IF err[Top(p).obj] THEN "error" ELSE "written"]
      /\ UNCHANGED <<val, sink, want>>
  BY DEF EndTo
<1>2. CASE err[Top(p).obj]
  BY <1>1, <1>2, SeenFailed
<1>3. CASE ~err[Top(p).obj]
  <2>1. Promise!Return(p, "written")
    BY <1>1, <1>3, Ends
  <2>2. sink[p] = Wire(val[p])
    BY <1>3, SinkEndTo
  <2>3. Outputs = want /\ Outputs' = want'
    BY OutputsAsWanted DEF SinkInv
  <2>4. Promise!Written(p)
    BY <1>1, <2>1, <2>2, <2>3 DEF Promise!Written, Outputs
  <2>5. QED
    BY <2>4 DEF Promise!Next
<1>4. QED
  BY <1>2, <1>3

LEMMA SeenUnwind ==
    ASSUME SinkInv, SinkInv', NEW p \in Procs, Unwind(p)
    PROVE  Promise!Next \/ UNCHANGED Promise!vars
<1>1. phase[p] = "unwind" /\ UNCHANGED <<val, sink, want>>
  BY DEF Unwind
<1>2. CASE UNCHANGED <<phase, res>>
  BY <1>1, <1>2, Unseen DEF SinkInv
<1>3. CASE phase' = [phase EXCEPT ![p] = "idle"] /\ res' = [res EXCEPT ![p] = "error"]
  BY <1>1, <1>3, SeenFailed
<1>4. QED
  BY <1>2, <1>3 DEF Unwind

\* A caller changes, or lets go of, its own output and nobody else's.
LEMMA SeenUse ==
    ASSUME SinkInv, SinkInv', NEW p \in Procs, Scribble(p) \/ Forget(p)
    PROVE  Promise!Next
<1>1. UNCHANGED <<phase, val, sink, res>>
  BY DEF Scribble, Forget, call
<1>2. Outputs = want /\ Outputs' = want'
  BY OutputsAsWanted DEF SinkInv
<1>3. \/ Outputs' = [Outputs EXCEPT ![p] = [i \in DOMAIN @ |-> Junk]]
      \/ Outputs' = [Outputs EXCEPT ![p] = <<>>]
  BY <1>2 DEF Scribble, Forget
<1>4. Busy' = Busy
  BY <1>1 DEF Busy
<1>5. Promise!Use(p)
  BY <1>1, <1>3, <1>4 DEF Promise!Use, Busy, Outputs
<1>6. QED
  BY <1>5 DEF Promise!Next

LEMMA StepIsSeen ==
    ASSUME SinkInv, SinkInv', [Next]_vars
    PROVE  [Promise!Next]_(Promise!vars)
<1>1. CASE UNCHANGED vars
  BY <1>1, Unseen DEF vars, call, caller, SinkInv
<1>2. CASE Evict
  BY <1>2, Unseen DEF Evict, call, caller, SinkInv
<1>3. ASSUME NEW p \in Procs, Open(p) \/ PutArm(p) \/ TakeOutput(p) \/ Fail(p)
      PROVE  UNCHANGED Promise!vars
  <2>1. UNCHANGED <<val, sink, want, res>>
    BY <1>3 DEF Open, PutArm, TakeOutput, Fail, caller
  <2>2. /\ phase[p] # "idle" /\ phase'[p] # "idle"
        /\ \A q \in Procs \ {p} : phase'[q] = phase[q]
    BY <1>3 DEF Open, PutArm, TakeOutput, Fail, Doing, SinkInv, BytesInv, TypeInv, TypeOK
  <2>3. QED
    BY <2>1, <2>2, Unseen DEF SinkInv
<1>4. ASSUME NEW p \in Procs, Panic(p)
      PROVE  Promise!Next
  BY <1>4, SeenFailed DEF Panic, Doing
<1>5. ASSUME NEW p \in Procs, Begin(p) \/ Encode(p) \/ Scribble(p) \/ Forget(p)
      PROVE  Promise!Next \/ UNCHANGED Promise!vars
  BY <1>3, <1>4, <1>5, SeenBegin, SeenWrites, SeenPutMarshal, SeenEndTo, SeenUnwind, SeenUse
     DEF Encode
<1>6. QED
  BY <1>1, <1>2, <1>5 DEF Next

LEMMA InitIsSeen ==
    ASSUME Init
    PROVE  Promise!Init
<1>1. BytesInv
  BY BytesInit
<1>2. Busy = [p \in Procs |-> FALSE] /\ Outputs = [p \in Procs |-> <<>>]
  BY <1>1, OutputsAsWanted DEF Init, Busy
<1>3. QED
  BY <1>2 DEF Init, Promise!Init, Busy, Outputs

\* Pooling cannot be observed: whatever the pools, the collector and the other
\* goroutines do, the calls do what MarshalSpec promises of each of them alone.
THEOREM PoolsImplementPromise == Spec => Implements
<1>1. Init => Promise!Init
  BY InitIsSeen
<1>2. SinkInv /\ SinkInv' /\ [Next]_vars => [Promise!Next]_(Promise!vars)
  BY StepIsSeen
<1>3. QED
  BY <1>1, <1>2, SinkHolds, PTL DEF Spec, Implements, Promise!Spec

=============================================================================
