---------------------------- MODULE SchemaCache -----------------------------
(***************************************************************************)
(* Finding the codec of a type (src/scanner.go), as Encoder.Encode and     *)
(* Decoder.Decode do it: first in the pair (last, codec) the coder keeps,  *)
(* then in the process-wide sync.Map schemas, and otherwise by building it *)
(* from the type.  Building takes no lock, so goroutines build the codec   *)
(* of one type at the same time, and the codecs they build differ.         *)
(*                                                                         *)
(* A type is a description: its kind, the types scanType visits for it in  *)
(* order, and what decides between the codecs.  A codec is abstracted to   *)
(* who built it, what it is, and the types whose codecs it runs.           *)
(***************************************************************************)
EXTENDS Naturals, Sequences, FiniteSets, SequencesExt

CONSTANTS
    Procs,    \* the goroutines
    Coders,   \* Encoders and Decoders, pooled or not
    Types,    \* the types there are
    Roots,    \* the types of the values the goroutines encode and decode
    Desc,     \* the description of each type
    NoCodec,  \* no entry
    NoType,   \* the nil reflect.Type of a new coder
    NoCoder,
    MaxStack  \* scanType calls a goroutine's stack has room for

Kinds == {"pointer", "array", "slice", "struct", "map", "primitive", "other"}

\* basic: which primitive kind; exact: the very type scanFixedWidth or scanMap
\* compares with, not one defined from it; method: which of GetBinaryCodec and
\* MarshalBinary it has; tags: what its struct tags make of it; parts: its
\* element types, or its fields' types up to an invalid tag.
Description == [kind : Kinds, basic : {"uint8", "bool", "uint", "int", "other"},
                exact : BOOLEAN, method : {"none", "codec", "nil", "marshal"},
                tags : {"plain", "union", "invalid"}, parts : Seq(Types)]

\* A pointer has the marshaling methods of what it points to.
ASSUME DescAssumption ==
    /\ Desc \in [Types -> Description]
    /\ \A t \in Types : Desc[t].kind \in {"pointer", "array", "slice"} =>
          /\ Len(Desc[t].parts) = 1
          /\ Desc[t].kind = "pointer" /\ Desc[Desc[t].parts[1]].method = "marshal"
                => Desc[t].method = "marshal"
    /\ Roots \subseteq Types
    /\ NoType \notin Types /\ NoCoder \notin Coders
    /\ MaxStack \in Nat \ {0}

\* What Go says of these types: only structs have tags, primitives no parts, and
\* a type that is not declared no methods.  The maps of scanMap have primitives
\* and byte slices in them.
Undeclared(t) == Desc[t].kind = "primitive" /\ Desc[t].method = "none"

ASSUME GoAssumption == \A t \in Types :
    /\ Desc[t].kind # "struct" => Desc[t].tags = "plain"
    /\ Desc[t].kind = "primitive" => Desc[t].parts = <<>>
    /\ Desc[t].exact => Desc[t].method = "none"
    /\ Desc[t].exact /\ Desc[t].kind = "map" => \A i \in DOMAIN Desc[t].parts :
          LET u == Desc[t].parts[i]
          IN  \/ Undeclared(u)
              \/ /\ Desc[u].kind = "slice" /\ Desc[u].method = "none"
                 /\ Undeclared(Desc[u].parts[1])

-----------------------------------------------------------------------------
(* scanType, one call.                                                      *)

Custom(t) == Desc[t].method \in {"codec", "marshal"}

\* scanFixedWidth and the maps scanMap knows: nothing of them is scanned.
Known(t) ==
    \/ /\ Desc[t].kind \in {"array", "slice"}
       /\ LET elem == Desc[t].parts[1]
          IN  Desc[elem].kind = "primitive" /\ Desc[elem].exact
    \/ Desc[t].kind = "map" /\ Desc[t].exact

\* The calls scanType(t) makes.
Visits(t) == IF Desc[t].method # "none" \/ Known(t) THEN <<>> ELSE Desc[t].parts

\* A nil codec, an unsupported kind, invalid or mixed tags.
Rejected(t) ==
    \/ Desc[t].method = "nil"
    \/ Desc[t].method = "none" /\ Desc[t].kind = "other"
    \/ Desc[t].method = "none" /\ Desc[t].tags = "invalid"

\* Mutant of SliceName: the kind of the elements decides, not their codec.
SliceNameByKind(t, elem) ==
    LET e == Desc[Desc[t].parts[1]]
    IN  IF e.basic = "uint8" THEN "bytes"
        ELSE IF e.basic = "bool" THEN "bools"
        ELSE IF e.basic \in {"uint", "int"} THEN "varints"
        ELSE IF e.kind = "pointer" THEN "pointers"
        ELSE "collection"

\* scanSlice: elements that are plain primitives are not encoded by the
\* elements' codec, but by the slice's.
SliceName(t, elem) ==
    LET e == Desc[Desc[t].parts[1]]
    IN  IF e.basic = "uint8" /\ elem.name = "primitive" THEN "bytes"
        ELSE IF e.basic = "bool" /\ elem.name = "primitive" THEN "bools"
        ELSE IF e.basic \in {"uint", "int"} /\ elem.name = "primitive" THEN "varints"
        ELSE IF e.kind = "pointer" /\ elem.name = "pointer" THEN "pointers"
        ELSE "collection"

CodecName(t, kids) ==
    IF Custom(t) THEN "custom"
    ELSE IF Known(t) THEN "known"
    ELSE IF Desc[t].kind = "array" THEN "collection"
    ELSE IF Desc[t].kind = "slice" THEN SliceName(t, kids[1])
    ELSE IF Desc[t].kind = "struct" /\ Desc[t].tags = "union" THEN "union"
    ELSE Desc[t].kind

\* The codec scanType(t) returns, given those its own calls returned.
Made(p, t, kids) ==
    LET name  == CodecName(t, kids)
        drops == name \in {"bytes", "bools", "varints"}
    IN  [by |-> p, of |-> t, name |-> name,
         runs |-> {t} \cup IF drops THEN {} ELSE UNION {kids[i].runs : i \in DOMAIN kids}]

Codec == [by : Procs, of : Types, runs : SUBSET Types,
          name : Kinds \cup {"custom", "known", "bytes", "bools", "varints",
                             "pointers", "collection", "union"}]

ASSUME NoCodecAssumption == NoCodec \notin Codec

-----------------------------------------------------------------------------
VARIABLES
    schemas,  \* the process-wide cache
    last,     \* per coder, the type of its codec
    codec,    \* per coder, the codec it used last
    phase,    \* per goroutine, where it is in Encode or Decode
    coder,    \* per goroutine, the coder it uses
    type,     \* per goroutine, the type of the value
    stack,    \* per goroutine, its scanType calls: the type, the codecs so far
    using     \* per goroutine, the codec it has found

vars == <<schemas, last, codec, phase, coder, type, stack, using>>

Call  == [type : Types, kids : Seq(Codec)]

TypeOK ==
    /\ schemas \in [Types -> Codec \cup {NoCodec}]
    /\ last \in [Coders -> Types \cup {NoType}]
    /\ codec \in [Coders -> Codec \cup {NoCodec}]
    /\ phase \in [Procs -> {"idle", "load", "scan", "store", "use", "overflow"}]
    /\ coder \in [Procs -> Coders \cup {NoCoder}]
    /\ type \in [Procs -> Types \cup {NoType}]
    /\ stack \in [Procs -> Seq(Call)]
    /\ \A p \in Procs : stack[p] # <<>> <=> phase[p] \in {"scan", "overflow"}
    /\ using \in [Procs -> Codec \cup {NoCodec}]

-----------------------------------------------------------------------------
Top(p)  == Last(stack[p])
Child(p) == Visits(Top(p).type)[Len(Top(p).kids) + 1]
Scanned(p) == Len(Top(p).kids) = Len(Visits(Top(p).type))

\* Mutant of Leave: the calls in progress are not given up.
LeaveOpen(p) ==
    /\ phase' = [phase EXCEPT ![p] = "idle"]
    /\ coder' = [coder EXCEPT ![p] = NoCoder]
    /\ type' = [type EXCEPT ![p] = NoType]
    /\ using' = [using EXCEPT ![p] = NoCodec]
    /\ UNCHANGED stack

\* The call is over and the coder free for another.
Leave(p) ==
    /\ phase' = [phase EXCEPT ![p] = "idle"]
    /\ coder' = [coder EXCEPT ![p] = NoCoder]
    /\ type' = [type EXCEPT ![p] = NoType]
    /\ stack' = [stack EXCEPT ![p] = <<>>]
    /\ using' = [using EXCEPT ![p] = NoCodec]

\* e.last, e.codec = t, c, and the codec is put to use.
Adopt(p, c) ==
    /\ last' = [last EXCEPT ![coder[p]] = type[p]]
    /\ codec' = [codec EXCEPT ![coder[p]] = c]
    /\ using' = [using EXCEPT ![p] = c]
    /\ phase' = [phase EXCEPT ![p] = "use"]

\* Encode or Decode on a coder no other goroutine uses.
Begin(p) ==
    /\ phase[p] = "idle"
    /\ \E c \in Coders \ {coder[q] : q \in Procs}, t \in Roots :
          /\ coder' = [coder EXCEPT ![p] = c]
          /\ type' = [type EXCEPT ![p] = t]
          /\ \/ /\ t = last[c]
                /\ phase' = [phase EXCEPT ![p] = "use"]
                /\ using' = [using EXCEPT ![p] = codec[c]]
             \/ /\ t # last[c]
                /\ phase' = [phase EXCEPT ![p] = "load"]
                /\ UNCHANGED using
    /\ UNCHANGED <<schemas, last, codec, stack>>

\* scan: schemas.Load(t).
LoadHit(p) ==
    /\ phase[p] = "load"
    /\ schemas[type[p]] # NoCodec
    /\ Adopt(p, schemas[type[p]])
    /\ UNCHANGED <<schemas, coder, type, stack>>

LoadMiss(p) ==
    /\ phase[p] = "load"
    /\ schemas[type[p]] = NoCodec
    /\ phase' = [phase EXCEPT ![p] = "scan"]
    /\ stack' = [stack EXCEPT ![p] = << [type |-> type[p], kids |-> <<>>] >>]
    /\ UNCHANGED <<schemas, last, codec, coder, type, using>>

\* scanType calls scanType; a goroutine that outgrows its stack dies, and the
\* process with it.
Visit(p) ==
    /\ phase[p] = "scan"
    /\ ~Scanned(p)
    /\ \/ /\ Len(stack[p]) < MaxStack
          /\ stack' = [stack EXCEPT ![p] = Append(@, [type |-> Child(p), kids |-> <<>>])]
          /\ UNCHANGED phase
       \/ /\ Len(stack[p]) = MaxStack
          /\ phase' = [phase EXCEPT ![p] = "overflow"]
          /\ UNCHANGED stack
    /\ UNCHANGED <<schemas, last, codec, coder, type, using>>

\* Mutant of Return: the error of an element or a field is lost.
ReturnAnyway(p) ==
    /\ phase[p] = "scan"
    /\ Scanned(p)
    /\ Rejected(Top(p).type) => Len(stack[p]) > 1
    /\ LET made  == Made(p, Top(p).type, Top(p).kids)
           below == Front(stack[p])
       IN  \/ /\ Len(stack[p]) > 1
              /\ stack' = [stack EXCEPT ![p] =
                    [below EXCEPT ![Len(below)].kids = Append(@, made)]]
              /\ UNCHANGED <<phase, using>>
           \/ /\ Len(stack[p]) = 1
              /\ stack' = [stack EXCEPT ![p] = <<>>]
              /\ using' = [using EXCEPT ![p] = made]
              /\ phase' = [phase EXCEPT ![p] = "store"]
    /\ UNCHANGED <<schemas, last, codec, coder, type>>

\* Mutant of Return: the caller does not go on to its next element or field.
ReturnAgain(p) ==
    /\ phase[p] = "scan"
    /\ Scanned(p)
    /\ ~Rejected(Top(p).type)
    /\ LET made == Made(p, Top(p).type, Top(p).kids)
       IN  \/ /\ Len(stack[p]) > 1
              /\ stack' = [stack EXCEPT ![p] = Front(@)]
              /\ UNCHANGED <<phase, using>>
           \/ /\ Len(stack[p]) = 1
              /\ stack' = [stack EXCEPT ![p] = <<>>]
              /\ using' = [using EXCEPT ![p] = made]
              /\ phase' = [phase EXCEPT ![p] = "store"]
    /\ UNCHANGED <<schemas, last, codec, coder, type>>

\* scanType returns a codec, to the scanType that called it or to scan.
Return(p) ==
    /\ phase[p] = "scan"
    /\ Scanned(p)
    /\ ~Rejected(Top(p).type)
    /\ LET made  == Made(p, Top(p).type, Top(p).kids)
           below == Front(stack[p])
       IN  \/ /\ Len(stack[p]) > 1
              /\ stack' = [stack EXCEPT ![p] =
                    [below EXCEPT ![Len(below)].kids = Append(@, made)]]
              /\ UNCHANGED <<phase, using>>
           \/ /\ Len(stack[p]) = 1
              /\ stack' = [stack EXCEPT ![p] = <<>>]
              /\ using' = [using EXCEPT ![p] = made]
              /\ phase' = [phase EXCEPT ![p] = "store"]
    /\ UNCHANGED <<schemas, last, codec, coder, type>>

\* scanType returns an error, which goes up all its callers to Encode.
Reject(p) ==
    /\ phase[p] = "scan"
    /\ Scanned(p)
    /\ Rejected(Top(p).type)
    /\ Leave(p)
    /\ UNCHANGED <<schemas, last, codec>>

\* scan: schemas.LoadOrStore(t, c), and the codec that was first is used.
StoreFirst(p) ==
    /\ phase[p] = "store"
    /\ schemas[type[p]] = NoCodec
    /\ schemas' = [schemas EXCEPT ![type[p]] = using[p]]
    /\ Adopt(p, using[p])
    /\ UNCHANGED <<coder, type, stack>>

\* Mutant of StoreLate: the codec LoadOrStore returns is ignored.
StoreLateOwn(p) ==
    /\ phase[p] = "store"
    /\ schemas[type[p]] # NoCodec
    /\ Adopt(p, using[p])
    /\ UNCHANGED <<schemas, coder, type, stack>>

StoreLate(p) ==
    /\ phase[p] = "store"
    /\ schemas[type[p]] # NoCodec
    /\ Adopt(p, schemas[type[p]])
    /\ UNCHANGED <<schemas, coder, type, stack>>

\* The codec encodes or decodes the value, with or without an error.
Use(p) ==
    /\ phase[p] = "use"
    /\ Leave(p)
    /\ UNCHANGED <<schemas, last, codec>>

-----------------------------------------------------------------------------
Init ==
    /\ schemas = [t \in Types |-> NoCodec]
    /\ last = [c \in Coders |-> NoType]
    /\ codec = [c \in Coders |-> NoCodec]
    /\ phase = [p \in Procs |-> "idle"]
    /\ coder = [p \in Procs |-> NoCoder]
    /\ type = [p \in Procs |-> NoType]
    /\ stack = [p \in Procs |-> <<>>]
    /\ using = [p \in Procs |-> NoCodec]

Encode(p) ==
    \/ LoadHit(p) \/ LoadMiss(p) \/ Visit(p) \/ Return(p) \/ Reject(p)
    \/ StoreFirst(p) \/ StoreLate(p) \/ Use(p)

Next == \E p \in Procs : Begin(p) \/ Encode(p)

Spec == Init /\ [][Next]_vars

\* A goroutine in a call keeps running; nothing makes it call again.
FairSpec == Spec /\ \A p \in Procs : WF_vars(Encode(p))

-----------------------------------------------------------------------------
(* What the cache must not break.                                           *)

\* The types a codec for t has to deal with, whatever codecs it does it by: the
\* smallest set with t in it, and with every type all its parts.
Parts(t) == IF Desc[t].method = "none" THEN ToSet(Desc[t].parts) ELSE {}

\* ({T : ...} has TLC enumerate the subsets once.)
Closed == {S \in {T : T \in SUBSET Types} : \A u \in S : Parts(u) \subseteq S}
Deals  == [t \in Types |-> {u \in Types : \A S \in Closed : t \in S => u \in S}]

\* All goroutines and all coders use one codec for a type, whoever built how
\* many, and whatever errors a coder met before (LoadOrStore in scan, and the
\* pair e.last and e.codec in Encode).
OneCodec ==
    /\ \A c \in Coders : last[c] # NoType =>
          codec[c] # NoCodec /\ codec[c] = schemas[last[c]]
    /\ \A p \in Procs : phase[p] = "use" =>
          using[p] # NoCodec /\ using[p] = schemas[type[p]]

\* The codec of a type is for that type, and leaves to its own codec every
\* type in it that has one: no shortcut for slices of primitives skips a
\* method of their elements (the *primitiveCodec tests of scanSlice).
CodecHonoursMethods == \A t \in Types : schemas[t] # NoCodec =>
    /\ schemas[t].of = t
    /\ {u \in Deals[t] : Custom(u)} \subseteq schemas[t].runs

\* A type is in the cache only if everything it is made of can be encoded: an
\* error is never cached, nor lost on its way up (err of scanType).
OnlyScannable == \A t \in Types : schemas[t] # NoCodec =>
    \A u \in Deals[t] : ~Rejected(u)

\* Every call of scan returns.
ScanReturns == \A p \in Procs : phase[p] = "load" ~> phase[p] \in {"use", "idle"}

\* No goroutine runs out of stack while it builds a codec.
ScanFits == \A p \in Procs : phase[p] # "overflow"

=============================================================================
