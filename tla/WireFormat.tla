----------------------------- MODULE WireFormat -----------------------------
(***************************************************************************)
(* What the codecs of every type write and read (src/codecs.go,            *)
(* src/union.go, src/nocopy, src/unsafe): prefixes and counts, elements,   *)
(* pointers, maps, union arms in frames of their own.  A type is a         *)
(* description, and its codec is made of the codecs of its parts, the way  *)
(* scanType makes it.                                                      *)
(*                                                                         *)
(* A value of a random type is encoded, cut or damaged on its way, and     *)
(* decoded twice, by a decoder of bytes in memory and by one of a stream,  *)
(* each into a destination of its own that it has used before, perhaps by  *)
(* a version of the type that has fewer or more arms and fields.           *)
(*                                                                         *)
(* Every number and count is below 128, so that its varint is one byte     *)
(* (Readers has the others).  Byte slices and slices of unsigned integers  *)
(* that are fields beside a primitive one are decoded by StructDecode.     *)
(* A destination is a value: two parts of it never share memory.           *)
(***************************************************************************)
EXTENDS Integers, Sequences, FiniteSets, Functions, SequencesExt

CONSTANTS
    Types,     \* names of types
    Desc,      \* their descriptions
    Depth,     \* how deep they are nested
    Versions,  \* pairs: the type that is encoded, the type that decodes it
    Values,    \* per type, the values that are encoded
    Fragile,   \* types that make room for any length: never damaged
    Max16,     \* stands for the largest number of two bytes
    Huge,      \* stands for any number of more than one byte
    Batch,     \* stands for 8, the entries that are encoded in one piece
    Damages,   \* what a damaged byte may become
    MaxRounds, \* bound: values decoded into one destination
    Anything   \* what else a codec may be applied to: for TLC, that builds no sets of values

Byte    == 0 .. 127
Readers == {"slice", "stream"}

\* fixed: width bytes, a number (a varint is one) or an array of floats.
\* blob: a length of prefix bytes, or a varint if prefix = 0, and that many
\* bytes, or that many units of them.  skipped: a field that is not encoded.
\* own: the type brought its codec along (GetBinaryCodec).  tuple: a struct,
\* an array, or the key and the value of an entry.
Description ==
         [kind : {"skipped"}]
    \cup [kind : {"fixed"}, width : Nat \ {0}, array : BOOLEAN]
    \cup [kind : {"blob"}, prefix : {0, 2, 4, 8}, unit : Nat \ {0},
          units : BOOLEAN, own : BOOLEAN]
    \cup [kind : {"slice", "pointer"}, elem : Types]
    \cup [kind : {"tuple"}, parts : Seq(Types), ahead : BOOLEAN]
    \cup [kind : {"map"}, codec : {"string", "uint64", "reflect", "own"},
          prefix : {0, 2, 4}, entry : Types, least : Nat]

IsUnion(d) ==
    d.kind = "union" /\ d.arms \in [DOMAIN d.arms -> Types] /\ DOMAIN d.arms \subseteq Byte \ {0}

\* What a value takes at least: this many bytes of a number or a prefix, and
\* the flag, the count or the tag and the length before the rest.
Takes(d) ==
    CASE d.kind = "fixed" -> d.width
      [] d.kind = "blob"  -> IF d.prefix = 0 THEN 1 ELSE d.prefix
      [] d.kind = "union" -> 2
      [] d.kind \in {"skipped", "tuple"} -> 0
      [] OTHER            -> 1

\* Keys are numbers or strings, and a specialised codec of maps knows what its entries take.
IsMap(d) ==
    LET entry == Desc[d.entry]
    IN  /\ entry.kind = "tuple" /\ Len(entry.parts) = 2 /\ ~entry.ahead
        /\ Desc[entry.parts[1]].kind \in {"fixed", "blob"}
        /\ d.codec # "reflect" => d.least <= Takes(Desc[entry.parts[1]]) + Takes(Desc[entry.parts[2]])

ASSUME WireAssumption ==
    /\ DOMAIN Desc = Types
    /\ \A t \in Types : Desc[t] \in Description \/ IsUnion(Desc[t])
    /\ \A t \in Types : Desc[t].kind = "map" => IsMap(Desc[t])
    /\ \A t \in Types : Desc[t].kind = "tuple" /\ Desc[t].ahead =>
           \A i \in DOMAIN Desc[t].parts : Desc[Desc[t].parts[i]].kind = "blob"
    /\ Versions \subseteq Types \X Types
    /\ Fragile \subseteq Types
    /\ Max16 \in Nat /\ Huge \in Nat /\ Batch \in Nat
    /\ Damages \subseteq Byte
    /\ MaxRounds \in Nat \ {0}

\* What a type is made of.
Parts(d) ==
    CASE d.kind \in {"slice", "pointer"} -> {d.elem}
      [] d.kind = "tuple"                -> ToSet(d.parts)
      [] d.kind = "map"                  -> {d.entry}
      [] d.kind = "union"                -> {d.arms[tag] : tag \in DOMAIN d.arms}
      [] OTHER                           -> {}

MadeOf(types) == {t \in Types : Parts(Desc[t]) \subseteq types}

\* The types that are nested at most n deep.
Nested[n \in Nat] == IF n = 0 THEN {} ELSE MadeOf(Nested[n - 1])

\* No type contains itself: scanType does not return for one that does (ScanFits in SchemaCache).
ASSUME DepthAssumption == Depth \in Nat /\ Nested[Depth] = Types

-----------------------------------------------------------------------------
(* Values, and what is known of a codec.  inner has, per type, what is      *)
(* known of the parts, and their codecs.                                    *)

Optional(values) == {v \in Seq(values) : Len(v) <= 1}

\* One value of each set; and of several types, one by one.
OneOfEach(sets)      == {v \in [DOMAIN sets -> Anything \cup UNION Range(sets)] :
                            \A x \in DOMAIN sets : v[x] \in sets[x]}
Tuples(shape, types) == OneOfEach([i \in DOMAIN types |-> shape[types[i]]])
Arms(shape, arms)    == OneOfEach([tag \in DOMAIN arms |-> Optional(shape[arms[tag]])])

\* A slice is its array up to the capacity, and its length; a map its entries,
\* of which the last with a key counts; a pointer and an arm what it points to,
\* if it is not nil.  A nil slice or map is an empty one.  A union that was
\* decoded has at most one arm.
Shape(shape, d, decoded) ==
    CASE d.kind = "skipped" -> Byte
      [] d.kind = "fixed"   -> [1 .. d.width -> Byte]
      [] d.kind = "blob"    -> {v \in Seq(Byte) : Len(v) % d.unit = 0}
      [] d.kind = "slice"   -> {v \in [mem : Seq(shape[d.elem]), len : Nat] : v.len <= Len(v.mem)}
      [] d.kind = "pointer" -> Optional(shape[d.elem])
      [] d.kind = "tuple"   -> Tuples(shape, d.parts)
      [] d.kind = "map"     -> Seq(shape[d.entry])
      [] d.kind = "union"   -> {v \in Arms(shape, d.arms) :
                                   decoded => \A a, b \in DOMAIN d.arms :
                                                 v[a] # <<>> /\ v[b] # <<>> => a = b}

Zero(inner, d) ==
    CASE d.kind = "skipped" -> 0
      [] d.kind = "fixed"   -> [i \in 1 .. d.width |-> 0]
      [] d.kind = "slice"   -> [mem |-> <<>>, len |-> 0]
      [] d.kind = "tuple"   -> [i \in DOMAIN d.parts |-> inner.zero[d.parts[i]]]
      [] d.kind = "union"   -> [tag \in DOMAIN d.arms |-> <<>>]
      [] OTHER              -> <<>>

\* Mutant of UnionBytes: an arm has at least one byte.
UnionBytesOfAnArm == 3

\* A union is a tag and the length of its arm.
UnionBytes == 2

\* wireMinBytes, a lower bound on what one value takes.
MinBytes(inner, d) ==
    CASE d.kind = "skipped" -> 0
      [] d.kind = "tuple"   -> SumFunction([i \in DOMAIN d.parts |-> inner.min[d.parts[i]]])
      [] d.kind = "fixed"   -> IF d.array THEN d.width ELSE 1
      [] d.kind = "blob"    -> IF d.own THEN 0 ELSE 1
      [] d.kind = "map"     -> IF d.codec = "own" THEN 0 ELSE 1
      [] d.kind = "union"   -> UnionBytes
      [] OTHER              -> 1

\* isZeroWireCodec: its values take no bytes at all.
Wireless(inner, d) ==
    \/ d.kind = "skipped"
    \/ d.kind = "tuple" /\ \A i \in DOMAIN d.parts : inner.wireless[d.parts[i]]

-----------------------------------------------------------------------------
(* Encoding: the bytes that reach the writer, and whether all went well.    *)

Written(bytes) == [bytes |-> bytes, ok |-> TRUE]
Failed         == [bytes |-> <<>>, ok |-> FALSE]
Then(a, b)     == [bytes |-> a.bytes \o b.bytes, ok |-> b.ok]

\* WriteUvarint, WriteUint16, WriteUint32, WriteUint64, little-endian.
Prefix(width, n) == <<n>> \o [i \in 1 .. (IF width = 0 THEN 0 ELSE width - 1) |-> 0]

\* checkMapKey, and the limit of a map in nocopy.
TooLarge(width, n) == width = 2 /\ n > Max16

EncodeBlob(d, v) ==
    IF TooLarge(d.prefix, Len(v)) THEN Failed
    ELSE Written(Prefix(d.prefix, IF d.units THEN Len(v) \div d.unit ELSE Len(v)) \o v)

Many(n, t) == [i \in 1 .. n |-> t]

AndEncode(inner, t, v, buffered, sofar) ==
    IF sofar.ok THEN Then(sofar, inner.encode[t][buffered][v]) ELSE sofar

\* One after the other, up to the first that fails.
EncodeAll(inner, types, values, buffered) ==
    LET upTo[i \in Nat] == IF i = 0 THEN Written(<<>>)
                           ELSE AndEncode(inner, types[i], values[i], buffered, upTo[i - 1])
    IN  upTo[Len(types)]

\* A map that is refused before the first byte is written: one in nocopy that
\* is too large; one in a single piece, by stringMapCodec.
ChecksFirst(d, v, buffered) ==
    \/ d.codec = "own" /\ TooLarge(d.prefix, Len(v))
    \/ /\ d.codec = "string" /\ buffered /\ Len(v) >= Batch
       /\ \E i \in DOMAIN v : TooLarge(Desc[Desc[d.entry].parts[1]].prefix, Len(v[i][1]))

\* The order of the entries is any, that of the value.
EncodeMap(inner, d, v, buffered) ==
    IF ChecksFirst(d, v, buffered) THEN Failed
    ELSE Then(Written(Prefix(d.prefix, Len(v))),
              EncodeAll(inner, Many(Len(v), d.entry), v, buffered))

\* Encoder.WriteTagged, with what was encoded into a buffer of its own.
Frame(tag, body) ==
    IF body.ok THEN Then(Written(<<tag, Len(body.bytes)>>), body) ELSE Failed

\* Mutant of EncodeUnion: two arms are written as none.
EncodeUnionEager(inner, d, v) ==
    LET set == {tag \in DOMAIN d.arms : v[tag] # <<>>}
        arm == CHOOSE tag \in set : TRUE
    IN  IF Cardinality(set) # 1 THEN [bytes |-> <<0, 0>>, ok |-> set = {}]
        ELSE Frame(arm, inner.encode[d.arms[arm]][TRUE][v[arm][1]])

\* findArm: the arm that is set, if there is one; ErrMultipleArms.
EncodeUnion(inner, d, v) ==
    LET set == {tag \in DOMAIN d.arms : v[tag] # <<>>}
        arm == CHOOSE tag \in set : TRUE
    IN  IF set = {} THEN Written(<<0, 0>>)
        ELSE IF set # {arm} THEN Failed
        ELSE Frame(arm, inner.encode[d.arms[arm]][TRUE][v[arm][1]])

EncodeOf(inner, d, v, buffered) ==
    CASE d.kind = "skipped" -> Written(<<>>)
      [] d.kind = "fixed"   -> Written(v)
      [] d.kind = "blob"    -> EncodeBlob(d, v)
      [] d.kind = "slice"   -> Then(Written(<<v.len>>),
                                    EncodeAll(inner, Many(v.len, d.elem), v.mem, buffered))
      [] d.kind = "pointer" -> Then(Written(<<IF v = <<>> THEN 1 ELSE 0>>),
                                    EncodeAll(inner, Many(Len(v), d.elem), v, buffered))
      [] d.kind = "tuple"   -> EncodeAll(inner, d.parts, v, buffered)
      [] d.kind = "map"     -> EncodeMap(inner, d, v, buffered)
      [] d.kind = "union"   -> EncodeUnion(inner, d, v)

-----------------------------------------------------------------------------
(* Decoding.  A context is the bytes, where they end for this decoder, and  *)
(* whether it knows that (Decoder.Available); a result says whether it is   *)
(* one, where it stopped, and what the destination is left with.            *)

Contexts == {c \in [bytes : Seq(Byte), end : Nat, knows : BOOLEAN] : c.end <= Len(c.bytes)}

Ok(pos, value)   == [ok |-> TRUE, pos |-> pos, val |-> value]
Bad(left)        == [ok |-> FALSE, pos |-> 0, val |-> left]
Leaving(r, left) == IF r.ok THEN r ELSE Bad(left)

Rest(c, pos) == c.end - pos

\* Decoder.Slice.
Slice(c, pos, n) ==
    IF n > Rest(c, pos) THEN Bad(<<>>) ELSE Ok(pos + n, SubSeq(c.bytes, pos + 1, pos + n))

\* ReadUvarint, ReadUint16, ReadUint32, ReadUint64.
ReadPrefix(c, pos, width) == Slice(c, pos, IF width = 0 THEN 1 ELSE width)

Number(b) == IF \A i \in 2 .. Len(b) : b[i] = 0 THEN b[1] ELSE Huge

\* Mutant of Scarce: the bound is off by one.
ScarceExactly(c, pos, n, least) ==
    c.knows /\ least > 0 /\ n >= Rest(c, pos) \div least /\ n > 0

\* ensureElements, and ensureAvailable for one byte each.
Scarce(c, pos, n, least) == c.knows /\ least > 0 /\ n > Rest(c, pos) \div least

\* Mutant of BlobBody: the length may end within a unit.
BlobBodyAny(d, c, pos, n, old) ==
    Leaving(Slice(c, pos, IF d.units THEN n * d.unit ELSE n), old)

\* Mutant of BlobBody: what is left is taken, if it is less.
BlobBodyShort(d, c, pos, n, old) ==
    IF ~d.units /\ n % d.unit # 0 THEN Bad(old)
    ELSE Leaving(Slice(c, pos, IF d.units THEN n * d.unit
                               ELSE IF n > Rest(c, pos) THEN Rest(c, pos) ELSE n), old)

BlobBody(d, c, pos, n, old) ==
    IF ~d.units /\ n % d.unit # 0 THEN Bad(old)
    ELSE Leaving(Slice(c, pos, IF d.units THEN n * d.unit ELSE n), old)

DecodeBlob(d, c, r, old) == IF r.ok THEN BlobBody(d, c, r.pos, Number(r.val), old) ELSE Bad(old)

\* Element i where it is; one that is not there yet is appended, from zero.
PutAt(vals, i, v) == IF i <= Len(vals) THEN [vals EXCEPT ![i] = v] ELSE Append(vals, v)

AndDecode(inner, t, c, i, sofar) ==
    IF ~sofar.ok THEN sofar
    ELSE LET old == IF i <= Len(sofar.val) THEN sofar.val[i] ELSE inner.zero[t]
             r   == inner.decode[t][c][sofar.pos][old]
         IN  [r EXCEPT !.val = PutAt(sofar.val, i, @)]

\* One after the other, up to the first that fails.
DecodeAll(inner, types, c, pos, olds) ==
    LET upTo[i \in Nat] == IF i = 0 THEN Ok(pos, olds)
                           ELSE AndDecode(inner, types[i], c, i, upTo[i - 1])
    IN  upTo[Len(types)]

\* resizeSliceChecked: the elements within the capacity are still there.
Resized(zero, old, n) ==
    IF n <= Len(old.mem) THEN SubSeq(old.mem, 1, n) ELSE [i \in 1 .. n |-> zero]

\* The elements as a slice, with the memory behind them.
AsSlice(r, old) ==
    [r EXCEPT !.val = [mem |-> @ \o SubSeq(old.mem, Len(@) + 1, Len(old.mem)), len |-> Len(@)]]

\* appendSliceElement where the size of an element is not known.
Elements(inner, elem, c, pos, n, old) ==
    IF inner.wireless[elem] THEN AsSlice(Ok(pos, Resized(inner.zero[elem], old, n)), old)
    ELSE IF Scarce(c, pos, n, inner.min[elem]) THEN Bad(old)
    ELSE AsSlice(DecodeAll(inner, Many(n, elem), c, pos,
                           IF c.knows /\ inner.min[elem] = 0 THEN <<>>
                           ELSE Resized(inner.zero[elem], old, n)), old)

DecodeSlice(inner, elem, c, r, old) ==
    IF r.ok THEN Elements(inner, elem, c, r.pos, r.val[1], old) ELSE Bad(old)

DecodePointer(inner, elem, c, r, old) ==
    IF ~r.ok THEN Bad(old)
    ELSE IF r.val[1] = 1 THEN Ok(r.pos, <<>>)
    ELSE DecodeAll(inner, Many(1, elem), c, r.pos, old)

\* Only an array of strings is looked at ahead.
DecodeTuple(inner, d, c, pos, old) ==
    IF d.ahead /\ Scarce(c, pos, Len(d.parts), 1) THEN Bad(old)
    ELSE DecodeAll(inner, d.parts, c, pos, old)

\* Mutant of Emptied: the entries stay.
EmptiedNever(old) == old

\* A map that is there is cleared.
Emptied(old) == <<>>

\* The least an entry takes: what the specialised codec says, or the codecs.
Least(inner, d) == IF d.codec = "reflect" THEN inner.min[d.entry] ELSE d.least

\* Every entry is set as soon as it is complete.
Entries(inner, d, c, pos, n, map) ==
    LET r == DecodeAll(inner, Many(n, d.entry), c, pos, <<>>)
    IN  [r EXCEPT !.val = map \o (IF r.ok THEN @ ELSE SubSeq(@, 1, Len(@) - 1))]

MapBody(inner, d, c, pos, n, old) ==
    IF (d.codec = "reflect" => n > 1) /\ Scarce(c, pos, n, Least(inner, d)) THEN Bad(old)
    ELSE Entries(inner, d, c, pos, n, Emptied(old))

DecodeMap(inner, d, c, r, old) ==
    IF r.ok THEN MapBody(inner, d, c, r.pos, Number(r.val), old) ELSE Bad(old)

\* Mutant of Body: the arm is decoded by the decoder as it is.
BodyOpen(c, end) == c

\* decodeArm: the reader narrowed to the body, or a pooled decoder of it.
Body(c, end) == [c EXCEPT !.end = end, !.knows = TRUE]

\* Mutant of SetArm: the arm is set and then decoded.
SetArmFirst(d, tag, end, r) ==
    [r EXCEPT !.pos = end, !.val = [other \in DOMAIN d.arms |-> IF other = tag THEN <<@>> ELSE <<>>]]

\* All arms are cleared; the one on the wire is set if it could be decoded.
SetArm(d, tag, end, r) ==
    LET none == [other \in DOMAIN d.arms |-> <<>>]
    IN  IF r.ok THEN Ok(end, [none EXCEPT ![tag] = <<r.val>>]) ELSE Bad(none)

UnionBody(inner, d, c, tag, from, end, old) ==
    IF end > c.end THEN Bad(old)
    ELSE IF tag \notin DOMAIN d.arms THEN Ok(end, [other \in DOMAIN d.arms |-> <<>>])
    ELSE SetArm(d, tag, end,
                inner.decode[d.arms[tag]][Body(c, end)][from]
                    [IF old[tag] = <<>> THEN inner.zero[d.arms[tag]] ELSE old[tag][1]])

\* ReadTagged: tag and length, then the body.
DecodeUnion(inner, d, c, r, old) ==
    IF r.ok THEN UnionBody(inner, d, c, r.val[1], r.pos, r.pos + r.val[2], old) ELSE Bad(old)

DecodeOf(inner, d, c, pos, old) ==
    CASE d.kind = "skipped" -> Ok(pos, old)
      [] d.kind = "fixed"   -> Leaving(Slice(c, pos, d.width), old)
      [] d.kind = "blob"    -> DecodeBlob(d, c, ReadPrefix(c, pos, d.prefix), old)
      [] d.kind = "slice"   -> DecodeSlice(inner, d.elem, c, ReadPrefix(c, pos, 0), old)
      [] d.kind = "pointer" -> DecodePointer(inner, d.elem, c, Slice(c, pos, 1), old)
      [] d.kind = "tuple"   -> DecodeTuple(inner, d, c, pos, old)
      [] d.kind = "map"     -> DecodeMap(inner, d, c, ReadPrefix(c, pos, d.prefix), old)
      [] d.kind = "union"   -> DecodeUnion(inner, d, c, Slice(c, pos, 2), old)

-----------------------------------------------------------------------------
(* The codecs of all types, from those of their parts.                      *)

Made(inner) ==
    [values   |-> [t \in Types |-> Shape(inner.values, Desc[t], FALSE)],
     results  |-> [t \in Types |-> Shape(inner.results, Desc[t], TRUE)],
     zero     |-> [t \in Types |-> Zero(inner, Desc[t])],
     min      |-> [t \in Types |-> MinBytes(inner, Desc[t])],
     wireless |-> [t \in Types |-> Wireless(inner, Desc[t])],
     encode   |-> [t \in Types |->
                     [buffered \in BOOLEAN |-> [v \in Anything \cup Shape(inner.values, Desc[t], FALSE) |->
                         EncodeOf(inner, Desc[t], v, buffered)]]],
     decode   |-> [t \in Types |->
                     [c \in Contexts |-> [pos \in Nat |->
                      [old \in Anything \cup Shape(inner.results, Desc[t], TRUE) |->
                         DecodeOf(inner, Desc[t], c, pos, old)]]]]]

None == [t \in Types |-> {}]

Codecs[n \in Nat] ==
    IF n = 0 THEN [values |-> None, results |-> None, zero |-> None, min |-> None,
                   wireless |-> None, encode |-> None, decode |-> None]
    ELSE Made(Codecs[n - 1])

Codec == Codecs[Depth]

Encode(t, v, buffered)  == Codec.encode[t][buffered][v]
Decode(t, c, pos, old)  == Codec.decode[t][c][pos][old]

-----------------------------------------------------------------------------
(* What a version u of a type makes of the values of a version t.           *)

Latest(map) == {i \in DOMAIN map : \A j \in DOMAIN map : map[j][1] = map[i][1] => j <= i}

\* What of a value is visible to u, and was encoded.
Visible(view, dt, du, v) ==
    CASE dt.kind = "skipped" -> 0
      [] dt.kind = "slice"   -> [i \in 1 .. v.len |-> view[dt.elem][du.elem][v.mem[i]]]
      [] dt.kind = "pointer" -> [i \in 1 .. Len(v) |-> view[dt.elem][du.elem][v[i]]]
      [] dt.kind = "tuple"   -> [i \in DOMAIN du.parts \cap DOMAIN dt.parts |->
                                    view[dt.parts[i]][du.parts[i]][v[i]]]
      [] dt.kind = "map"     -> {view[dt.entry][du.entry][v[i]] : i \in Latest(v)}
      [] dt.kind = "union"   -> [tag \in DOMAIN du.arms |->
                                    IF tag \notin DOMAIN dt.arms THEN <<>>
                                    ELSE [i \in 1 .. Len(v[tag]) |->
                                             view[dt.arms[tag]][du.arms[tag]][v[tag][i]]]]
      [] OTHER               -> v

\* Can u read what t wrote?  It has to know a part of the arms, and of an arm
\* no more fields than there are.
Legible(readable, dt, du, v) ==
    \/ dt = du
    \/ /\ du.kind = "tuple"
       /\ Len(du.parts) <= Len(dt.parts)
       /\ \A i \in DOMAIN du.parts : v[i] \in readable[dt.parts[i]][du.parts[i]]
    \/ /\ du.kind = "union"
       /\ \A tag \in DOMAIN du.arms \cap DOMAIN dt.arms :
             \A i \in DOMAIN v[tag] : v[tag][i] \in readable[dt.arms[tag]][du.arms[tag]]

\* Of the maps and unions of a destination, itself or in its structs and arrays,
\* old before and new after: they are as before, or have only what v has.
Unmixed(inner, dt, du, old, new, v) ==
    LET o == Visible(inner.view, du, du, old)
        n == Visible(inner.view, du, du, new)
    IN  CASE du.kind = "map"   -> n = o \/ n \subseteq {inner.view[dt.entry][du.entry][v[i]] : i \in DOMAIN v}
          [] du.kind = "union" -> \/ n = o
                                   \/ n = [tag \in DOMAIN du.arms |-> <<>>]
                                   \/ n = Visible(inner.view, dt, du, v)
          [] du.kind = "tuple" -> \A i \in DOMAIN du.parts :
                                     <<old[i], new[i], v[i]>> \in inner.unmixed[dt.parts[i]][du.parts[i]]
          [] OTHER             -> TRUE

\* Two versions of a type that may stand in the same place: they differ in the
\* arms of their unions.
Evolves(m, dt, du) ==
    \/ dt = du
    \/ /\ dt.kind = "tuple" /\ du.kind = "tuple" /\ Len(dt.parts) = Len(du.parts) /\ ~du.ahead
       /\ \A i \in DOMAIN du.parts : m.versions[dt.parts[i]][du.parts[i]]
    \/ /\ dt.kind = "union" /\ du.kind = "union"
       /\ \A tag \in DOMAIN du.arms \cap DOMAIN dt.arms : m.arms[dt.arms[tag]][du.arms[tag]]

\* As arms, structs may have more or fewer fields, if a new one takes a byte.
Extends(m, min, dt, du) ==
    \/ Evolves(m, dt, du)
    \/ /\ dt.kind = "tuple" /\ du.kind = "tuple" /\ ~du.ahead
       /\ \A i \in DOMAIN du.parts \cap DOMAIN dt.parts : m.versions[dt.parts[i]][du.parts[i]]
       /\ Len(dt.parts) < Len(du.parts) => min[du.parts[Len(dt.parts) + 1]] > 0

Meant(inner, codecs) ==
    [view     |-> [t \in Types |-> [u \in Types |-> [v \in Anything \cup codecs.values[t] |->
                     Visible(inner.view, Desc[t], Desc[u], v)]]],
     readable |-> [t \in Types |-> [u \in Types |-> {v \in Anything \cup codecs.values[t] :
                     Legible(inner.readable, Desc[t], Desc[u], v)}]],
     unmixed  |-> [t \in Types |-> [u \in Types |->
                     {x \in (Anything \cup codecs.results[u]) \X (Anything \cup codecs.results[u])
                               \X (Anything \cup codecs.values[t]) :
                         Unmixed(inner, Desc[t], Desc[u], x[1], x[2], x[3])}]],
     versions |-> [t \in Types |-> [u \in Types |-> Evolves(inner, Desc[t], Desc[u])]],
     arms     |-> [t \in Types |-> [u \in Types |-> Extends(inner, codecs.min, Desc[t], Desc[u])]]]

Meanings[n \in Nat] ==
    IF n = 0 THEN [view |-> None, readable |-> None, unmixed |-> None, versions |-> None, arms |-> None]
    ELSE Meant(Meanings[n - 1], Codecs[n])

Meaning == Meanings[Depth]

Seen(t, v)        == Meaning.view[t][t][v]
SeenAs(t, u, v)   == Meaning.view[t][u][v]
Readable(t, u, v) == v \in Meaning.readable[t][u]

\* The versions are versions, and their values take less than 128 bytes.
ASSUME VersionAssumption ==
    /\ \A pair \in Versions : Meaning.versions[pair[1]][pair[2]]
    /\ \A pair \in Versions : /\ Values[pair[1]] # {}
                              /\ Values[pair[1]] \subseteq Codec.values[pair[1]]
    /\ \A pair \in Versions, buffered \in BOOLEAN : \A v \in Values[pair[1]] :
           Encode(pair[1], v, buffered).bytes \in Seq(Byte)

-----------------------------------------------------------------------------
VARIABLES
    type,     \* the type of the values that are encoded
    version,  \* the type of the destinations
    value,    \* the last value
    sent,     \* what its encoding wrote, and whether all of it
    wire,     \* what arrives of it
    fault,    \* what happened to it: "none", "cut" or "damaged"
    got,      \* per reader, the last result, with the destination
    phase,    \* "idle" or "sent"
    round     \* values sent

vars == <<type, version, value, sent, wire, fault, got, phase, round>>

TypeOK ==
    /\ <<type, version>> \in Versions
    /\ value \in Values[type]
    /\ sent.bytes \in Seq(Byte) /\ sent.ok \in BOOLEAN
    /\ wire \in Seq(Byte) /\ Len(wire) <= Len(sent.bytes)
    /\ fault \in {"none", "cut", "damaged"}
    /\ \A r \in Readers :
          /\ got[r].ok \in BOOLEAN
          /\ got[r].pos \in 0 .. IF phase = "idle" THEN Len(wire) ELSE got[r].pos
          /\ got[r].val \in Codec.results[version]
    /\ phase \in {"idle", "sent"}
    /\ round \in 0 .. MaxRounds

Init ==
    /\ \E pair \in Versions : type = pair[1] /\ version = pair[2]
    /\ value \in Values[type]
    /\ sent = Written(<<>>)
    /\ wire = <<>>
    /\ fault = "none"
    /\ got = [r \in Readers |-> Ok(0, Codec.zero[version])]
    /\ phase = "idle"
    /\ round = 0

\* Encoder.Encode, to a writer that has a buffer or to one that has not.
Send(v, buffered) ==
    /\ phase = "idle" /\ round < MaxRounds
    /\ value' = v
    /\ sent' = Encode(type, v, buffered)
    /\ wire' = sent'.bytes
    /\ fault' = "none"
    /\ phase' = "sent"
    /\ round' = round + 1
    /\ UNCHANGED <<type, version, got>>

\* The input ends after n bytes.
Cut(n) ==
    /\ phase = "sent" /\ Len(wire) = Len(sent.bytes)
    /\ wire' = SubSeq(wire, 1, n)
    /\ fault' = IF fault = "none" THEN "cut" ELSE fault
    /\ UNCHANGED <<type, version, value, sent, got, phase, round>>

\* Bound: one byte.
Damage(i, b) ==
    /\ phase = "sent" /\ fault = "none" /\ type \notin Fragile
    /\ wire[i] # b
    /\ wire' = [wire EXCEPT ![i] = b]
    /\ fault' = "damaged"
    /\ UNCHANGED <<type, version, value, sent, got, phase, round>>

\* Decoder.Decode of both readers, into what each had before.
Receive ==
    /\ phase = "sent"
    /\ got' = [r \in Readers |->
                  Decode(version, [bytes |-> wire, end |-> Len(wire), knows |-> r = "slice"],
                         0, got[r].val)]
    /\ phase' = "idle"
    /\ UNCHANGED <<type, version, value, sent, wire, fault, round>>

Next ==
    \/ \E v \in Values[type], buffered \in BOOLEAN : Send(v, buffered)
    \/ \E n \in 0 .. Len(wire) - 1 : Cut(n)
    \/ \E i \in DOMAIN wire, b \in Damages : Damage(i, b)
    \/ Receive

Spec == Init /\ [][Next]_vars

-----------------------------------------------------------------------------
(* Properties.                                                              *)

Received == phase = "idle" /\ round > 0

\* A value that was encoded is decoded as it was, to its last byte, by both
\* readers and into any destination: none of what the destination held before
\* shows, and no bound on sizes refuses it (Decode in src/decoder.go).
RoundTrip ==
    Received /\ sent.ok /\ fault = "none" /\ version = type =>
        \A r \in Readers :
            /\ got[r].ok /\ got[r].pos = Len(wire)
            /\ Seen(type, got[r].val) = Seen(type, value)

\* Versions of a type that differ in its unions understand each other: arms
\* and fields of arms the reader does not know are skipped, and what follows is
\* intact; a field the writer did not know is an error and is never read from
\* the bytes behind the arm (reflectUnionCodec in src/union.go; src/README.md).
Evolution ==
    Received /\ sent.ok /\ fault = "none" /\ version # type =>
        \A r \in Readers :
            IF Readable(type, version, value)
            THEN /\ got[r].ok /\ got[r].pos = Len(wire)
                 /\ Seen(version, got[r].val) = SeenAs(type, version, value)
            ELSE ~got[r].ok

\* No part of an encoding is accepted for the whole, whatever counts and
\* prefixes are in it and whatever the destination holds.
CutRefused == Received /\ fault = "cut" => \A r \in Readers : ~got[r].ok

\* On any input, a stream is read as the same bytes in memory are, although one
\* decoder checks counts against what is left and the other meets the end.
SameOutcome ==
    Received => /\ got["slice"].ok = got["stream"].ok
                /\ got["slice"].ok =>
                      /\ got["slice"].pos = got["stream"].pos
                      /\ Seen(version, got["slice"].val) = Seen(version, got["stream"].val)

\* An encoding that failed half way (a key that is too long, two arms) has
\* written nothing that can be taken for a value: the bytes are refused.
PartialRefused ==
    Received /\ ~sent.ok /\ fault # "damaged" => \A r \in Readers : ~got[r].ok

\* Also a decoding that fails leaves no map with entries of two values and no
\* union with an arm that is half decoded: those of the destination, itself or
\* in its structs and arrays, are as before, or have only what was complete in
\* the input (src/codecs.go:1366-1397, src/union.go:140).
NeverMixed == [][
    phase = "sent" /\ phase' = "idle" /\ fault # "damaged" =>
        \A r \in Readers :
            <<got[r].val, got'[r].val, value>> \in Meaning.unmixed[type][version]]_vars

=============================================================================
