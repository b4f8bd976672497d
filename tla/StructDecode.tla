---------------------------- MODULE StructDecode ----------------------------
(***************************************************************************)
(* Decoding a struct into a destination that was used before.              *)
(* reflectStructCodec.DecodeTo (src/codecs.go) writes the fields one after *)
(* the other over what the destination holds: slices keep their memory,    *)
(* pointers what they point to, and every codec decides for itself when it *)
(* has seen enough of its input to touch the destination.  A struct with a *)
(* primitive field is decoded on the direct path, with byte slices and     *)
(* unsigned varint slices inlined; any other by its fields' codecs.        *)
(*                                                                         *)
(* The input is encoded values, possibly cut short, behind an in-memory    *)
(* reader or a stream (src/reader.go).  Every byte is below 128, so every  *)
(* varint is one byte.  A decoder that has failed is not used again, and   *)
(* how far it read is not kept.                                            *)
(***************************************************************************)
EXTENDS Naturals, Sequences, SequencesExt

CONSTANTS
    Structs,  \* the struct types
    Fields,   \* per struct, the kinds of its fields, in order
    Values,   \* per struct, the values that are encoded: a tuple of field values
    Inputs,   \* per struct, which values are encoded one after the other
    Readers   \* per struct, what it is decoded from: "slice", "stream"

Kinds == {"uint", "string", "bytes", "varuints", "bools", "strings", "pointer", "skipped"}
Byte  == 0 .. 127

\* The value of a field: a number, a string, the elements of a slice, or the
\* number a pointer points to if it is not nil.
Elem(kind)       == IF kind = "strings" THEN Seq(Byte) ELSE Byte
FieldValue(kind) == IF kind \in {"uint", "skipped"} THEN Byte ELSE Seq(Elem(kind))

ASSUME StructsAssumption ==
    /\ Fields \in [Structs -> Seq(Kinds)]
    /\ Readers \in [Structs -> SUBSET {"slice", "stream"} \ {{}}]
    /\ \A t \in Structs :
          /\ Values[t] # {}
          /\ Inputs[t] \subseteq Seq(Values[t]) \ {<<>>}

ASSUME ValuesAssumption == \A t \in Structs : \A v \in Values[t] :
    /\ DOMAIN v = DOMAIN Fields[t]
    /\ \A i \in DOMAIN v :
          /\ v[i] \in FieldValue(Fields[t][i])
          /\ Fields[t][i] = "pointer" => Len(v[i]) \in {0, 1}
          /\ Fields[t][i] = "bools" => ToSet(v[i]) \subseteq {0, 1}

\* scanStructCodec: hasDirect.
Direct(t) == ToSet(Fields[t]) \cap {"uint", "string"} # {}

SliceKinds == {"bytes", "varuints", "bools", "strings"}

-----------------------------------------------------------------------------
(* Encoding, reflectStructCodec.EncodeTo.                                   *)

Prefixed(s) == <<Len(s)>> \o s

FieldWire(kind, value) ==
    IF kind = "skipped" THEN <<>>
    ELSE IF kind = "uint" THEN <<value>>
    ELSE IF kind = "pointer" THEN IF value = <<>> THEN <<1>> ELSE <<0>> \o value
    ELSE IF kind = "strings"
         THEN <<Len(value)>> \o FlattenSeq([j \in DOMAIN value |-> Prefixed(value[j])])
    ELSE Prefixed(value)

\* Every varint is one byte.
ASSUME WireAssumption == \A t \in Structs : \A v \in Values[t] : \A i \in DOMAIN v :
    FieldWire(Fields[t][i], v[i]) \in Seq(Byte)

Wire == [t \in Structs |-> [v \in Values[t] |->
    FlattenSeq([i \in DOMAIN v |-> FieldWire(Fields[t][i], v[i])])]]

Encoded == [t \in Structs |-> [values \in Inputs[t] |->
    FlattenSeq([j \in DOMAIN values |-> Wire[t][values[j]]])]]

-----------------------------------------------------------------------------
VARIABLES
    struct,  \* the struct being decoded
    reader,  \* what the decoder reads from
    data,    \* the bytes behind it
    pos,     \* how many of them it has consumed
    todo,    \* the values whose encoding data is, from the next Decode on
    want,    \* the value whose encoding this Decode started at
    start,   \* where it started
    before,  \* the destination when it started
    dest,    \* the destination: per field its memory, and the slice's length
    field,   \* the field it is at
    at,      \* inside that field: 0, or past what precedes the elements
    done,    \* the elements of that field it has
    status   \* "new", "busy", "ok" or "error"

input  == <<struct, reader, data, todo>>
target == <<want, start, before>>
cursor == <<field, at, done>>
vars   == <<input, pos, target, dest, cursor, status>>

N        == Len(Fields[struct])
Kind(i)  == Fields[struct][i]

Zero(kind) == IF kind = "strings" THEN <<>> ELSE 0

\* The memory of a slice is its array up to the capacity, that of a number or
\* a pointer the number.
Fresh(t) == [i \in DOMAIN Fields[t] |->
    IF Fields[t][i] \in {"uint", "skipped"} THEN [mem |-> <<0>>, len |-> 1]
    ELSE [mem |-> <<>>, len |-> 0]]

Content(i, cell) ==
    IF Kind(i) \in {"uint", "skipped"} THEN cell.mem[1]
    ELSE SubSeq(cell.mem, 1, cell.len)

TypeOK ==
    /\ struct \in Structs
    /\ reader \in Readers[struct]
    /\ data \in Seq(Byte)
    /\ pos \in 0 .. Len(data)
    /\ todo \in Seq(Values[struct])
    /\ want \in Values[struct]
    /\ start \in 0 .. pos
    /\ \A d \in {dest, before} :
          /\ DOMAIN d = 1 .. N
          /\ \A i \in 1 .. N :
                d[i] \in [mem : Seq(Elem(Kind(i))), len : 0 .. Len(d[i].mem)]
    /\ field \in 1 .. N + 1
    /\ at \in {0, 1}
    /\ done \in Nat
    /\ status \in {"new", "busy", "ok", "error"}

-----------------------------------------------------------------------------
(* Reading.                                                                 *)

Rest     == Len(data) - pos
Next1    == data[pos + 1]
Taken(n) == SubSeq(data, pos + 1, pos + n)

\* Mutant of Unavailable: the length is believed.
UnavailableNever(n) == FALSE

\* Decoder.ensureAvailable, past the length byte: a stream does not know.
Unavailable(n) == reader = "slice" /\ n > Rest - 1

\* Mutant of Resized: the capacity is not looked at.
ResizedBlindly(i, n) == [dest[i] EXCEPT !.len = n]

\* resizeSliceChecked: within the capacity what is there stays.
Resized(i, n) ==
    IF Len(dest[i].mem) >= n THEN [dest[i] EXCEPT !.len = n]
    ELSE [mem |-> [j \in 1 .. n |-> Zero(Kind(i))], len |-> n]

Overwrite(i, from, s) ==
    [dest EXCEPT ![i].mem =
        [j \in DOMAIN @ |-> IF j > from /\ j <= from + Len(s) THEN s[j - from] ELSE @[j]]]

At(i, kinds, where) ==
    /\ status = "busy" /\ field = i /\ i <= N /\ at = where
    /\ Kind(i) \in kinds

NextField == field' = field + 1 /\ at' = 0 /\ done' = 0

Error == status' = "error" /\ UNCHANGED <<pos, cursor>>

\* ReadUvarint or ReadByte at the end of the input.
EndOfInput(i) == At(i, Kinds \ {"skipped"}, 0) /\ Rest = 0

-----------------------------------------------------------------------------
(* The caller.                                                              *)

\* A new decoder on the encoding of one value or several, and a destination
\* that is new or was decoded into before.
Open ==
    /\ status # "busy"
    /\ \E t \in Structs : \E r \in Readers[t], values \in Inputs[t] :
          /\ \E n \in 0 .. Len(Encoded[t][values]) :
                data' = SubSeq(Encoded[t][values], 1, n)
          /\ struct' = t
          /\ reader' = r
          /\ todo' = values
          /\ want' = values[1]
          /\ dest' \in (IF t = struct THEN {dest} ELSE {}) \cup {Fresh(t)}
    /\ before' = dest'
    /\ pos' = 0 /\ start' = 0
    /\ field' = 1 /\ at' = 0 /\ done' = 0
    /\ status' = "new"

\* Decoder.Decode, for the first time or again while there are values left.
Decode ==
    /\ status \in {"new", "ok"}
    /\ todo # <<>>
    /\ want' = Head(todo)
    /\ todo' = Tail(todo)
    /\ start' = pos
    /\ before' = dest
    /\ field' = 1 /\ at' = 0 /\ done' = 0
    /\ status' = "busy"
    /\ UNCHANGED <<struct, reader, data, pos, dest>>

-----------------------------------------------------------------------------
(* The fields.                                                              *)

Skip ==
    /\ At(field, {"skipped"}, 0)
    /\ NextField
    /\ UNCHANGED <<input, pos, target, dest, status>>

\* Mutant of Missing: the input has to go on after the last element.
MissingEarly ==
    /\ \/ EndOfInput(field)
       \/ At(field, {"varuints", "strings", "pointer"}, 1) /\ Rest = 0
    /\ Error
    /\ UNCHANGED <<input, target, dest>>

\* A length, flag or scalar is missing: the error is returned at once.
Missing ==
    /\ \/ EndOfInput(field)
       \/ /\ At(field, {"varuints", "strings", "pointer"}, 1)
          /\ done < dest[field].len
          /\ Rest = 0
    /\ Error
    /\ UNCHANGED <<input, target, dest>>

\* Decoder.ReadUvarint.
ReadUint ==
    /\ At(field, {"uint"}, 0)
    /\ Rest > 0
    /\ dest' = [dest EXCEPT ![field].mem = <<Next1>>]
    /\ pos' = pos + 1
    /\ NextField
    /\ UNCHANGED <<input, target, status>>

\* Mutant of ReadString: off by one at the end of the input.
ReadStringInside ==
    /\ At(field, {"string"}, 0)
    /\ Rest > 0
    /\ LET n == Next1
       IN  \/ /\ n >= Rest - 1
              /\ Error
              /\ UNCHANGED dest
           \/ /\ n < Rest - 1
              /\ dest' = [dest EXCEPT ![field] =
                    [mem |-> SubSeq(data, pos + 2, pos + 1 + n), len |-> n]]
              /\ pos' = pos + 1 + n
              /\ NextField
              /\ UNCHANGED status
    /\ UNCHANGED <<input, target>>

\* Decoder.readString: the old string stays until all of the new one is read.
ReadString ==
    /\ At(field, {"string"}, 0)
    /\ Rest > 0
    /\ LET n == Next1
       IN  \/ /\ n > Rest - 1
              /\ Error
              /\ UNCHANGED dest
           \/ /\ n <= Rest - 1
              /\ dest' = [dest EXCEPT ![field] =
                    [mem |-> SubSeq(data, pos + 2, pos + 1 + n), len |-> n]]
              /\ pos' = pos + 1 + n
              /\ NextField
              /\ UNCHANGED status
    /\ UNCHANGED <<input, target>>

\* reflectPointerCodec.DecodeTo: what it points to is used again.
ReadPointer ==
    /\ At(field, {"pointer"}, 0)
    /\ Rest > 0
    /\ pos' = pos + 1
    /\ \/ /\ Next1 = 1
          /\ dest' = [dest EXCEPT ![field] = [mem |-> <<>>, len |-> 0]]
          /\ NextField
       \/ /\ Next1 # 1
          /\ dest' = [dest EXCEPT ![field] =
                [mem |-> IF @.len = 0 THEN <<0>> ELSE @.mem, len |-> 1]]
          /\ at' = 1
          /\ UNCHANGED <<field, done>>
    /\ UNCHANGED <<input, target, status>>

\* The direct path of byte and varint slices looks at what is available only
\* if the capacity does not suffice.
Unchecked(i, n) ==
    Direct(struct) /\ Kind(i) \in {"bytes", "varuints"} /\ Len(dest[i].mem) >= n

\* Codecs whose stream reads come before they touch the destination:
\* boolSliceCodec, and byteSliceCodec where it is not inlined.
Buffered(i) ==
    reader = "stream" /\ (Kind(i) = "bools" \/ (Kind(i) = "bytes" /\ ~Direct(struct)))

\* The length of a slice, and the slice resized.
ReadLength ==
    /\ At(field, SliceKinds, 0)
    /\ Rest > 0
    /\ ~Buffered(field)
    /\ LET n == Next1
       IN  \/ /\ Unavailable(n) /\ ~Unchecked(field, n)
              /\ Error
              /\ UNCHANGED dest
           \/ /\ ~Unavailable(n) \/ Unchecked(field, n)
              /\ dest' = [dest EXCEPT ![field] = Resized(field, n)]
              /\ pos' = pos + 1
              /\ at' = 1
              /\ UNCHANGED <<field, done, status>>
    /\ UNCHANGED <<input, target>>

\* streamReader.Slice reads all or fails; bytes keep the new array as their
\* own, unless there are none, and bools are copied.
ReadBuffered ==
    /\ At(field, SliceKinds, 0)
    /\ Rest > 0
    /\ Buffered(field)
    /\ LET n == Next1
           s == SubSeq(data, pos + 2, pos + 1 + n)
       IN  \/ /\ n > Rest - 1
              /\ Error
              /\ UNCHANGED dest
           \/ /\ n <= Rest - 1
              /\ dest' = [dest EXCEPT ![field] =
                    IF n > 0 /\ Kind(field) = "bytes" THEN [mem |-> s, len |-> n]
                    ELSE LET cell == Resized(field, n)
                         IN  [cell EXCEPT !.mem = s \o SubSeq(@, n + 1, Len(@))]]
              /\ pos' = pos + 1 + n
              /\ NextField
              /\ UNCHANGED status
    /\ UNCHANGED <<input, target>>

\* The slice has all its elements, or the pointer what it points to.
Complete ==
    /\ status = "busy" /\ field <= N /\ at = 1
    /\ done = dest[field].len
    /\ NextField
    /\ UNCHANGED <<input, pos, target, dest, status>>

\* Mutant of ReadBody: a stream is read once.
ReadBodyOnce ==
    /\ At(field, {"bytes", "bools"}, 1)
    /\ done < dest[field].len
    /\ \/ /\ Rest = 0
          /\ Error
          /\ UNCHANGED dest
       \/ /\ \E n \in 1 .. dest[field].len :
                /\ n <= Rest
                /\ dest' = Overwrite(field, 0, Taken(n))
                /\ pos' = pos + n
          /\ NextField
          /\ UNCHANGED status
    /\ UNCHANGED <<input, target>>

\* The body of a byte or bool slice: sliceReader.Read copies what there is,
\* and io.ReadFull repeats the reads of a stream, each of which may be short.
ReadBody ==
    /\ At(field, {"bytes", "bools"}, 1)
    /\ done < dest[field].len
    /\ \/ /\ Rest = 0
          /\ Error
          /\ UNCHANGED dest
       \/ /\ reader = "slice" /\ Rest > 0
          /\ LET n == IF Rest < dest[field].len THEN Rest ELSE dest[field].len
             IN  dest' = Overwrite(field, 0, Taken(n)) /\ pos' = pos + n
          /\ NextField
          /\ UNCHANGED status
       \/ /\ reader = "stream"
          /\ \E n \in 1 .. dest[field].len - done :
                /\ n <= Rest
                /\ dest' = Overwrite(field, done, Taken(n))
                /\ pos' = pos + n
                /\ done' = done + n
          /\ UNCHANGED <<field, at, status>>
    /\ UNCHANGED <<input, target>>

\* One element: ReadUvarint, or readString, or what a pointer points to.
ReadElement ==
    /\ At(field, {"varuints", "strings", "pointer"}, 1)
    /\ done < dest[field].len
    /\ Rest > 0
    /\ LET n == IF Kind(field) = "strings" THEN Next1 ELSE 0
           s == SubSeq(data, pos + 2, pos + 1 + n)
       IN  \/ /\ n > Rest - 1
              /\ Error
              /\ UNCHANGED dest
           \/ /\ n <= Rest - 1
              /\ dest' = Overwrite(field, done, <<IF Kind(field) = "strings" THEN s ELSE Next1>>)
              /\ pos' = pos + 1 + n
              /\ done' = done + 1
              /\ UNCHANGED <<field, at, status>>
    /\ UNCHANGED <<input, target>>

\* DecodeTo returns nil.
Finish ==
    /\ status = "busy" /\ field = N + 1
    /\ status' = "ok"
    /\ UNCHANGED <<input, pos, target, dest, cursor>>

-----------------------------------------------------------------------------
Init ==
    /\ struct \in Structs
    /\ reader \in Readers[struct]
    /\ data = <<>> /\ pos = 0 /\ start = 0
    /\ todo = <<>>
    /\ want \in Values[struct]
    /\ dest = Fresh(struct) /\ before = dest
    /\ field = 1 /\ at = 0 /\ done = 0
    /\ status = "new"

Step ==
    \/ Skip \/ Missing \/ ReadUint \/ ReadString \/ ReadPointer \/ ReadLength
    \/ ReadBuffered \/ Complete \/ ReadBody \/ ReadElement \/ Finish

Next == Open \/ Decode \/ Step

Spec == Init /\ [][Next]_vars

-----------------------------------------------------------------------------
(* What decoding promises, whatever the destination held before.            *)

\* All of the value is in the input.
Intact == start + Len(Wire[struct][want]) <= Len(data)

\* The fields before the one being decoded are those of the encoded value,
\* with nothing left of what their memory held, and the fields after it are
\* as they were; so a Decode that fails leaves a mixture of these two, split
\* at one field (the order of the loop, and every resize and fill in it).
FieldsInOrder == status # "new" =>
    \A i \in 1 .. N :
        /\ i < field /\ Kind(i) # "skipped" => Content(i, dest[i]) = want[i]
        /\ i > field \/ Kind(i) = "skipped" => dest[i] = before[i]

\* The same for a value that is all there, and Decode does not reject it.
IntactDecoded == Intact => status # "error" /\ FieldsInOrder

\* Decode returns nil only if it has consumed an encoded value to its last
\* byte, where the next Decode starts: input that is cut short is an error
\* (TestReaderEOF, TestShortRead).
AcceptsOnlyWhole ==
    status = "ok" => Intact /\ pos = start + Len(Wire[struct][want])

=============================================================================
