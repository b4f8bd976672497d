------------------------ MODULE StructDecode_proofs ------------------------
(***************************************************************************)
(* The types of StructDecode, and what decoding a struct promises: a value *)
(* that is all there is decoded, its fields in order, whatever the         *)
(* destination held, and an input that is cut short is an error unless the *)
(* length of a byte slice was not looked at.  For all structs, values and  *)
(* inputs.                                                                 *)
(***************************************************************************)
EXTENDS StructDecode, Facts_proofs

-----------------------------------------------------------------------------
(* Encoding: where the fields of a value are on the wire.                   *)

Pieces(t, v) == [i \in DOMAIN v |-> FieldWire(Fields[t][i], v[i])]

\* Where the fields end, counted from the first byte of the value.
Ends(t, v) == JoinEnds(Pieces(t, v))

Wires(t, values) == [j \in DOMAIN values |-> Wire[t][values[j]]]

LEMMA FieldsType ==
    ASSUME NEW t \in Structs
    PROVE  /\ Fields[t] \in Seq(Kinds) /\ Len(Fields[t]) \in Nat
           /\ DOMAIN Fields[t] = 1 .. Len(Fields[t])
           /\ \A i \in 1 .. Len(Fields[t]) : Fields[t][i] \in Kinds
<1>1. Fields[t] \in Seq(Kinds)
  BY StructsAssumption
<1>2. QED
  BY <1>1, LenProperties, ElementOfSeq

LEMMA WireIs ==
    ASSUME NEW t \in Structs, NEW v \in Values[t]
    PROVE  /\ Pieces(t, v) \in Seq(Seq(Byte)) /\ Len(Pieces(t, v)) = Len(Fields[t])
           /\ Wire[t][v] \in Seq(Byte)
           /\ Wire[t][v] = FlattenSeq(Pieces(t, v))
           /\ Len(Wire[t][v]) = Ends(t, v)[Len(Fields[t])]
<1>1. DOMAIN v = 1 .. Len(Fields[t]) /\ Len(Fields[t]) \in Nat
  BY ValuesAssumption, FieldsType
<1>2. \A i \in 1 .. Len(Fields[t]) : FieldWire(Fields[t][i], v[i]) \in Seq(Byte)
  BY <1>1, WireAssumption
<1>3. Pieces(t, v) \in Seq(Seq(Byte)) /\ Len(Pieces(t, v)) = Len(Fields[t])
  BY <1>1, <1>2 DEF Pieces
<1>4. Wire[t][v] = FlattenSeq(Pieces(t, v))
  BY DEF Wire, Pieces
<1>5. QED
  BY <1>3, <1>4, FlattenElements DEF Ends

LEMMA EncodedType ==
    ASSUME NEW t \in Structs, NEW values \in Seq(Values[t])
    PROVE  /\ Wires(t, values) \in Seq(Seq(Byte)) /\ Len(Wires(t, values)) = Len(values)
           /\ FlattenSeq(Wires(t, values)) \in Seq(Byte)
           /\ values \in Inputs[t] => Encoded[t][values] = FlattenSeq(Wires(t, values))
<1>1. DOMAIN values = 1 .. Len(values) /\ Len(values) \in Nat
      /\ \A j \in 1 .. Len(values) : values[j] \in Values[t]
  BY LenProperties, ElementOfSeq
<1>2. \A j \in 1 .. Len(values) : Wire[t][values[j]] \in Seq(Byte)
  BY <1>1, WireIs
<1>3. Wires(t, values) \in Seq(Seq(Byte)) /\ Len(Wires(t, values)) = Len(values)
  BY <1>1, <1>2 DEF Wires
<1>4. ASSUME values \in Inputs[t]
      PROVE  Encoded[t][values] = FlattenSeq(Wires(t, values))
  BY <1>4 DEF Encoded, Wires
<1>5. QED
  BY <1>3, <1>4, FlattenElements

-----------------------------------------------------------------------------
(* Types.                                                                   *)

Numbers == {"uint", "skipped"}

\* The memory of a field.
Cell(kind, c) ==
    /\ c \in [mem : Seq(Elem(kind)), len : Nat]
    /\ c.len <= Len(c.mem)
    /\ kind \in Numbers => Len(c.mem) = 1 /\ c.len = 1

Memory(t, d) ==
    /\ DOMAIN d = 1 .. Len(Fields[t])
    /\ \A i \in 1 .. Len(Fields[t]) : Cell(Fields[t][i], d[i])

TypeInv == TypeOK /\ Memory(struct, dest) /\ Memory(struct, before)

\* TypeOK, with the memory of a field in one place.
Typed ==
    /\ struct \in Structs
    /\ reader \in Readers[struct]
    /\ data \in Seq(Byte)
    /\ pos \in 0 .. Len(data)
    /\ todo \in Seq(Values[struct])
    /\ want \in Values[struct]
    /\ start \in 0 .. pos
    /\ Memory(struct, dest) /\ Memory(struct, before)
    /\ field \in 1 .. N + 1
    /\ at \in {0, 1}
    /\ done \in Nat
    /\ status \in {"new", "busy", "ok", "error"}

LEMMA TypedIsTypeOK == Typed <=> TypeInv
<1>1. ASSUME struct \in Structs, NEW d
      PROVE  Memory(struct, d) =>
             /\ DOMAIN d = 1 .. N
             /\ \A i \in 1 .. N : d[i] \in [mem : Seq(Elem(Kind(i))), len : 0 .. Len(d[i].mem)]
  <2>1. SUFFICES ASSUME Memory(struct, d), NEW i \in 1 .. N
                 PROVE  d[i] \in [mem : Seq(Elem(Kind(i))), len : 0 .. Len(d[i].mem)]
    BY DEF Memory, N
  <2>2. d[i] \in [mem : Seq(Elem(Kind(i))), len : Nat] /\ d[i].len <= Len(d[i].mem)
    BY <2>1 DEF Memory, Cell, N, Kind
  <2>3. Len(d[i].mem) \in Nat
    BY <2>2, LenProperties
  <2>4. d[i].len \in 0 .. Len(d[i].mem)
    BY <2>2, <2>3
  <2>5. QED
    BY <2>2, <2>4
<1>2. Typed => TypeOK
  <2>1. ASSUME Typed
        PROVE  \A d \in {dest, before} :
                  /\ DOMAIN d = 1 .. N
                  /\ \A i \in 1 .. N : d[i] \in [mem : Seq(Elem(Kind(i))), len : 0 .. Len(d[i].mem)]
    BY <1>1, <2>1 DEF Typed
  <2>2. QED
    BY <2>1 DEF Typed, TypeOK
<1>3. QED
  BY <1>2 DEF Typed, TypeInv, TypeOK

-----------------------------------------------------------------------------
(* How a field's memory is changed.                                         *)

LEMMA OneCellChanged ==
    ASSUME Typed, NEW i \in 1 .. N, NEW d,
           DOMAIN d = 1 .. N, \A j \in 1 .. N : j # i => d[j] = dest[j],
           Cell(Kind(i), d[i])
    PROVE  Memory(struct, d)
<1>1. ASSUME NEW j \in 1 .. N
      PROVE  Cell(Kind(j), d[j])
  <2>1. CASE j = i
    BY <2>1
  <2>2. CASE j # i
    BY <2>2 DEF Typed, Memory, N, Kind
  <2>3. QED
    BY <2>1, <2>2
<1>2. QED
  BY <1>1 DEF Memory, N, Kind

LEMMA CellOf ==
    ASSUME Typed, NEW i \in 1 .. N
    PROVE  /\ N \in Nat /\ Kind(i) \in Kinds /\ DOMAIN dest = 1 .. N
           /\ Cell(Kind(i), dest[i])
           /\ dest[i] = [mem |-> dest[i].mem, len |-> dest[i].len]
           /\ dest[i].mem \in Seq(Elem(Kind(i))) /\ dest[i].len \in Nat
           /\ Len(dest[i].mem) \in Nat /\ dest[i].len <= Len(dest[i].mem)
           /\ DOMAIN dest[i].mem = 1 .. Len(dest[i].mem)
<1>1. N \in Nat /\ Kind(i) \in Kinds /\ DOMAIN dest = 1 .. N
  BY FieldsType DEF Typed, Memory, N, Kind
<1>2. Cell(Kind(i), dest[i])
  BY DEF Typed, Memory, N, Kind
<1>3. dest[i] \in [mem : Seq(Elem(Kind(i))), len : Nat] /\ dest[i].len <= Len(dest[i].mem)
  BY <1>2 DEF Cell
<1>4. dest[i].mem \in Seq(Elem(Kind(i))) /\ dest[i].len \in Nat
  BY <1>3
<1>5. Len(dest[i].mem) \in Nat /\ DOMAIN dest[i].mem = 1 .. Len(dest[i].mem)
  BY <1>4, LenProperties
<1>6. dest[i] = [mem |-> dest[i].mem, len |-> dest[i].len]
  BY <1>3
<1>7. QED
  BY <1>1, <1>2, <1>3, <1>4, <1>5, <1>6

LEMMA ElemTypes ==
    /\ \A kind \in Kinds : Elem(kind) = IF kind = "strings" THEN Seq(Byte) ELSE Byte
    /\ \A kind \in Kinds : Zero(kind) \in Elem(kind)
    /\ SliceKinds \cap Numbers = {} /\ SliceKinds \subseteq Kinds
    /\ 0 \in Byte
<1>1. <<>> \in Seq(Byte) /\ 0 \in Byte
  BY DEF Byte
<1>2. \A kind \in Kinds : Zero(kind) \in Elem(kind)
  BY <1>1 DEF Zero, Elem
<1>3. QED
  BY <1>1, <1>2 DEF Elem, Kinds, SliceKinds, Numbers

LEMMA ResizedIs ==
    ASSUME Typed, NEW i \in 1 .. N, Kind(i) \notin Numbers, NEW n \in Nat
    PROVE  /\ Cell(Kind(i), Resized(i, n))
           /\ Resized(i, n).len = n /\ Len(Resized(i, n).mem) >= n
           /\ Resized(i, n) = [mem |-> Resized(i, n).mem, len |-> n]
           /\ Resized(i, n).mem \in Seq(Elem(Kind(i))) /\ Len(Resized(i, n).mem) \in Nat
<1>1. PICK m, k : m = dest[i].mem /\ k = dest[i].len
  OBVIOUS
<1>2. dest[i] = [mem |-> m, len |-> k] /\ m \in Seq(Elem(Kind(i))) /\ Len(m) \in Nat
  BY <1>1, CellOf
<1>3. CASE Len(m) >= n
  <2>1. Resized(i, n) = [mem |-> m, len |-> n]
    BY <1>1, <1>2, <1>3 DEF Resized
  <2>2. QED
    BY <1>2, <1>3, <2>1 DEF Cell
<1>4. CASE ~(Len(m) >= n)
  <2>1. PICK z : z = [j \in 1 .. n |-> Zero(Kind(i))]
    OBVIOUS
  <2>2. Zero(Kind(i)) \in Elem(Kind(i))
    BY CellOf, ElemTypes
  <2>3. z \in Seq(Elem(Kind(i))) /\ Len(z) = n
    BY <2>1, <2>2
  <2>4. Resized(i, n) = [mem |-> z, len |-> n]
    BY <1>1, <1>4, <2>1 DEF Resized
  <2>5. QED
    BY <2>3, <2>4 DEF Cell
<1>5. QED
  BY <1>3, <1>4

LEMMA OverwriteIs ==
    ASSUME Typed, NEW i \in 1 .. N, Kind(i) \notin Numbers, NEW from \in Nat,
           NEW s \in Seq(Elem(Kind(i)))
    PROVE  /\ Memory(struct, Overwrite(i, from, s))
           /\ DOMAIN Overwrite(i, from, s) = 1 .. N
           /\ \A j \in 1 .. N : j # i => Overwrite(i, from, s)[j] = dest[j]
           /\ Overwrite(i, from, s)[i].len = dest[i].len
           /\ Len(Overwrite(i, from, s)[i].mem) = Len(dest[i].mem)
           /\ \A j \in 1 .. Len(dest[i].mem) :
                 Overwrite(i, from, s)[i].mem[j] =
                    IF j > from /\ j <= from + Len(s) THEN s[j - from] ELSE dest[i].mem[j]
<1>1. PICK m, k : m = dest[i].mem /\ k = dest[i].len
  OBVIOUS
<1>2. /\ dest[i] = [mem |-> m, len |-> k] /\ m \in Seq(Elem(Kind(i))) /\ Len(m) \in Nat
      /\ k \in Nat /\ k <= Len(m) /\ DOMAIN m = 1 .. Len(m) /\ DOMAIN dest = 1 .. N
  BY <1>1, CellOf
<1>3. PICK d : d = Overwrite(i, from, s)
  OBVIOUS
<1>4. PICK q : q = [j \in 1 .. Len(m) |->
                      IF j > from /\ j <= from + Len(s) THEN s[j - from] ELSE m[j]]
  OBVIOUS
<1>5. ASSUME NEW j \in 1 .. Len(m)
      PROVE  (IF j > from /\ j <= from + Len(s) THEN s[j - from] ELSE m[j]) \in Elem(Kind(i))
  <2>1. m[j] \in Elem(Kind(i))
    BY <1>2, ElementOfSeq
  <2>2. ASSUME j > from, j <= from + Len(s)
        PROVE  s[j - from] \in Elem(Kind(i))
    <3>1. Len(s) \in Nat
      BY LenProperties
    <3>2. j - from \in 1 .. Len(s)
      BY <1>2, <2>2, <3>1
    <3>3. QED
      BY <3>2, ElementOfSeq
  <2>3. QED
    BY <2>1, <2>2
<1>6. q \in Seq(Elem(Kind(i))) /\ Len(q) = Len(m)
  BY <1>2, <1>4, <1>5
<1>7. d = [dest EXCEPT ![i].mem = q]
  BY <1>1, <1>2, <1>3, <1>4 DEF Overwrite
<1>8. d[i] = [mem |-> q, len |-> k] /\ DOMAIN d = 1 .. N /\ \A j \in 1 .. N : j # i => d[j] = dest[j]
  <2>1. DOMAIN d = 1 .. N /\ \A j \in 1 .. N : j # i => d[j] = dest[j]
    BY <1>2, <1>7
  <2>2. d[i] = [dest[i] EXCEPT !.mem = q]
    BY <1>2, <1>7
  <2>3. QED
    BY <1>2, <2>1, <2>2
<1>9. Cell(Kind(i), d[i])
  BY <1>2, <1>6, <1>8 DEF Cell
<1>10. Memory(struct, d)
  BY <1>8, <1>9, OneCellChanged
<1>11. QED
  BY <1>1, <1>2, <1>3, <1>4, <1>6, <1>8, <1>10

-----------------------------------------------------------------------------
(* What is read.                                                            *)

LEMMA Positions ==
    ASSUME Typed
    PROVE  /\ Len(data) \in Nat /\ pos \in Nat /\ start \in Nat /\ pos <= Len(data) /\ start <= pos
           /\ Rest \in Nat /\ Rest = Len(data) - pos
           /\ N \in Nat /\ N = Len(Fields[struct]) /\ field \in Nat
           /\ \A i \in 1 .. Len(data) : data[i] \in Byte
<1>1. Len(data) \in Nat /\ \A i \in 1 .. Len(data) : data[i] \in Byte
  BY LenProperties, ElementOfSeq DEF Typed
<1>2. N \in Nat
  BY FieldsType DEF Typed, N
<1>3. QED
  BY <1>1, <1>2 DEF Typed, Rest, N

LEMMA NextIs ==
    ASSUME Typed, Rest > 0
    PROVE  Next1 \in Byte /\ Next1 \in Nat /\ Next1 = data[pos + 1]
<1>1. pos + 1 \in 1 .. Len(data)
  BY Positions
<1>2. QED
  <2>1. data[pos + 1] \in Byte
    BY <1>1, Positions
  <2>2. QED
    BY <2>1 DEF Next1, Byte

LEMMA Cut ==
    ASSUME Typed, NEW p \in Nat, NEW n \in Nat, p + n <= Len(data)
    PROVE  /\ SubSeq(data, p + 1, p + n) \in Seq(Byte)
           /\ Len(SubSeq(data, p + 1, p + n)) = n
           /\ \A j \in 1 .. n : SubSeq(data, p + 1, p + n)[j] = data[p + j]
<1>1. data \in Seq(Byte) /\ Len(data) \in Nat
  BY Positions DEF Typed
<1>2. \A j \in 1 .. n : p + j \in 1 .. Len(data)
  BY <1>1
<1>3. \A j \in 1 .. n : data[p + j] \in Byte
  BY <1>2, Positions
<1>4. SubSeq(data, p + 1, p + n) = [j \in 1 .. n |-> data[p + j]]
  <2>1. SubSeq(data, p + 1, p + n) = [j \in 1 .. (p + n) - (p + 1) + 1 |-> data[(j + (p + 1)) - 1]]
    OBVIOUS
  <2>2. (p + n) - (p + 1) + 1 = n /\ \A j \in 1 .. n : (j + (p + 1)) - 1 = p + j
    OBVIOUS
  <2>3. QED
    BY <2>1, <2>2
<1>5. PICK q : q = SubSeq(data, p + 1, p + n)
  OBVIOUS
<1>6. q = [j \in 1 .. n |-> data[p + j]]
  BY <1>4, <1>5
<1>7. q \in Seq(Byte) /\ Len(q) = n /\ \A j \in 1 .. n : q[j] = data[p + j]
  BY <1>3, <1>6
<1>8. QED
  BY <1>5, <1>7

LEMMA TypedFrame ==
    ASSUME Typed, UNCHANGED <<input, target>>,
           pos' \in Nat, pos <= pos', pos' <= Len(data),
           Memory(struct, dest'), field' \in 1 .. N + 1, at' \in {0, 1}, done' \in Nat,
           status' \in {"new", "busy", "ok", "error"}
    PROVE  Typed'
<1>1. /\ struct' = struct /\ reader' = reader /\ data' = data /\ todo' = todo
      /\ want' = want /\ start' = start /\ before' = before
  BY DEF input, target
<1>2. start \in 0 .. pos'
  BY Positions
<1>3. N' = N
  BY <1>1 DEF N
<1>4. QED
  BY <1>1, <1>2, <1>3 DEF Typed

\* A field whose memory is replaced.
LEMMA Replaced ==
    ASSUME Typed, NEW i \in 1 .. N, NEW m \in Seq(Elem(Kind(i))), NEW k \in Nat,
           k <= Len(m), Kind(i) \notin Numbers
    PROVE  /\ Memory(struct, [dest EXCEPT ![i] = [mem |-> m, len |-> k]])
           /\ DOMAIN [dest EXCEPT ![i] = [mem |-> m, len |-> k]] = 1 .. N
           /\ [dest EXCEPT ![i] = [mem |-> m, len |-> k]][i] = [mem |-> m, len |-> k]
           /\ \A j \in 1 .. N : j # i => [dest EXCEPT ![i] = [mem |-> m, len |-> k]][j] = dest[j]
<1>1. PICK d : d = [dest EXCEPT ![i] = [mem |-> m, len |-> k]]
  OBVIOUS
<1>2. DOMAIN d = 1 .. N /\ d[i] = [mem |-> m, len |-> k] /\ \A j \in 1 .. N : j # i => d[j] = dest[j]
  BY <1>1, CellOf
<1>3. Cell(Kind(i), d[i])
  BY <1>2 DEF Cell
<1>4. QED
  BY <1>1, <1>2, <1>3, OneCellChanged

LEMMA AtField ==
    ASSUME Typed, NEW kinds, NEW where, At(field, kinds, where)
    PROVE  /\ field \in 1 .. N /\ field + 1 \in 1 .. N + 1 /\ Kind(field) \in kinds
           /\ Kind(field) \in Kinds /\ status = "busy" /\ at = where
<1>1. field \in 1 .. N /\ field + 1 \in 1 .. N + 1
  BY Positions DEF At, Typed
<1>2. QED
  BY <1>1, CellOf DEF At

-----------------------------------------------------------------------------
(* What the reads do to the destination.                                    *)

\* Only one field is touched.
Only(i) == DOMAIN dest' = 1 .. N /\ \A j \in 1 .. N : j # i => dest'[j] = dest[j]

LEMMA UintEffect ==
    ASSUME Typed, ReadUint
    PROVE  /\ field \in 1 .. N /\ Memory(struct, dest') /\ Only(field)
           /\ dest'[field].mem = <<Next1>>
           /\ pos + 1 <= Len(data)
<1>1. At(field, {"uint"}, 0) /\ Rest > 0 /\ dest' = [dest EXCEPT ![field].mem = <<Next1>>]
  BY DEF ReadUint
<1>2. field \in 1 .. N /\ Kind(field) = "uint"
  BY <1>1, AtField
<1>3. PICK m, k : m = dest[field].mem /\ k = dest[field].len
  OBVIOUS
<1>4. dest[field] = [mem |-> m, len |-> k] /\ k = 1 /\ DOMAIN dest = 1 .. N
  BY <1>2, <1>3, CellOf DEF Cell, Numbers
<1>5. PICK x : x = <<Next1>>
  OBVIOUS
<1>6. /\ dest' = [dest EXCEPT ![field].mem = x]
      /\ dest'[field] = [dest[field] EXCEPT !.mem = x]
  BY <1>1, <1>2, <1>4, <1>5
<1>7. dest'[field] = [mem |-> x, len |-> k]
  BY <1>4, <1>6
<1>8. Only(field)
  BY <1>2, <1>4, <1>6 DEF Only
<1>9. x \in Seq(Elem("uint")) /\ Len(x) = 1
  BY <1>1, <1>5, NextIs DEF Elem
<1>10. Cell(Kind(field), dest'[field])
  BY <1>2, <1>4, <1>7, <1>9 DEF Cell
<1>11. Memory(struct, dest')
  BY <1>2, <1>8, <1>10, OneCellChanged DEF Only
<1>12. QED
  BY <1>1, <1>2, <1>5, <1>7, <1>8, <1>11, Positions

\* A field has the n bytes behind position p.
Filled(i, n, p) ==
    dest'[i].len = n /\ \A j \in 1 .. n : dest'[i].mem[j] = data[p + j]

Failed == Error /\ dest' = dest

LEMMA StringEffect ==
    ASSUME Typed, ReadString
    PROVE  /\ field \in 1 .. N /\ Kind(field) = "string" /\ Next1 \in Nat /\ Rest > 0
           /\ \/ Failed /\ Next1 > Rest - 1
              \/ /\ pos' = pos + 1 + Next1 /\ pos + 1 + Next1 <= Len(data)
                 /\ NextField /\ status' = status
                 /\ Memory(struct, dest') /\ Only(field) /\ Filled(field, Next1, pos + 1)
<1>1. At(field, {"string"}, 0) /\ Rest > 0
  BY DEF ReadString
<1>2. field \in 1 .. N /\ Kind(field) = "string"
  BY <1>1, AtField
<1>3. PICK n : n = Next1
  OBVIOUS
<1>4. n \in Nat
  BY <1>1, <1>3, NextIs
<1>5. CASE n > Rest - 1 /\ Error /\ UNCHANGED dest
  BY <1>1, <1>2, <1>3, <1>4, <1>5 DEF Failed
<1>6. CASE /\ n <= Rest - 1
           /\ dest' = [dest EXCEPT ![field] = [mem |-> SubSeq(data, pos + 2, pos + 1 + n), len |-> n]]
           /\ pos' = pos + 1 + n /\ NextField /\ UNCHANGED status
  <2>1. pos + 1 \in Nat /\ (pos + 1) + 1 = pos + 2 /\ (pos + 1) + n = pos + 1 + n
        /\ pos + 1 + n <= Len(data)
    BY <1>4, <1>6, Positions
  <2>2. PICK s : s = SubSeq(data, pos + 2, pos + 1 + n)
    OBVIOUS
  <2>3. s \in Seq(Byte) /\ Len(s) = n /\ \A j \in 1 .. n : s[j] = data[(pos + 1) + j]
    BY <1>4, <2>1, <2>2, Cut
  <2>4. Elem(Kind(field)) = Byte /\ Kind(field) \notin Numbers /\ n <= Len(s)
    BY <1>2, <1>4, <2>3 DEF Elem, Numbers
  <2>5. dest' = [dest EXCEPT ![field] = [mem |-> s, len |-> n]]
    BY <1>6, <2>2
  <2>6. /\ Memory(struct, dest') /\ DOMAIN dest' = 1 .. N
        /\ dest'[field] = [mem |-> s, len |-> n]
        /\ \A j \in 1 .. N : j # field => dest'[j] = dest[j]
    BY <1>2, <1>4, <2>3, <2>4, <2>5, Replaced
  <2>7. Only(field) /\ Filled(field, n, pos + 1)
    BY <2>3, <2>6 DEF Only, Filled
  <2>8. QED
    BY <1>1, <1>2, <1>3, <1>4, <1>6, <2>1, <2>6, <2>7
<1>7. QED
  BY <1>3, <1>5, <1>6 DEF ReadString

LEMMA PointerEffect ==
    ASSUME Typed, ReadPointer
    PROVE  /\ field \in 1 .. N /\ Kind(field) = "pointer" /\ Rest > 0
           /\ pos' = pos + 1 /\ pos + 1 <= Len(data) /\ status' = status
           /\ Memory(struct, dest') /\ Only(field)
           /\ \/ Next1 = 1 /\ NextField /\ dest'[field].len = 0 /\ dest'[field].mem = <<>>
              \/ /\ Next1 # 1 /\ at' = 1 /\ field' = field /\ done' = done
                 /\ dest'[field].len = 1
<1>1. At(field, {"pointer"}, 0) /\ Rest > 0 /\ pos' = pos + 1 /\ status' = status
  BY DEF ReadPointer
<1>2. field \in 1 .. N /\ Kind(field) = "pointer"
  BY <1>1, AtField
<1>3. pos + 1 <= Len(data)
  BY <1>1, Positions
<1>4. Elem(Kind(field)) = Byte /\ Kind(field) \notin Numbers
  BY <1>2 DEF Elem, Numbers
<1>5. CASE /\ Next1 = 1 /\ NextField
           /\ dest' = [dest EXCEPT ![field] = [mem |-> <<>>, len |-> 0]]
  <2>1. <<>> \in Seq(Elem(Kind(field))) /\ 0 <= Len(<<>>) /\ 0 \in Nat
    OBVIOUS
  <2>2. /\ Memory(struct, dest') /\ DOMAIN dest' = 1 .. N
        /\ dest'[field] = [mem |-> <<>>, len |-> 0]
        /\ \A j \in 1 .. N : j # field => dest'[j] = dest[j]
    BY <1>2, <1>4, <1>5, <2>1, Replaced
  <2>3. QED
    BY <1>1, <1>2, <1>3, <1>5, <2>2 DEF Only
<1>6. CASE /\ Next1 # 1 /\ at' = 1 /\ UNCHANGED <<field, done>>
           /\ dest' = [dest EXCEPT ![field] = [mem |-> IF @.len = 0 THEN <<0>> ELSE @.mem, len |-> 1]]
  <2>1. PICK m : m = IF dest[field].len = 0 THEN <<0>> ELSE dest[field].mem
    OBVIOUS
  <2>2. dest[field].mem \in Seq(Byte) /\ dest[field].len \in Nat
        /\ Len(dest[field].mem) \in Nat /\ dest[field].len <= Len(dest[field].mem)
        /\ DOMAIN dest = 1 .. N
    BY <1>2, <1>4, CellOf
  <2>3. m \in Seq(Byte) /\ 1 <= Len(m)
    <3>1. CASE dest[field].len = 0
      <4>1. m = <<0>>
        BY <2>1, <3>1
      <4>2. QED
        BY <4>1 DEF Byte
    <3>2. CASE dest[field].len # 0
      BY <2>1, <2>2, <3>2
    <3>3. QED
      BY <3>1, <3>2
  <2>4. dest' = [dest EXCEPT ![field] = [mem |-> m, len |-> 1]]
    BY <1>2, <1>6, <2>1, <2>2
  <2>5. /\ Memory(struct, dest') /\ DOMAIN dest' = 1 .. N
        /\ dest'[field] = [mem |-> m, len |-> 1]
        /\ \A j \in 1 .. N : j # field => dest'[j] = dest[j]
    BY <1>2, <1>4, <2>3, <2>4, Replaced
  <2>6. QED
    BY <1>1, <1>2, <1>3, <1>6, <2>5 DEF Only
<1>7. QED
  BY <1>5, <1>6 DEF ReadPointer

LEMMA LengthEffect ==
    ASSUME Typed, ReadLength
    PROVE  /\ field \in 1 .. N /\ Kind(field) \in SliceKinds /\ Next1 \in Nat /\ Rest > 0
           /\ \/ Failed /\ Unavailable(Next1) /\ ~Unchecked(field, Next1)
              \/ /\ ~Unavailable(Next1) \/ Unchecked(field, Next1)
                 /\ pos' = pos + 1 /\ pos + 1 <= Len(data)
                 /\ at' = 1 /\ field' = field /\ done' = done /\ status' = status
                 /\ Memory(struct, dest') /\ Only(field) /\ dest'[field].len = Next1
<1>1. At(field, SliceKinds, 0) /\ Rest > 0
  BY DEF ReadLength
<1>2. field \in 1 .. N /\ Kind(field) \in SliceKinds /\ Kind(field) \notin Numbers
  BY <1>1, AtField DEF SliceKinds, Numbers
<1>3. PICK n : n = Next1
  OBVIOUS
<1>4. n \in Nat /\ pos + 1 <= Len(data)
  BY <1>1, <1>3, NextIs, Positions
<1>5. CASE Unavailable(n) /\ ~Unchecked(field, n) /\ Error /\ UNCHANGED dest
  BY <1>1, <1>2, <1>3, <1>4, <1>5 DEF Failed
<1>6. CASE /\ ~Unavailable(n) \/ Unchecked(field, n)
           /\ dest' = [dest EXCEPT ![field] = Resized(field, n)]
           /\ pos' = pos + 1 /\ at' = 1 /\ UNCHANGED <<field, done, status>>
  <2>1. PICK m : m = Resized(field, n).mem
    OBVIOUS
  <2>2. Resized(field, n) = [mem |-> m, len |-> n] /\ m \in Seq(Elem(Kind(field))) /\ n <= Len(m)
    BY <1>2, <1>4, <2>1, ResizedIs
  <2>3. dest' = [dest EXCEPT ![field] = [mem |-> m, len |-> n]]
    BY <1>6, <2>2
  <2>4. /\ Memory(struct, dest') /\ DOMAIN dest' = 1 .. N
        /\ dest'[field] = [mem |-> m, len |-> n]
        /\ \A j \in 1 .. N : j # field => dest'[j] = dest[j]
    BY <1>2, <1>4, <2>2, <2>3, Replaced
  <2>5. QED
    BY <1>1, <1>2, <1>3, <1>4, <1>6, <2>4 DEF Only
<1>7. QED
  BY <1>3, <1>5, <1>6 DEF ReadLength

LEMMA BufferedEffect ==
    ASSUME Typed, ReadBuffered
    PROVE  /\ field \in 1 .. N /\ Kind(field) \in {"bytes", "bools"} /\ Next1 \in Nat /\ Rest > 0
           /\ \/ Failed /\ Next1 > Rest - 1
              \/ /\ pos' = pos + 1 + Next1 /\ pos + 1 + Next1 <= Len(data)
                 /\ NextField /\ status' = status
                 /\ Memory(struct, dest') /\ Only(field) /\ Filled(field, Next1, pos + 1)
<1>1. At(field, SliceKinds, 0) /\ Rest > 0 /\ Buffered(field)
  BY DEF ReadBuffered
<1>2. field \in 1 .. N /\ Kind(field) \in {"bytes", "bools"}
  BY <1>1, AtField DEF Buffered
<1>3. Kind(field) \notin Numbers /\ Elem(Kind(field)) = Byte
  BY <1>2 DEF Numbers, Elem
<1>4. PICK n : n = Next1
  OBVIOUS
<1>5. n \in Nat
  BY <1>1, <1>4, NextIs
<1>6. PICK s : s = SubSeq(data, pos + 2, pos + 1 + n)
  OBVIOUS
<1>7. CASE n > Rest - 1 /\ Error /\ UNCHANGED dest
  BY <1>1, <1>2, <1>4, <1>5, <1>7 DEF Failed
<1>8. CASE /\ n <= Rest - 1
           /\ dest' = [dest EXCEPT ![field] =
                 IF n > 0 /\ Kind(field) = "bytes" THEN [mem |-> s, len |-> n]
                 ELSE LET cell == Resized(field, n)
                      IN  [cell EXCEPT !.mem = s \o SubSeq(@, n + 1, Len(@))]]
           /\ pos' = pos + 1 + n /\ NextField /\ UNCHANGED status
  <2>1. pos + 1 \in Nat /\ (pos + 1) + 1 = pos + 2 /\ (pos + 1) + n = pos + 1 + n
        /\ pos + 1 + n <= Len(data)
    BY <1>5, <1>8, Positions
  <2>2. s \in Seq(Byte) /\ Len(s) = n /\ \A j \in 1 .. n : s[j] = data[(pos + 1) + j]
    BY <1>5, <1>6, <2>1, Cut
  <2>3. PICK r : r = Resized(field, n).mem
    OBVIOUS
  <2>4. Resized(field, n) = [mem |-> r, len |-> n] /\ r \in Seq(Byte) /\ n <= Len(r) /\ Len(r) \in Nat
    BY <1>2, <1>3, <1>5, <2>3, ResizedIs
  <2>5. PICK q : q = SubSeq(r, n + 1, Len(r))
    OBVIOUS
  <2>6. q \in Seq(Byte)
    BY <1>5, <2>4, <2>5, SubSeqProperties
  <2>7. PICK m : m = IF n > 0 /\ Kind(field) = "bytes" THEN s ELSE s \o q
    OBVIOUS
  <2>8. m \in Seq(Byte) /\ n <= Len(m) /\ \A j \in 1 .. n : m[j] = data[(pos + 1) + j]
    <3>1. CASE m = s
      BY <1>5, <2>2, <3>1
    <3>2. CASE m = s \o q
      <4>1. /\ m \in Seq(Byte) /\ Len(m) = n + Len(q) /\ Len(q) \in Nat
            /\ \A j \in 1 .. n : m[j] = s[j]
        <5>1. Len(q) \in Nat
          BY <2>6, LenProperties
        <5>2. PICK y : y = s \o q
          OBVIOUS
        <5>3. /\ y \in Seq(Byte) /\ Len(y) = Len(s) + Len(q)
              /\ \A j \in 1 .. Len(s) : y[j] = s[j]
          <6>1. /\ y \in Seq(Byte) /\ Len(y) = Len(s) + Len(q)
                /\ \A j \in 1 .. Len(s) + Len(q) : y[j] = IF j <= Len(s) THEN s[j] ELSE q[j - Len(s)]
            BY <2>2, <2>6, <5>2, ConcatProperties
          <6>2. Len(s) \in Nat /\ \A j \in 1 .. Len(s) : j \in 1 .. Len(s) + Len(q) /\ j <= Len(s)
            BY <1>5, <2>2, <5>1
          <6>3. QED
            BY <6>1, <6>2
        <5>4. QED
          BY <2>2, <3>2, <5>1, <5>2, <5>3
      <4>2. QED
        BY <1>5, <2>2, <4>1
    <3>3. QED
      BY <2>7, <3>1, <3>2
  <2>9. dest' = [dest EXCEPT ![field] = [mem |-> m, len |-> n]]
    <3>1. CASE n > 0 /\ Kind(field) = "bytes"
      BY <1>8, <2>7, <3>1
    <3>2. CASE ~(n > 0 /\ Kind(field) = "bytes")
      <4>1. [Resized(field, n) EXCEPT !.mem = s \o SubSeq(@, n + 1, Len(@))] = [mem |-> s \o q, len |-> n]
        <5>1. PICK c : c = Resized(field, n)
          OBVIOUS
        <5>2. c = [mem |-> r, len |-> n]
          BY <2>4, <5>1
        <5>3. c.mem = r
          BY <5>2
        <5>4. [c EXCEPT !.mem = s \o SubSeq(@, n + 1, Len(@))] = [c EXCEPT !.mem = s \o q]
          BY <2>5, <5>3
        <5>5. PICK y : y = s \o q
          OBVIOUS
        <5>6. [c EXCEPT !.mem = y] = [mem |-> y, len |-> n]
          BY <5>2
        <5>7. QED
          BY <5>1, <5>4, <5>5, <5>6
      <4>2. QED
        BY <1>8, <2>7, <3>2, <4>1
    <3>3. QED
      BY <3>1, <3>2
  <2>10. /\ Memory(struct, dest') /\ DOMAIN dest' = 1 .. N
         /\ dest'[field] = [mem |-> m, len |-> n]
         /\ \A j \in 1 .. N : j # field => dest'[j] = dest[j]
    BY <1>2, <1>3, <1>5, <2>8, <2>9, Replaced
  <2>11. Only(field) /\ Filled(field, n, pos + 1)
    BY <2>8, <2>10 DEF Only, Filled
  <2>12. QED
    BY <1>1, <1>2, <1>4, <1>5, <1>8, <2>1, <2>10, <2>11
<1>9. QED
  BY <1>4, <1>6, <1>7, <1>8 DEF ReadBuffered

\* Elements from .. from + n - 1 of a field are read, the others stay.
Added(i, from, n, p) ==
    /\ dest'[i].len = dest[i].len /\ Len(dest'[i].mem) = Len(dest[i].mem)
    /\ \A j \in 1 .. Len(dest[i].mem) :
          dest'[i].mem[j] = IF j > from /\ j <= from + n THEN data[p + (j - from)] ELSE dest[i].mem[j]

LEMMA BytesAdded ==
    ASSUME Typed, NEW i \in 1 .. N, Kind(i) \notin Numbers, Elem(Kind(i)) = Byte,
           NEW from \in Nat, NEW n \in Nat, pos + n <= Len(data),
           dest' = Overwrite(i, from, Taken(n))
    PROVE  Memory(struct, dest') /\ Only(i) /\ Added(i, from, n, pos)
<1>1. PICK s : s = Taken(n)
  OBVIOUS
<1>2. s \in Seq(Byte) /\ Len(s) = n /\ \A j \in 1 .. n : s[j] = data[pos + j]
  BY <1>1, Cut, Positions DEF Taken
<1>3. dest' = Overwrite(i, from, s)
  BY <1>1
<1>4. /\ Memory(struct, dest') /\ Only(i)
      /\ dest'[i].len = dest[i].len /\ Len(dest'[i].mem) = Len(dest[i].mem)
      /\ \A j \in 1 .. Len(dest[i].mem) :
            dest'[i].mem[j] = IF j > from /\ j <= from + Len(s) THEN s[j - from] ELSE dest[i].mem[j]
  BY <1>2, <1>3, OverwriteIs DEF Only
<1>5. ASSUME NEW j \in 1 .. Len(dest[i].mem)
      PROVE  dest'[i].mem[j] = IF j > from /\ j <= from + n THEN data[pos + (j - from)] ELSE dest[i].mem[j]
  <2>1. CASE j > from /\ j <= from + n
    <3>1. j - from \in 1 .. n
      BY <2>1, CellOf
    <3>2. QED
      BY <1>2, <1>4, <2>1, <3>1
  <2>2. CASE ~(j > from /\ j <= from + n)
    BY <1>2, <1>4, <2>2
  <2>3. QED
    BY <2>1, <2>2
<1>6. QED
  BY <1>4, <1>5 DEF Added

LEMMA BodyEffect ==
    ASSUME Typed, ReadBody
    PROVE  /\ field \in 1 .. N /\ Kind(field) \in {"bytes", "bools"} /\ done < dest[field].len
           /\ \/ Failed /\ Rest = 0
              \/ /\ reader = "slice" /\ Rest > 0 /\ NextField /\ status' = status
                 /\ \E n \in Nat :
                       /\ n = IF Rest < dest[field].len THEN Rest ELSE dest[field].len
                       /\ pos' = pos + n /\ pos + n <= Len(data)
                       /\ Added(field, 0, n, pos)
                 /\ Memory(struct, dest') /\ Only(field)
              \/ /\ reader = "stream" /\ field' = field /\ at' = at /\ status' = status
                 /\ \E n \in Nat :
                       /\ n <= dest[field].len - done
                       /\ pos' = pos + n /\ pos + n <= Len(data) /\ done' = done + n
                       /\ Added(field, done, n, pos)
                 /\ Memory(struct, dest') /\ Only(field)
<1>1. At(field, {"bytes", "bools"}, 1) /\ done < dest[field].len
  BY DEF ReadBody
<1>2. field \in 1 .. N /\ Kind(field) \in {"bytes", "bools"}
  BY <1>1, AtField
<1>3. Kind(field) \notin Numbers /\ Elem(Kind(field)) = Byte /\ dest[field].len \in Nat /\ done \in Nat
  BY <1>2, CellOf DEF Numbers, Elem, Typed
<1>4. CASE Rest = 0 /\ Error /\ UNCHANGED dest
  BY <1>1, <1>2, <1>4 DEF Failed
<1>5. CASE /\ reader = "slice" /\ Rest > 0
           /\ LET n == IF Rest < dest[field].len THEN Rest ELSE dest[field].len
              IN  dest' = Overwrite(field, 0, Taken(n)) /\ pos' = pos + n
           /\ NextField /\ UNCHANGED status
  <2>1. PICK n : n = IF Rest < dest[field].len THEN Rest ELSE dest[field].len
    OBVIOUS
  <2>2. dest' = Overwrite(field, 0, Taken(n)) /\ pos' = pos + n
    BY <1>5, <2>1
  <2>3. n \in Nat /\ pos + n <= Len(data)
    BY <1>3, <2>1, Positions
  <2>4. Memory(struct, dest') /\ Only(field) /\ Added(field, 0, n, pos)
    BY <1>2, <1>3, <2>2, <2>3, BytesAdded
  <2>5. QED
    BY <1>1, <1>2, <1>5, <2>1, <2>2, <2>3, <2>4
<1>6. CASE /\ reader = "stream"
           /\ \E n \in 1 .. dest[field].len - done :
                 /\ n <= Rest /\ dest' = Overwrite(field, done, Taken(n))
                 /\ pos' = pos + n /\ done' = done + n
           /\ UNCHANGED <<field, at, status>>
  <2>1. PICK n \in 1 .. dest[field].len - done :
                 /\ n <= Rest /\ dest' = Overwrite(field, done, Taken(n))
                 /\ pos' = pos + n /\ done' = done + n
    BY <1>6
  <2>2. n \in Nat /\ pos + n <= Len(data) /\ n <= dest[field].len - done
    BY <1>3, <2>1, Positions
  <2>3. Memory(struct, dest') /\ Only(field) /\ Added(field, done, n, pos)
    BY <1>2, <1>3, <2>1, <2>2, BytesAdded
  <2>4. QED
    BY <1>1, <1>2, <1>6, <2>1, <2>2, <2>3
<1>7. QED
  BY <1>4, <1>5, <1>6 DEF ReadBody

LEMMA ElementEffect ==
    ASSUME Typed, ReadElement
    PROVE  /\ field \in 1 .. N /\ Kind(field) \in {"varuints", "strings", "pointer"}
           /\ done < dest[field].len /\ Rest > 0
           /\ \E n \in Nat :
                 /\ n = IF Kind(field) = "strings" THEN Next1 ELSE 0
                 /\ \/ Failed /\ n > Rest - 1
                    \/ /\ pos' = pos + 1 + n /\ pos + 1 + n <= Len(data) /\ done' = done + 1
                       /\ field' = field /\ at' = at /\ status' = status
                       /\ Memory(struct, dest') /\ Only(field)
                       /\ dest'[field].len = dest[field].len
                       /\ \A j \in 1 .. Len(dest[field].mem) : j # done + 1 =>
                             dest'[field].mem[j] = dest[field].mem[j]
                       /\ dest'[field].mem[done + 1] =
                             IF Kind(field) = "strings"
                             THEN SubSeq(data, (pos + 1) + 1, (pos + 1) + n) ELSE Next1
<1>1. At(field, {"varuints", "strings", "pointer"}, 1) /\ done < dest[field].len /\ Rest > 0
  BY DEF ReadElement
<1>2. field \in 1 .. N /\ Kind(field) \in {"varuints", "strings", "pointer"} /\ Kind(field) \in Kinds
  BY <1>1, AtField
<1>3. PICK n : n = IF Kind(field) = "strings" THEN Next1 ELSE 0
  OBVIOUS
<1>4. n \in Nat /\ Next1 \in Byte
  BY <1>1, <1>3, NextIs
<1>5. PICK s : s = SubSeq(data, pos + 2, pos + 1 + n)
  OBVIOUS
<1>6. PICK x : x = IF Kind(field) = "strings" THEN s ELSE Next1
  OBVIOUS
<1>7. CASE n > Rest - 1 /\ Error /\ UNCHANGED dest
  BY <1>1, <1>2, <1>3, <1>4, <1>7 DEF Failed
<1>8. CASE /\ n <= Rest - 1 /\ dest' = Overwrite(field, done, <<x>>)
           /\ pos' = pos + 1 + n /\ done' = done + 1 /\ UNCHANGED <<field, at, status>>
  <2>1. pos + 1 \in Nat /\ (pos + 1) + 1 = pos + 2 /\ (pos + 1) + n = pos + 1 + n
        /\ pos + 1 + n <= Len(data)
    BY <1>4, <1>8, Positions
  <2>2. s \in Seq(Byte)
    BY <1>4, <1>5, <2>1, Cut
  <2>3. x \in Elem(Kind(field)) /\ Kind(field) \notin Numbers
    BY <1>2, <1>4, <1>6, <2>2 DEF Elem, Numbers
  <2>4. PICK w : w = <<x>>
    OBVIOUS
  <2>5. w \in Seq(Elem(Kind(field))) /\ Len(w) = 1 /\ w[1] = x
    BY <2>3, <2>4
  <2>6. done \in Nat /\ dest' = Overwrite(field, done, w)
    BY <1>8, <2>4 DEF Typed
  <2>7. /\ Memory(struct, dest') /\ Only(field)
        /\ dest'[field].len = dest[field].len
        /\ \A j \in 1 .. Len(dest[field].mem) :
              dest'[field].mem[j] =
                 IF j > done /\ j <= done + Len(w) THEN w[j - done] ELSE dest[field].mem[j]
    BY <1>2, <2>3, <2>5, <2>6, OverwriteIs DEF Only
  <2>8. \A j \in 1 .. Len(dest[field].mem) : j # done + 1 => dest'[field].mem[j] = dest[field].mem[j]
    <3>1. ASSUME NEW j \in 1 .. Len(dest[field].mem), j # done + 1
          PROVE  ~(j > done /\ j <= done + 1)
      BY <1>2, <2>6, <3>1, CellOf
    <3>2. QED
      BY <2>5, <2>7, <3>1
  <2>9. dest'[field].mem[done + 1] = x
    <3>1. done + 1 \in 1 .. Len(dest[field].mem)
      <4>1. dest[field].len \in Nat /\ Len(dest[field].mem) \in Nat
            /\ dest[field].len <= Len(dest[field].mem)
        BY <1>2, CellOf
      <4>2. QED
        BY <1>1, <2>6, <4>1
    <3>2. done + 1 > done /\ done + 1 <= done + 1 /\ (done + 1) - done = 1
      BY <2>6
    <3>3. QED
      BY <2>5, <2>7, <3>1, <3>2
  <2>10. QED
    BY <1>1, <1>2, <1>3, <1>4, <1>5, <1>6, <1>8, <2>1, <2>7, <2>8, <2>9
<1>9. QED
  BY <1>3, <1>5, <1>6, <1>7, <1>8 DEF ReadElement

-----------------------------------------------------------------------------
(* Types are kept.                                                          *)

LEMMA FailedKeeps ==
    ASSUME Typed, Failed, UNCHANGED <<input, target>>
    PROVE  Typed'
<1>1. pos' = pos /\ field' = field /\ at' = at /\ done' = done /\ status' = "error" /\ dest' = dest
  BY DEF Failed, Error, cursor
<1>2. QED
  BY <1>1, TypedFrame, Positions DEF Typed

LEMMA TypedRead ==
    ASSUME Typed,
           ReadUint \/ ReadString \/ ReadPointer \/ ReadLength
              \/ ReadBuffered \/ ReadBody \/ ReadElement
    PROVE  Typed'
<1>1. ASSUME UNCHANGED <<input, target>>, Memory(struct, dest'), status' = status,
             field \in 1 .. N, pos' \in Nat, pos <= pos', pos' <= Len(data),
             \/ NextField
             \/ field' = field /\ at' \in {0, 1} /\ done' \in Nat
      PROVE  Typed'
  <2>1. field' \in 1 .. N + 1 /\ at' \in {0, 1} /\ done' \in Nat /\ status' \in {"new", "busy", "ok", "error"}
    BY <1>1, Positions DEF NextField, Typed
  <2>2. QED
    BY <1>1, <2>1, TypedFrame
<1>2. CASE ReadUint
  <2>1. UNCHANGED <<input, target>> /\ status' = status /\ NextField /\ pos' = pos + 1
    BY <1>2 DEF ReadUint
  <2>2. QED
    BY <1>1, <1>2, <2>1, UintEffect, Positions
<1>3. CASE ReadString
  <2>1. UNCHANGED <<input, target>>
    BY <1>3 DEF ReadString
  <2>2. CASE Failed
    BY <2>1, <2>2, FailedKeeps
  <2>3. CASE ~Failed
    <3>1. PICK n \in Nat : n = Next1 /\ pos' = pos + 1 + n /\ pos + 1 + n <= Len(data)
      BY <1>3, <2>3, StringEffect
    <3>2. /\ NextField /\ status' = status /\ Memory(struct, dest') /\ field \in 1 .. N
      BY <1>3, <2>3, StringEffect
    <3>3. QED
      BY <1>1, <2>1, <3>1, <3>2, Positions
  <2>4. QED
    BY <2>2, <2>3
<1>4. CASE ReadPointer
  <2>1. UNCHANGED <<input, target>>
    BY <1>4 DEF ReadPointer
  <2>2. done \in Nat
    BY DEF Typed
  <2>3. QED
    BY <1>1, <1>4, <2>1, <2>2, PointerEffect, Positions
<1>5. CASE ReadLength
  <2>1. UNCHANGED <<input, target>>
    BY <1>5 DEF ReadLength
  <2>2. CASE Failed
    BY <2>1, <2>2, FailedKeeps
  <2>3. CASE ~Failed
    <3>1. done \in Nat
      BY DEF Typed
    <3>2. QED
      BY <1>1, <1>5, <2>1, <2>3, <3>1, LengthEffect, Positions
  <2>4. QED
    BY <2>2, <2>3
<1>6. CASE ReadBuffered
  <2>1. UNCHANGED <<input, target>>
    BY <1>6 DEF ReadBuffered
  <2>2. CASE Failed
    BY <2>1, <2>2, FailedKeeps
  <2>3. CASE ~Failed
    <3>1. PICK n \in Nat : n = Next1 /\ pos' = pos + 1 + n /\ pos + 1 + n <= Len(data)
      BY <1>6, <2>3, BufferedEffect
    <3>2. /\ NextField /\ status' = status /\ Memory(struct, dest') /\ field \in 1 .. N
      BY <1>6, <2>3, BufferedEffect
    <3>3. QED
      BY <1>1, <2>1, <3>1, <3>2, Positions
  <2>4. QED
    BY <2>2, <2>3
<1>7. CASE ReadBody
  <2>1. UNCHANGED <<input, target>>
    BY <1>7 DEF ReadBody
  <2>2. CASE Failed
    BY <2>1, <2>2, FailedKeeps
  <2>3. CASE ~Failed
    <3>1. PICK n \in Nat : /\ pos' = pos + n /\ pos + n <= Len(data)
                           /\ NextField \/ (field' = field /\ at' = at /\ done' = done + n)
      BY <1>7, <2>3, BodyEffect
    <3>2. /\ status' = status /\ Memory(struct, dest') /\ field \in 1 .. N
      BY <1>7, <2>3, BodyEffect
    <3>3. at \in {0, 1} /\ done + n \in Nat
      BY DEF Typed
    <3>4. QED
      BY <1>1, <2>1, <3>1, <3>2, <3>3, Positions
  <2>4. QED
    BY <2>2, <2>3
<1>8. CASE ReadElement
  <2>1. UNCHANGED <<input, target>>
    BY <1>8 DEF ReadElement
  <2>2. CASE Failed
    BY <2>1, <2>2, FailedKeeps
  <2>3. CASE ~Failed
    <3>1. PICK n \in Nat : pos' = pos + 1 + n /\ pos + 1 + n <= Len(data)
      BY <1>8, <2>3, ElementEffect
    <3>2. /\ status' = status /\ Memory(struct, dest') /\ field \in 1 .. N
          /\ field' = field /\ at' = at /\ done' = done + 1
      BY <1>8, <2>3, ElementEffect
    <3>3. at \in {0, 1} /\ done + 1 \in Nat
      BY DEF Typed
    <3>4. QED
      BY <1>1, <2>1, <3>1, <3>2, <3>3, Positions
  <2>4. QED
    BY <2>2, <2>3
<1>9. QED
  BY <1>2, <1>3, <1>4, <1>5, <1>6, <1>7, <1>8

LEMMA FreshMemory ==
    ASSUME NEW t \in Structs
    PROVE  Memory(t, Fresh(t))
<1>1. DOMAIN Fresh(t) = 1 .. Len(Fields[t])
  BY FieldsType DEF Fresh
<1>2. ASSUME NEW i \in 1 .. Len(Fields[t])
      PROVE  Cell(Fields[t][i], Fresh(t)[i])
  <2>1. CASE Fields[t][i] \in Numbers
    <3>1. Fresh(t)[i] = [mem |-> <<0>>, len |-> 1] /\ Elem(Fields[t][i]) = Byte
      BY <2>1, FieldsType DEF Fresh, Numbers, Elem
    <3>2. <<0>> \in Seq(Byte) /\ Len(<<0>>) = 1
      BY DEF Byte
    <3>3. QED
      BY <3>1, <3>2 DEF Cell
  <2>2. CASE Fields[t][i] \notin Numbers
    <3>1. Fresh(t)[i] = [mem |-> <<>>, len |-> 0]
      BY <2>2, FieldsType DEF Fresh, Numbers
    <3>2. QED
      BY <2>2, <3>1 DEF Cell
  <2>3. QED
    BY <2>1, <2>2
<1>3. QED
  BY <1>1, <1>2 DEF Memory

Opened(t, r, values, n) ==
    /\ n <= Len(Encoded[t][values]) /\ data' = SubSeq(Encoded[t][values], 1, n)
    /\ struct' = t /\ reader' = r /\ todo' = values /\ want' = values[1]
    /\ dest' \in (IF t = struct THEN {dest} ELSE {}) \cup {Fresh(t)}

LEMMA OpenIs ==
    ASSUME Open
    PROVE  \E t \in Structs : \E r \in Readers[t], values \in Inputs[t], n \in Nat : Opened(t, r, values, n)
<1>1. PICK t \in Structs : \E r \in Readers[t], values \in Inputs[t] :
          /\ \E n \in 0 .. Len(Encoded[t][values]) : data' = SubSeq(Encoded[t][values], 1, n)
          /\ struct' = t /\ reader' = r /\ todo' = values /\ want' = values[1]
          /\ dest' \in (IF t = struct THEN {dest} ELSE {}) \cup {Fresh(t)}
  BY DEF Open
<1>2. PICK r \in Readers[t], values \in Inputs[t] :
          /\ \E n \in 0 .. Len(Encoded[t][values]) : data' = SubSeq(Encoded[t][values], 1, n)
          /\ struct' = t /\ reader' = r /\ todo' = values /\ want' = values[1]
          /\ dest' \in (IF t = struct THEN {dest} ELSE {}) \cup {Fresh(t)}
  BY <1>1
<1>3. PICK n \in 0 .. Len(Encoded[t][values]) : data' = SubSeq(Encoded[t][values], 1, n)
  BY <1>2
<1>4. Len(Encoded[t][values]) \in Nat
  <2>1. values \in Seq(Values[t])
    BY StructsAssumption
  <2>2. QED
    BY <2>1, EncodedType, LenProperties
<1>5. n \in Nat /\ n <= Len(Encoded[t][values])
  BY <1>4
<1>6. Opened(t, r, values, n)
  BY <1>2, <1>3, <1>5 DEF Opened
<1>7. QED
  BY <1>5, <1>6

LEMMA TypedOpen ==
    ASSUME Typed, Open
    PROVE  Typed'
<1>1. PICK t \in Structs : \E r \in Readers[t], values \in Inputs[t], n \in Nat : Opened(t, r, values, n)
  BY OpenIs
<1> PICK r \in Readers[t], values \in Inputs[t], n \in Nat : Opened(t, r, values, n)
  BY <1>1
<1> USE DEF Opened
<1>2. before' = dest' /\ pos' = 0 /\ start' = 0 /\ field' = 1 /\ at' = 0 /\ done' = 0 /\ status' = "new"
  BY DEF Open
<1>3. values \in Seq(Values[t]) /\ values # <<>>
  BY StructsAssumption
<1>4. values[1] \in Values[t]
  BY <1>3
<1>5. data' \in Seq(Byte) /\ Len(data') \in Nat
  <2>1. Encoded[t][values] \in Seq(Byte)
    BY <1>3, EncodedType
  <2>2. data' \in Seq(Byte)
    BY <2>1, SubSeqProperties
  <2>3. QED
    BY <2>2, LenProperties
<1>6. Memory(t, dest')
  BY FreshMemory DEF Typed
<1>7. N' \in Nat
  BY FieldsType DEF N
<1>8. QED
  <2>1. /\ struct' \in Structs /\ reader' \in Readers[struct'] /\ todo' \in Seq(Values[struct'])
        /\ want' \in Values[struct'] /\ Memory(struct', dest') /\ Memory(struct', before')
    BY <1>2, <1>3, <1>4, <1>6
  <2>2. pos' \in 0 .. Len(data') /\ start' \in 0 .. pos' /\ field' \in 1 .. N' + 1
    <3>1. PICK k, l : k = N' /\ l = Len(data')
      OBVIOUS
    <3>2. k \in Nat /\ l \in Nat
      BY <1>5, <1>7, <3>1
    <3>3. 0 \in 0 .. l /\ 0 \in 0 .. 0 /\ 1 \in 1 .. k + 1
      BY ONLY <3>2
    <3>4. QED
      BY <1>2, <3>1, <3>3
  <2>3. at' \in {0, 1} /\ done' \in Nat /\ status' \in {"new", "busy", "ok", "error"}
    BY <1>2
  <2>4. QED
    BY <1>5, <2>1, <2>2, <2>3 DEF Typed

LEMMA TypedStep == Typed /\ [Next]_vars => Typed'
<1>1. SUFFICES ASSUME Typed, [Next]_vars
               PROVE  Typed'
  OBVIOUS
<1>2. CASE Decode
  <2>1. /\ todo # <<>> /\ want' = Head(todo) /\ todo' = Tail(todo) /\ start' = pos /\ before' = dest
        /\ field' = 1 /\ at' = 0 /\ done' = 0 /\ status' = "busy"
        /\ struct' = struct /\ reader' = reader /\ data' = data /\ pos' = pos /\ dest' = dest
    BY <1>2 DEF Decode
  <2>2. Head(todo) \in Values[struct] /\ Tail(todo) \in Seq(Values[struct])
    BY <1>1, <2>1, HeadTailProperties DEF Typed
  <2>3. N' = N /\ N \in Nat /\ pos \in 0 .. pos
    BY <1>1, <2>1, Positions DEF N
  <2>4. QED
    BY <1>1, <2>1, <2>2, <2>3 DEF Typed
<1>3. CASE Skip \/ Complete
  <2>1. UNCHANGED <<input, pos, target, dest, status>> /\ NextField /\ field <= N
    BY <1>3 DEF Skip, Complete, At
  <2>2. field' \in 1 .. N + 1 /\ at' \in {0, 1} /\ done' \in Nat
    BY <1>1, <2>1, Positions DEF NextField, Typed
  <2>3. Memory(struct, dest') /\ pos' = pos /\ status' = status
    BY <1>1, <2>1 DEF Typed
  <2>4. QED
    BY <1>1, <2>1, <2>2, <2>3, TypedFrame, Positions DEF Typed
<1>4. CASE Missing
  <2>1. Failed /\ UNCHANGED <<input, target>>
    BY <1>4 DEF Missing, Failed
  <2>2. QED
    BY <1>1, <2>1, FailedKeeps
<1>5. CASE Finish
  <2>1. UNCHANGED <<input, pos, target, dest, cursor>> /\ status' = "ok"
    BY <1>5 DEF Finish
  <2>2. /\ Memory(struct, dest') /\ pos' = pos /\ field' = field /\ at' = at /\ done' = done
    BY <1>1, <2>1 DEF Typed, cursor
  <2>3. QED
    BY <1>1, <2>1, <2>2, TypedFrame, Positions DEF Typed
<1>6. CASE UNCHANGED vars
  BY <1>1, <1>6 DEF vars, input, target, cursor, Typed, N
<1>7. QED
  BY <1>1, <1>2, <1>3, <1>4, <1>5, <1>6, TypedOpen, TypedRead DEF Next, Step

LEMMA TypedInit == Init => Typed
<1>1. SUFFICES ASSUME Init
               PROVE  Typed
  OBVIOUS
<1>2. Memory(struct, dest) /\ Memory(struct, before) /\ N \in Nat
  BY <1>1, FreshMemory, FieldsType DEF Init, N
<1>3. data \in Seq(Byte) /\ Len(data) = 0 /\ todo \in Seq(Values[struct])
  BY <1>1 DEF Init
<1>4. QED
  BY <1>1, <1>2, <1>3 DEF Init, Typed

LEMMA TypedHolds == Spec => []Typed
<1>1. Init => Typed
  BY TypedInit
<1>2. Typed /\ [Next]_vars => Typed'
  BY TypedStep
<1>3. QED
  BY <1>1, <1>2, PTL DEF Spec

\* The destination keeps its shape: a field's memory holds elements of its kind and is at least as
\* long as its length, numbers have one cell, and no read goes past the end of the input
\* (the loop of reflectStructCodec.DecodeTo and the resizes in it).
THEOREM StructTypes == Spec => []TypeOK
<1>1. Typed => TypeOK
  BY TypedIsTypeOK DEF TypeInv
<1>2. QED
  BY <1>1, TypedHolds, PTL

-----------------------------------------------------------------------------
(* Where a field is on the wire, and where its elements are.                *)

OnWire(i) == FieldWire(Kind(i), want[i])

\* The position in data behind field i, and behind d elements of field i.
FieldEnd(i) == start + Ends(struct, want)[i]

Offset(i, d) ==
    IF Kind(i) = "strings" THEN JoinEnds([j \in DOMAIN want[i] |-> Prefixed(want[i][j])])[d] ELSE d

Reached(i, d) == FieldEnd(i - 1) + 1 + Offset(i, d)

\* A field that is a length or a flag, and elements.
HasElements(i) ==
    \/ Kind(i) \in {"string", "bytes", "varuints", "bools", "strings"}
    \/ Kind(i) = "pointer" /\ want[i] # <<>>

LEMMA FieldEnds ==
    ASSUME Typed
    PROVE  /\ FieldEnd(0) = start
           /\ \A i \in 0 .. N : FieldEnd(i) \in Nat /\ start <= FieldEnd(i) /\ FieldEnd(i) <= FieldEnd(N)
           /\ \A i \in 1 .. N : /\ OnWire(i) \in Seq(Byte) /\ Len(OnWire(i)) \in Nat
                                /\ FieldEnd(i - 1) \in Nat
                                /\ FieldEnd(i) = FieldEnd(i - 1) + Len(OnWire(i))
           /\ Intact <=> FieldEnd(N) <= Len(data)
<1>1. PICK ws, E : ws = Pieces(struct, want) /\ E = JoinEnds(ws)
  OBVIOUS
<1>2. struct \in Structs /\ want \in Values[struct] /\ start \in Nat /\ N \in Nat /\ N = Len(Fields[struct])
  BY Positions DEF Typed
<1>3. ws \in Seq(Seq(Byte)) /\ Len(ws) = N /\ Len(Wire[struct][want]) = E[N] /\ E = Ends(struct, want)
  BY <1>1, <1>2, WireIs DEF Ends
<1>4. /\ E \in [0 .. N -> Nat] /\ E[0] = 0
      /\ \A i \in 1 .. N : i - 1 \in 0 .. N /\ E[i] = E[i - 1] + Len(ws[i])
  BY <1>1, <1>3, JoinEndsStep
<1>5. \A i \in 1 .. N : E[i] <= E[N]
  BY <1>1, <1>3, FlattenElements
<1>6. \A i \in 0 .. N : E[i] \in Nat /\ E[i] <= E[N]
  BY <1>2, <1>4, <1>5
<1>7. \A i \in 0 .. N : FieldEnd(i) = start + E[i]
  BY <1>3 DEF FieldEnd
<1>8. \A i \in 1 .. N : ws[i] = OnWire(i)
  <2>1. DOMAIN want = 1 .. N
    BY <1>2, ValuesAssumption, FieldsType
  <2>2. QED
    BY <1>1, <2>1 DEF Pieces, OnWire, Kind
<1>9. \A i \in 1 .. N : OnWire(i) \in Seq(Byte) /\ Len(OnWire(i)) \in Nat
  <2>1. \A i \in 1 .. N : ws[i] \in Seq(Byte)
    BY <1>3, ElementOfSeq
  <2>2. QED
    BY <1>8, <2>1, LenProperties
<1>10. FieldEnd(0) = start
  BY <1>2, <1>4, <1>7
<1>11. \A i \in 0 .. N : FieldEnd(i) \in Nat /\ start <= FieldEnd(i) /\ FieldEnd(i) <= FieldEnd(N)
  BY <1>2, <1>6, <1>7
<1>12. ASSUME NEW i \in 1 .. N
       PROVE  FieldEnd(i - 1) \in Nat /\ FieldEnd(i) = FieldEnd(i - 1) + Len(OnWire(i))
  <2>1. i - 1 \in 0 .. N /\ i \in 0 .. N /\ E[i] = E[i - 1] + Len(OnWire(i))
    BY <1>2, <1>4, <1>8
  <2>2. FieldEnd(i) = start + E[i] /\ FieldEnd(i - 1) = start + E[i - 1] /\ FieldEnd(i - 1) \in Nat
    BY <1>7, <1>11, <2>1
  <2>3. E[i - 1] \in Nat /\ Len(OnWire(i)) \in Nat
    BY <1>6, <1>9, <2>1
  <2>4. QED
    BY <1>2, <2>1, <2>2, <2>3
<1>13. Intact <=> FieldEnd(N) <= Len(data)
  BY <1>2, <1>3, <1>7 DEF Intact
<1>14. QED
  BY <1>9, <1>10, <1>11, <1>12, <1>13

\* The bytes of the value are what the input has at its place, as far as it goes.
Shown ==
    \A i \in 1 .. N : \A k \in 1 .. Len(OnWire(i)) :
        FieldEnd(i - 1) + k <= Len(data) => data[FieldEnd(i - 1) + k] = OnWire(i)[k]

LEMMA WantTypes ==
    ASSUME Typed, NEW i \in 1 .. N
    PROVE  /\ Kind(i) \notin Numbers => want[i] \in Seq(Elem(Kind(i))) /\ Len(want[i]) \in Nat
           /\ Kind(i) \in Numbers => want[i] \in Byte
           /\ Kind(i) = "pointer" => Len(want[i]) \in {0, 1}
<1>1. DOMAIN want = 1 .. N
  BY ValuesAssumption, FieldsType DEF Typed, N
<1>2. want[i] \in FieldValue(Kind(i)) /\ (Kind(i) = "pointer" => Len(want[i]) \in {0, 1})
  BY <1>1, ValuesAssumption DEF Typed, Kind
<1>3. Kind(i) \notin Numbers => want[i] \in Seq(Elem(Kind(i)))
  BY <1>2 DEF FieldValue, Numbers
<1>4. Kind(i) \in Numbers => want[i] \in Byte
  BY <1>2 DEF FieldValue, Numbers
<1>5. QED
  BY <1>2, <1>3, <1>4, LenProperties

\* A number, a field that is not written, and a nil pointer.
LEMMA ScalarWire ==
    ASSUME Typed, NEW i \in 1 .. N
    PROVE  /\ Kind(i) = "uint" => Len(OnWire(i)) = 1 /\ OnWire(i)[1] = want[i]
           /\ Kind(i) = "skipped" => Len(OnWire(i)) = 0
           /\ Kind(i) = "pointer" /\ want[i] = <<>> => Len(OnWire(i)) = 1 /\ OnWire(i)[1] = 1
<1>1. CASE Kind(i) = "uint"
  BY <1>1 DEF OnWire, FieldWire
<1>2. CASE Kind(i) = "skipped"
  BY <1>2 DEF OnWire, FieldWire
<1>3. CASE Kind(i) = "pointer" /\ want[i] = <<>>
  <2>1. OnWire(i) = <<1>>
    BY <1>3 DEF OnWire, FieldWire
  <2>2. QED
    BY <1>3, <2>1
<1>4. QED
  BY <1>1, <1>2, <1>3

LEMMA BytesAreNumbers == \A s \in Seq(Byte) : s \in Seq(Nat)
<1>1. Byte \subseteq Nat
  BY DEF Byte
<1>2. QED
  BY <1>1, SeqMonotonic

\* The first byte of a field with elements, and its elements.
LEMMA ElementsOnWire ==
    ASSUME Typed, NEW i \in 1 .. N, HasElements(i)
    PROVE  /\ want[i] \in Seq(Elem(Kind(i))) /\ Len(want[i]) \in Nat
           /\ OnWire(i)[1] = IF Kind(i) = "pointer" THEN 0 ELSE Len(want[i])
           /\ Len(OnWire(i)) = 1 + Offset(i, Len(want[i]))
           /\ Offset(i, 0) = 0
           /\ \A d \in 0 .. Len(want[i]) : Offset(i, d) \in Nat /\ Offset(i, d) <= Offset(i, Len(want[i]))
           /\ \A d \in 0 .. Len(want[i]) - 1 :
                 /\ Offset(i, d + 1) =
                       Offset(i, d) + 1 + (IF Kind(i) = "strings" THEN Len(want[i][d + 1]) ELSE 0)
                 /\ OnWire(i)[1 + Offset(i, d) + 1] =
                       IF Kind(i) = "strings" THEN Len(want[i][d + 1]) ELSE want[i][d + 1]
                 /\ Kind(i) = "strings" => \A k \in 1 .. Len(want[i][d + 1]) :
                       OnWire(i)[1 + Offset(i, d) + 1 + k] = want[i][d + 1][k]
<1>1. PICK v, w : v = want[i] /\ w = OnWire(i)
  OBVIOUS
<1>2. Kind(i) \notin Numbers /\ Kind(i) # "skipped" /\ Kind(i) # "uint"
  BY DEF HasElements, Numbers
<1>3. v \in Seq(Elem(Kind(i))) /\ Len(v) \in Nat
  BY <1>1, <1>2, WantTypes
<1>4. CASE Kind(i) # "strings"
  <2>1. PICK x \in Nat : w = <<x>> \o v /\ x = IF Kind(i) = "pointer" THEN 0 ELSE Len(v)
    <3>1. CASE Kind(i) = "pointer"
      BY <1>1, <3>1 DEF HasElements, OnWire, FieldWire
    <3>2. CASE Kind(i) # "pointer"
      BY <1>1, <1>2, <1>3, <1>4, <3>2 DEF OnWire, FieldWire, Prefixed
    <3>3. QED
      BY <3>1, <3>2
  <2>2. Elem(Kind(i)) = Byte
    BY <1>4 DEF Elem
  <2>3. /\ Len(w) = 1 + Len(v) /\ w[1] = x
        /\ \A j \in 1 .. Len(v) : w[1 + j] = v[j]
    <3>1. PICK y : y = <<x>>
      OBVIOUS
    <3>2. y \in Seq(Nat) /\ Len(y) = 1 /\ y[1] = x
      BY <3>1
    <3>3. v \in Seq(Nat)
      BY <1>3, <2>2, BytesAreNumbers
    <3>4. /\ Len(w) = 1 + Len(v)
          /\ \A j \in 1 .. 1 + Len(v) : w[j] = IF j <= 1 THEN y[j] ELSE v[j - 1]
      BY <2>1, <3>1, <3>2, <3>3, ConcatProperties
    <3>5. 1 \in 1 .. 1 + Len(v) /\ 1 <= 1
      BY <1>3
    <3>6. \A j \in 1 .. Len(v) : 1 + j \in 1 .. 1 + Len(v) /\ ~(1 + j <= 1) /\ (1 + j) - 1 = j
      BY <1>3
    <3>7. QED
      BY <3>2, <3>4, <3>5, <3>6
  <2>4. \A d \in Nat : Offset(i, d) = d
    BY <1>4 DEF Offset
  <2>5. ASSUME NEW d \in 0 .. Len(v) - 1
        PROVE  Offset(i, d + 1) = Offset(i, d) + 1 + 0 /\ w[1 + Offset(i, d) + 1] = v[d + 1]
    <3>1. d \in Nat /\ d + 1 \in 1 .. Len(v) /\ 1 + d + 1 = 1 + (d + 1)
      BY <1>3
    <3>2. QED
      BY <2>3, <2>4, <3>1
  <2>6. QED
    BY <1>1, <1>3, <1>4, <2>1, <2>3, <2>4, <2>5
<1>5. CASE Kind(i) = "strings"
  <2>1. PICK ws, E : ws = [j \in DOMAIN v |-> Prefixed(v[j])] /\ E = JoinEnds(ws)
    OBVIOUS
  <2>2. PICK f : f = FlattenSeq(ws)
    OBVIOUS
  <2>3. w = <<Len(v)>> \o f
    BY <1>1, <1>5, <2>1, <2>2 DEF OnWire, FieldWire
  <2>4. DOMAIN v = 1 .. Len(v) /\ \A j \in 1 .. Len(v) : v[j] \in Seq(Nat) /\ Len(v[j]) \in Nat
    <3>1. v \in Seq(Seq(Byte))
      BY <1>3, <1>5 DEF Elem
    <3>2. DOMAIN v = 1 .. Len(v) /\ \A j \in 1 .. Len(v) : v[j] \in Seq(Byte)
      BY <3>1, LenProperties, ElementOfSeq
    <3>3. \A j \in 1 .. Len(v) : v[j] \in Seq(Nat)
      BY <3>2, BytesAreNumbers
    <3>4. QED
      BY <3>2, <3>3, LenProperties
  <2>5. ASSUME NEW j \in 1 .. Len(v)
        PROVE  /\ Prefixed(v[j]) \in Seq(Nat) /\ Len(Prefixed(v[j])) = 1 + Len(v[j])
               /\ Prefixed(v[j])[1] = Len(v[j])
               /\ \A k \in 1 .. Len(v[j]) : Prefixed(v[j])[1 + k] = v[j][k]
    <3>1. PICK s, y : s = v[j] /\ y = <<Len(v[j])>>
      OBVIOUS
    <3>2. s \in Seq(Nat) /\ Len(s) \in Nat /\ y \in Seq(Nat) /\ Len(y) = 1 /\ y[1] = Len(s)
      BY <2>4, <3>1
    <3>3. PICK p : p = y \o s
      OBVIOUS
    <3>4. /\ p \in Seq(Nat) /\ Len(p) = 1 + Len(s)
          /\ \A k \in 1 .. 1 + Len(s) : p[k] = IF k <= 1 THEN y[k] ELSE s[k - 1]
      <4>1. /\ p \in Seq(Nat) /\ Len(p) = Len(y) + Len(s)
            /\ \A k \in 1 .. Len(y) + Len(s) : p[k] = IF k <= Len(y) THEN y[k] ELSE s[k - Len(y)]
        BY <3>2, <3>3, ConcatProperties
      <4>2. QED
        BY <3>2, <4>1
    <3>5. 1 \in 1 .. 1 + Len(s) /\ 1 <= 1
      BY <3>2
    <3>6. \A k \in 1 .. Len(s) : 1 + k \in 1 .. 1 + Len(s) /\ ~(1 + k <= 1) /\ (1 + k) - 1 = k
      BY <3>2
    <3>7. p = Prefixed(v[j])
      BY <3>1, <3>3 DEF Prefixed
    <3>8. QED
      BY <3>1, <3>2, <3>4, <3>5, <3>6, <3>7
  <2>6. ws \in Seq(Seq(Nat)) /\ Len(ws) = Len(v) /\ \A j \in 1 .. Len(v) : ws[j] = Prefixed(v[j])
    BY <1>3, <2>1, <2>4, <2>5
  <2>7. /\ E \in [0 .. Len(v) -> Nat] /\ E[0] = 0
        /\ \A j \in 1 .. Len(v) : j - 1 \in 0 .. Len(v) /\ E[j] = E[j - 1] + Len(ws[j])
    BY <2>1, <2>6, JoinEndsStep
  <2>8. /\ f \in Seq(Nat) /\ Len(f) = E[Len(v)]
        /\ \A j \in 1 .. Len(v) : E[j] <= E[Len(v)]
        /\ \A j \in 1 .. Len(v) : \A k \in 1 .. Len(ws[j]) : f[E[j - 1] + k] = ws[j][k]
    <3>1. /\ FlattenSeq(ws) \in Seq(Nat)
          /\ Len(FlattenSeq(ws)) = JoinEnds(ws)[Len(ws)]
          /\ \A j \in 1 .. Len(ws) : JoinEnds(ws)[j] <= JoinEnds(ws)[Len(ws)]
          /\ \A j \in 1 .. Len(ws) : \A k \in 1 .. Len(ws[j]) :
                FlattenSeq(ws)[JoinEnds(ws)[j - 1] + k] = ws[j][k]
      BY <2>6, FlattenElements
    <3>2. QED
      BY <2>1, <2>2, <2>6, <3>1
  <2>9. \A d \in Nat : Offset(i, d) = E[d]
    BY <1>1, <1>5, <2>1 DEF Offset
  <2>10. PICK L : L = Len(f)
    OBVIOUS
  <2>11. L \in Nat /\ L = E[Len(v)]
    BY <2>8, <2>10, LenProperties
  <2>12. Len(w) = 1 + L /\ w[1] = Len(v) /\ \A j \in 1 .. L : w[1 + j] = f[j]
    <3>1. PICK y : y = <<Len(v)>>
      OBVIOUS
    <3>2. y \in Seq(Nat) /\ Len(y) = 1 /\ y[1] = Len(v)
      BY <1>3, <3>1
    <3>3. /\ Len(w) = 1 + L
          /\ \A j \in 1 .. 1 + L : w[j] = IF j <= 1 THEN y[j] ELSE f[j - 1]
      BY <2>3, <2>8, <2>10, <3>1, <3>2, ConcatProperties
    <3>4. 1 \in 1 .. 1 + L /\ 1 <= 1
      BY <2>11
    <3>5. \A j \in 1 .. L : 1 + j \in 1 .. 1 + L /\ ~(1 + j <= 1) /\ (1 + j) - 1 = j
      BY <2>11
    <3>6. QED
      BY <3>2, <3>3, <3>4, <3>5
  <2>13. \A d \in 0 .. Len(v) : E[d] \in Nat /\ E[d] <= L
    <3>1. \A d \in 0 .. Len(v) : E[d] \in Nat
      BY <2>7
    <3>2. \A d \in 1 .. Len(v) : E[d] <= L
      BY <2>8, <2>11
    <3>3. \A d \in 0 .. Len(v) : d = 0 \/ d \in 1 .. Len(v)
      BY <1>3
    <3>4. E[0] <= L
      BY <2>7, <2>11
    <3>5. QED
      BY <3>1, <3>2, <3>3, <3>4
  <2>14. ASSUME NEW d \in 0 .. Len(v) - 1
         PROVE  /\ E[d + 1] = E[d] + 1 + Len(v[d + 1])
                /\ w[1 + E[d] + 1] = Len(v[d + 1])
                /\ \A k \in 1 .. Len(v[d + 1]) : w[1 + E[d] + 1 + k] = v[d + 1][k]
    <3>1. d + 1 \in 1 .. Len(v) /\ (d + 1) - 1 = d /\ d \in 0 .. Len(v)
      BY <1>3
    <3>2. PICK s, e, n : s = v[d + 1] /\ e = E[d] /\ n = Len(v[d + 1])
      OBVIOUS
    <3>3. n \in Nat /\ e \in Nat
      BY <2>4, <2>13, <3>1, <3>2
    <3>4. Len(ws[d + 1]) = 1 + n /\ ws[d + 1][1] = n /\ \A k \in 1 .. n : ws[d + 1][1 + k] = s[k]
      BY <2>5, <2>6, <3>1, <3>2
    <3>5. E[d + 1] = e + (1 + n) /\ E[d + 1] <= L
      BY <2>7, <2>13, <3>1, <3>2, <3>4
    <3>6. \A k \in 1 .. 1 + n : f[e + k] = ws[d + 1][k]
      BY <2>8, <3>1, <3>2, <3>4
    <3>7. \A k \in 1 .. 1 + n : e + k \in 1 .. L
      BY <2>11, <3>3, <3>5
    <3>8. \A k \in 1 .. 1 + n : w[1 + (e + k)] = ws[d + 1][k]
      BY <2>12, <3>6, <3>7
    <3>9. 1 \in 1 .. 1 + n /\ 1 + (e + 1) = 1 + e + 1
          /\ \A k \in 1 .. n : 1 + k \in 1 .. 1 + n /\ 1 + (e + (1 + k)) = 1 + e + 1 + k
      BY <3>3
    <3>10. w[1 + e + 1] = n
      BY <3>4, <3>8, <3>9
    <3>11. \A k \in 1 .. n : w[1 + e + 1 + k] = s[k]
      BY <3>4, <3>8, <3>9
    <3>12. E[d + 1] = e + 1 + n
      BY <3>3, <3>5
    <3>13. QED
      BY <3>2, <3>10, <3>11, <3>12
  <2>15. \A d \in 0 .. Len(v) : Offset(i, d) = E[d]
    BY <1>3, <2>9
  <2>16. \A d \in 0 .. Len(v) - 1 : d + 1 \in 0 .. Len(v) /\ d \in 0 .. Len(v)
    BY <1>3
  <2>17. 0 \in 0 .. Len(v) /\ Len(v) \in 0 .. Len(v)
    BY <1>3
  <2>18. /\ w[1] = Len(v) /\ Len(w) = 1 + Offset(i, Len(v)) /\ Offset(i, 0) = 0
         /\ \A d \in 0 .. Len(v) : Offset(i, d) \in Nat /\ Offset(i, d) <= Offset(i, Len(v))
    BY <2>7, <2>11, <2>12, <2>13, <2>15, <2>17
  <2>19. ASSUME NEW d \in 0 .. Len(v) - 1
         PROVE  /\ Offset(i, d + 1) = Offset(i, d) + 1 + Len(v[d + 1])
                /\ w[1 + Offset(i, d) + 1] = Len(v[d + 1])
                /\ \A k \in 1 .. Len(v[d + 1]) : w[1 + Offset(i, d) + 1 + k] = v[d + 1][k]
    <3>1. Offset(i, d + 1) = E[d + 1] /\ Offset(i, d) = E[d]
      BY <2>15, <2>16
    <3>2. QED
      BY <2>14, <3>1
  <2>20. QED
    BY <1>1, <1>3, <1>5, <2>18, <2>19
<1>6. QED
  BY <1>4, <1>5

LEMMA ElementsRead ==
    ASSUME Typed, Shown, NEW i \in 1 .. N, HasElements(i)
    PROVE  /\ want[i] \in Seq(Elem(Kind(i))) /\ Len(want[i]) \in Nat
           /\ Reached(i, 0) = FieldEnd(i - 1) + 1 /\ Reached(i, Len(want[i])) = FieldEnd(i)
           /\ \A d \in 0 .. Len(want[i]) : Reached(i, d) \in Nat /\ Reached(i, d) <= FieldEnd(i)
           /\ FieldEnd(i - 1) + 1 <= FieldEnd(i)
           /\ FieldEnd(i - 1) + 1 <= Len(data) =>
                 data[FieldEnd(i - 1) + 1] = IF Kind(i) = "pointer" THEN 0 ELSE Len(want[i])
           /\ \A d \in 0 .. Len(want[i]) - 1 :
                 /\ Reached(i, d + 1) =
                       Reached(i, d) + 1 + (IF Kind(i) = "strings" THEN Len(want[i][d + 1]) ELSE 0)
                 /\ Reached(i, d) + 1 <= Len(data) =>
                       data[Reached(i, d) + 1] =
                          IF Kind(i) = "strings" THEN Len(want[i][d + 1]) ELSE want[i][d + 1]
                 /\ Kind(i) = "strings" => \A k \in 1 .. Len(want[i][d + 1]) :
                       Reached(i, d) + 1 + k <= Len(data) =>
                          data[Reached(i, d) + 1 + k] = want[i][d + 1][k]
<1>1. PICK v, w, b, L : v = want[i] /\ w = OnWire(i) /\ b = FieldEnd(i - 1) /\ L = Offset(i, Len(want[i]))
  OBVIOUS
<1>2. /\ v \in Seq(Elem(Kind(i))) /\ Len(v) \in Nat
      /\ w[1] = IF Kind(i) = "pointer" THEN 0 ELSE Len(v)
      /\ Len(w) = 1 + L /\ Offset(i, 0) = 0
      /\ \A d \in 0 .. Len(v) : Offset(i, d) \in Nat /\ Offset(i, d) <= L
  BY <1>1, ElementsOnWire
<1>3. b \in Nat /\ FieldEnd(i) = b + (1 + L) /\ L \in Nat
  <2>1. b \in Nat /\ FieldEnd(i) = b + Len(w)
    BY <1>1, FieldEnds
  <2>2. Len(v) \in 0 .. Len(v)
    BY <1>2
  <2>3. QED
    BY <1>1, <1>2, <2>1, <2>2
<1>4. \A k \in 1 .. 1 + L : b + k <= Len(data) => data[b + k] = w[k]
  BY <1>1, <1>2 DEF Shown
<1>5. \A d : Reached(i, d) = b + 1 + Offset(i, d)
  BY <1>1 DEF Reached
<1>6. Reached(i, 0) = b + 1 /\ Reached(i, Len(v)) = FieldEnd(i) /\ b + 1 <= FieldEnd(i)
  BY <1>1, <1>2, <1>3, <1>5
<1>7. ASSUME NEW d \in 0 .. Len(v)
      PROVE  Reached(i, d) \in Nat /\ Reached(i, d) <= FieldEnd(i)
  BY <1>2, <1>3, <1>5
<1>8. b + 1 <= Len(data) => data[b + 1] = IF Kind(i) = "pointer" THEN 0 ELSE Len(v)
  BY <1>2, <1>3, <1>4
<1>9. ASSUME NEW d \in 0 .. Len(v) - 1
      PROVE  /\ Reached(i, d + 1) = Reached(i, d) + 1 + (IF Kind(i) = "strings" THEN Len(v[d + 1]) ELSE 0)
             /\ Reached(i, d) + 1 <= Len(data) =>
                   data[Reached(i, d) + 1] = IF Kind(i) = "strings" THEN Len(v[d + 1]) ELSE v[d + 1]
             /\ Kind(i) = "strings" => \A k \in 1 .. Len(v[d + 1]) :
                   Reached(i, d) + 1 + k <= Len(data) => data[Reached(i, d) + 1 + k] = v[d + 1][k]
  <2>1. PICK o, p, x : /\ o = Offset(i, d) /\ p = Offset(i, d + 1)
                       /\ x = IF Kind(i) = "strings" THEN Len(v[d + 1]) ELSE 0
    OBVIOUS
  <2>2. d \in 0 .. Len(v) /\ d + 1 \in 0 .. Len(v) /\ d + 1 \in 1 .. Len(v)
    BY <1>2
  <2>3. o \in Nat /\ p \in Nat /\ p <= L
    BY <1>2, <2>1, <2>2
  <2>4. /\ p = o + 1 + x
        /\ w[1 + o + 1] = IF Kind(i) = "strings" THEN Len(v[d + 1]) ELSE v[d + 1]
        /\ Kind(i) = "strings" => \A k \in 1 .. Len(v[d + 1]) : w[1 + o + 1 + k] = v[d + 1][k]
    BY <1>1, <2>1, ElementsOnWire
  <2>5. x \in Nat
    <3>1. CASE Kind(i) = "strings"
      <4>1. v \in Seq(Seq(Byte))
        BY <1>2, <3>1 DEF Elem
      <4>2. v[d + 1] \in Seq(Byte)
        BY <2>2, <4>1, ElementOfSeq
      <4>3. QED
        BY <2>1, <3>1, <4>2, LenProperties
    <3>2. CASE Kind(i) # "strings"
      BY <2>1, <3>2
    <3>3. QED
      BY <3>1, <3>2
  <2>6. Reached(i, d) = b + 1 + o /\ Reached(i, d + 1) = b + 1 + p
    BY <1>5, <2>1
  <2>7. Reached(i, d + 1) = Reached(i, d) + 1 + x
    BY <1>3, <2>3, <2>4, <2>5, <2>6
  <2>8. 1 + o + 1 \in 1 .. 1 + L /\ Reached(i, d) + 1 = b + (1 + o + 1)
    BY <1>3, <2>3, <2>4, <2>5, <2>6
  <2>9. ASSUME Kind(i) = "strings", NEW k \in 1 .. Len(v[d + 1])
        PROVE  1 + o + 1 + k \in 1 .. 1 + L /\ Reached(i, d) + 1 + k = b + (1 + o + 1 + k)
    <3>1. k \in 1 .. x
      BY <2>1, <2>9
    <3>2. QED
      BY <1>3, <2>3, <2>4, <2>5, <2>6, <3>1
  <2>10. Reached(i, d) + 1 <= Len(data) => data[Reached(i, d) + 1] = w[1 + o + 1]
    BY <1>4, <2>8
  <2>11. ASSUME Kind(i) = "strings", NEW k \in 1 .. Len(v[d + 1]), Reached(i, d) + 1 + k <= Len(data)
         PROVE  data[Reached(i, d) + 1 + k] = v[d + 1][k]
    <3>1. 1 + o + 1 + k \in 1 .. 1 + L /\ Reached(i, d) + 1 + k = b + (1 + o + 1 + k)
      BY <2>9, <2>11
    <3>2. data[b + (1 + o + 1 + k)] = w[1 + o + 1 + k]
      BY <1>4, <2>11, <3>1
    <3>3. QED
      BY <2>4, <2>11, <3>1, <3>2
  <2>12. QED
    BY <2>1, <2>4, <2>7, <2>10, <2>11
<1>10. QED
  BY <1>1, <1>2, <1>3, <1>6, <1>7, <1>8, <1>9

LEMMA ScalarRead ==
    ASSUME Typed, Shown, NEW i \in 1 .. N
    PROVE  /\ Kind(i) = "uint" => /\ FieldEnd(i) = FieldEnd(i - 1) + 1
                                  /\ FieldEnd(i) <= Len(data) => data[FieldEnd(i)] = want[i]
           /\ Kind(i) = "skipped" => FieldEnd(i) = FieldEnd(i - 1)
           /\ Kind(i) = "pointer" /\ want[i] = <<>> =>
                 /\ FieldEnd(i) = FieldEnd(i - 1) + 1
                 /\ FieldEnd(i) <= Len(data) => data[FieldEnd(i)] = 1
<1>1. FieldEnd(i - 1) \in Nat /\ FieldEnd(i) = FieldEnd(i - 1) + Len(OnWire(i))
  BY FieldEnds
<1>2. ASSUME Len(OnWire(i)) = 1
      PROVE  /\ FieldEnd(i) = FieldEnd(i - 1) + 1
             /\ FieldEnd(i) <= Len(data) => data[FieldEnd(i)] = OnWire(i)[1]
  <2>1. 1 \in 1 .. Len(OnWire(i))
    BY <1>2
  <2>2. QED
    BY <1>1, <1>2, <2>1 DEF Shown
<1>3. QED
  BY <1>1, <1>2, ScalarWire

-----------------------------------------------------------------------------
(* The inductive strengthening.                                             *)

\* The lengths of byte slices are looked at: they are not on the direct path on a slice.
Checked ==
    reader = "stream" \/ ~Direct(struct) \/ \A i \in 1 .. N : Kind(i) # "bytes"

\* The first k of the values whose encoding data is, or begins, have been taken from todo.
Sent(values, k) ==
    /\ values \in Seq(Values[struct]) /\ k \in 0 .. Len(values)
    /\ Len(todo) = Len(values) - k
    /\ \A i \in 1 .. Len(todo) : todo[i] = values[k + i]
    /\ Len(data) <= Len(FlattenSeq(Wires(struct, values)))
    /\ \A i \in 1 .. Len(data) : data[i] = FlattenSeq(Wires(struct, values))[i]
    /\ status = "new" => k = 0 /\ pos = 0
    /\ status # "new" => /\ k >= 1 /\ want = values[k]
                         /\ start = JoinEnds(Wires(struct, values))[k - 1]

Sending == \E values, k : Sent(values, k)

\* The decoder is where its fields say it is in the value, and has the elements it has passed.
Here ==
    IF at = 0 THEN pos = FieldEnd(field - 1) /\ done = 0
    ELSE /\ field <= N /\ HasElements(field) /\ Kind(field) # "string"
         /\ dest[field].len = Len(want[field]) /\ done <= Len(want[field])
         /\ pos = Reached(field, done)
         /\ \A j \in 1 .. done : dest[field].mem[j] = want[field][j]
         /\ reader = "slice" /\ Kind(field) \in {"bytes", "bools"} =>
               done = 0 /\ (Checked \/ Kind(field) = "bools" => pos + Len(want[field]) <= Len(data))

Aligned ==
    /\ Sending
    /\ FieldsInOrder
    /\ status \in {"busy", "ok"} => Here
    /\ status = "ok" => field = N + 1 /\ at = 0
    /\ status = "error" => ~Intact

\* A byte slice ended at the end of the input, too short and unnoticed.
Lost == ~Checked /\ status # "new" /\ pos = Len(data) /\ ~Intact

StructInv == Typed /\ (Aligned \/ Lost)

LEMMA SendingShows ==
    ASSUME Typed, Sending, status # "new"
    PROVE  Shown
<1>1. PICK values, k : Sent(values, k)
  BY DEF Sending
<1>2. PICK ws, E, P : ws = Wires(struct, values) /\ E = FlattenSeq(ws) /\ P = JoinEnds(ws)
  OBVIOUS
<1>3. PICK ps, Q, W : ps = Pieces(struct, want) /\ Q = JoinEnds(ps) /\ W = Wire[struct][want]
  OBVIOUS
<1>4. /\ values \in Seq(Values[struct]) /\ k \in 1 .. Len(values) /\ want = values[k]
      /\ start = P[k - 1] /\ \A i \in 1 .. Len(data) : data[i] = E[i]
  <2>1. k \in 0 .. Len(values) /\ k >= 1 /\ values \in Seq(Values[struct])
    BY <1>1 DEF Sent
  <2>2. k \in 1 .. Len(values)
    BY <2>1, LenProperties
  <2>3. QED
    BY <1>1, <1>2, <2>1, <2>2 DEF Sent
<1>5. ws \in Seq(Seq(Byte)) /\ Len(ws) = Len(values)
  BY <1>2, <1>4, EncodedType DEF Typed
<1>6. ws[k] = W
  <2>1. DOMAIN values = 1 .. Len(values)
    BY <1>4, LenProperties
  <2>2. QED
    BY <1>2, <1>3, <1>4, <2>1 DEF Wires
<1>7. \A j \in 1 .. Len(W) : E[P[k - 1] + j] = W[j]
  <2>1. \A i \in 1 .. Len(ws) : \A j \in 1 .. Len(ws[i]) : FlattenSeq(ws)[JoinEnds(ws)[i - 1] + j] = ws[i][j]
    BY <1>5, FlattenElements
  <2>2. k \in 1 .. Len(ws)
    BY <1>4, <1>5
  <2>3. QED
    BY <1>2, <1>6, <2>1, <2>2
<1>8. /\ ps \in Seq(Seq(Byte)) /\ Len(ps) = N /\ N \in Nat /\ W = FlattenSeq(ps) /\ Len(W) = Q[N]
      /\ Q = Ends(struct, want)
  BY <1>3, WireIs, Positions DEF Typed, Ends, N
<1>9. /\ Q[0] = 0 /\ \A i \in 0 .. N : Q[i] \in Nat
      /\ \A i \in 1 .. N : i - 1 \in 0 .. N /\ Q[i] = Q[i - 1] + Len(ps[i])
  <2>1. Q \in [0 .. N -> Nat]
    BY <1>3, <1>8, JoinEndsStep
  <2>2. QED
    BY <1>3, <1>8, <2>1, JoinEndsStep
<1>10. /\ \A i \in 1 .. N : Q[i] <= Q[N]
       /\ \A i \in 1 .. N : \A j \in 1 .. Len(ps[i]) : W[Q[i - 1] + j] = ps[i][j]
  <2>1. /\ \A i \in 1 .. Len(ps) : JoinEnds(ps)[i] <= JoinEnds(ps)[Len(ps)]
        /\ \A i \in 1 .. Len(ps) : \A j \in 1 .. Len(ps[i]) :
              FlattenSeq(ps)[JoinEnds(ps)[i - 1] + j] = ps[i][j]
    BY <1>8, FlattenElements
  <2>2. QED
    BY <1>3, <1>8, <2>1
<1>11. \A i \in 1 .. N : ps[i] = OnWire(i)
  <2>1. DOMAIN want = 1 .. N
    BY ValuesAssumption, FieldsType DEF Typed, N
  <2>2. QED
    BY <1>3, <2>1 DEF Pieces, OnWire, Kind
<1>12. SUFFICES ASSUME NEW i \in 1 .. N, NEW j \in 1 .. Len(OnWire(i)), FieldEnd(i - 1) + j <= Len(data)
                PROVE  data[FieldEnd(i - 1) + j] = OnWire(i)[j]
  BY DEF Shown
<1>13. PICK q, n : q = Q[i - 1] /\ n = Len(OnWire(i))
  OBVIOUS
<1>14. q \in Nat /\ n \in Nat /\ q + n = Q[i] /\ Q[i] <= Len(W) /\ j \in 1 .. n /\ Q[i] \in Nat
  <2>1. n \in Nat
    BY <1>13, FieldEnds
  <2>2. i \in 0 .. N /\ i - 1 \in 0 .. N
    BY <1>8
  <2>3. q \in Nat /\ Q[i] \in Nat /\ Q[i] = q + Len(ps[i])
    BY <1>9, <1>13, <2>2
  <2>4. QED
    BY <1>8, <1>10, <1>11, <1>12, <1>13, <2>1, <2>3
<1>15. Len(W) \in Nat
  BY <1>8, <1>9
<1>16. q + j \in 1 .. Len(W)
  BY <1>14, <1>15
<1>17. E[start + (q + j)] = OnWire(i)[j]
  <2>1. W[q + j] = OnWire(i)[j]
    BY <1>10, <1>11, <1>13, <1>14
  <2>2. E[P[k - 1] + (q + j)] = W[q + j]
    BY <1>7, <1>16
  <2>3. QED
    BY <1>4, <2>1, <2>2
<1>18. FieldEnd(i - 1) + j = start + (q + j) /\ start + (q + j) \in 1 .. Len(data)
  <2>1. FieldEnd(i - 1) = start + q
    BY <1>8, <1>13 DEF FieldEnd
  <2>2. start \in Nat /\ Len(data) \in Nat
    BY Positions
  <2>3. QED
    BY <1>12, <1>14, <2>1, <2>2
<1>19. QED
  BY <1>4, <1>17, <1>18

LEMMA SendingKept ==
    ASSUME Sending, UNCHANGED <<input, target>>, status # "new", status' # "new"
    PROVE  Sending'
<1>1. PICK values, k : Sent(values, k)
  BY DEF Sending
<1>2. Sent(values, k)'
  BY <1>1 DEF Sent, input, target
<1>3. QED
  BY <1>2 DEF Sending

\* Nothing of where the fields are changes in a read.
LEMMA PlacesKept ==
    ASSUME UNCHANGED <<input, target>>
    PROVE  /\ \A i : FieldEnd(i)' = FieldEnd(i) /\ (\A d : Reached(i, d)' = Reached(i, d))
           /\ \A i : Kind(i)' = Kind(i) /\ (HasElements(i)' <=> HasElements(i))
           /\ N' = N /\ (Checked' <=> Checked) /\ (Intact' <=> Intact)
           /\ data' = data /\ reader' = reader /\ want' = want /\ before' = before
<1>1. /\ struct' = struct /\ reader' = reader /\ data' = data
      /\ want' = want /\ start' = start /\ before' = before
  BY DEF input, target
<1>2. \A i : FieldEnd(i)' = FieldEnd(i) /\ Kind(i)' = Kind(i)
  BY <1>1 DEF FieldEnd, Kind
<1>3. \A i, d : Offset(i, d)' = Offset(i, d)
  BY <1>1, <1>2 DEF Offset
<1>4. N' = N
  BY <1>1 DEF N
<1>5. QED
  BY <1>1, <1>2, <1>3, <1>4 DEF Reached, HasElements, Checked, Intact

\* A field is finished: it has the encoded element values, or it is not decoded at all.
LEMMA OrderNext ==
    ASSUME Typed, UNCHANGED <<input, target>>, FieldsInOrder, status = "busy", field \in 1 .. N,
           field' = field + 1, Only(field),
           Kind(field) = "skipped" => dest' = dest,
           Kind(field) # "skipped" => Content(field, dest'[field]) = want[field]
    PROVE  FieldsInOrder'
<1>1. ASSUME NEW i \in 1 .. N
      PROVE  /\ i < field + 1 /\ Kind(i) # "skipped" => Content(i, dest'[i]) = want[i]
             /\ i > field + 1 \/ Kind(i) = "skipped" => dest'[i] = before[i]
  <2>1. /\ i < field /\ Kind(i) # "skipped" => Content(i, dest[i]) = want[i]
        /\ i > field \/ Kind(i) = "skipped" => dest[i] = before[i]
    BY DEF FieldsInOrder
  <2>2. i # field => dest'[i] = dest[i]
    BY DEF Only
  <2>3. CASE i = field
    BY <2>1, <2>3
  <2>4. CASE i # field
    BY <2>1, <2>2, <2>4
  <2>5. QED
    BY <2>3, <2>4
<1>2. /\ N' = N /\ want' = want /\ before' = before /\ \A i : Kind(i)' = Kind(i)
  BY PlacesKept
<1>3. \A i : Content(i, dest[i])' = Content(i, dest'[i])
  BY <1>2 DEF Content
<1>4. QED
  BY <1>1, <1>2, <1>3 DEF FieldsInOrder

LEMMA OrderStays ==
    ASSUME Typed, UNCHANGED <<input, target>>, FieldsInOrder, status # "new", field' = field,
           \/ dest' = dest
           \/ field \in 1 .. N /\ Only(field) /\ Kind(field) # "skipped"
    PROVE  FieldsInOrder'
<1>1. ASSUME NEW i \in 1 .. N
      PROVE  /\ i < field /\ Kind(i) # "skipped" => Content(i, dest'[i]) = want[i]
             /\ i > field \/ Kind(i) = "skipped" => dest'[i] = before[i]
  <2>1. /\ i < field /\ Kind(i) # "skipped" => Content(i, dest[i]) = want[i]
        /\ i > field \/ Kind(i) = "skipped" => dest[i] = before[i]
    BY DEF FieldsInOrder
  <2>2. field \in Nat /\ i \in Nat
    BY Positions
  <2>3. i # field => dest'[i] = dest[i]
    BY DEF Only
  <2>4. CASE dest' = dest
    BY <2>1, <2>4
  <2>5. CASE dest' # dest
    BY <2>1, <2>2, <2>3, <2>5
  <2>6. QED
    BY <2>4, <2>5
<1>2. /\ N' = N /\ want' = want /\ before' = before /\ \A i : Kind(i)' = Kind(i)
  BY PlacesKept
<1>3. \A i : Content(i, dest[i])' = Content(i, dest'[i])
  BY <1>2 DEF Content
<1>4. QED
  BY <1>1, <1>2, <1>3 DEF FieldsInOrder

-----------------------------------------------------------------------------
(* The ways a read can go on.                                               *)

LEMMA AlignedNext ==
    ASSUME Typed, Aligned, status = "busy", UNCHANGED <<input, target>>, field \in 1 .. N,
           NextField, status' = status, pos' = FieldEnd(field), Only(field),
           Kind(field) = "skipped" => dest' = dest,
           Kind(field) # "skipped" => Content(field, dest'[field]) = want[field]
    PROVE  Aligned'
<1>1. field' = field + 1 /\ at' = 0 /\ done' = 0 /\ field \in Nat
  BY Positions DEF NextField
<1>2. FieldsInOrder'
  BY <1>1, OrderNext DEF Aligned
<1>3. Sending'
  BY SendingKept DEF Aligned
<1>4. Here'
  <2>1. field' - 1 = field
    BY <1>1
  <2>2. FieldEnd(field - 1)' = FieldEnd(field)
    BY <2>1 DEF FieldEnd, input, target
  <2>3. (pos = FieldEnd(field - 1))'
    BY <2>2
  <2>4. QED
    BY <1>1, <2>3 DEF Here
<1>5. QED
  BY <1>2, <1>3, <1>4 DEF Aligned

LEMMA AlignedFailed ==
    ASSUME Typed, Aligned, status = "busy", UNCHANGED <<input, target>>, Failed, ~Intact
    PROVE  Aligned'
<1>1. status' = "error" /\ field' = field /\ dest' = dest
  BY DEF Failed, Error, cursor
<1>2. FieldsInOrder'
  BY <1>1, OrderStays DEF Aligned
<1>3. Sending' /\ ~Intact'
  BY <1>1, SendingKept, PlacesKept DEF Aligned
<1>4. QED
  BY <1>1, <1>2, <1>3 DEF Aligned

LEMMA AlignedInside ==
    ASSUME Typed, Aligned, status = "busy", UNCHANGED <<input, target>>, field \in 1 .. N,
           field' = field, at' = 1, status' = status, Only(field),
           HasElements(field), Kind(field) # "string",
           dest'[field].len = Len(want[field]), done' <= Len(want[field]),
           pos' = Reached(field, done'),
           \A j \in 1 .. done' : dest'[field].mem[j] = want[field][j],
           reader = "slice" /\ Kind(field) \in {"bytes", "bools"} =>
               done' = 0 /\ (Checked \/ Kind(field) = "bools" => pos' + Len(want[field]) <= Len(data))
    PROVE  Aligned'
<1>1. FieldsInOrder'
  BY OrderStays DEF Aligned, HasElements
<1>2. Sending'
  BY SendingKept DEF Aligned
<1>3. field \in Nat /\ N \in Nat /\ field <= N
  BY Positions
<1>4. Here'
  <2>1. /\ N' = N /\ (HasElements(field)' <=> HasElements(field)) /\ Kind(field)' = Kind(field)
        /\ want' = want /\ Reached(field, done)' = Reached(field, done') /\ (Checked' <=> Checked)
        /\ data' = data /\ reader' = reader
    <3>1. Reached(field, done)' = Reached(field, done')
      BY PlacesKept DEF Reached, Offset
    <3>2. (HasElements(field)' <=> HasElements(field)) /\ Kind(field)' = Kind(field)
      BY PlacesKept DEF HasElements, Kind
    <3>3. QED
      BY <3>1, <3>2, PlacesKept
  <2>2. QED
    BY <1>3, <2>1 DEF Here
<1>5. QED
  BY <1>1, <1>2, <1>4 DEF Aligned

LEMMA ContentWhole ==
    ASSUME Typed, Memory(struct, dest'), NEW i \in 1 .. N, Kind(i) \notin Numbers,
           dest'[i].len = Len(want[i]),
           \A j \in 1 .. Len(want[i]) : dest'[i].mem[j] = want[i][j]
    PROVE  Content(i, dest'[i]) = want[i]
<1>1. PICK v, m : v = want[i] /\ m = dest'[i].mem
  OBVIOUS
<1>2. v \in Seq(Elem(Kind(i))) /\ Len(v) \in Nat
  BY <1>1, WantTypes
<1>3. Cell(Kind(i), dest'[i])
  BY DEF Memory, N, Kind
<1>4. m \in Seq(Elem(Kind(i))) /\ Len(m) \in Nat /\ Len(v) <= Len(m)
  BY <1>1, <1>3, LenProperties DEF Cell
<1>5. PICK s : s = SubSeq(m, 1, Len(v))
  OBVIOUS
<1>6. s \in Seq(Elem(Kind(i))) /\ Len(s) = Len(v) /\ \A j \in 1 .. Len(v) : s[j] = m[j]
  <2>1. \A j \in 1 .. Len(v) : m[j] \in Elem(Kind(i))
    <3>1. \A j \in 1 .. Len(v) : j \in 1 .. Len(m)
      BY <1>2, <1>4
    <3>2. QED
      BY <1>4, <3>1, ElementOfSeq
  <2>2. s = [j \in 1 .. Len(v) |-> m[j]]
    <3>1. s = [j \in 1 .. Len(v) - 1 + 1 |-> m[(j + 1) - 1]]
      BY <1>5
    <3>2. Len(v) - 1 + 1 = Len(v) /\ \A j \in 1 .. Len(v) : (j + 1) - 1 = j
      BY <1>2
    <3>3. QED
      BY <3>1, <3>2
  <2>3. QED
    BY <1>2, <2>1, <2>2
<1>7. \A j \in 1 .. Len(v) : s[j] = v[j]
  BY <1>1, <1>6
<1>8. s = v
  <2>1. s = [j \in 1 .. Len(s) |-> s[j]] /\ v = [j \in 1 .. Len(v) |-> v[j]]
    BY <1>2, <1>6
  <2>2. QED
    BY <1>6, <1>7, <2>1
<1>9. Content(i, dest'[i]) = s
  BY <1>1, <1>5 DEF Content, Numbers
<1>10. QED
  BY <1>1, <1>8, <1>9

LEMMA Beyond ==
    ASSUME Typed, NEW i \in 0 .. N, FieldEnd(i) > Len(data)
    PROVE  ~Intact
<1>1. FieldEnd(i) \in Nat /\ FieldEnd(N) \in Nat /\ FieldEnd(i) <= FieldEnd(N)
  <2>1. N \in 0 .. N
    BY Positions
  <2>2. QED
    BY <2>1, FieldEnds
<1>2. Len(data) \in Nat
  BY Positions
<1>3. ~(FieldEnd(N) <= Len(data))
  BY <1>1, <1>2
<1>4. QED
  BY <1>3, FieldEnds

\* Every field that is written takes a byte.
LEMMA FieldTakesByte ==
    ASSUME Typed, Shown, NEW i \in 1 .. N, Kind(i) # "skipped"
    PROVE  FieldEnd(i) \in Nat /\ FieldEnd(i - 1) \in Nat /\ FieldEnd(i) >= FieldEnd(i - 1) + 1
<1>1. FieldEnd(i) \in Nat /\ FieldEnd(i - 1) \in Nat
  <2>1. i \in 0 .. N
    BY Positions
  <2>2. QED
    BY <2>1, FieldEnds
<1>2. CASE HasElements(i)
  BY <1>1, <1>2, ElementsRead
<1>3. CASE ~HasElements(i)
  <2>1. Kind(i) \in Kinds
    BY CellOf
  <2>2. Kind(i) = "uint" \/ (Kind(i) = "pointer" /\ want[i] = <<>>)
    BY <1>3, <2>1 DEF HasElements, Kinds
  <2>3. QED
    BY <1>1, <2>2, ScalarRead
<1>4. QED
  BY <1>2, <1>3

\* How many bytes of an element follow its first.
LEMMA ElementLength ==
    ASSUME Typed, Shown, NEW i \in 1 .. N, HasElements(i), NEW d \in 0 .. Len(want[i]) - 1
    PROVE  (IF Kind(i) = "strings" THEN Len(want[i][d + 1]) ELSE 0) \in Nat
<1>1. CASE Kind(i) = "strings"
  <2>1. want[i] \in Seq(Seq(Byte)) /\ Len(want[i]) \in Nat
    BY <1>1, ElementsRead DEF Elem
  <2>2. d + 1 \in 1 .. Len(want[i])
    BY <2>1
  <2>3. want[i][d + 1] \in Seq(Byte)
    BY <2>1, <2>2, ElementOfSeq
  <2>4. QED
    BY <1>1, <2>3, LenProperties
<1>2. QED
  BY <1>1

\* Every element takes a byte.
LEMMA ElementsTakeBytes ==
    ASSUME Typed, Shown, NEW i \in 1 .. N, HasElements(i)
    PROVE  FieldEnd(i) >= FieldEnd(i - 1) + 1 + Len(want[i])
<1>1. PICK b, n : b = FieldEnd(i - 1) + 1 /\ n = Len(want[i])
  OBVIOUS
<1>2. b \in Nat /\ n \in Nat /\ Reached(i, 0) = b /\ Reached(i, n) = FieldEnd(i)
      /\ \A d \in 0 .. n : Reached(i, d) \in Nat
  <2>1. FieldEnd(i - 1) \in Nat
    BY FieldEnds
  <2>2. QED
    BY <1>1, <2>1, ElementsRead
<1> DEFINE T == {d \in Nat : d <= n => Reached(i, d) >= b + d}
<1>3. 0 \in T
  BY <1>2
<1>4. ASSUME NEW d \in Nat, d \in T, d + 1 <= n
      PROVE  Reached(i, d + 1) >= b + (d + 1)
  <2>1. d \in 0 .. n - 1 /\ d \in 0 .. n /\ d + 1 \in 0 .. n /\ d <= n
    BY <1>2, <1>4
  <2>2. PICK x : x = IF Kind(i) = "strings" THEN Len(want[i][d + 1]) ELSE 0
    OBVIOUS
  <2>3. Reached(i, d + 1) = Reached(i, d) + 1 + x
    BY <1>1, <2>1, <2>2, ElementsRead
  <2>4. x \in Nat
    BY <1>1, <2>1, <2>2, ElementLength
  <2>5. Reached(i, d) >= b + d /\ Reached(i, d) \in Nat
    BY <1>2, <1>4, <2>1
  <2>6. QED
    BY <1>2, <2>3, <2>4, <2>5
<1>5. \A d \in Nat : d \in T => d + 1 \in T
  BY <1>4
<1>6. Nat \subseteq T
  <2> HIDE DEF T
  <2>1. QED
    BY <1>3, <1>5, InductionBySet
<1>7. Reached(i, n) >= b + n
  BY <1>2, <1>6
<1>8. QED
  BY <1>1, <1>2, <1>7

\* Elements of one byte.
LEMMA PlainRead ==
    ASSUME Typed, Shown, NEW i \in 1 .. N, HasElements(i), Kind(i) # "strings"
    PROVE  /\ FieldEnd(i) = FieldEnd(i - 1) + 1 + Len(want[i])
           /\ \A d \in Nat : Reached(i, d) = FieldEnd(i - 1) + 1 + d
           /\ \A j \in 1 .. Len(want[i]) : FieldEnd(i - 1) + 1 + j <= Len(data) =>
                 data[FieldEnd(i - 1) + 1 + j] = want[i][j]
<1>1. PICK b, n : b = FieldEnd(i - 1) + 1 /\ n = Len(want[i])
  OBVIOUS
<1>2. b \in Nat /\ n \in Nat /\ Reached(i, n) = FieldEnd(i)
  <2>1. FieldEnd(i - 1) \in Nat
    BY FieldEnds
  <2>2. QED
    BY <1>1, <2>1, ElementsRead
<1>3. \A d : Reached(i, d) = b + d
  BY <1>1 DEF Reached, Offset
<1>4. ASSUME NEW j \in 1 .. n, b + j <= Len(data)
      PROVE  data[b + j] = want[i][j]
  <2>1. j - 1 \in 0 .. n - 1 /\ (j - 1) + 1 = j /\ (b + (j - 1)) + 1 = b + j
    BY <1>2
  <2>2. Reached(i, j - 1) + 1 <= Len(data) => data[Reached(i, j - 1) + 1] = want[i][(j - 1) + 1]
    BY <1>1, <2>1, ElementsRead
  <2>3. QED
    BY <1>3, <1>4, <2>1, <2>2
<1>5. QED
  BY <1>1, <1>2, <1>3, <1>4

-----------------------------------------------------------------------------
(* One lemma per action of the decoder, from a state where it is aligned.   *)

LEMMA BusyFacts ==
    ASSUME Typed, Aligned, status = "busy"
    PROVE  Here /\ Shown /\ FieldsInOrder
BY SendingShows DEF Aligned

\* At the start of a field.
LEMMA AtStart ==
    ASSUME Typed, Aligned, NEW kinds, At(field, kinds, 0)
    PROVE  /\ field \in 1 .. N /\ Kind(field) \in kinds /\ status = "busy" /\ Shown
           /\ pos = FieldEnd(field - 1) /\ done = 0
           /\ pos \in Nat /\ FieldEnd(field) \in Nat /\ field \in 0 .. N
<1>1. field \in 1 .. N /\ Kind(field) \in kinds /\ status = "busy" /\ at = 0
  BY AtField
<1>2. Here /\ Shown
  BY <1>1, BusyFacts
<1>3. field \in 0 .. N /\ pos \in Nat
  BY <1>1, Positions
<1>4. FieldEnd(field) \in Nat
  BY <1>3, FieldEnds
<1>5. QED
  BY <1>1, <1>2, <1>3, <1>4 DEF Here

\* Among the elements of a field.
LEMMA AtElement ==
    ASSUME Typed, Aligned, NEW kinds, At(field, kinds, 1)
    PROVE  /\ field \in 1 .. N /\ Kind(field) \in kinds /\ status = "busy" /\ Shown
           /\ HasElements(field) /\ Kind(field) # "string"
           /\ dest[field].len = Len(want[field]) /\ Len(want[field]) \in Nat
           /\ done \in Nat /\ done <= Len(want[field])
           /\ pos = Reached(field, done) /\ pos \in Nat
           /\ \A j \in 1 .. done : dest[field].mem[j] = want[field][j]
           /\ reader = "slice" /\ Kind(field) \in {"bytes", "bools"} =>
                 done = 0 /\ (Checked \/ Kind(field) = "bools" => pos + Len(want[field]) <= Len(data))
           /\ FieldEnd(field) \in Nat /\ field \in 0 .. N
<1>1. field \in 1 .. N /\ Kind(field) \in kinds /\ status = "busy" /\ at = 1
  BY AtField
<1>2. Here /\ Shown
  BY <1>1, BusyFacts
<1>3. HasElements(field)
  BY <1>1, <1>2 DEF Here
<1>4. Len(want[field]) \in Nat
  BY <1>1, <1>2, <1>3, ElementsRead
<1>5. done \in Nat
  BY DEF Typed
<1>6. field \in 0 .. N /\ pos \in Nat
  BY <1>1, Positions
<1>7. FieldEnd(field) \in Nat
  BY <1>6, FieldEnds
<1>8. QED
  BY <1>1, <1>2, <1>3, <1>4, <1>5, <1>6, <1>7 DEF Here

LEMMA AlignedSkip ==
    ASSUME Typed, Aligned, Skip
    PROVE  Aligned'
<1>1. At(field, {"skipped"}, 0) /\ NextField /\ UNCHANGED <<input, pos, target, dest, status>>
  BY DEF Skip
<1>2. /\ field \in 1 .. N /\ Kind(field) = "skipped" /\ status = "busy" /\ Shown
      /\ pos = FieldEnd(field - 1)
  BY <1>1, AtStart
<1>3. pos' = FieldEnd(field)
  BY <1>1, <1>2, ScalarRead
<1>4. Only(field)
  BY <1>1, <1>2, CellOf DEF Only
<1>5. QED
  BY <1>1, <1>2, <1>3, <1>4, AlignedNext

LEMMA AlignedMissing ==
    ASSUME Typed, Aligned, Missing
    PROVE  Aligned'
<1>1. Failed /\ UNCHANGED <<input, target>> /\ Rest = 0
  BY DEF Missing, Failed, EndOfInput
<1>2. pos = Len(data) /\ Len(data) \in Nat
  BY <1>1, Positions
<1>3. CASE EndOfInput(field)
  <2>1. At(field, Kinds \ {"skipped"}, 0)
    BY <1>3 DEF EndOfInput
  <2>2. /\ field \in 1 .. N /\ Kind(field) # "skipped" /\ status = "busy" /\ Shown
        /\ pos = FieldEnd(field - 1) /\ field \in 0 .. N /\ FieldEnd(field) \in Nat
    BY <2>1, AtStart
  <2>3. FieldEnd(field) > Len(data)
    <3>1. FieldEnd(field) >= pos + 1
      BY <2>2, FieldTakesByte
    <3>2. QED
      BY <1>2, <2>2, <3>1
  <2>4. QED
    BY <1>1, <2>2, <2>3, Beyond, AlignedFailed
<1>4. CASE ~EndOfInput(field)
  <2>1. At(field, {"varuints", "strings", "pointer"}, 1) /\ done < dest[field].len
    BY <1>4 DEF Missing
  <2>2. /\ field \in 1 .. N /\ status = "busy" /\ Shown /\ HasElements(field)
        /\ dest[field].len = Len(want[field]) /\ Len(want[field]) \in Nat /\ done \in Nat
        /\ pos = Reached(field, done) /\ field \in 0 .. N /\ FieldEnd(field) \in Nat
    BY <2>1, AtElement
  <2>3. done \in 0 .. Len(want[field]) - 1 /\ done + 1 \in 0 .. Len(want[field])
    BY <2>1, <2>2
  <2>4. PICK x : x = IF Kind(field) = "strings" THEN Len(want[field][done + 1]) ELSE 0
    OBVIOUS
  <2>5. x \in Nat
    BY <2>2, <2>3, <2>4, ElementLength
  <2>6. Reached(field, done + 1) = pos + 1 + x
    BY <2>2, <2>3, <2>4, ElementsRead
  <2>7. Reached(field, done + 1) <= FieldEnd(field)
    BY <2>2, <2>3, ElementsRead
  <2>8. FieldEnd(field) > Len(data)
    BY <1>2, <2>2, <2>5, <2>6, <2>7
  <2>9. QED
    BY <1>1, <2>2, <2>8, Beyond, AlignedFailed
<1>5. QED
  BY <1>3, <1>4

LEMMA AlignedUint ==
    ASSUME Typed, Aligned, ReadUint
    PROVE  Aligned'
<1>1. At(field, {"uint"}, 0) /\ pos' = pos + 1 /\ NextField /\ UNCHANGED <<input, target, status>>
      /\ Rest > 0
  BY DEF ReadUint
<1>2. /\ field \in 1 .. N /\ Kind(field) = "uint" /\ status = "busy" /\ Shown
      /\ pos = FieldEnd(field - 1)
  BY <1>1, AtStart
<1>3. /\ Memory(struct, dest') /\ Only(field) /\ dest'[field].mem = <<Next1>> /\ pos + 1 <= Len(data)
  BY UintEffect
<1>4. FieldEnd(field) = pos + 1 /\ Next1 = want[field]
  BY <1>1, <1>2, <1>3, ScalarRead, NextIs
<1>5. Content(field, dest'[field]) = want[field]
  BY <1>2, <1>3, <1>4 DEF Content
<1>6. QED
  BY <1>1, <1>2, <1>3, <1>4, <1>5, AlignedNext

\* A field read in one piece.
LEMMA AlignedPlain ==
    ASSUME Typed, Aligned, status = "busy", Shown, field \in 1 .. N,
           Kind(field) \in {"string", "bytes", "bools"}, pos = FieldEnd(field - 1), Rest > 0,
           UNCHANGED <<input, target>>,
           \/ Failed /\ Next1 > Rest - 1
           \/ /\ pos' = pos + 1 + Next1 /\ pos + 1 + Next1 <= Len(data)
              /\ NextField /\ status' = status
              /\ Memory(struct, dest') /\ Only(field) /\ Filled(field, Next1, pos + 1)
    PROVE  Aligned'
<1>1. HasElements(field) /\ Kind(field) \notin Numbers /\ Kind(field) # "skipped" /\ Kind(field) # "strings"
      /\ Kind(field) # "pointer"
  BY DEF HasElements, Numbers
<1>2. pos \in Nat /\ Len(data) \in Nat /\ Rest = Len(data) - pos /\ field \in 0 .. N /\ Len(want[field]) \in Nat
  <2>1. Len(want[field]) \in Nat
    BY <1>1, ElementsRead
  <2>2. QED
    BY <2>1, Positions
<1>3. Next1 = Len(want[field])
  <2>1. pos + 1 <= Len(data)
    BY <1>2
  <2>2. data[pos + 1] = Len(want[field])
    BY <1>1, <2>1, ElementsRead
  <2>3. QED
    BY <2>2, NextIs
<1>4. /\ FieldEnd(field) = pos + 1 + Len(want[field])
      /\ \A j \in 1 .. Len(want[field]) : pos + 1 + j <= Len(data) => data[pos + 1 + j] = want[field][j]
  BY <1>1, PlainRead
<1>5. CASE Failed /\ Next1 > Rest - 1
  <2>1. FieldEnd(field) > Len(data)
    BY <1>2, <1>3, <1>4, <1>5
  <2>2. QED
    BY <1>2, <1>5, <2>1, Beyond, AlignedFailed
<1>6. CASE /\ pos' = pos + 1 + Next1 /\ pos + 1 + Next1 <= Len(data)
           /\ NextField /\ status' = status
           /\ Memory(struct, dest') /\ Only(field) /\ Filled(field, Next1, pos + 1)
  <2>1. \A j \in 1 .. Len(want[field]) : pos + 1 + j <= Len(data)
    BY <1>2, <1>3, <1>6
  <2>2. /\ dest'[field].len = Len(want[field])
        /\ \A j \in 1 .. Len(want[field]) : dest'[field].mem[j] = want[field][j]
    BY <1>3, <1>4, <1>6, <2>1 DEF Filled
  <2>3. Content(field, dest'[field]) = want[field]
    BY <1>1, <1>6, <2>2, ContentWhole
  <2>4. pos' = FieldEnd(field)
    BY <1>3, <1>4, <1>6
  <2>5. QED
    BY <1>1, <1>6, <2>3, <2>4, AlignedNext
<1>7. QED
  BY <1>5, <1>6

LEMMA AlignedString ==
    ASSUME Typed, Aligned, ReadString
    PROVE  Aligned'
<1>1. At(field, {"string"}, 0) /\ UNCHANGED <<input, target>>
  BY DEF ReadString
<1>2. /\ field \in 1 .. N /\ Kind(field) = "string" /\ status = "busy" /\ Shown
      /\ pos = FieldEnd(field - 1)
  BY <1>1, AtStart
<1>3. QED
  BY <1>1, <1>2, StringEffect, AlignedPlain

LEMMA AlignedBuffered ==
    ASSUME Typed, Aligned, ReadBuffered
    PROVE  Aligned'
<1>1. At(field, SliceKinds, 0) /\ UNCHANGED <<input, target>>
  BY DEF ReadBuffered
<1>2. field \in 1 .. N /\ status = "busy" /\ Shown /\ pos = FieldEnd(field - 1)
  BY <1>1, AtStart
<1>3. QED
  BY <1>1, <1>2, BufferedEffect, AlignedPlain

LEMMA AlignedPointer ==
    ASSUME Typed, Aligned, ReadPointer
    PROVE  Aligned'
<1>1. At(field, {"pointer"}, 0) /\ UNCHANGED <<input, target>>
  BY DEF ReadPointer
<1>2. /\ field \in 1 .. N /\ Kind(field) = "pointer" /\ status = "busy" /\ Shown
      /\ pos = FieldEnd(field - 1) /\ done = 0
  BY <1>1, AtStart
<1>3. /\ Rest > 0 /\ pos' = pos + 1 /\ pos + 1 <= Len(data) /\ status' = status
      /\ Memory(struct, dest') /\ Only(field)
      /\ \/ Next1 = 1 /\ NextField /\ dest'[field].len = 0 /\ dest'[field].mem = <<>>
         \/ /\ Next1 # 1 /\ at' = 1 /\ field' = field /\ done' = done
            /\ dest'[field].len = 1
  BY PointerEffect
<1>4. Next1 = data[pos + 1] /\ Kind(field) \notin Numbers /\ Kind(field) # "skipped"
  BY <1>2, <1>3, NextIs DEF Numbers
<1>5. want[field] \in Seq(Byte) /\ Len(want[field]) \in {0, 1}
  BY <1>2, <1>4, WantTypes DEF Elem
<1>6. CASE want[field] = <<>>
  <2>1. FieldEnd(field) = pos + 1 /\ Next1 = 1
    BY <1>2, <1>3, <1>4, <1>6, ScalarRead
  <2>2. NextField /\ dest'[field].len = Len(want[field]) /\ Len(want[field]) = 0
    BY <1>3, <1>6, <2>1
  <2>3. \A j \in 1 .. Len(want[field]) : dest'[field].mem[j] = want[field][j]
    BY <2>2
  <2>4. Content(field, dest'[field]) = want[field]
    BY <1>2, <1>3, <1>4, <2>2, <2>3, ContentWhole
  <2>5. QED
    BY <1>1, <1>2, <1>3, <1>4, <2>1, <2>2, <2>4, AlignedNext
<1>7. CASE want[field] # <<>>
  <2>1. HasElements(field) /\ Len(want[field]) = 1
    BY <1>2, <1>5, <1>7, EmptySeq DEF HasElements
  <2>2. data[pos + 1] = 0 /\ Reached(field, 0) = pos + 1
    BY <1>2, <1>3, <2>1, ElementsRead
  <2>3. at' = 1 /\ field' = field /\ done' = 0 /\ dest'[field].len = Len(want[field])
    BY <1>2, <1>3, <1>4, <2>1, <2>2
  <2>4. done' <= Len(want[field]) /\ pos' = Reached(field, done') /\ Kind(field) # "string"
        /\ Kind(field) \notin {"bytes", "bools"}
        /\ \A j \in 1 .. done' : dest'[field].mem[j] = want[field][j]
    BY <1>2, <1>3, <2>1, <2>2, <2>3
  <2>5. QED
    BY <1>1, <1>2, <1>3, <2>1, <2>3, <2>4, AlignedInside
<1>8. QED
  BY <1>6, <1>7

LEMMA AlignedLength ==
    ASSUME Typed, Aligned, ReadLength
    PROVE  Aligned'
<1>1. At(field, SliceKinds, 0) /\ UNCHANGED <<input, target>>
  BY DEF ReadLength
<1>2. /\ field \in 1 .. N /\ Kind(field) \in SliceKinds /\ status = "busy" /\ Shown
      /\ pos = FieldEnd(field - 1) /\ done = 0 /\ pos \in Nat /\ FieldEnd(field) \in Nat /\ field \in 0 .. N
  BY <1>1, AtStart
<1>3. HasElements(field) /\ Kind(field) # "string" /\ Kind(field) # "pointer" /\ Kind(field) # "skipped"
  BY <1>2 DEF HasElements, SliceKinds
<1>4. Next1 \in Nat /\ Rest > 0 /\ Len(data) \in Nat /\ Rest = Len(data) - pos
  BY LengthEffect, Positions
<1>5. Next1 = Len(want[field]) /\ Reached(field, 0) = pos + 1
  <2>1. pos + 1 <= Len(data)
    BY <1>2, <1>4
  <2>2. data[pos + 1] = Len(want[field]) /\ Reached(field, 0) = pos + 1
    BY <1>2, <1>3, <2>1, ElementsRead
  <2>3. QED
    BY <1>4, <2>2, NextIs
<1>6. CASE Failed /\ Unavailable(Next1)
  <2>1. Next1 > Rest - 1
    BY <1>6 DEF Unavailable
  <2>2. FieldEnd(field) >= pos + 1 + Next1
    BY <1>2, <1>3, <1>5, ElementsTakeBytes
  <2>3. FieldEnd(field) > Len(data)
    BY <1>2, <1>4, <2>1, <2>2
  <2>4. QED
    BY <1>1, <1>2, <1>6, <2>3, Beyond, AlignedFailed
<1>7. CASE /\ ~Unavailable(Next1) \/ Unchecked(field, Next1)
           /\ pos' = pos + 1 /\ at' = 1 /\ field' = field /\ done' = done /\ status' = status
           /\ Only(field) /\ dest'[field].len = Next1
  <2>1. done' = 0 /\ done' <= Len(want[field]) /\ pos' = Reached(field, done')
        /\ \A j \in 1 .. done' : dest'[field].mem[j] = want[field][j]
    BY <1>2, <1>4, <1>5, <1>7
  <2>2. ASSUME reader = "slice", Kind(field) \in {"bytes", "bools"}, Checked \/ Kind(field) = "bools"
        PROVE  pos' + Len(want[field]) <= Len(data)
    <3>1. ~Unchecked(field, Next1)
      BY <1>2, <2>2 DEF Unchecked, Checked
    <3>2. Next1 <= Rest - 1
      BY <1>4, <1>7, <2>2, <3>1 DEF Unavailable
    <3>3. QED
      BY <1>2, <1>4, <1>5, <1>7, <3>2
  <2>3. QED
    BY <1>1, <1>2, <1>3, <1>5, <1>7, <2>1, <2>2, AlignedInside
<1>8. QED
  BY <1>6, <1>7, LengthEffect

LEMMA AlignedComplete ==
    ASSUME Typed, Aligned, Complete
    PROVE  Aligned'
<1>1. /\ status = "busy" /\ field <= N /\ at = 1 /\ done = dest[field].len
      /\ NextField /\ UNCHANGED <<input, pos, target, dest, status>>
  BY DEF Complete
<1>2. field \in 1 .. N
  BY <1>1, Positions DEF Typed
<1>3. At(field, Kinds, 1)
  BY <1>1, <1>2, CellOf DEF At
<1>4. /\ Shown /\ HasElements(field)
      /\ dest[field].len = Len(want[field]) /\ pos = Reached(field, done)
      /\ \A j \in 1 .. done : dest[field].mem[j] = want[field][j]
  BY <1>3, AtElement
<1>5. pos' = FieldEnd(field)
  BY <1>1, <1>2, <1>4, ElementsRead
<1>6. Only(field) /\ dest' = dest /\ Memory(struct, dest')
  BY <1>1, <1>2, CellOf DEF Only, Typed
<1>7. Kind(field) \notin Numbers /\ Kind(field) # "skipped"
  BY <1>4 DEF HasElements, Numbers
<1>8. Content(field, dest'[field]) = want[field]
  BY <1>1, <1>2, <1>4, <1>6, <1>7, ContentWhole
<1>9. QED
  BY <1>1, <1>2, <1>5, <1>6, <1>7, <1>8, AlignedNext

LEMMA AlignedBody ==
    ASSUME Typed, Aligned, ReadBody
    PROVE  Aligned' \/ Lost'
<1>1. At(field, {"bytes", "bools"}, 1) /\ UNCHANGED <<input, target>> /\ done < dest[field].len
  BY DEF ReadBody
<1>2. PICK n : n = Len(want[field])
  OBVIOUS
<1>3. /\ field \in 1 .. N /\ Kind(field) \in {"bytes", "bools"} /\ status = "busy" /\ Shown
      /\ HasElements(field) /\ dest[field].len = n /\ n \in Nat /\ done \in Nat /\ done < n
      /\ pos = Reached(field, done) /\ pos \in Nat
      /\ \A j \in 1 .. done : dest[field].mem[j] = want[field][j]
      /\ reader = "slice" => done = 0 /\ (Checked \/ Kind(field) = "bools" => pos + n <= Len(data))
      /\ FieldEnd(field) \in Nat /\ field \in 0 .. N
  BY <1>1, <1>2, AtElement
<1>4. Kind(field) \notin Numbers /\ Kind(field) \notin {"skipped", "strings", "string"}
  BY <1>3 DEF Numbers
<1>5. Len(data) \in Nat /\ Rest = Len(data) - pos /\ Rest \in Nat /\ FieldEnd(field - 1) \in Nat
  BY <1>3, Positions, FieldEnds
<1>6. PICK b : b = FieldEnd(field - 1) + 1
  OBVIOUS
<1>7. /\ b \in Nat /\ FieldEnd(field) = b + n /\ pos = b + done
      /\ \A d \in Nat : Reached(field, d) = b + d
      /\ \A j \in 1 .. n : b + j <= Len(data) => data[b + j] = want[field][j]
  <2>1. /\ FieldEnd(field) = FieldEnd(field - 1) + 1 + Len(want[field])
        /\ \A d \in Nat : Reached(field, d) = FieldEnd(field - 1) + 1 + d
        /\ \A j \in 1 .. Len(want[field]) : FieldEnd(field - 1) + 1 + j <= Len(data) =>
              data[FieldEnd(field - 1) + 1 + j] = want[field][j]
    BY <1>3, <1>4, PlainRead
  <2>2. b \in Nat
    BY <1>5, <1>6
  <2>3. QED
    BY <1>2, <1>3, <1>6, <2>1, <2>2
<1>8. Len(dest[field].mem) \in Nat /\ n <= Len(dest[field].mem)
  BY <1>3, CellOf
\* The elements it has after reading k more of them.
<1>9. ASSUME NEW k \in Nat, done + k <= n, pos + k <= Len(data), Added(field, done, k, pos)
      PROVE  dest'[field].len = n /\ \A j \in 1 .. done + k : dest'[field].mem[j] = want[field][j]
  <2>1. ASSUME NEW j \in 1 .. done + k
        PROVE  dest'[field].mem[j] = want[field][j]
    <3>1. j \in 1 .. Len(dest[field].mem) /\ j \in 1 .. n
      BY <1>3, <1>8, <1>9
    <3>2. dest'[field].mem[j] =
             IF j > done /\ j <= done + k THEN data[pos + (j - done)] ELSE dest[field].mem[j]
      BY <1>9, <3>1 DEF Added
    <3>3. CASE j > done
      <4>1. j <= done + k /\ pos + (j - done) = b + j /\ b + j <= Len(data)
        <5>1. j \in Nat /\ j <= done + k
          BY <1>3, <1>9
        <5>2. pos = b + done /\ b \in Nat /\ done \in Nat /\ pos + k <= Len(data) /\ Len(data) \in Nat
          BY <1>3, <1>5, <1>7, <1>9
        <5>3. QED
          BY ONLY <5>1, <5>2, k \in Nat
      <4>2. QED
        BY <1>7, <3>1, <3>2, <3>3, <4>1
    <3>4. CASE ~(j > done)
      <4>1. j \in 1 .. done
        BY <1>3, <3>4
      <4>2. QED
        BY <1>3, <3>2, <3>4, <4>1
    <3>5. QED
      BY <3>3, <3>4
  <2>2. QED
    BY <1>3, <1>9, <2>1 DEF Added
<1>10. CASE Failed /\ Rest = 0
  <2>1. FieldEnd(field) > Len(data)
    BY <1>3, <1>5, <1>7, <1>10
  <2>2. QED
    BY <1>1, <1>3, <1>10, <2>1, Beyond, AlignedFailed
<1>11. CASE /\ reader = "slice" /\ Rest > 0 /\ NextField /\ status' = status
            /\ \E k \in Nat :
                  /\ k = IF Rest < dest[field].len THEN Rest ELSE dest[field].len
                  /\ pos' = pos + k /\ pos + k <= Len(data)
                  /\ Added(field, 0, k, pos)
            /\ Memory(struct, dest') /\ Only(field)
  <2>1. PICK k \in Nat : /\ k = IF Rest < n THEN Rest ELSE n
                         /\ pos' = pos + k /\ pos + k <= Len(data)
                         /\ Added(field, 0, k, pos)
    BY <1>3, <1>11
  <2>2. done = 0
    BY <1>3, <1>11
  <2>3. CASE k = n
    <3>1. /\ dest'[field].len = n
          /\ \A j \in 1 .. 0 + k : dest'[field].mem[j] = want[field][j]
      BY <1>9, <2>1, <2>2, <2>3
    <3>2. \A j \in 1 .. Len(want[field]) : dest'[field].mem[j] = want[field][j]
      BY <1>2, <1>3, <2>3, <3>1
    <3>3. Content(field, dest'[field]) = want[field]
      BY <1>2, <1>3, <1>4, <1>11, <3>1, <3>2, ContentWhole
    <3>4. pos' = FieldEnd(field)
      BY <1>3, <1>7, <2>1, <2>2, <2>3
    <3>5. QED
      BY <1>1, <1>3, <1>4, <1>11, <3>3, <3>4, AlignedNext
  <2>4. CASE k # n
    <3>1. Rest < n /\ k = Rest /\ pos' = Len(data) /\ pos + n > Len(data)
      <4>1. Rest < n /\ k = Rest
        BY <2>1, <2>4
      <4>2. QED
        <5>1. PICK l : l = Len(data)
          OBVIOUS
        <5>2. l \in Nat /\ k = l - pos /\ k \in Nat /\ pos \in Nat /\ n \in Nat /\ k < n
          BY <1>3, <1>5, <4>1, <5>1
        <5>3. pos + k = l /\ pos + n > l
          BY ONLY <5>2
        <5>4. QED
          BY <2>1, <4>1, <5>1, <5>3
    <3>2. ~Checked
      BY <1>3, <1>5, <1>11, <3>1
    <3>3. FieldEnd(field) > Len(data)
      BY <1>3, <1>7, <2>2, <3>1
    <3>4. ~Intact
      BY <1>3, <3>3, Beyond
    <3>5. QED
      BY <1>1, <1>3, <1>11, <3>1, <3>2, <3>4, PlacesKept DEF Lost
  <2>5. QED
    BY <2>3, <2>4
<1>12. CASE /\ reader = "stream" /\ field' = field /\ at' = at /\ status' = status
            /\ \E k \in Nat :
                  /\ k <= dest[field].len - done
                  /\ pos' = pos + k /\ pos + k <= Len(data) /\ done' = done + k
                  /\ Added(field, done, k, pos)
            /\ Memory(struct, dest') /\ Only(field)
  <2>1. PICK k \in Nat : /\ k <= n - done
                         /\ pos' = pos + k /\ pos + k <= Len(data) /\ done' = done + k
                         /\ Added(field, done, k, pos)
    BY <1>3, <1>12
  <2>2. done + k <= n
    BY <1>3, <2>1
  <2>3. /\ dest'[field].len = n
        /\ \A j \in 1 .. done' : dest'[field].mem[j] = want[field][j]
    BY <1>9, <2>1, <2>2
  <2>4. pos' = Reached(field, done')
    BY <1>3, <1>7, <2>1
  <2>5. at' = 1 /\ reader # "slice"
    BY <1>1, <1>12, AtField
  <2>6. QED
    BY <1>1, <1>2, <1>3, <1>4, <1>12, <2>1, <2>2, <2>3, <2>4, <2>5, AlignedInside
<1>13. QED
  BY <1>10, <1>11, <1>12, BodyEffect

LEMMA AlignedElement ==
    ASSUME Typed, Aligned, ReadElement
    PROVE  Aligned'
<1>1. At(field, {"varuints", "strings", "pointer"}, 1) /\ UNCHANGED <<input, target>> /\ done < dest[field].len
  BY DEF ReadElement
<1>2. /\ field \in 1 .. N /\ Kind(field) \in {"varuints", "strings", "pointer"} /\ status = "busy" /\ Shown
      /\ HasElements(field) /\ dest[field].len = Len(want[field]) /\ Len(want[field]) \in Nat
      /\ done \in Nat /\ pos = Reached(field, done) /\ pos \in Nat
      /\ \A j \in 1 .. done : dest[field].mem[j] = want[field][j]
      /\ FieldEnd(field) \in Nat /\ field \in 0 .. N
  BY <1>1, AtElement
<1>3. done \in 0 .. Len(want[field]) - 1 /\ done + 1 \in 0 .. Len(want[field]) /\ done + 1 \in 1 .. Len(want[field])
  BY <1>1, <1>2
<1>4. PICK n \in Nat :
         /\ n = IF Kind(field) = "strings" THEN Next1 ELSE 0
         /\ \/ Failed /\ n > Rest - 1
            \/ /\ pos' = pos + 1 + n /\ pos + 1 + n <= Len(data) /\ done' = done + 1
               /\ field' = field /\ at' = at /\ status' = status
               /\ Memory(struct, dest') /\ Only(field)
               /\ dest'[field].len = dest[field].len
               /\ \A j \in 1 .. Len(dest[field].mem) : j # done + 1 =>
                     dest'[field].mem[j] = dest[field].mem[j]
               /\ dest'[field].mem[done + 1] =
                     IF Kind(field) = "strings"
                     THEN SubSeq(data, (pos + 1) + 1, (pos + 1) + n) ELSE Next1
  BY ElementEffect
<1>5. Rest > 0 /\ Len(data) \in Nat /\ Rest = Len(data) - pos
  BY ElementEffect, Positions
<1>6. Next1 = IF Kind(field) = "strings" THEN Len(want[field][done + 1]) ELSE want[field][done + 1]
  <2>1. Reached(field, done) + 1 <= Len(data)
    BY <1>2, <1>5
  <2>2. data[Reached(field, done) + 1] =
           IF Kind(field) = "strings" THEN Len(want[field][done + 1]) ELSE want[field][done + 1]
    BY <1>2, <1>3, <2>1, ElementsRead
  <2>3. QED
    BY <1>2, <1>5, <2>2, NextIs
<1>7. Reached(field, done + 1) = pos + 1 + n
  <2>1. n = IF Kind(field) = "strings" THEN Len(want[field][done + 1]) ELSE 0
    BY <1>4, <1>6
  <2>2. QED
    BY <1>2, <1>3, <2>1, ElementsRead
<1>8. CASE Failed
  <2> n > Rest - 1
    BY <1>2, <1>4, <1>8 DEF Failed, Error
  <2>1. Reached(field, done + 1) <= FieldEnd(field)
    BY <1>2, <1>3, ElementsRead
  <2>2. FieldEnd(field) > Len(data)
    BY <1>2, <1>5, <1>7, <1>8, <2>1
  <2>3. QED
    BY <1>1, <1>2, <1>8, <2>2, Beyond, AlignedFailed
<1>9. CASE ~Failed
  <2>1. dest'[field].mem[done + 1] = want[field][done + 1]
    <3>1. CASE Kind(field) = "strings"
      <4>1. PICK s, v : s = SubSeq(data, (pos + 1) + 1, (pos + 1) + n) /\ v = want[field][done + 1]
        OBVIOUS
      <4>2. pos + 1 \in Nat /\ (pos + 1) + n <= Len(data)
        BY <1>2, <1>4, <1>9
      <4>3. s \in Seq(Byte) /\ Len(s) = n /\ \A j \in 1 .. n : s[j] = data[(pos + 1) + j]
        BY <4>1, <4>2, Cut
      <4>4. want[field] \in Seq(Seq(Byte))
        BY <1>2, <3>1, ElementsRead DEF Elem
      <4>5. v \in Seq(Byte) /\ Len(v) = n
        BY <1>3, <1>4, <1>6, <3>1, <4>1, <4>4, ElementOfSeq
      <4>6. \A j \in 1 .. n : data[pos + 1 + j] = v[j]
        <5>1. \A j \in 1 .. n : pos + 1 + j <= Len(data)
          BY <1>2, <4>2
        <5>2. \A j \in 1 .. Len(v) : Reached(field, done) + 1 + j <= Len(data) =>
                 data[Reached(field, done) + 1 + j] = v[j]
          BY <1>2, <1>3, <3>1, <4>1, ElementsRead
        <5>3. QED
          BY <1>2, <4>5, <5>1, <5>2
      <4>7. s = [j \in 1 .. n |-> s[j]] /\ v = [j \in 1 .. n |-> v[j]]
        BY <4>3, <4>5
      <4>8. s = v
        BY <4>3, <4>6, <4>7
      <4>9. QED
        BY <1>4, <1>9, <3>1, <4>1, <4>8
    <3>2. CASE Kind(field) # "strings"
      BY <1>4, <1>6, <1>9, <3>2
    <3>3. QED
      BY <3>1, <3>2
  <2>2. ASSUME NEW j \in 1 .. done + 1
        PROVE  dest'[field].mem[j] = want[field][j]
    <3>1. CASE j = done + 1
      BY <2>1, <3>1
    <3>2. CASE j # done + 1
      <4>1. j \in 1 .. done
        BY <1>2, <3>2
      <4>2. j \in 1 .. Len(dest[field].mem)
        <5>1. /\ Len(dest[field].mem) \in Nat /\ dest[field].len <= Len(dest[field].mem)
          BY <1>2, CellOf
        <5>2. QED
          BY <1>2, <1>3, <4>1, <5>1
      <4>3. QED
        BY <1>2, <1>4, <1>9, <3>2, <4>1, <4>2
    <3>3. QED
      BY <3>1, <3>2
  <2>3. /\ field' = field /\ at' = 1 /\ status' = status /\ Only(field)
        /\ dest'[field].len = Len(want[field]) /\ done' = done + 1
        /\ pos' = Reached(field, done')
    BY <1>1, <1>2, <1>4, <1>7, <1>9, AtField
  <2>4. done' <= Len(want[field]) /\ Kind(field) # "string" /\ Kind(field) \notin {"bytes", "bools"}
    BY <1>2, <1>3, <2>3
  <2>5. QED
    BY <1>1, <1>2, <2>2, <2>3, <2>4, AlignedInside
<1>10. QED
  BY <1>4, <1>8, <1>9

LEMMA AlignedFinish ==
    ASSUME Typed, Aligned, Finish
    PROVE  Aligned'
<1>1. /\ status = "busy" /\ field = N + 1 /\ status' = "ok"
      /\ UNCHANGED <<input, target>> /\ pos' = pos /\ dest' = dest
      /\ field' = field /\ at' = at /\ done' = done
  BY DEF Finish, cursor
<1>2. Here /\ N \in Nat
  BY <1>1, Positions DEF Aligned
<1>3. at = 0
  BY <1>1, <1>2 DEF Here
<1>4. Here'
  <2>1. FieldEnd(field - 1)' = FieldEnd(field - 1)
    BY <1>1 DEF FieldEnd, input, target
  <2>2. QED
    BY <1>1, <1>2, <1>3, <2>1 DEF Here
<1>5. FieldsInOrder' /\ Sending'
  BY <1>1, OrderStays, SendingKept DEF Aligned
<1>6. N' = N
  BY <1>1, PlacesKept
<1>7. QED
  BY <1>1, <1>3, <1>4, <1>5, <1>6 DEF Aligned

-----------------------------------------------------------------------------
(* The caller, and the steps after a byte slice was too short.              *)

LEMMA AlignedOpen ==
    ASSUME Typed, Open
    PROVE  Aligned'
<1>1. PICK t \in Structs : \E r \in Readers[t], values \in Inputs[t], n \in Nat : Opened(t, r, values, n)
  BY OpenIs
<1>2. PICK r \in Readers[t], values \in Inputs[t], n \in Nat : Opened(t, r, values, n)
  BY <1>1
<1>3. /\ before' = dest' /\ pos' = 0 /\ start' = 0 /\ field' = 1 /\ at' = 0 /\ done' = 0 /\ status' = "new"
      /\ struct' = t /\ todo' = values
  BY <1>2 DEF Open, Opened
<1>4. values \in Seq(Values[t]) /\ Len(values) \in Nat
  <2>1. values \in Seq(Values[t])
    BY StructsAssumption
  <2>2. QED
    BY <2>1, LenProperties
<1>5. PICK E : E = FlattenSeq(Wires(t, values))
  OBVIOUS
<1>6. E \in Seq(Byte) /\ Encoded[t][values] = E
  BY <1>4, <1>5, EncodedType
<1>7. n <= Len(E) /\ data' = SubSeq(E, 1, n)
  BY <1>2, <1>6 DEF Opened
<1>8. PICK d : d = data'
  OBVIOUS
<1>9. Len(d) <= Len(E) /\ \A i \in 1 .. Len(d) : d[i] = E[i]
  <2>1. d = [i \in 1 .. n |-> E[i]]
    <3>1. d = [i \in 1 .. n - 1 + 1 |-> E[(i + 1) - 1]]
      BY <1>7, <1>8
    <3>2. n - 1 + 1 = n /\ \A i \in 1 .. n : (i + 1) - 1 = i
      OBVIOUS
    <3>3. QED
      BY <3>1, <3>2
  <2>2. \A i \in 1 .. n : E[i] \in Byte
    <3>1. Len(E) \in Nat
      BY <1>6, LenProperties
    <3>2. \A i \in 1 .. n : i \in 1 .. Len(E)
      BY <1>7, <3>1
    <3>3. QED
      BY <1>6, <3>2, ElementOfSeq
  <2>3. Len(d) = n
    BY <2>1, <2>2
  <2>4. QED
    BY <1>7, <2>1, <2>3
<1>10. Sent(values, 0)'
  <2>1. Wires(struct', values) = Wires(t, values)
    BY <1>3
  <2>2. values \in Seq(Values[struct']) /\ 0 \in 0 .. Len(values)
        /\ Len(todo') = Len(values) - 0 /\ \A i \in 1 .. Len(todo') : todo'[i] = values[0 + i]
    BY <1>3, <1>4
  <2>3. /\ Len(data') <= Len(FlattenSeq(Wires(struct', values)))
        /\ \A i \in 1 .. Len(data') : data'[i] = FlattenSeq(Wires(struct', values))[i]
    BY <1>3, <1>5, <1>8, <1>9
  <2>4. QED
    BY <1>3, <2>2, <2>3 DEF Sent
<1>11. Sending'
  BY <1>10 DEF Sending
<1>12. FieldsInOrder'
  BY <1>3 DEF FieldsInOrder
<1>13. QED
  BY <1>3, <1>11, <1>12 DEF Aligned

LEMMA DecodeStarts ==
    ASSUME Typed, Decode
    PROVE  /\ todo # <<>> /\ want' = todo[1] /\ start' = pos /\ before' = dest
           /\ field' = 1 /\ at' = 0 /\ done' = 0 /\ status' = "busy"
           /\ struct' = struct /\ reader' = reader /\ data' = data /\ pos' = pos /\ dest' = dest
           /\ Len(todo) \in Nat /\ Len(todo) >= 1
           /\ Len(todo') = Len(todo) - 1 /\ \A i \in 1 .. Len(todo') : todo'[i] = todo[i + 1]
<1>1. /\ todo # <<>> /\ want' = Head(todo) /\ todo' = Tail(todo) /\ start' = pos /\ before' = dest
      /\ field' = 1 /\ at' = 0 /\ done' = 0 /\ status' = "busy"
      /\ struct' = struct /\ reader' = reader /\ data' = data /\ pos' = pos /\ dest' = dest
  BY DEF Decode
<1>2. PICK s, q : s = todo /\ q = Tail(todo)
  OBVIOUS
<1>3. s \in Seq(Values[struct]) /\ s # <<>> /\ Len(s) \in Nat
  BY <1>1, <1>2, LenProperties DEF Typed
<1>4. Head(s) = s[1] /\ Len(s) >= 1
  BY <1>3, EmptySeq
<1>5. Len(q) = Len(s) - 1 /\ \A i \in 1 .. Len(q) : q[i] = s[i + 1]
  BY <1>2, <1>3, HeadTailProperties
<1>6. QED
  BY <1>1, <1>2, <1>3, <1>4, <1>5

LEMMA AlignedDecode ==
    ASSUME Typed, Aligned, Decode
    PROVE  Aligned'
<1>1. /\ want' = todo[1] /\ start' = pos /\ before' = dest
      /\ field' = 1 /\ at' = 0 /\ done' = 0 /\ status' = "busy"
      /\ struct' = struct /\ reader' = reader /\ data' = data /\ pos' = pos /\ dest' = dest
      /\ Len(todo) \in Nat /\ Len(todo) >= 1
      /\ Len(todo') = Len(todo) - 1 /\ \A i \in 1 .. Len(todo') : todo'[i] = todo[i + 1]
  BY DecodeStarts
<1>2. status \in {"new", "ok"}
  BY DEF Decode
<1>3. PICK values, k : Sent(values, k)
  BY DEF Aligned, Sending
<1>4. PICK P, ws : P = JoinEnds(ws) /\ ws = Wires(struct, values)
  OBVIOUS
<1>5. /\ values \in Seq(Values[struct]) /\ Len(values) \in Nat /\ k \in 0 .. Len(values) /\ k \in Nat
      /\ Len(todo) = Len(values) - k /\ \A i \in 1 .. Len(todo) : todo[i] = values[k + i]
  <2>1. /\ values \in Seq(Values[struct]) /\ k \in 0 .. Len(values)
        /\ Len(todo) = Len(values) - k /\ \A i \in 1 .. Len(todo) : todo[i] = values[k + i]
    BY <1>3 DEF Sent
  <2>2. Len(values) \in Nat
    BY <2>1, LenProperties
  <2>3. QED
    BY <2>1, <2>2
<1>6. /\ ws \in Seq(Seq(Byte)) /\ Len(ws) = Len(values)
      /\ P \in [0 .. Len(ws) -> Nat] /\ P[0] = 0
      /\ \A i \in 1 .. Len(ws) : i - 1 \in 0 .. Len(ws) /\ P[i] = P[i - 1] + Len(ws[i])
  <2>1. ws \in Seq(Seq(Byte)) /\ Len(ws) = Len(values)
    BY <1>4, <1>5, EncodedType DEF Typed
  <2>2. QED
    BY <1>4, <2>1, JoinEndsStep
<1>7. pos = P[k]
  <2>1. CASE status = "new"
    BY <1>3, <1>6, <2>1 DEF Sent
  <2>2. CASE status = "ok"
    <3>1. k >= 1 /\ want = values[k] /\ start = P[k - 1]
      BY <1>3, <1>4, <2>2 DEF Sent
    <3>2. pos = FieldEnd(N)
      <4>1. field = N + 1 /\ at = 0 /\ Here
        BY <2>2 DEF Aligned
      <4>2. field - 1 = N
        BY <4>1, Positions
      <4>3. QED
        BY <4>1, <4>2 DEF Here
    <3>3. FieldEnd(N) = start + Len(Wire[struct][want])
      BY WireIs DEF FieldEnd, Typed, N
    <3>4. k \in 1 .. Len(ws) /\ ws[k] = Wire[struct][want]
      <4>1. DOMAIN values = 1 .. Len(values) /\ k \in 1 .. Len(values)
        BY <1>5, <3>1, LenProperties
      <4>2. QED
        BY <1>4, <1>6, <3>1, <4>1 DEF Wires
    <3>5. P[k] = P[k - 1] + Len(Wire[struct][want])
      BY <1>6, <3>4
    <3>6. QED
      BY <3>1, <3>2, <3>3, <3>5
  <2>3. QED
    BY <1>2, <2>1, <2>2
<1>8. Sent(values, k + 1)'
  <2>1. Wires(struct', values) = ws
    BY <1>1, <1>4
  <2>2. k + 1 \in 0 .. Len(values) /\ Len(todo') = Len(values) - (k + 1)
    BY <1>1, <1>5
  <2>3. \A i \in 1 .. Len(todo') : todo'[i] = values[(k + 1) + i]
    <3>1. ASSUME NEW i \in 1 .. Len(todo')
          PROVE  i + 1 \in 1 .. Len(todo) /\ k + (i + 1) = (k + 1) + i
      <4>1. PICK l : l = Len(todo)
        OBVIOUS
      <4>2. i \in 1 .. l - 1 /\ l \in Nat
        BY <1>1, <1>5, <4>1
      <4>3. i + 1 \in 1 .. l /\ k + (i + 1) = (k + 1) + i
        BY ONLY <1>5, <4>2
      <4>4. QED
        BY <4>1, <4>3
    <3>2. QED
      BY <1>1, <1>5, <3>1
  <2>4. /\ Len(data') <= Len(FlattenSeq(Wires(struct', values)))
        /\ \A i \in 1 .. Len(data') : data'[i] = FlattenSeq(Wires(struct', values))[i]
    BY <1>1, <1>3 DEF Sent
  <2>5. /\ k + 1 >= 1 /\ want' = values[k + 1] /\ (k + 1) - 1 = k
        /\ start' = JoinEnds(Wires(struct', values))[(k + 1) - 1]
    <3>1. 1 \in 1 .. Len(todo) /\ (k + 1) - 1 = k /\ k + 1 >= 1
      BY <1>1, <1>5
    <3>2. want' = values[k + 1]
      BY <1>1, <1>5, <3>1
    <3>3. QED
      BY <1>1, <1>4, <1>7, <2>1, <3>1, <3>2
  <2>6. values \in Seq(Values[struct'])
    BY <1>1, <1>5
  <2>7. QED
    BY <1>1, <2>2, <2>3, <2>4, <2>5, <2>6 DEF Sent
<1>9. Sending'
  BY <1>8 DEF Sending
<1>10. FieldsInOrder'
  <2>1. \A i \in 1 .. N' : ~(i < field')
    BY <1>1
  <2>2. QED
    BY <1>1, <2>1 DEF FieldsInOrder
<1>11. Here'
  <2>1. Typed'
    BY TypedStep DEF Next
  <2>2. (FieldEnd(0) = start)'
    BY <2>1, FieldEnds, PTL
  <2>3. QED
    BY <1>1, <2>2 DEF Here
<1>12. QED
  BY <1>1, <1>9, <1>10, <1>11 DEF Aligned

\* There is a byte slice, so the value takes a byte, and none is left.
LEMMA LostDecode ==
    ASSUME Typed, Lost, Decode
    PROVE  Lost'
<1>1. /\ start' = pos /\ status' = "busy" /\ struct' = struct /\ reader' = reader /\ data' = data /\ pos' = pos
  BY DecodeStarts
<1>2. ~Checked /\ pos = Len(data)
  BY DEF Lost
<1>3. ~Checked'
  BY <1>1, <1>2 DEF Checked, Kind, N
<1>4. Typed'
  BY TypedStep DEF Next
<1>5. PICK i \in 1 .. N : Kind(i) = "bytes"
  BY <1>2 DEF Checked
<1>6. PICK w : w = want'
  OBVIOUS
<1>7. w \in Values[struct] /\ struct \in Structs
  BY <1>1, <1>4, <1>6 DEF Typed
<1>8. PICK ps, Q, p : ps = Pieces(struct, w) /\ Q = JoinEnds(ps) /\ p = FieldWire("bytes", w[i])
  OBVIOUS
<1>9. /\ ps \in Seq(Seq(Byte)) /\ Len(ps) = N /\ N \in Nat /\ Len(Wire[struct][w]) = Q[N]
  BY <1>7, <1>8, WireIs, Positions DEF Ends, N
<1>10. /\ Q \in [0 .. N -> Nat] /\ Q[i] <= Q[N]
       /\ i - 1 \in 0 .. N /\ Q[i] = Q[i - 1] + Len(ps[i])
  <2>1. /\ JoinEnds(ps) \in [0 .. N -> Nat]
        /\ \A j \in 1 .. N : j - 1 \in 0 .. N /\ JoinEnds(ps)[j] = JoinEnds(ps)[j - 1] + Len(ps[j])
    BY <1>9, JoinEndsStep
  <2>2. \A j \in 1 .. N : JoinEnds(ps)[j] <= JoinEnds(ps)[N]
    BY <1>9, FlattenElements
  <2>3. QED
    BY <1>8, <2>1, <2>2
<1>11. ps[i] = p /\ w[i] \in Seq(Byte)
  <2>1. i \in DOMAIN w
    BY <1>7, ValuesAssumption, FieldsType DEF N
  <2>2. ps[i] = p
    BY <1>5, <1>8, <2>1 DEF Pieces, Kind
  <2>3. w[i] \in FieldValue("bytes")
    BY <1>5, <1>7, <2>1, ValuesAssumption DEF Kind
  <2>4. QED
    BY <2>2, <2>3 DEF FieldValue, Elem
<1>12. Len(p) \in Nat /\ Len(p) >= 1
  <2>1. PICK s, y : s = w[i] /\ y = <<Len(w[i])>>
    OBVIOUS
  <2>2. s \in Seq(Nat) /\ Len(s) \in Nat /\ y \in Seq(Nat) /\ Len(y) = 1
    <3>1. s \in Seq(Nat)
      BY <1>11, <2>1, BytesAreNumbers
    <3>2. Len(s) \in Nat
      BY <3>1, LenProperties
    <3>3. QED
      BY <2>1, <3>1, <3>2
  <2>3. p = y \o s
    BY <1>8, <2>1 DEF FieldWire, Prefixed
  <2>4. Len(p) = 1 + Len(s)
    BY <2>2, <2>3, ConcatProperties
  <2>5. QED
    BY <2>2, <2>4
<1>13. Len(Wire[struct][w]) \in Nat /\ Len(Wire[struct][w]) >= 1
  <2>1. N \in 0 .. N
    BY <1>9
  <2>2. Q[N] \in Nat /\ Q[i - 1] \in Nat /\ Q[i] >= 1
    BY <1>10, <1>11, <1>12, <2>1
  <2>3. QED
    BY <1>9, <1>10, <2>2
<1>14. ~(pos + Len(Wire[struct][w]) <= Len(data))
  BY <1>2, <1>13, Positions
<1>15. ~Intact'
  BY <1>1, <1>6, <1>14 DEF Intact
<1>16. QED
  BY <1>1, <1>2, <1>3, <1>15 DEF Lost

LEMMA LostStep ==
    ASSUME Typed, Lost, Step
    PROVE  Lost'
<1>1. UNCHANGED <<input, target>>
  BY DEF Step, Skip, Missing, ReadUint, ReadString, ReadPointer, ReadLength, ReadBuffered,
     Complete, ReadBody, ReadElement, Finish
<1>2. pos = Len(data) /\ Rest = 0
  BY Positions DEF Lost
<1>3. pos' = pos
  <2>1. CASE Skip \/ Complete \/ Finish
    BY <2>1 DEF Skip, Complete, Finish
  <2>2. CASE Missing
    BY <2>2 DEF Missing, Error
  <2>3. CASE ReadBody
    <3>1. CASE Failed
      BY <3>1 DEF Failed, Error
    <3>2. CASE ~Failed
      <4>1. PICK n \in Nat : pos' = pos + n /\ pos + n <= Len(data)
        BY <1>2, <2>3, <3>2, BodyEffect
      <4>2. QED
        BY <1>2, <4>1, Positions
    <3>3. QED
      BY <3>1, <3>2
  <2>4. CASE ReadUint \/ ReadString \/ ReadPointer \/ ReadLength \/ ReadBuffered \/ ReadElement
    BY <1>2, <2>4 DEF ReadUint, ReadString, ReadPointer, ReadLength, ReadBuffered, ReadElement
  <2>5. QED
    BY <2>1, <2>2, <2>3, <2>4 DEF Step
<1>4. status' # "new"
  <2>1. status = "busy"
    BY DEF Step, Skip, Missing, EndOfInput, ReadUint, ReadString, ReadPointer, ReadLength, ReadBuffered,
       Complete, ReadBody, ReadElement, Finish, At
  <2>2. status' \in {status, "error", "ok"}
    BY DEF Step, Skip, Missing, ReadUint, ReadString, ReadPointer, ReadLength, ReadBuffered,
       Complete, ReadBody, ReadElement, Finish, Error
  <2>3. QED
    BY <2>1, <2>2
<1>5. QED
  BY <1>1, <1>2, <1>3, <1>4, PlacesKept DEF Lost

LEMMA StructInit == Init => StructInv
<1>1. SUFFICES ASSUME Init
               PROVE  StructInv
  OBVIOUS
<1>2. Typed
  BY <1>1, TypedInit
<1>3. Sent(<<>>, 0)
  <2>1. <<>> \in Seq(Values[struct]) /\ 0 \in 0 .. Len(<<>>) /\ Len(data) = 0 /\ Len(todo) = 0
    BY <1>1 DEF Init
  <2>2. Len(FlattenSeq(Wires(struct, <<>>))) \in Nat
    BY <1>2, <2>1, EncodedType, LenProperties DEF Typed
  <2>3. Len(data) <= Len(FlattenSeq(Wires(struct, <<>>)))
    BY <2>1, <2>2
  <2>4. QED
    BY <1>1, <2>1, <2>3 DEF Sent, Init
<1>4. Sending
  BY <1>3 DEF Sending
<1>5. FieldsInOrder /\ status = "new"
  BY <1>1 DEF FieldsInOrder, Init
<1>6. QED
  BY <1>2, <1>4, <1>5 DEF StructInv, Aligned

LEMMA StructNext == StructInv /\ [Next]_vars => StructInv'
<1>1. SUFFICES ASSUME StructInv, [Next]_vars
               PROVE  StructInv'
  OBVIOUS
<1>2. Typed /\ Typed'
  BY <1>1, TypedStep DEF StructInv
<1>3. CASE Open
  BY <1>2, <1>3, AlignedOpen DEF StructInv
<1>4. CASE Decode
  BY <1>1, <1>2, <1>4, AlignedDecode, LostDecode DEF StructInv
<1>5. CASE Step /\ Lost
  BY <1>2, <1>5, LostStep DEF StructInv
<1>6. CASE Step /\ Aligned
  <2>1. Aligned' \/ Lost'
    <3>1. CASE Skip \/ Missing \/ ReadUint \/ ReadString \/ ReadPointer
      BY <1>2, <1>6, <3>1, AlignedSkip, AlignedMissing, AlignedUint, AlignedString, AlignedPointer
    <3>2. CASE ReadLength \/ ReadBuffered \/ Complete \/ ReadBody \/ ReadElement \/ Finish
      BY <1>2, <1>6, <3>2, AlignedLength, AlignedBuffered, AlignedComplete, AlignedBody,
         AlignedElement, AlignedFinish
    <3>3. QED
      BY <1>6, <3>1, <3>2 DEF Step
  <2>2. QED
    BY <1>2, <2>1 DEF StructInv
<1>7. CASE UNCHANGED vars
  <2>1. /\ UNCHANGED <<input, target>>
        /\ pos' = pos /\ dest' = dest /\ field' = field /\ at' = at /\ done' = done /\ status' = status
    BY <1>7 DEF vars, cursor
  <2>2. Lost => Lost'
    BY <2>1, PlacesKept DEF Lost
  <2>3. Sending => Sending'
    <3>1. \A values, k : Sent(values, k) => Sent(values, k)'
      BY <2>1 DEF Sent, input, target
    <3>2. QED
      BY <3>1 DEF Sending
  <2>4. (FieldsInOrder' <=> FieldsInOrder) /\ (Here' <=> Here) /\ (Intact' <=> Intact) /\ N' = N
    BY <2>1 DEF FieldsInOrder, Here, Intact, N, Content, Kind, HasElements, Reached, FieldEnd, Offset, Checked,
       input, target
  <2>5. Aligned => Aligned'
    BY <2>1, <2>3, <2>4 DEF Aligned
  <2>6. QED
    BY <1>1, <1>2, <2>2, <2>5 DEF StructInv
<1>8. QED
  BY <1>1, <1>3, <1>4, <1>5, <1>6, <1>7 DEF Next, StructInv

LEMMA StructHolds == Spec => []StructInv
<1>1. Init => StructInv
  BY StructInit
<1>2. StructInv /\ [Next]_vars => StructInv'
  BY StructNext
<1>3. QED
  BY <1>1, <1>2, PTL DEF Spec

\* A value that is all in the input is decoded, on every path and from every reader: Decode does not
\* reject it, each field before the one it is at is the encoded one with nothing of what the
\* destination held, and the others are as they were (reflectStructCodec.DecodeTo).
THEOREM IntactValuesDecoded == Spec => []IntactDecoded
<1>1. StructInv => IntactDecoded
  <2>1. SUFFICES ASSUME StructInv, Intact
                 PROVE  status # "error" /\ FieldsInOrder
    BY DEF IntactDecoded
  <2>2. Aligned
    BY <2>1 DEF StructInv, Lost
  <2>3. QED
    BY <2>1, <2>2 DEF Aligned
<1>2. QED
  BY <1>1, StructHolds, PTL

\* Wherever the lengths of byte slices are looked at, a Decode that stops at any byte of a cut input
\* leaves a destination split at one field: the fields before it decoded, the ones behind it as they
\* were.  Only a byte slice on the direct path, from a slice, is excepted (codecs.go:1042).
THEOREM FieldsDecodedInOrder == Spec => [](Checked => FieldsInOrder)
<1>1. StructInv => (Checked => FieldsInOrder)
  BY DEF StructInv, Aligned, Lost
<1>2. QED
  BY <1>1, StructHolds, PTL

\* With the same exception, Decode returns nil only if it has consumed an encoded value to its last
\* byte: an input that is cut short is an error (TestReaderEOF, TestShortRead).
THEOREM CutInputsRefused == Spec => [](Checked => AcceptsOnlyWhole)
<1>1. StructInv => (Checked => AcceptsOnlyWhole)
  <2>1. SUFFICES ASSUME StructInv, Checked, status = "ok"
                 PROVE  Intact /\ pos = start + Len(Wire[struct][want])
    BY DEF AcceptsOnlyWhole
  <2>2. Typed /\ Aligned
    BY <2>1 DEF StructInv, Lost
  <2>3. field = N + 1 /\ at = 0 /\ Here
    BY <2>1, <2>2 DEF Aligned
  <2>4. N \in Nat /\ pos <= Len(data)
    BY <2>2, Positions
  <2>5. field - 1 = N
    BY <2>3, <2>4
  <2>6. pos = FieldEnd(N)
    BY <2>3, <2>5 DEF Here
  <2>7. FieldEnd(N) = start + Len(Wire[struct][want])
    BY <2>2, WireIs DEF FieldEnd, Typed, N
  <2>8. QED
    BY <2>2, <2>4, <2>6, <2>7, FieldEnds
<1>2. QED
  BY <1>1, StructHolds, PTL

=============================================================================
