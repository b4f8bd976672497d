---------------------------- MODULE SortedSeries ----------------------------
(***************************************************************************)
(* The types of the package sorted.  A value of one column (slices of      *)
(* integers, Timestamps) or of two (TimeCounters, TimeSeries) is sorted    *)
(* where it lies and written as varints of the differences between         *)
(* neighbours, or, for the floats of a TimeSeries, of their exclusive or   *)
(* with their bits reversed.  Values are encoded, decoded into memory that *)
(* was used before, and encoded again; what is decoded may also be bytes   *)
(* that no encoder wrote.                                                  *)
(***************************************************************************)
EXTENDS Varints, FiniteSetsExt, Functions, SequencesExt

CONSTANTS MaxLen,     \* binary.MaxVarintLen64: the length of the longest varint
          HalfElem,   \* half the number of values of an element narrower than a word
          FloatBits,  \* the bits of a float32
          Values,     \* for each type what the caller encodes: [time, data]
          Appended,   \* the pairs <<t, x>> the caller appends
          Dests,      \* for each type what the caller decodes into
          Junk,       \* wires that no encoder wrote: [count, size, bytes]
          MaxSize     \* how long a value may become

Ints   == {"Int16s", "Int64s"}
Slices == Ints \cup {"Uint16s", "Uint64s"}
Pairs  == {"TimeCounters", "TimeSeries"}
Kinds  == Slices \cup Pairs \cup {"Timestamps"}

\* What bit b of a word counts: 1 << b.
Weight[b \in Nat] == IF b = 0 THEN 1 ELSE 2 * Weight[b - 1]

ASSUME SortedAssumption ==
    /\ MaxLen \in Nat \ {0} /\ HalfElem \in Nat \ {0} /\ FloatBits \in Nat
    /\ Half = Place[MaxLen - 1]
    /\ HalfElem <= Half /\ Weight[FloatBits] <= Word

\* The numbers of the first column, and of the second.  Those of a TimeSeries are floats.
Times(k) == CASE k = "Int16s"  -> -HalfElem .. HalfElem - 1
              [] k = "Int64s"  -> Signed
              [] k = "Uint16s" -> 0 .. 2 * HalfElem - 1
              [] OTHER         -> Uint
Data(k)  == IF k = "TimeCounters" THEN Uint ELSE Int

ASSUME ValuesAssumption ==
    /\ DOMAIN Values \subseteq Kinds
    /\ \A k \in DOMAIN Values : \A v \in Values[k] :
          /\ v \in [time : Seq(Times(k)), data : Seq(Data(k))]
          /\ k \notin Pairs => v.data = <<>>
    /\ \A k \in DOMAIN Values \cap Pairs : Appended \subseteq Times(k) \X Data(k)
    /\ Junk \subseteq [count : Nat, size : Nat, bytes : Seq(0 .. 2 * Base - 1)]

\* The caller decodes into memory of which a part is in use: columns of one length, or one column.
ASSUME DestsAssumption ==
    \A k \in DOMAIN Values : \A d \in Dests[k] :
        /\ d \in [time : Seq(Times(k)), data : Seq(Data(k)), timeLen : Nat, dataLen : Nat]
        /\ d.timeLen <= Len(d.time) /\ d.dataLen <= Len(d.data)
        /\ d.dataLen = IF k \in Pairs THEN d.timeLen ELSE 0

VARIABLES kind,   \* the type
          value,  \* the caller's value: its columns time and data
          dest,   \* the destination: columns of memory and how much of each is in use
          wire,   \* what the last encoding wrote
          sent,   \* the value it was given, before it was sorted
          last    \* what happened last

vars == <<kind, value, dest, wire, sent, last>>

NoWire  == [count |-> -1, size |-> 0, bytes |-> <<>>]
Nothing == [time |-> <<>>, data |-> <<>>]

Init ==
    /\ kind \in DOMAIN Values
    /\ value \in Values[kind]
    /\ dest \in Dests[kind]
    /\ wire = NoWire
    /\ sent = Nothing
    /\ last = "none"

-----------------------------------------------------------------------------
(***************************************************************************)
(* Arithmetic on words and conversions.                                    *)
(***************************************************************************)
AsUint(x)   == x % Word
AsSigned(x) == ((x + Half) % Word) - Half

\* T(prev) for the element type of a slice.
AsElem(x) ==
    CASE kind = "Int16s"  -> ((x + HalfElem) % (2 * HalfElem)) - HalfElem
      [] kind = "Uint16s" -> x % (2 * HalfElem)
      [] OTHER            -> x

Bits(x)    == {b \in 0 .. Word - 1 : (x \div Weight[b]) % 2 = 1}
Number(S)  == SumFunction([b \in S |-> Weight[b]])
Xor(x, y)  == Number(SymDiff(Bits(x), Bits(y)))

\* bits.Reverse32
Reversed(x) == Number({FloatBits - 1 - b : b \in Bits(x)})

\* float32(v) rounds, and float64 of that does not bring back what was lost: a float64 is
\* modelled by a number with one bit more.
Single(v) == (v \div 2) % Weight[FloatBits]
Double(f) == 2 * f

-----------------------------------------------------------------------------
(***************************************************************************)
(* Encoding.                                                               *)
(***************************************************************************)

\* The varints of the differences of a column, the first one from zero.
Deltas(s, Minus(_, _), Put(_)) ==
    FlattenSeq([i \in DOMAIN s |-> Put(Minus(s[i], IF i = 1 THEN 0 ELSE s[i - 1]))])

AppendIntDeltas(s) ==
    Deltas(s, LAMBDA v, prev : AsSigned(v - prev), LAMBDA d : WrittenUvarint(Zigzag(d)))

AppendUintDeltas(s) ==
    Deltas(s, LAMBDA v, prev : AsUint(v - prev), WrittenUvarint)

\* The floats of a series.
AppendXors(s) ==
    Deltas([i \in DOMAIN s |-> Reversed(Single(s[i]))], Xor, WrittenUvarint)

EncodedBytes(v) ==
    CASE kind \in Ints        -> AppendIntDeltas(v.time)
      [] kind = "TimeCounters" -> AppendUintDeltas(v.time) \o AppendUintDeltas(v.data)
      [] kind = "TimeSeries"   -> AppendUintDeltas(v.time) \o AppendXors(v.data)
      [] OTHER                 -> AppendUintDeltas(v.time)

InOrder(s) == \A i \in 2 .. Len(s) : s[i - 1] <= s[i]

\* Mutant of Permuted: Swap forgets the second column.
PermutedTimes(v, p) == [v EXCEPT !.time = [i \in DOMAIN @ |-> @[p[i]]]]

\* The value with its elements moved by p; Swap moves both columns.
Permuted(v, p) == [time |-> [i \in DOMAIN v.time |-> v.time[p[i]]],
                   data |-> [i \in DOMAIN v.data |-> v.data[p[i]]]]

\* Mutant of Sorts: every encoding sorts.
SortsAlways(v) ==
    {Permuted(v, p) : p \in {q \in Bijection(DOMAIN v.time, DOMAIN v.time) :
                                 InOrder([i \in DOMAIN v.time |-> v.time[q[i]]])}}

\* sort.Sort leaves the value in any order that Less allows.  A sorted one is not touched.
Sorts(v) ==
    IF InOrder(v.time) THEN {v}
    ELSE {Permuted(v, p) : p \in {q \in Bijection(DOMAIN v.time, DOMAIN v.time) :
                                      InOrder([i \in DOMAIN v.time |-> v.time[q[i]]])}}

\* Columns of different lengths are an error, and nothing is sorted or written.
Mismatched(v) == kind \in Pairs /\ Len(v.time) # Len(v.data)

\* A slice of integers is written behind the size of its bytes, the others also behind their length.
Framed(v) ==
    LET bytes == EncodedBytes(v)
    IN  [count |-> IF kind \in Slices THEN 0 ELSE Len(v.time), size |-> Len(bytes), bytes |-> bytes]

\* The value in the destination.
Visible(d) == [time |-> SubSeq(d.time, 1, d.timeLen), data |-> SubSeq(d.data, 1, d.dataLen)]

\* The destination when v, a reordering of what is visible in it, was sorted in place.
Stored(d, v) == [d EXCEPT !.time = v.time \o SubSeq(@, d.timeLen + 1, Len(@)),
                          !.data = v.data \o SubSeq(@, d.dataLen + 1, Len(@))]

Encode ==
    /\ ~Mismatched(value)
    /\ value' \in Sorts(value)
    /\ wire' = Framed(value')
    /\ sent' = value
    /\ last' = "encoded"
    /\ UNCHANGED <<kind, dest>>

\* What was decoded is encoded again.
EncodeDest ==
    /\ ~Mismatched(Visible(dest))
    /\ \E v \in Sorts(Visible(dest)) :
           /\ dest' = Stored(dest, v)
           /\ wire' = Framed(v)
    /\ sent' = Visible(dest)
    /\ last' = "encoded"
    /\ UNCHANGED <<kind, value>>

Refuse == Mismatched(value) /\ last' = "error" /\ UNCHANGED <<kind, value, dest, wire, sent>>

\* TimeSeries.Append, TimeCounters.Append.
AppendPair(t, x) ==
    /\ kind \in Pairs /\ Len(value.time) < MaxSize
    /\ value' = [time |-> Append(value.time, t), data |-> Append(value.data, x)]
    /\ last' = "none"
    /\ UNCHANGED <<kind, dest, wire, sent>>

-----------------------------------------------------------------------------
(***************************************************************************)
(* Decoding.                                                               *)
(***************************************************************************)

\* binary.Uvarint of the bytes behind the first at: the varint and how long it is, or a length
\* that is not positive.
Uvarint(bytes, at) ==
    LET ends == {k \in at + 1 .. Len(bytes) : bytes[k] < Base}
        e    == Min(ends)
        sum  == SumFunction([k \in at + 1 .. e |-> (bytes[k] % Base) * Place[k - at - 1]])
    IN  IF ends = {} \/ e - at > MaxLen \/ sum >= Word
        THEN [n |-> 0, value |-> 0]
        ELSE [n |-> e - at, value |-> sum]

PlusUint(x, y) == AsUint(x + y)
PlusInt(x, y)  == AsSigned(x + y)

\* The value behind prev, from the varint of their difference.
Undone(form, prev, x) ==
    CASE form = "uint" -> PlusUint(prev, x)
      [] form = "int"  -> PlusInt(prev, Unzigzag(x))
      [] form = "xor"  -> Xor(prev, x)

\* One more value, from the varint u.
Extended(r, u, form) ==
    IF u.n <= 0 THEN [r EXCEPT !.ok = FALSE]
    ELSE [r EXCEPT !.values = Append(@, Undone(form, r.prev, u.value)),
                   !.prev   = Undone(form, @, u.value),
                   !.at     = @ + u.n]

\* The values behind the first at bytes, the last of them, where it ends, and whether all
\* varints were good.  A loop over the result goes on however few bytes are left.
Reading(bytes, at, count, form) ==
    FoldLeft(LAMBDA r, i : IF r.ok THEN Extended(r, Uvarint(bytes, r.at), form) ELSE r,
             [values |-> <<>>, prev |-> 0, at |-> at, ok |-> TRUE], [i \in 1 .. count |-> i])

\* A loop over the bytes ends behind the last of them.
ReadingAll(bytes, form) ==
    FoldLeft(LAMBDA r, i : IF r.ok /\ r.at < Len(bytes) THEN Extended(r, Uvarint(bytes, r.at), form) ELSE r,
             [values |-> <<>>, prev |-> 0, at |-> 0, ok |-> TRUE], bytes)

ReadDelta(bytes, at, n) == Reading(bytes, at, n, "uint")

DecodeUintDeltas(bytes) == ReadingAll(bytes, "uint")
DecodeIntDeltas(bytes)  == ReadingAll(bytes, "int")

Floats(r) == [r EXCEPT !.values = [i \in DOMAIN @ |-> Double(Reversed(@[i] % Weight[FloatBits]))]]

\* The floats of a series: the loop at the end of tszCodec.DecodeTo.
ReadXors(bytes, at, n) == Floats(Reading(bytes, at, n, "xor"))

\* Mutant of CountVarints: it counts the bytes that have the flag.
CountVarintsMore(bytes) == Cardinality({i \in DOMAIN bytes : bytes[i] >= Base})

CountVarints(bytes) == Cardinality({i \in DOMAIN bytes : bytes[i] < Base})

\* Memory written from its start.
Over(vs, memory) == vs \o SubSeq(memory, Len(vs) + 1, Len(memory))

\* Mutant of Room: a column's own memory, whatever its size.
RoomAsIs(memory, n) == memory

\* Memory for n values: a column's own if it suffices.
Room(memory, n) == IF Len(memory) >= n THEN memory ELSE [i \in 1 .. n |-> 0]

Outcome(d, ok) == [dest |-> d, ok |-> ok, panic |-> FALSE]

\* deltaSliceCodec.DecodeTo.  The slice has its new length before the varints are read; the index
\* of the loop is not compared with it.
DecodeSlice(w, d) ==
    LET bytes == SubSeq(w.bytes, 1, w.size)
        n     == CountVarints(bytes)
        r     == IF kind \in Ints THEN DecodeIntDeltas(bytes) ELSE DecodeUintDeltas(bytes)
        elems == [i \in DOMAIN r.values |-> AsElem(r.values[i])]
    IN  IF w.size = 0 THEN Outcome([d EXCEPT !.timeLen = 0], TRUE)
        ELSE IF w.size > Len(w.bytes) THEN Outcome(d, FALSE)
        ELSE IF Len(elems) > n THEN [dest |-> d, ok |-> FALSE, panic |-> TRUE]
        ELSE Outcome([d EXCEPT !.time = Over(elems, Room(@, n)), !.timeLen = n], r.ok)

\* A column read into the memory of the destination is there even when the decode fails and the
\* destination keeps its lengths; a column read into new memory is not.
Kept(memory, n, vs) == IF Len(memory) >= n THEN Over(vs, memory) ELSE memory

\* timestampCodec.DecodeTo.
DecodeTimestamps(w, d) ==
    LET r == ReadDelta(SubSeq(w.bytes, 1, w.size), 0, w.count)
    IN  IF w.count > w.size \/ w.size > Len(w.bytes) THEN Outcome(d, FALSE)
        ELSE IF r.ok
        THEN Outcome([d EXCEPT !.time = Over(r.values, Room(@, w.count)), !.timeLen = w.count], TRUE)
        ELSE Outcome([d EXCEPT !.time = Kept(@, w.count, r.values)], FALSE)

\* The destination with this in its memory.
Memory(d, times, data) == [time |-> times, data |-> data, timeLen |-> d.timeLen, dataLen |-> d.dataLen]

\* Mutant of PairLens: the lengths are set as soon as their column is read.
PairLensEarly(d, n, timeOk, ok) ==
    [d EXCEPT !.timeLen = IF timeOk THEN n ELSE @, !.dataLen = IF ok THEN n ELSE @]

\* rv.Set gives the destination both its new lengths, and only at the end.
PairLens(d, n, timeOk, ok) == IF ok THEN [d EXCEPT !.timeLen = n, !.dataLen = n] ELSE d

\* Both columns were read, or one of them was not.
DecodedColumns(d, n, times, data) ==
    LET ok   == times.ok /\ data.ok
        read == IF times.ok THEN data.values ELSE <<>>
    IN  Outcome(PairLens(IF ok THEN Memory(d, Over(times.values, Room(d.time, n)),
                                              Over(data.values, Room(d.data, n)))
                         ELSE Memory(d, Kept(d.time, n, times.values), Kept(d.data, n, read)),
                         n, times.ok, ok), ok)

\* tczCodec.DecodeTo and tszCodec.DecodeTo.
DecodePairs(w, d) ==
    LET n     == w.count
        bytes == SubSeq(w.bytes, 1, w.size)
        times == ReadDelta(bytes, 0, n)
        data  == IF kind = "TimeCounters" THEN ReadDelta(bytes, times.at, n) ELSE ReadXors(bytes, times.at, n)
    IN  IF n > w.size \div 2 \/ w.size > Len(w.bytes) THEN Outcome(d, FALSE)
        ELSE DecodedColumns(d, n, times, data)

Decoded(w, d) ==
    CASE kind \in Slices      -> DecodeSlice(w, d)
      [] kind = "Timestamps" -> DecodeTimestamps(w, d)
      [] kind \in Pairs       -> DecodePairs(w, d)

\* What becomes of the destination, and what is said of it.
Finish(r, good, bad) ==
    /\ dest' = r.dest
    /\ last' = IF r.panic THEN "panic" ELSE IF r.ok THEN good ELSE bad

\* Unmarshal of what the last encoding wrote.
Decode ==
    /\ wire # NoWire
    /\ Finish(Decoded(wire, dest), "returned", "refused")
    /\ UNCHANGED <<kind, value, wire, sent>>

\* Unmarshal of other bytes.  The bytes of the last encoding are forgotten.
DecodeJunk(w) ==
    /\ Finish(Decoded(w, dest), "junk", "error")
    /\ wire' = NoWire
    /\ sent' = Nothing
    /\ UNCHANGED <<kind, value>>

Next == \/ Encode \/ EncodeDest \/ Refuse \/ Decode
        \/ \E w \in Junk : DecodeJunk(w)
        \/ \E a \in Appended : AppendPair(a[1], a[2])

Spec == Init /\ [][Next]_vars

-----------------------------------------------------------------------------
\* What decoding returns for one element of the second column.
Rounded(x) == IF kind = "TimeSeries" THEN Double(Single(x)) ELSE x

Elements(v) == [i \in DOMAIN v.time |->
                   <<v.time[i], IF kind \in Pairs THEN Rounded(v.data[i]) ELSE 0>>]

\* Columns hold numbers of their type, and no more of a column is in use than there is memory.
TypeOK ==
    /\ \A s \in {value.time, dest.time} : s \in Seq(Times(kind))
    /\ \A s \in {value.data, dest.data} : s \in Seq(Data(kind))
    /\ dest.timeLen \in 0 .. Len(dest.time)
    /\ dest.dataLen \in 0 .. Len(dest.data)
    /\ wire = NoWire \/ wire.size = Len(wire.bytes)

\* What was encoded is decoded without an error, into whatever memory, as the same elements in
\* order: no element is lost, doubled or separated from its time (sorted/codecs.go:43-243,
\* sorted/timeseries.go:20-121, sorted/counters.go:14-74).
RoundTrip ==
    /\ last # "refused"
    /\ last = "returned" =>
           LET v == Visible(dest)
           IN  /\ InOrder(v.time)
               /\ ToBag(Elements(v)) = ToBag(Elements(sent))

\* No bytes make a decoder write behind the memory it has counted: the loop of a slice reads no
\* more varints than countVarints has found (sorted/codecs.go:61-86,122-183).
NoPanic == last # "panic"

\* Whatever is decoded, and however it fails, the columns of a destination stay of one length,
\* so it can be encoded and decoded into again (sorted/timeseries.go:44-95,
\* sorted/counters.go:30-74).
PairsMatch == kind \in Pairs => dest.timeLen = dest.dataLen

\* Encoding what was decoded from an encoding writes the same bytes: neither a sort nor a
\* rounding changes it again (sorted/codecs.go:88-93, sorted/timeseries.go:20-27).
Reencodes == [][EncodeDest /\ last = "returned" => wire' = wire]_vars

=============================================================================
