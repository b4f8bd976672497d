------------------------------ MODULE Readers ------------------------------
(***************************************************************************)
(* The readers of a decoder.  A decode is a script: the sequence of reads  *)
(* its codecs make.  The same bytes are read twice by the same script, by  *)
(* a sliceReader and then by a streamReader, and the outcomes are kept.    *)
(* Each varint loop is modelled byte by byte as the code runs it: the one  *)
(* of sliceReader.ReadUvarint, the one of readVarints, which slices of     *)
(* integers use on a sliceReader, and the one of encoding/binary, which    *)
(* streams use.  MaxLen is binary.MaxVarintLen64: the last byte of the     *)
(* longest varint holds a single bit.                                      *)
(***************************************************************************)
EXTENDS Varints, FiniteSetsExt, Functions, SequencesExt

CONSTANTS MaxLen,    \* the length of the longest varint
          HalfElem,  \* half the number of values of an element of a slice of integers
          Inputs,    \* the inputs, sequences of bytes
          Scripts    \* the scripts, sequences of reads [op, n]

Ops == {"uvarint", "varint", "uvarints", "varints", "string", "fixed"}

ASSUME ReadersAssumption ==
    /\ MaxLen \in Nat /\ MaxLen > 2
    /\ HalfElem \in Nat \ {0}
    /\ Half = Place[MaxLen - 1]
    /\ \A s \in Scripts : s \in Seq([op : Ops, n : Nat]) /\ s # <<>>
    /\ \A in \in Inputs : in \in Seq(0 .. 2 * Base - 1)

\* No input is longer than what a stream slices at once, half the largest integer: no address
\* space holds one that is (reader.go:198-202).
ASSUME InputAssumption == \A in \in Inputs : Len(in) <= (Half - 1) \div 2

VARIABLES input,    \* the bytes
          script,   \* the reads
          reader,   \* the reader in use: "slice", then "stream", then "done"
          offset,   \* how many bytes it has consumed
          value,    \* the varint being read, as far as it goes
          digits,   \* how many of its bytes are in value
          need,     \* -1, or the length of the string about to be sliced
          values,   \* what the current read has returned so far
          outcomes  \* for each reader the outcomes of its reads, [ok, values, at]

vars == <<input, script, reader, offset, value, digits, need, values, outcomes>>

Init ==
    /\ input \in Inputs
    /\ script \in Scripts
    /\ reader = "slice"
    /\ offset = 0
    /\ value = 0
    /\ digits = 0
    /\ need = -1
    /\ values = <<>>
    /\ outcomes = [slice |-> <<>>, stream |-> <<>>]

-----------------------------------------------------------------------------
Read == script[Len(outcomes[reader]) + 1]

\* How many values a read returns.
Count(r) == IF r.op \in {"uvarints", "varints"} THEN r.n ELSE 1

\* T(decodeVarint(x)) and T(x) for an element type T narrower than the word.
Narrowed(v, signed) == IF signed THEN ((v + HalfElem) % (2 * HalfElem)) - HalfElem
                                 ELSE v % (2 * HalfElem)

\* What a read returns for the varint x.
VarintValue(op, x) ==
    CASE op = "varint"   -> Unzigzag(x)
      [] op = "uvarints" -> Narrowed(x, FALSE)
      [] op = "varints"  -> Narrowed(Unzigzag(x), TRUE)
      [] OTHER           -> x

-----------------------------------------------------------------------------
\* A read ends at offset o with these values.  An error ends the whole decode.
End(ok, vs, o) ==
    LET n == Len(outcomes[reader]) + 1
        last == ~ok \/ n = Len(script)
    IN  /\ outcomes' = [outcomes EXCEPT ![reader] = Append(@, [ok |-> ok, values |-> vs, at |-> o])]
        /\ reader' = IF ~last THEN reader ELSE IF reader = "slice" THEN "stream" ELSE "done"
        /\ offset' = IF last THEN 0 ELSE o
        /\ value' = 0
        /\ digits' = 0
        /\ need' = -1
        /\ values' = <<>>
        /\ UNCHANGED <<input, script>>

Fail(o) == End(FALSE, values, o)

\* A varint x is read and stands before offset o.
Deliver(x, o) ==
    IF Read.op = "string" /\ x >= Half
    THEN Fail(o)                                \* decodeLength
    ELSE /\ offset' = o
         /\ value' = 0
         /\ digits' = 0
         /\ IF Read.op = "string"
            THEN need' = x /\ values' = values
            ELSE need' = need /\ values' = Append(values, VarintValue(Read.op, x))
         /\ UNCHANGED <<input, script, reader, outcomes>>

\* A byte with the flag is taken in: its digit has its place in the word, or falls out of it.
Accumulate(b) ==
    /\ offset' = offset + 1
    /\ value' = (value + (b % Base) * Place[digits]) % Word
    /\ digits' = digits + 1
    /\ UNCHANGED <<input, script, reader, need, values, outcomes>>

\* A varint is to be read; in is the loop that reads it.
InVarint(in) ==
    /\ reader # "done"
    /\ Read.op # "fixed" /\ need = -1 /\ Len(values) < Count(Read)
    /\ in = IF reader = "stream" THEN "stream"
            ELSE IF Read.op \in {"uvarints", "varints"} THEN "bulk" ELSE "scalar"

Byte == input[offset + 1]
More == offset < Len(input)

-----------------------------------------------------------------------------
(***************************************************************************)
(* sliceReader.ReadUvarint.                                                *)
(***************************************************************************)

ScalarEOF == InVarint("scalar") /\ ~More /\ Fail(offset)

\* Mutant of ScalarOverflows: the bits of the last byte that do not fit are dropped.
ScalarOverflowsLate(b) == b >= Base /\ digits = MaxLen - 1

\* Mutant of ScalarOverflows: nothing ends the loop but a byte without the flag.
ScalarOverflowsNever(b) == b < Base /\ digits = MaxLen - 1 /\ b > 1

\* The shift reaches 63 at the last byte, which holds one bit.
ScalarOverflows(b) ==
    IF b < Base THEN digits = MaxLen - 1 /\ b > 1 ELSE digits = MaxLen - 1

ScalarByte ==
    /\ InVarint("scalar") /\ More
    /\ IF ScalarOverflows(Byte) THEN Fail(offset + 1)
       ELSE IF Byte < Base THEN Deliver(value + Byte * Place[digits], offset + 1)
       ELSE Accumulate(Byte)

-----------------------------------------------------------------------------
(***************************************************************************)
(* readVarints: a loop for values of one and of two bytes, and behind it   *)
(* one for longer ones, which starts with the first digit in place.        *)
(***************************************************************************)

BulkEOF == InVarint("bulk") /\ ~More /\ Fail(offset)

BulkOne == InVarint("bulk") /\ More /\ digits = 0 /\ Byte < Base /\ Deliver(Byte, offset + 1)

\* Is the byte behind the current one there, and the last of its varint?
SecondIsLast == offset + 1 < Len(input) /\ input[offset + 2] < Base

BulkTwo ==
    /\ InVarint("bulk") /\ More /\ digits = 0 /\ Byte >= Base
    /\ SecondIsLast
    /\ Deliver((Byte % Base) + input[offset + 2] * Base, offset + 2)

BulkFirst ==
    /\ InVarint("bulk") /\ More /\ digits = 0 /\ Byte >= Base
    /\ ~SecondIsLast
    /\ Accumulate(Byte)

\* Mutant of BulkOverflows: the loop stops one byte early.
BulkOverflowsEarly(b) ==
    IF b < Base THEN digits = MaxLen - 2 /\ b > 1 ELSE digits = MaxLen - 2

BulkOverflows(b) ==
    IF b < Base THEN digits = MaxLen - 1 /\ b > 1 ELSE digits = MaxLen - 1

BulkNext ==
    /\ InVarint("bulk") /\ More /\ digits > 0
    /\ IF BulkOverflows(Byte) THEN Fail(offset + 1)
       ELSE IF Byte < Base THEN Deliver(value + Byte * Place[digits], offset + 1)
       ELSE Accumulate(Byte)

-----------------------------------------------------------------------------
(***************************************************************************)
(* binary.ReadUvarint, which streamReader calls, also for every value of a *)
(* slice of integers.                                                      *)
(***************************************************************************)

StreamEOF == InVarint("stream") /\ ~More /\ Fail(offset)

StreamByte ==
    /\ InVarint("stream") /\ More
    /\ IF digits = MaxLen - 1 /\ Byte > 1 THEN Fail(offset + 1)
       ELSE IF Byte < Base THEN Deliver(value + Byte * Place[digits], offset + 1)
       ELSE Accumulate(Byte)

-----------------------------------------------------------------------------
(***************************************************************************)
(* Slices of the input: strings behind their length, fixed-width integers. *)
(***************************************************************************)
Wanted == IF Read.op = "fixed" THEN Read.n ELSE need

InSlice(d) == reader = d /\ (Read.op = "fixed" \/ need # -1)

Rest == Len(input) - offset

\* sliceReader.Slice takes all of it or nothing.
SliceSlice ==
    /\ InSlice("slice")
    /\ IF Wanted > Rest THEN Fail(offset)
       ELSE End(TRUE, <<SubSeq(input, offset + 1, offset + Wanted)>>, offset + Wanted)

\* streamReader.Slice takes what there is before it finds that it is too little.
\* Lengths beyond half the largest integer are refused before that.
StreamSlice ==
    /\ InSlice("stream")
    /\ IF Wanted > (Half - 1) \div 2 THEN Fail(offset)
       ELSE IF Wanted > Rest THEN Fail(Len(input))
       ELSE End(TRUE, <<SubSeq(input, offset + 1, offset + Wanted)>>, offset + Wanted)

\* The last value of a read of varints is there.
Return ==
    /\ reader # "done"
    /\ Read.op # "fixed" /\ need = -1 /\ Len(values) = Count(Read)
    /\ End(TRUE, values, offset)

Done == reader = "done" /\ UNCHANGED vars

Next == \/ ScalarEOF \/ ScalarByte
        \/ BulkEOF \/ BulkOne \/ BulkTwo \/ BulkFirst \/ BulkNext
        \/ StreamEOF \/ StreamByte
        \/ SliceSlice \/ StreamSlice
        \/ Return \/ Done

Spec == Init /\ [][Next]_vars

-----------------------------------------------------------------------------
(***************************************************************************)
(* The definition the loops are compared with: the varint behind offset p  *)
(* reaches to the first byte without the flag; it is one if it has at most *)
(* MaxLen bytes and its digits make a word.                                *)
(***************************************************************************)
Varint(p) ==
    LET ends == {k \in p + 1 .. Len(input) : input[k] < Base}
        e    == Min(ends)
        sum  == SumFunction([k \in p + 1 .. e |-> (input[k] % Base) * Place[k - p - 1]])
    IN  IF ends = {} \/ e - p > MaxLen \/ sum >= Word
        THEN [ok |-> FALSE, value |-> 0, at |-> p]
        ELSE [ok |-> TRUE, value |-> sum, at |-> e]

\* n varints behind p, up to the first that is none.
VarintsFrom(op, p, n) ==
    LET read[i \in Nat] ==
            IF i = 0 THEN [ok |-> TRUE, values |-> <<>>, at |-> p]
            ELSE LET before == read[i - 1]
                     next   == Varint(before.at)
                 IN  IF before.ok /\ next.ok
                     THEN [ok |-> TRUE, at |-> next.at,
                           values |-> Append(before.values, VarintValue(op, next.value))]
                     ELSE [before EXCEPT !.ok = FALSE]
    IN  read[n]

\* Where the j-th read of d began.
Start(d, j) == IF j = 1 THEN 0 ELSE outcomes[d][j - 1].at

IsVarintRead(op) == op \in {"uvarint", "varint", "uvarints", "varints"}

\* Every reader is in the middle of a script it has not failed on, and within its input.
TypeOK ==
    /\ reader \in {"slice", "stream", "done"}
    /\ offset \in 0 .. Len(input)
    /\ value \in Uint
    /\ digits \in 0 .. MaxLen - 1
    /\ need \in {-1} \cup 0 .. Half - 1
    /\ Len(values) <= (IF reader = "done" THEN 0 ELSE Count(Read))
    /\ \A d \in DOMAIN outcomes : \A j \in DOMAIN outcomes[d] :
           /\ outcomes[d][j].at \in 0 .. Len(input)
           /\ outcomes[d][j].ok \/ j = Len(outcomes[d])

\* Every varint loop accepts exactly the varints that fit in a word, returns their values and
\* stops behind them, and a slice that fails holds the values before the bad one
\* (reader.go:91-173, codecs.go:616-748).
ReadsVarints ==
    reader = "done" =>
        \A d \in DOMAIN outcomes : \A j \in DOMAIN outcomes[d] :
            IsVarintRead(script[j].op) =>
                LET out == outcomes[d][j]
                    def == VarintsFrom(script[j].op, Start(d, j), Count(script[j]))
                IN  /\ out.ok = def.ok
                    /\ out.values = def.values
                    /\ out.ok => out.at = def.at

\* A stream and a byte slice that hold the same bytes decode the same: the same reads succeed
\* with the same values, and leave the same bytes to the next one (reader.go:82-222).
SameReading ==
    reader = "done" =>
        /\ Len(outcomes.slice) = Len(outcomes.stream)
        /\ \A j \in DOMAIN outcomes.slice :
               LET a == outcomes.slice[j]
                   b == outcomes.stream[j]
               IN  /\ a.ok = b.ok /\ a.values = b.values
                   /\ a.ok \/ IsVarintRead(script[j].op) => a.at = b.at

\* Whatever word the encoder writes, both readers read it back and stop behind it
\* (encoder.go:143-172).
WrittenIsRead ==
    reader = "done" =>
        \A d \in DOMAIN outcomes : \A j \in DOMAIN outcomes[d] :
            LET out  == outcomes[d][j]
                rest == SubSeq(input, Start(d, j) + 1, Len(input))
                Reads(v, written) ==
                    IsPrefix(written, rest) =>
                        out.ok /\ out.values = <<v>> /\ out.at = Start(d, j) + Len(written)
            IN  /\ script[j].op = "uvarint" => \A x \in Uint : Reads(x, WrittenUvarint(x))
                /\ script[j].op = "varint" => \A v \in Signed : Reads(v, WrittenUvarint(Zigzag(v)))

=============================================================================
