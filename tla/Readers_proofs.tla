--------------------------- MODULE Readers_proofs ---------------------------
(***************************************************************************)
(* A byte slice and a stream that hold the same bytes are read alike.      *)
(***************************************************************************)
EXTENDS Readers, Facts_proofs

-----------------------------------------------------------------------------
(***************************************************************************)
(* The places of digits.                                                   *)
(***************************************************************************)

\* Two digits fit in a word.
LEMMA WordHolds ==
    /\ Half \in Nat /\ Word \in Nat /\ Base \in Nat /\ 0 \in Uint
    /\ 1 < Base /\ Base <= Half /\ Base < Word
    /\ Place[1] = Base
<1>1. Place[1] = Base
  <2>1. Place[0 + 1] = Base * Place[0] /\ Place[0] = 1
    BY Places
  <2>2. QED
    BY <2>1, VarintsAssumption
<1> DEFINE T == {d \in Nat : Base <= Place[d + 1]}
<1>2. 0 \in T
  BY <1>1, VarintsAssumption
<1>3. ASSUME NEW d \in Nat, d \in T
      PROVE  d + 1 \in T
  <2>1. Place[(d + 1) + 1] = Base * Place[d + 1] /\ Place[d + 1] \in Nat /\ Base <= Place[d + 1]
    BY <1>3, Places
  <2>2. \A b, q \in Nat : b > 1 /\ b <= q => b <= b * q
    <3>1. SUFFICES ASSUME NEW b \in Nat, NEW q \in Nat, b > 1, b <= q PROVE b <= b * q
      OBVIOUS
    <3>2. b * q = b + b * (q - 1) /\ b * (q - 1) >= 0
      BY <3>1
    <3>3. QED
      BY <3>1, <3>2
  <2>3. QED
    BY <2>1, <2>2, VarintsAssumption
<1>4. Nat \subseteq T
  <2> HIDE DEF T
  <2>1. QED
    BY <1>2, <1>3, InductionBySet
<1>5. MaxLen - 2 \in T /\ (MaxLen - 2) + 1 = MaxLen - 1
  BY <1>4, ReadersAssumption
<1>6. Base <= Half
  BY <1>5, ReadersAssumption
<1>7. QED
  BY <1>1, <1>6, VarintsAssumption DEF Word, Uint

-----------------------------------------------------------------------------
(***************************************************************************)
(* Types, and more than types: a reader that is not done is on a read of   *)
(* its script, all reads before it were good, only a string waits for its  *)
(* bytes, and a value without digits is zero.                              *)
(***************************************************************************)
Names == {"slice", "stream"}
Bytes == 0 .. 2 * Base - 1
Reads == [op : Ops, n : Nat]

\* What a read returns: numbers, or one slice of the input.
Returned == Int \cup Seq(Int)
Outcome  == [ok : BOOLEAN, values : Seq(Returned), at : Nat]

Given == /\ input \in Seq(Bytes) /\ Len(input) <= (Half - 1) \div 2
         /\ script \in Seq(Reads) /\ script # <<>>

Reading == /\ offset \in 0 .. Len(input)
           /\ value \in Uint
           /\ digits \in 0 .. MaxLen - 1
           /\ digits = 0 => value = 0
           /\ need \in {-1} \cup 0 .. Half - 1
           /\ need # -1 => Read.op = "string"
           /\ values \in Seq(Returned)
           /\ Len(values) <= (IF reader = "done" THEN 0 ELSE Count(Read))

Good(d) == \A j \in 1 .. Len(outcomes[d]) : outcomes[d][j].ok

Kept == /\ outcomes \in [Names -> Seq(Outcome)]
        /\ \A d \in Names : \A j \in 1 .. Len(outcomes[d]) :
               /\ outcomes[d][j].at <= Len(input)
               /\ outcomes[d][j].ok \/ j = Len(outcomes[d])

Current == /\ reader \in Names \cup {"done"}
           /\ reader # "done" => Len(outcomes[reader]) < Len(script) /\ Good(reader)
           /\ reader = "slice" => outcomes["stream"] = <<>>

TypeInv == Given /\ Reading /\ Kept /\ Current

\* The read in hand is one of the script's.
LEMMA InHand ==
    ASSUME TypeInv, reader # "done"
    PROVE  /\ reader \in Names
           /\ Len(outcomes[reader]) \in Nat /\ Len(outcomes[reader]) + 1 \in 1 .. Len(script)
           /\ Read \in Reads /\ Read.op \in Ops /\ Read.n \in Nat /\ Count(Read) \in Nat
           /\ Len(input) \in Nat /\ Len(values) \in Nat /\ Len(script) \in Nat
<1>1. /\ reader \in Names /\ Len(outcomes[reader]) < Len(script)
      /\ outcomes[reader] \in Seq(Outcome) /\ script \in Seq(Reads)
      /\ input \in Seq(Bytes) /\ values \in Seq(Returned)
  BY DEF TypeInv, Given, Reading, Kept, Current
<1>2. Len(outcomes[reader]) \in Nat /\ Len(script) \in Nat /\ Len(input) \in Nat /\ Len(values) \in Nat
  BY <1>1, LenProperties
<1>3. Len(outcomes[reader]) + 1 \in 1 .. Len(script)
  BY <1>1, <1>2
<1>4. Read \in Reads
  BY <1>1, <1>3, ElementOfSeq DEF Read
<1>5. Read.op \in Ops /\ Read.n \in Nat
  BY <1>4 DEF Reads
<1>6. Count(Read) \in Nat
  BY <1>5 DEF Count
<1>7. QED
  BY <1>1, <1>2, <1>3, <1>4, <1>5, <1>6

\* The next byte, and what it is worth.
LEMMA NextByte ==
    ASSUME TypeInv, NEW i \in Nat, i < Len(input)
    PROVE  /\ input[i + 1] \in Nat /\ input[i + 1] < 2 * Base
           /\ input[i + 1] % Base \in Nat /\ input[i + 1] % Base < Base
<1>1. input \in Seq(Bytes) /\ Len(input) \in Nat
  BY LenProperties DEF TypeInv, Given
<1>2. input[i + 1] \in Bytes
  BY <1>1, ElementOfSeq
<1>3. Base \in Nat /\ Base > 1
  BY VarintsAssumption
<1>4. \A b \in Nat, m \in Nat : m > 1 => b % m \in Nat /\ b % m < m
  OBVIOUS
<1>5. QED
  BY <1>2, <1>3, <1>4 DEF Bytes

LEMMA ValuesTyped ==
    ASSUME NEW op, NEW x \in Nat
    PROVE  VarintValue(op, x) \in Int
<1>1. HalfElem \in Nat /\ 2 * HalfElem \in Nat /\ 2 * HalfElem > 0
  BY ReadersAssumption
<1>2. \A v \in Int : \A m \in Nat : m > 0 => v % m \in Int
  OBVIOUS
<1>3. Unzigzag(x) \in Int
  BY DEF Unzigzag
<1>4. Narrowed(x, FALSE) \in Int /\ Narrowed(Unzigzag(x), TRUE) \in Int
  <2>1. x \in Int /\ Unzigzag(x) + HalfElem \in Int
    BY <1>1, <1>3
  <2>2. x % (2 * HalfElem) \in Int /\ (Unzigzag(x) + HalfElem) % (2 * HalfElem) \in Int
    BY <1>1, <1>2, <2>1
  <2>3. QED
    BY <1>1, <2>2 DEF Narrowed
<1>5. CASE op \in {"varint", "uvarints", "varints"}
  <2>1. CASE op = "varint"
    BY <1>3, <2>1 DEF VarintValue
  <2>2. CASE op = "uvarints"
    BY <1>4, <2>2 DEF VarintValue
  <2>3. CASE op = "varints"
    BY <1>4, <2>3 DEF VarintValue
  <2>4. QED
    BY <1>5, <2>1, <2>2, <2>3
<1>6. CASE op \notin {"varint", "uvarints", "varints"}
  <2>1. VarintValue(op, x) = x
    BY <1>6 DEF VarintValue
  <2>2. QED
    BY <2>1
<1>7. QED
  BY <1>5, <1>6

\* A read ends.
LEMMA EndTypes ==
    ASSUME TypeInv, reader # "done", NEW ok \in BOOLEAN, NEW vs \in Seq(Returned),
           NEW o \in 0 .. Len(input), End(ok, vs, o)
    PROVE  TypeInv'
<1> DEFINE n == Len(outcomes[reader]) + 1
           out == [ok |-> ok, values |-> vs, at |-> o]
           last == ~ok \/ n = Len(script)
<1>1. /\ reader \in Names /\ n \in 1 .. Len(script) /\ Len(outcomes[reader]) \in Nat
      /\ Len(input) \in Nat /\ Len(script) \in Nat
  BY InHand
<1>2. /\ outcomes' = [outcomes EXCEPT ![reader] = Append(@, out)]
      /\ reader' = IF ~last THEN reader ELSE IF reader = "slice" THEN "stream" ELSE "done"
      /\ offset' = IF last THEN 0 ELSE o
      /\ value' = 0 /\ digits' = 0 /\ need' = -1 /\ values' = <<>>
      /\ input' = input /\ script' = script
  BY DEF End
<1>3. out \in Outcome /\ out.ok = ok /\ out.at = o
  BY <1>1 DEF Outcome
<1>4. outcomes \in [Names -> Seq(Outcome)]
  BY DEF TypeInv, Kept
<1> HIDE DEF out
<1>5. /\ Append(outcomes[reader], out) \in Seq(Outcome)
      /\ Len(Append(outcomes[reader], out)) = n
      /\ Append(outcomes[reader], out)[n] = out
      /\ \A j \in 1 .. Len(outcomes[reader]) : Append(outcomes[reader], out)[j] = outcomes[reader][j]
  BY <1>1, <1>3, <1>4, AppendProperties
<1>6. /\ outcomes' \in [Names -> Seq(Outcome)]
      /\ outcomes'[reader] = Append(outcomes[reader], out)
      /\ \A d \in Names : d # reader => outcomes'[d] = outcomes[d]
  BY <1>1, <1>2, <1>4, <1>5
<1>7. Given'
  BY <1>2 DEF TypeInv, Given
<1>8. Kept'
  <2>1. ASSUME NEW d \in Names, NEW j \in 1 .. Len(outcomes'[d])
        PROVE  /\ outcomes'[d][j].at <= Len(input)
               /\ outcomes'[d][j].ok \/ j = Len(outcomes'[d])
    <3>1. CASE d # reader
      BY <1>6, <3>1 DEF TypeInv, Kept
    <3>2. CASE d = reader /\ j = n
      BY <1>3, <1>5, <1>6, <3>2
    <3>3. CASE d = reader /\ j # n
      <4>1. j \in 1 .. Len(outcomes[reader])
        BY <1>1, <1>5, <1>6, <3>3
      <4>2. outcomes[reader][j].ok /\ outcomes[reader][j].at <= Len(input)
        BY <1>1, <4>1 DEF TypeInv, Kept, Current, Good
      <4>3. QED
        BY <1>5, <1>6, <3>3, <4>1, <4>2
    <3>4. QED
      BY <3>1, <3>2, <3>3
  <2>2. QED
    BY <1>2, <1>6, <2>1 DEF Kept
<1>9. Current'
  <2>1. CASE last /\ reader = "slice"
    <3>1. outcomes'["stream"] = <<>> /\ reader' = "stream"
      BY <1>2, <1>6, <2>1 DEF TypeInv, Current, Names
    <3>2. Len(script) > 0 /\ script' = script /\ Len(<<>>) = 0
      BY <1>1, <1>2
    <3>3. Good("stream")'
      BY <3>1, <3>2 DEF Good
    <3>4. QED
      BY <3>1, <3>2, <3>3 DEF Current, Names
  <2>2. CASE last /\ reader # "slice"
    BY <1>2, <2>2 DEF Current
  <2>3. CASE ~last
    <3>1. n < Len(script) /\ ok
      BY <1>1, <2>3
    <3>2. \A j \in 1 .. n : outcomes'[reader][j].ok
      <4>1. ASSUME NEW j \in 1 .. n PROVE outcomes'[reader][j].ok
        <5>1. CASE j = n
          BY <1>3, <1>5, <1>6, <3>1, <5>1
        <5>2. CASE j # n
          <6>1. j \in 1 .. Len(outcomes[reader])
            BY <1>1, <5>2
          <6>2. outcomes[reader][j].ok
            BY <1>1, <6>1 DEF TypeInv, Current, Good
          <6>3. QED
            BY <1>5, <1>6, <6>1, <6>2
        <5>3. QED
          BY <5>1, <5>2
      <4>2. QED
        BY <4>1
    <3>3. reader = "slice" => outcomes'["stream"] = <<>>
      BY <1>6 DEF TypeInv, Current, Names
    <3>4. QED
      BY <1>1, <1>2, <1>5, <1>6, <2>3, <3>1, <3>2, <3>3 DEF Current, Good
  <2>4. QED
    BY <2>1, <2>2, <2>3
<1>10. Reading'
  <2>1. 0 \in Uint /\ 0 \in 0 .. MaxLen - 1 /\ <<>> \in Seq(Returned) /\ Len(<<>>) = 0
    BY WordHolds, ReadersAssumption DEF Uint
  <2>2. offset' \in 0 .. Len(input)
    BY <1>1, <1>2
  <2>3. reader' # "done" => Count(Read)' \in Nat
    <3>1. SUFFICES ASSUME reader' # "done" PROVE Count(Read)' \in Nat
      OBVIOUS
    <3>2. reader' \in Names /\ Len(outcomes'[reader']) < Len(script)
      BY <1>2, <1>9, <3>1 DEF Current
    <3>3. Len(outcomes'[reader']) \in Nat /\ script \in Seq(Reads)
      BY <1>6, <3>2, LenProperties DEF TypeInv, Given
    <3>4. Len(outcomes'[reader']) + 1 \in 1 .. Len(script)
      BY <1>1, <3>2, <3>3
    <3>5. script[Len(outcomes'[reader']) + 1] \in Reads
      BY <3>3, <3>4, ElementOfSeq
    <3>6. QED
      BY <1>2, <3>5 DEF Count, Read, Reads
  <2>4. Len(values') <= (IF reader' = "done" THEN 0 ELSE Count(Read)')
    BY <1>2, <2>1, <2>3
  <2>5. QED
    BY <1>2, <2>1, <2>2, <2>4 DEF Reading
<1>11. QED
  BY <1>7, <1>8, <1>9, <1>10 DEF TypeInv

LEMMA FailTypes ==
    ASSUME TypeInv, reader # "done", NEW o \in 0 .. Len(input), Fail(o)
    PROVE  TypeInv'
<1>1. values \in Seq(Returned)
  BY DEF TypeInv, Reading
<1>2. QED
  BY <1>1, EndTypes DEF Fail

\* A read goes on.
LEMMA GoesOn ==
    ASSUME TypeInv, UNCHANGED <<input, script, reader, outcomes>>, Reading'
    PROVE  TypeInv'
<1>1. Given' /\ Kept' /\ Current'
  BY DEF TypeInv, Given, Kept, Current, Good
<1>2. QED
  BY <1>1 DEF TypeInv

LEMMA DeliverTypes ==
    ASSUME TypeInv, reader # "done", Len(values) < Count(Read),
           NEW x \in Nat, NEW o \in 0 .. Len(input), Deliver(x, o)
    PROVE  TypeInv'
<1>1. CASE Read.op = "string" /\ x >= Half
  BY <1>1, FailTypes DEF Deliver
<1>2. CASE ~(Read.op = "string" /\ x >= Half)
  <2>1. /\ offset' = o /\ value' = 0 /\ digits' = 0
        /\ IF Read.op = "string" THEN need' = x /\ values' = values
           ELSE need' = need /\ values' = Append(values, VarintValue(Read.op, x))
        /\ UNCHANGED <<input, script, reader, outcomes>>
    BY <1>2 DEF Deliver
  <2>2. values \in Seq(Returned) /\ Len(values) \in Nat /\ Count(Read) \in Nat
    BY InHand DEF TypeInv, Reading
  <2>3. VarintValue(Read.op, x) \in Returned
    BY ValuesTyped DEF Returned
  <2>4. /\ Append(values, VarintValue(Read.op, x)) \in Seq(Returned)
        /\ Len(Append(values, VarintValue(Read.op, x))) = Len(values) + 1
    BY <2>2, <2>3, AppendProperties
  <2>5. values' \in Seq(Returned) /\ Len(values') <= Count(Read)
    BY <2>1, <2>2, <2>4
  <2>6. need' \in {-1} \cup 0 .. Half - 1
    <3>1. need \in {-1} \cup 0 .. Half - 1 /\ Half \in Nat
      BY WordHolds DEF TypeInv, Reading
    <3>2. CASE Read.op = "string"
      BY <1>2, <2>1, <3>1, <3>2
    <3>3. CASE Read.op # "string"
      BY <2>1, <3>1, <3>3
    <3>4. QED
      BY <3>2, <3>3
  <2>7. 0 \in Uint /\ 0 \in 0 .. MaxLen - 1
    BY WordHolds, ReadersAssumption DEF Uint
  <2>8. Count(Read)' = Count(Read) /\ Read' = Read /\ reader' = reader /\ input' = input
    BY <2>1 DEF Read, Count
  <2>9. need' # -1 => Read.op = "string"
    BY <2>1 DEF TypeInv, Reading
  <2>10. Reading'
    BY <2>1, <2>5, <2>6, <2>7, <2>8, <2>9 DEF Reading
  <2>11. QED
    BY <2>1, <2>10, GoesOn
<1>3. QED
  BY <1>1, <1>2

LEMMA AccumulateTypes ==
    ASSUME TypeInv, reader # "done", offset < Len(input), digits < MaxLen - 1,
           NEW b \in Nat, Accumulate(b)
    PROVE  TypeInv'
<1>1. /\ offset \in Nat /\ Len(input) \in Nat /\ value \in Nat /\ digits \in Nat
      /\ MaxLen \in Nat
  BY InHand, WordHolds, ReadersAssumption DEF TypeInv, Reading, Uint
<1>2. /\ offset' = offset + 1 /\ digits' = digits + 1
      /\ value' = (value + (b % Base) * Place[digits]) % Word
      /\ UNCHANGED <<input, script, reader, need, values, outcomes>>
  BY DEF Accumulate
<1>3. value' \in Uint
  <2>1. b % Base \in Nat /\ Place[digits] \in Nat
    <3>1. \A u, v \in Nat : v > 1 => u % v \in Nat
      OBVIOUS
    <3>2. QED
      BY <1>1, <3>1, Places, WordHolds
  <2>2. \A u, v, w \in Nat : u + v * w \in Nat
    OBVIOUS
  <2>3. value + (b % Base) * Place[digits] \in Nat
    BY <1>1, <2>1, <2>2
  <2>4. \A u, w \in Nat : w > 0 => u % w \in 0 .. w - 1
    OBVIOUS
  <2>5. Word \in Nat /\ Word > 0
    BY WordHolds, VarintsAssumption
  <2>6. QED
    BY <1>2, <2>3, <2>4, <2>5 DEF Uint
<1>4. digits' \in 0 .. MaxLen - 1 /\ digits' # 0 /\ offset' \in 0 .. Len(input)
  BY <1>1, <1>2
<1>5. Count(Read)' = Count(Read) /\ Read' = Read
  BY <1>2 DEF Read, Count
<1>6. Reading'
  BY <1>2, <1>3, <1>4, <1>5 DEF TypeInv, Reading
<1>7. QED
  BY <1>2, <1>6, GoesOn

-----------------------------------------------------------------------------
(***************************************************************************)
(* All loops are one: byte by byte, except that BulkTwo takes two at once. *)
(***************************************************************************)
InLoop == reader # "done" /\ Read.op # "fixed" /\ need = -1 /\ Len(values) < Count(Read)

LoopStep ==
    IF digits = MaxLen - 1 /\ Byte > 1 THEN Fail(offset + 1)
    ELSE IF Byte < Base THEN Deliver(value + Byte * Place[digits], offset + 1)
    ELSE Accumulate(Byte)

LEMMA OneLoop ==
    ASSUME TypeInv, ScalarByte \/ BulkOne \/ BulkFirst \/ BulkNext \/ StreamByte
    PROVE  InLoop /\ More /\ LoopStep
<1>1. InLoop /\ More
  BY DEF ScalarByte, BulkOne, BulkFirst, BulkNext, StreamByte, InVarint, InLoop
<1>2. Byte \in Nat /\ offset \in Nat /\ digits \in 0 .. MaxLen - 1
  BY <1>1, NextByte DEF TypeInv, Reading, More, Byte
<1>3. Base \in Nat /\ Base > 1 /\ MaxLen > 2 /\ MaxLen \in Nat
  BY WordHolds, ReadersAssumption
<1>4. /\ ScalarOverflows(Byte) <=> digits = MaxLen - 1 /\ Byte > 1
      /\ BulkOverflows(Byte) <=> digits = MaxLen - 1 /\ Byte > 1
  <2>1. Byte >= Base => Byte > 1
    BY <1>2, <1>3
  <2>2. CASE Byte < Base
    BY <2>2 DEF ScalarOverflows, BulkOverflows
  <2>3. CASE ~(Byte < Base)
    <3>1. Byte > 1
      BY <1>2, <1>3, <2>3
    <3>2. QED
      BY <2>3, <3>1 DEF ScalarOverflows, BulkOverflows
  <2>4. QED
    BY <2>2, <2>3
<1>5. CASE ScalarByte
  BY Zenon, <1>1, <1>4, <1>5 DEF ScalarByte, LoopStep
<1>6. CASE BulkNext
  BY Zenon, <1>1, <1>4, <1>6 DEF BulkNext, LoopStep
<1>7. CASE StreamByte
  BY Zenon, <1>1, <1>7 DEF StreamByte, LoopStep
<1>8. CASE BulkOne
  <2>1. digits = 0 /\ Byte < Base /\ Deliver(Byte, offset + 1)
    BY <1>8 DEF BulkOne
  <2>2. value = 0 /\ digits # MaxLen - 1
    BY <1>3, <2>1 DEF TypeInv, Reading
  <2>3. value + Byte * Place[digits] = Byte
    <3>1. Place[digits] = 1
      BY <2>1, Places
    <3>2. QED
      BY <1>2, <2>2, <3>1
  <2>4. QED
    BY <1>1, <2>1, <2>2, <2>3 DEF LoopStep
<1>9. CASE BulkFirst
  <2>1. digits = 0 /\ Byte >= Base /\ Accumulate(Byte)
    BY <1>9 DEF BulkFirst
  <2>2. digits # MaxLen - 1 /\ ~(Byte < Base)
    BY <1>2, <1>3, <2>1
  <2>3. QED
    BY <1>1, <2>1, <2>2 DEF LoopStep
<1>10. QED
  BY <1>1, <1>5, <1>6, <1>7, <1>8, <1>9

\* Every loop finds the end of the input alike.
LEMMA OneEOF ==
    ASSUME ScalarEOF \/ BulkEOF \/ StreamEOF
    PROVE  InLoop /\ ~More /\ Fail(offset)
  BY DEF ScalarEOF, BulkEOF, StreamEOF, InVarint, InLoop

\* Two bytes at once.
Both == (Byte % Base) + input[offset + 2] * Base

LEMMA TwoBytes ==
    ASSUME TypeInv, BulkTwo
    PROVE  /\ InLoop /\ More /\ digits = 0 /\ value = 0
           /\ Byte >= Base /\ input[offset + 2] < Base /\ offset + 1 < Len(input)
           /\ Read.op # "string"
           /\ Byte \in Nat /\ input[offset + 2] \in Nat /\ Both \in Nat
           /\ Deliver(Both, offset + 2)
<1>1. /\ InLoop /\ More /\ digits = 0 /\ Byte >= Base /\ SecondIsLast
      /\ Deliver(Both, offset + 2) /\ Read.op # "string"
  <2>1. InVarint("bulk") => Read.op \in {"uvarints", "varints"}
    BY DEF InVarint
  <2>2. QED
    BY <2>1 DEF BulkTwo, InVarint, InLoop, Both
<1>2. value = 0 /\ offset \in Nat /\ Len(input) \in Nat
  BY <1>1, InHand DEF TypeInv, Reading, InLoop
<1>3. input[offset + 2] < Base /\ offset + 1 < Len(input)
  BY <1>1 DEF SecondIsLast
<1>4. Byte \in Nat /\ Byte % Base \in Nat
  BY <1>1, <1>2, NextByte DEF More, Byte
<1>5. input[(offset + 1) + 1] \in Nat
  <2>1. offset + 1 \in Nat
    BY <1>2
  <2>2. QED
    BY <1>3, <2>1, NextByte
<1>6. (offset + 1) + 1 = offset + 2
  BY <1>2
<1>7. \A u, v, w \in Nat : u + v * w \in Nat
  OBVIOUS
<1>8. input[offset + 2] \in Nat /\ Both \in Nat
  BY <1>4, <1>5, <1>6, <1>7, WordHolds DEF Both
<1>9. QED
  BY <1>1, <1>2, <1>3, <1>4, <1>8

-----------------------------------------------------------------------------
LEMMA LoopTypes ==
    ASSUME TypeInv, InLoop, More, LoopStep
    PROVE  TypeInv'
<1>1. /\ offset \in Nat /\ Len(input) \in Nat /\ value \in Nat /\ digits \in 0 .. MaxLen - 1
      /\ MaxLen \in Nat /\ Byte \in Nat /\ Place[digits] \in Nat
      /\ reader # "done" /\ Len(values) < Count(Read) /\ offset < Len(input)
  <2>1. digits \in 0 .. MaxLen - 1 /\ MaxLen \in Nat
    BY ReadersAssumption DEF TypeInv, Reading
  <2>2. Place[digits] \in Nat
    BY <2>1, Places
  <2>3. Byte \in Nat
    BY NextByte DEF TypeInv, Reading, More, Byte
  <2>4. QED
    BY <2>1, <2>2, <2>3, InHand, WordHolds DEF InLoop, More, TypeInv, Reading, Uint
<1>2. offset + 1 \in 0 .. Len(input)
  BY <1>1
<1>3. CASE digits = MaxLen - 1 /\ Byte > 1
  BY <1>1, <1>2, <1>3, FailTypes DEF LoopStep
<1>4. CASE ~(digits = MaxLen - 1 /\ Byte > 1) /\ Byte < Base
  <2>1. \A u, v, w \in Nat : u + v * w \in Nat
    OBVIOUS
  <2>2. value + Byte * Place[digits] \in Nat
    BY <1>1, <2>1
  <2>3. Deliver(value + Byte * Place[digits], offset + 1)
    BY <1>4 DEF LoopStep
  <2>4. QED
    BY <1>1, <1>2, <2>2, <2>3, DeliverTypes
<1>5. CASE ~(digits = MaxLen - 1 /\ Byte > 1) /\ ~(Byte < Base)
  <2>1. digits < MaxLen - 1
    BY <1>1, <1>5, WordHolds
  <2>2. Accumulate(Byte)
    BY <1>5 DEF LoopStep
  <2>3. QED
    BY <1>1, <2>1, <2>2, AccumulateTypes
<1>6. QED
  BY <1>3, <1>4, <1>5

\* A slice of the input that is there.
LEMMA SliceThere ==
    ASSUME TypeInv, reader # "done", Read.op = "fixed" \/ need # -1
    PROVE  /\ Wanted \in Nat /\ offset \in Nat /\ Rest \in Nat /\ Len(input) \in Nat
           /\ offset <= Len(input) /\ Rest = Len(input) - offset
           /\ Wanted <= Rest => /\ offset + Wanted \in 0 .. Len(input)
                                /\ <<SubSeq(input, offset + 1, offset + Wanted)>> \in Seq(Returned)
<1>1. /\ offset \in Nat /\ Len(input) \in Nat /\ offset <= Len(input)
      /\ input \in Seq(Bytes)
  BY InHand DEF TypeInv, Given, Reading
<1>2. Wanted \in Nat
  <2>1. need # -1 => need \in Nat
    BY WordHolds DEF TypeInv, Reading
  <2>2. QED
    BY <2>1, InHand DEF Wanted
<1>3. Rest \in Nat /\ Rest = Len(input) - offset
  BY <1>1 DEF Rest
<1>4. ASSUME Wanted <= Rest
      PROVE  offset + Wanted \in 0 .. Len(input)
  BY <1>1, <1>2, <1>3, <1>4
<1>5. ASSUME Wanted <= Rest
      PROVE  <<SubSeq(input, offset + 1, offset + Wanted)>> \in Seq(Returned)
  <2>1. \A i \in offset + 1 .. offset + Wanted : input[i] \in Int
    <3>1. ASSUME NEW i \in offset + 1 .. offset + Wanted
          PROVE  input[i] \in Int
      <4>1. i \in 1 .. Len(input)
        BY <1>1, <1>2, <1>4, <1>5
      <4>2. input[i] \in Bytes
        BY <1>1, <4>1, ElementOfSeq
      <4>3. QED
        BY <4>2, WordHolds DEF Bytes
    <3>2. QED
      BY <3>1
  <2>2. offset + 1 \in Int /\ offset + Wanted \in Int
    BY <1>1, <1>2
  <2>3. SubSeq(input, offset + 1, offset + Wanted) \in Seq(Int)
    BY <2>1, <2>2, SubSeqProperties
  <2>4. SubSeq(input, offset + 1, offset + Wanted) \in Returned
    BY <2>3 DEF Returned
  <2>5. \A r \in Returned : <<r>> \in Seq(Returned)
    OBVIOUS
  <2>6. QED
    BY <2>4, <2>5
<1>6. QED
  BY <1>1, <1>2, <1>3, <1>4, <1>5

LEMMA SliceTypes ==
    ASSUME TypeInv, SliceSlice \/ StreamSlice
    PROVE  TypeInv'
<1>1. reader # "done" /\ (Read.op = "fixed" \/ need # -1)
  BY DEF SliceSlice, StreamSlice, InSlice
<1> DEFINE s == <<SubSeq(input, offset + 1, offset + Wanted)>>
<1>2. \/ \E o \in {offset, Len(input)} : Fail(o)
      \/ ~(Wanted > Rest) /\ End(TRUE, s, offset + Wanted)
  BY DEF SliceSlice, StreamSlice
<1>3. CASE \E o \in {offset, Len(input)} : Fail(o)
  <2>1. offset \in 0 .. Len(input) /\ Len(input) \in 0 .. Len(input)
    BY <1>1, SliceThere
  <2>2. QED
    BY <1>1, <1>3, <2>1, FailTypes
<1>4. CASE ~(Wanted > Rest) /\ End(TRUE, s, offset + Wanted)
  <2>1. Wanted <= Rest
    BY <1>1, <1>4, SliceThere
  <2>2. offset + Wanted \in 0 .. Len(input) /\ s \in Seq(Returned)
    BY <1>1, <2>1, SliceThere
  <2> HIDE DEF s
  <2>3. QED
    BY <1>1, <1>4, <2>2, EndTypes
<1>5. QED
  BY <1>2, <1>3, <1>4

LEMMA InitTypes == Init => TypeInv
<1> SUFFICES ASSUME Init PROVE TypeInv
  OBVIOUS
<1>1. Given
  BY ReadersAssumption, InputAssumption DEF Init, Given, Bytes, Reads
<1>2. Len(input) \in Nat /\ Len(script) \in Nat /\ script \in Seq(Reads) /\ script # <<>>
  BY <1>1, LenProperties DEF Given
<1>3. outcomes["slice"] = <<>> /\ outcomes["stream"] = <<>> /\ outcomes \in [Names -> Seq(Outcome)]
  <2>1. outcomes = [slice |-> <<>>, stream |-> <<>>]
    BY DEF Init
  <2>2. outcomes = [d \in Names |-> <<>>]
    BY <2>1 DEF Names
  <2>3. <<>> \in Seq(Outcome)
    OBVIOUS
  <2>4. QED
    BY <2>2, <2>3 DEF Names
<1>4. Kept
  BY <1>3 DEF Kept, Names
<1>5. Len(script) > 0
  BY <1>2, EmptySeq
<1>6. Current
  BY <1>3, <1>5 DEF Init, Current, Names, Good
<1>7. Count(Read) \in Nat
  <2>1. Read = script[1] /\ 1 \in 1 .. Len(script)
    BY <1>2, <1>3, <1>5 DEF Init, Read
  <2>2. Read \in Reads
    BY <1>2, <2>1, ElementOfSeq
  <2>3. QED
    BY <2>2 DEF Count, Reads
<1>8. Reading
  BY <1>2, <1>7, WordHolds, ReadersAssumption DEF Init, Reading
<1>9. QED
  BY <1>1, <1>4, <1>6, <1>8 DEF TypeInv

LEMMA NextTypes == TypeInv /\ [Next]_vars => TypeInv'
<1> SUFFICES ASSUME TypeInv, [Next]_vars PROVE TypeInv'
  OBVIOUS
<1>1. CASE ScalarEOF \/ BulkEOF \/ StreamEOF
  <2>1. reader # "done" /\ offset \in 0 .. Len(input) /\ Fail(offset)
    BY <1>1, OneEOF DEF TypeInv, Reading, InLoop
  <2>2. QED
    BY <2>1, FailTypes
<1>2. CASE ScalarByte \/ BulkOne \/ BulkFirst \/ BulkNext \/ StreamByte
  BY <1>2, OneLoop, LoopTypes
<1>3. CASE BulkTwo
  <2>1. InLoop /\ Both \in Nat /\ offset + 1 < Len(input) /\ Deliver(Both, offset + 2)
    BY <1>3, TwoBytes
  <2>2. offset \in Nat /\ Len(input) \in Nat
    BY <2>1, InHand DEF TypeInv, Reading, InLoop
  <2>3. offset + 2 \in 0 .. Len(input)
    BY <2>1, <2>2
  <2>4. QED
    BY <2>1, <2>3, DeliverTypes DEF InLoop
<1>4. CASE SliceSlice \/ StreamSlice
  BY <1>4, SliceTypes
<1>5. CASE Return
  <2>1. reader # "done" /\ End(TRUE, values, offset)
    BY <1>5 DEF Return
  <2>2. QED
    BY <2>1, EndTypes DEF TypeInv, Reading
<1>6. CASE UNCHANGED vars
  <2>1. UNCHANGED <<input, script, reader, outcomes>> /\ Reading'
    BY <1>6 DEF vars, TypeInv, Reading, Count, Read
  <2>2. QED
    BY <2>1, GoesOn
<1>7. QED
  BY <1>1, <1>2, <1>3, <1>4, <1>5, <1>6 DEF Next, Done

\* A reader stays within its input and its script, whatever the bytes, and no varint loop takes
\* more than MaxLen bytes (reader.go:82-173, codecs.go:616-748).
THEOREM ReaderTypes == Spec => []TypeOK
<1>1. TypeInv => TypeOK
  <2> SUFFICES ASSUME TypeInv PROVE TypeOK
    OBVIOUS
  <2>1. DOMAIN outcomes = Names /\ \A d \in Names : DOMAIN outcomes[d] = 1 .. Len(outcomes[d])
    BY LenProperties DEF TypeInv, Kept
  <2>2. ASSUME NEW d \in Names, NEW j \in 1 .. Len(outcomes[d])
        PROVE  outcomes[d][j].at \in 0 .. Len(input)
    <3>1. outcomes[d][j] \in Outcome
      BY ElementOfSeq DEF TypeInv, Kept
    <3>2. outcomes[d][j].at \in Nat /\ outcomes[d][j].at <= Len(input) /\ Len(input) \in Nat
      BY <3>1, LenProperties DEF TypeInv, Kept, Given, Outcome
    <3>3. QED
      BY <3>2
  <2>3. QED
    BY <2>1, <2>2 DEF TypeInv, Reading, Kept, Current, Names, TypeOK
<1>2. QED
  BY <1>1, InitTypes, NextTypes, PTL DEF Spec

-----------------------------------------------------------------------------
(***************************************************************************)
(* The same reading.  What a reader has done so far is a configuration,    *)
(* and Step the one way to go on from it: what a byte stream does, one     *)
(* byte or one slice after the other.  Both readers follow the same steps  *)
(* from the same beginning.  Of a failed slice of bytes the configuration  *)
(* forgets where it was given up: there the readers differ.                *)
(***************************************************************************)
Normal(op, out) == [ok |-> out.ok, values |-> out.values,
                    at |-> IF out.ok \/ IsVarintRead(op) THEN out.at ELSE 0]

Seen(s, outs) == [j \in 1 .. Len(outs) |-> Normal(s[j].op, outs[j])]

Conf == [at |-> offset, value |-> value, digits |-> digits, need |-> need, values |-> values,
         outs |-> Seen(script, outcomes[reader]), over |-> FALSE]

Begun == [at |-> 0, value |-> 0, digits |-> 0, need |-> -1, values |-> <<>>, outs |-> <<>>, over |-> FALSE]

Ended(s, c, ok, vs, at) ==
    LET n    == Len(c.outs) + 1
        last == ~ok \/ n = Len(s)
    IN  [at |-> IF last THEN 0 ELSE at, value |-> 0, digits |-> 0, need |-> -1, values |-> <<>>,
         outs |-> Append(c.outs, Normal(s[n].op, [ok |-> ok, values |-> vs, at |-> at])), over |-> last]

Delivered(s, c, x, at) ==
    LET op == s[Len(c.outs) + 1].op
    IN  IF op = "string" /\ x >= Half THEN Ended(s, c, FALSE, c.values, at)
        ELSE [at |-> at, value |-> 0, digits |-> 0,
              need |-> IF op = "string" THEN x ELSE c.need,
              values |-> IF op = "string" THEN c.values ELSE Append(c.values, VarintValue(op, x)),
              outs |-> c.outs, over |-> FALSE]

Accumulated(c, b) == [at |-> c.at + 1, value |-> (c.value + (b % Base) * Place[c.digits]) % Word,
                      digits |-> c.digits + 1, need |-> c.need, values |-> c.values,
                      outs |-> c.outs, over |-> FALSE]

SliceTaken(in, s, c, wanted) ==
    IF wanted > Len(in) - c.at THEN Ended(s, c, FALSE, c.values, c.at)
    ELSE Ended(s, c, TRUE, <<SubSeq(in, c.at + 1, c.at + wanted)>>, c.at + wanted)

ByteTaken(s, c, b) ==
    IF c.digits = MaxLen - 1 /\ b > 1 THEN Ended(s, c, FALSE, c.values, c.at + 1)
    ELSE IF b < Base THEN Delivered(s, c, c.value + b * Place[c.digits], c.at + 1)
    ELSE Accumulated(c, b)

Step(in, s, c) ==
    LET r == s[Len(c.outs) + 1]
    IN  IF r.op = "fixed" \/ c.need # -1
        THEN SliceTaken(in, s, c, IF r.op = "fixed" THEN r.n ELSE c.need)
        ELSE IF ~(Len(c.values) < Count(r)) THEN Ended(s, c, TRUE, c.values, c.at)
        ELSE IF ~(c.at < Len(in)) THEN Ended(s, c, FALSE, c.values, c.at)
        ELSE ByteTaken(s, c, in[c.at + 1])

\* The reader goes to the configuration c, and on to the next reader if that is the end.
Moves(c) ==
    /\ input' = input /\ script' = script
    /\ \A d \in Names : d # reader => outcomes'[d] = outcomes[d]
    /\ c.over => /\ reader' = IF reader = "slice" THEN "stream" ELSE "done"
                 /\ Seen(script, outcomes'[reader]) = c.outs
                 /\ reader = "slice" => Conf' = Begun
    /\ ~c.over => reader' = reader /\ Conf' = c

\* Reads keep their number and their order.
LEMMA SeenTyped ==
    ASSUME NEW s, NEW outs \in Seq(Outcome)
    PROVE  /\ Seen(s, outs) \in Seq(Outcome) /\ Len(Seen(s, outs)) = Len(outs)
           /\ \A j \in 1 .. Len(outs) : Seen(s, outs)[j] = Normal(s[j].op, outs[j])
<1>1. Len(outs) \in Nat /\ \A j \in 1 .. Len(outs) : outs[j] \in Outcome
  BY LenProperties, ElementOfSeq
<1>2. ASSUME NEW o \in Outcome, NEW op
      PROVE  Normal(op, o) \in Outcome
  BY DEF Outcome, Normal
<1>3. \A j \in 1 .. Len(outs) : Normal(s[j].op, outs[j]) \in Outcome
  BY <1>1, <1>2
<1>4. Seen(s, outs) = [j \in 1 .. Len(outs) |-> Normal(s[j].op, outs[j])]
  BY DEF Seen
<1> HIDE DEF Seen, Normal
<1>5. Seen(s, outs) \in [1 .. Len(outs) -> Outcome]
  BY <1>3, <1>4
<1>6. Seen(s, outs) \in Seq(Outcome) /\ Len(Seen(s, outs)) = Len(outs)
  BY <1>1, <1>5, LenProperties, SeqDef
<1>7. QED
  BY <1>4, <1>6

LEMMA ConfIs ==
    ASSUME TypeInv, reader # "done"
    PROVE  /\ Conf.at = offset /\ Conf.value = value /\ Conf.digits = digits /\ Conf.need = need
           /\ Conf.values = values /\ Conf.outs = Seen(script, outcomes[reader]) /\ Conf.over = FALSE
           /\ Len(Conf.outs) = Len(outcomes[reader])
           /\ script[Len(Conf.outs) + 1] = Read
           /\ Conf.outs \in Seq(Outcome)
<1>1. outcomes[reader] \in Seq(Outcome)
  BY InHand DEF TypeInv, Kept
<1>2. Seen(script, outcomes[reader]) \in Seq(Outcome)
      /\ Len(Seen(script, outcomes[reader])) = Len(outcomes[reader])
  BY <1>1, SeenTyped
<1>3. QED
  BY <1>2 DEF Conf, Read

\* The end of a read.  Only where a slice of bytes was given up does not matter.
LEMMA EndMoves ==
    ASSUME TypeInv, reader # "done", NEW ok \in BOOLEAN, NEW vs \in Seq(Returned),
           NEW o \in 0 .. Len(input), NEW p,
           ok \/ IsVarintRead(Read.op) => p = o, End(ok, vs, o)
    PROVE  Moves(Ended(script, Conf, ok, vs, p))
<1> DEFINE n == Len(outcomes[reader]) + 1
           out == [ok |-> ok, values |-> vs, at |-> o]
           last == ~ok \/ n = Len(script)
           seen == Seen(script, outcomes[reader])
           c == Ended(script, Conf, ok, vs, p)
<1>1. /\ reader \in Names /\ Len(outcomes[reader]) \in Nat /\ Len(input) \in Nat
      /\ outcomes \in [Names -> Seq(Outcome)] /\ Read = script[n]
  BY InHand DEF TypeInv, Kept, Read
<1>2. /\ outcomes' = [outcomes EXCEPT ![reader] = Append(@, out)]
      /\ reader' = IF ~last THEN reader ELSE IF reader = "slice" THEN "stream" ELSE "done"
      /\ offset' = IF last THEN 0 ELSE o
      /\ value' = 0 /\ digits' = 0 /\ need' = -1 /\ values' = <<>>
      /\ input' = input /\ script' = script
  BY DEF End
<1>3. out \in Outcome
  BY <1>1 DEF Outcome
<1>4. Normal(Read.op, [ok |-> ok, values |-> vs, at |-> p]) = Normal(Read.op, out)
  BY DEF Normal
<1>5. c = [at |-> IF last THEN 0 ELSE p, value |-> 0, digits |-> 0, need |-> -1, values |-> <<>>,
           outs |-> Append(seen, Normal(Read.op, out)), over |-> last]
  BY <1>1, <1>4, ConfIs DEF Ended
<1> HIDE DEF out, c
<1>6. /\ outcomes'[reader] = Append(outcomes[reader], out)
      /\ \A d \in Names : d # reader => outcomes'[d] = outcomes[d]
  BY <1>1, <1>2
<1>7. Seen(script, Append(outcomes[reader], out)) = Append(seen, Normal(Read.op, out))
  <2> DEFINE longer == Append(outcomes[reader], out)
             e == Normal(Read.op, out)
  <2>1. outcomes[reader] \in Seq(Outcome)
    BY <1>1
  <2>2. /\ longer \in Seq(Outcome) /\ Len(longer) = n /\ longer[n] = out
        /\ \A j \in 1 .. Len(outcomes[reader]) : longer[j] = outcomes[reader][j]
    BY <1>1, <1>3, <2>1, AppendProperties
  <2> HIDE DEF longer
  <2>3. /\ Seen(script, longer) \in Seq(Outcome) /\ Len(Seen(script, longer)) = n
        /\ \A j \in 1 .. n : Seen(script, longer)[j] = Normal(script[j].op, longer[j])
    BY <2>2, SeenTyped
  <2>4. /\ seen \in Seq(Outcome) /\ Len(seen) = Len(outcomes[reader])
        /\ \A j \in 1 .. Len(outcomes[reader]) : seen[j] = Normal(script[j].op, outcomes[reader][j])
    BY <2>1, SeenTyped
  <2> HIDE DEF seen
  <2>5. e \in Outcome /\ e = Normal(script[n].op, out)
    <3>1. Seen(script, longer)[n] \in Outcome
      BY <1>1, <2>3, ElementOfSeq
    <3>2. n \in 1 .. n
      BY <1>1
    <3>3. QED
      BY <1>1, <2>2, <2>3, <3>1, <3>2
  <2> HIDE DEF e
  <2>6. /\ Append(seen, e) \in Seq(Outcome) /\ Len(Append(seen, e)) = n /\ Append(seen, e)[n] = e
        /\ \A j \in 1 .. Len(outcomes[reader]) : Append(seen, e)[j] = seen[j]
    BY <1>1, <2>4, <2>5, AppendProperties
  <2>7. ASSUME NEW j \in 1 .. n
        PROVE  Seen(script, longer)[j] = Append(seen, e)[j]
    <3>1. CASE j = n
      BY <2>2, <2>3, <2>5, <2>6, <3>1
    <3>2. CASE j # n
      <4>1. j \in 1 .. Len(outcomes[reader])
        BY <1>1, <3>2
      <4>2. QED
        BY <2>2, <2>3, <2>4, <2>6, <4>1
    <3>3. QED
      BY <3>1, <3>2
  <2>8. Seen(script, longer) = Append(seen, e)
    BY <2>3, <2>6, <2>7, SeqEqual
  <2>9. QED
    BY <2>8 DEF longer, e
<1>8. c.over = last /\ c.outs = Seen(script, outcomes'[reader])
  BY <1>5, <1>6, <1>7
<1>9. CASE last
  <2>1. ASSUME reader = "slice" PROVE Conf' = Begun
    <3>1. outcomes'["stream"] = <<>> /\ reader' = "stream"
      BY <1>2, <1>6, <1>9, <2>1 DEF TypeInv, Current, Names
    <3>2. Seen(script', <<>>) = <<>>
      BY DEF Seen
    <3>3. QED
      BY <1>2, <1>9, <3>1, <3>2 DEF Conf, Begun
  <2>2. QED
    BY <1>2, <1>6, <1>8, <1>9, <2>1 DEF Moves, c
<1>10. CASE ~last
  <2>1. ok /\ p = o
    BY <1>10
  <2>2. Conf' = c
    BY <1>2, <1>5, <1>6, <1>7, <1>10, <2>1 DEF Conf
  <2>3. QED
    BY <1>2, <1>6, <1>8, <1>10, <2>2 DEF Moves, c
<1>11. QED
  BY <1>9, <1>10

LEMMA FailMoves ==
    ASSUME TypeInv, reader # "done", NEW o \in 0 .. Len(input), NEW p,
           IsVarintRead(Read.op) => p = o, Fail(o)
    PROVE  Moves(Ended(script, Conf, FALSE, values, p))
<1>1. values \in Seq(Returned)
  BY DEF TypeInv, Reading
<1>2. End(FALSE, values, o)
  BY DEF Fail
<1>3. QED
  BY <1>1, <1>2, EndMoves

\* A varint is there.
LEMMA DeliverMoves ==
    ASSUME TypeInv, reader # "done", NEW x \in Nat, NEW o \in 0 .. Len(input), Deliver(x, o)
    PROVE  Moves(Delivered(script, Conf, x, o))
<1>1. script[Len(Conf.outs) + 1].op = Read.op /\ Conf.values = values /\ Conf.need = need
      /\ Conf.outs = Seen(script, outcomes[reader])
  BY ConfIs
<1>2. CASE Read.op = "string" /\ x >= Half
  <2>1. Fail(o)
    BY <1>2 DEF Deliver
  <2>2. Moves(Ended(script, Conf, FALSE, values, o))
    BY <2>1, FailMoves
  <2>3. Delivered(script, Conf, x, o) = Ended(script, Conf, FALSE, values, o)
    BY <1>1, <1>2 DEF Delivered
  <2>4. QED
    BY <2>2, <2>3
<1>3. CASE ~(Read.op = "string" /\ x >= Half)
  <2>1. /\ offset' = o /\ value' = 0 /\ digits' = 0
        /\ need' = IF Read.op = "string" THEN x ELSE need
        /\ values' = IF Read.op = "string" THEN values ELSE Append(values, VarintValue(Read.op, x))
        /\ UNCHANGED <<input, script, reader, outcomes>>
    BY <1>3 DEF Deliver
  <2> DEFINE c == Delivered(script, Conf, x, o)
  <2>2. c = [at |-> o, value |-> 0, digits |-> 0,
             need |-> IF Read.op = "string" THEN x ELSE need,
             values |-> IF Read.op = "string" THEN values ELSE Append(values, VarintValue(Read.op, x)),
             outs |-> Seen(script, outcomes[reader]), over |-> FALSE]
    BY <1>1, <1>3 DEF Delivered
  <2> HIDE DEF c
  <2>3. Conf' = c /\ ~c.over
    BY <2>1, <2>2 DEF Conf
  <2>4. Moves(c)
    BY <2>1, <2>3 DEF Moves
  <2>5. QED
    BY <2>4 DEF c
<1>4. QED
  BY <1>2, <1>3

LEMMA AccumulateMoves ==
    ASSUME TypeInv, reader # "done", NEW b, Accumulate(b)
    PROVE  Moves(Accumulated(Conf, b))
<1> DEFINE c == Accumulated(Conf, b)
<1>1. c = [at |-> offset + 1, value |-> (value + (b % Base) * Place[digits]) % Word,
           digits |-> digits + 1, need |-> need, values |-> values,
           outs |-> Seen(script, outcomes[reader]), over |-> FALSE]
  BY ConfIs DEF Accumulated
<1> HIDE DEF c
<1>2. Conf' = c /\ ~c.over
  BY <1>1 DEF Conf, Accumulate
<1>3. Moves(c)
  BY <1>2 DEF Moves, Accumulate
<1>4. QED
  BY <1>3 DEF c

\* Where Step goes from a reader's configuration.
LEMMA StepIs ==
    ASSUME TypeInv, reader # "done"
    PROVE  /\ Read.op = "fixed" \/ need # -1 =>
                Step(input, script, Conf) = SliceTaken(input, script, Conf, Wanted)
           /\ Read.op # "fixed" /\ need = -1 /\ ~(Len(values) < Count(Read)) =>
                Step(input, script, Conf) = Ended(script, Conf, TRUE, values, offset)
           /\ InLoop /\ ~More =>
                Step(input, script, Conf) = Ended(script, Conf, FALSE, values, offset)
           /\ InLoop /\ More =>
                Step(input, script, Conf) = ByteTaken(script, Conf, Byte)
<1>1. /\ script[Len(Conf.outs) + 1] = Read /\ Conf.need = need /\ Conf.values = values
      /\ Conf.at = offset
  BY ConfIs
<1>2. QED
  BY <1>1 DEF Step, InLoop, More, Byte, Wanted

LEMMA LoopMoves ==
    ASSUME TypeInv, InLoop, More, LoopStep
    PROVE  Moves(Step(input, script, Conf))
<1>1. /\ reader # "done" /\ offset \in Nat /\ value \in Nat /\ digits \in Nat /\ Byte \in Nat
      /\ offset + 1 \in 0 .. Len(input) /\ Place[digits] \in Nat
  <2>1. reader # "done" /\ offset \in Nat /\ value \in Nat /\ digits \in Nat
    BY WordHolds, ReadersAssumption DEF InLoop, TypeInv, Reading, Uint
  <2>2. offset < Len(input) /\ Len(input) \in Nat
    BY <2>1, InHand DEF More
  <2>3. Byte \in Nat
    BY <2>1, <2>2, NextByte DEF Byte
  <2>4. Place[digits] \in Nat
    BY <2>1, Places
  <2>5. QED
    BY <2>1, <2>2, <2>3, <2>4
<1>2. Step(input, script, Conf) = ByteTaken(script, Conf, Byte)
  BY <1>1, StepIs
<1>3. Conf.at = offset /\ Conf.value = value /\ Conf.digits = digits /\ Conf.values = values
  BY <1>1, ConfIs
<1>4. CASE digits = MaxLen - 1 /\ Byte > 1
  <2>1. Fail(offset + 1)
    BY <1>4 DEF LoopStep
  <2>2. Moves(Ended(script, Conf, FALSE, values, offset + 1))
    BY <1>1, <2>1, FailMoves
  <2>3. ByteTaken(script, Conf, Byte) = Ended(script, Conf, FALSE, values, offset + 1)
    BY <1>3, <1>4 DEF ByteTaken
  <2>4. QED
    BY <1>2, <2>2, <2>3
<1>5. CASE ~(digits = MaxLen - 1 /\ Byte > 1) /\ Byte < Base
  <2> DEFINE x == value + Byte * Place[digits]
  <2>1. \A u, v, w \in Nat : u + v * w \in Nat
    OBVIOUS
  <2>2. x \in Nat
    BY <1>1, <2>1
  <2>3. Deliver(x, offset + 1)
    BY <1>5 DEF LoopStep
  <2>4. ByteTaken(script, Conf, Byte) = Delivered(script, Conf, x, offset + 1)
    BY <1>3, <1>5 DEF ByteTaken
  <2> HIDE DEF x
  <2>5. Moves(Delivered(script, Conf, x, offset + 1))
    BY <1>1, <2>2, <2>3, DeliverMoves
  <2>6. QED
    BY <1>2, <2>4, <2>5
<1>6. CASE ~(digits = MaxLen - 1 /\ Byte > 1) /\ ~(Byte < Base)
  <2>1. Accumulate(Byte)
    BY <1>6 DEF LoopStep
  <2>2. ByteTaken(script, Conf, Byte) = Accumulated(Conf, Byte)
    BY <1>3, <1>6 DEF ByteTaken
  <2>3. QED
    BY <1>1, <1>2, <2>1, <2>2, AccumulateMoves
<1>7. QED
  BY <1>4, <1>5, <1>6

\* A stream refuses a slice at once that is longer than any input.
LEMMA SliceMoves ==
    ASSUME TypeInv, SliceSlice \/ StreamSlice
    PROVE  Moves(Step(input, script, Conf))
<1>1. reader # "done" /\ (Read.op = "fixed" \/ need # -1)
  BY DEF SliceSlice, StreamSlice, InSlice
<1>2. ~IsVarintRead(Read.op)
  BY <1>1 DEF TypeInv, Reading, IsVarintRead
<1>3. /\ Step(input, script, Conf) = SliceTaken(input, script, Conf, Wanted)
      /\ Conf.at = offset /\ Conf.values = values
  BY <1>1, StepIs, ConfIs
<1>4. /\ Wanted \in Nat /\ offset \in Nat /\ Rest \in Nat /\ Len(input) \in Nat
      /\ offset <= Len(input) /\ Rest = Len(input) - offset
  BY <1>1, SliceThere
<1>5. Wanted > (Half - 1) \div 2 => Wanted > Rest
  <2>1. Len(input) <= (Half - 1) \div 2 /\ (Half - 1) \div 2 \in Int
    BY VarintsAssumption DEF TypeInv, Given
  <2>2. QED
    BY <1>4, <2>1
<1>6. CASE Wanted > Rest
  <2>1. PICK o \in {offset, Len(input)} : Fail(o)
    BY <1>6 DEF SliceSlice, StreamSlice
  <2>2. o \in 0 .. Len(input)
    BY <1>4, <2>1
  <2>3. Moves(Ended(script, Conf, FALSE, values, offset))
    BY <1>1, <1>2, <2>1, <2>2, FailMoves
  <2>4. SliceTaken(input, script, Conf, Wanted) = Ended(script, Conf, FALSE, values, offset)
    BY <1>3, <1>4, <1>6 DEF SliceTaken
  <2>5. QED
    BY <1>3, <2>3, <2>4
<1>7. CASE ~(Wanted > Rest)
  <2> DEFINE s == <<SubSeq(input, offset + 1, offset + Wanted)>>
  <2>1. End(TRUE, s, offset + Wanted)
    BY <1>5, <1>7 DEF SliceSlice, StreamSlice
  <2>2. offset + Wanted \in 0 .. Len(input) /\ s \in Seq(Returned)
    BY <1>1, <1>4, <1>7, SliceThere
  <2>3. SliceTaken(input, script, Conf, Wanted) = Ended(script, Conf, TRUE, s, offset + Wanted)
    BY <1>3, <1>4, <1>7 DEF SliceTaken
  <2> HIDE DEF s
  <2>4. Moves(Ended(script, Conf, TRUE, s, offset + Wanted))
    BY <1>1, <2>1, <2>2, EndMoves
  <2>5. QED
    BY <1>3, <2>3, <2>4
<1>8. QED
  BY <1>6, <1>7

\* Every action but one is a step.
LEMMA OneMoves ==
    ASSUME TypeInv, Next, ~BulkTwo, reader # "done"
    PROVE  Moves(Step(input, script, Conf))
<1>1. CASE ScalarEOF \/ BulkEOF \/ StreamEOF
  <2>1. InLoop /\ ~More /\ Fail(offset) /\ offset \in 0 .. Len(input)
    BY <1>1, OneEOF DEF TypeInv, Reading
  <2>2. Moves(Ended(script, Conf, FALSE, values, offset))
    BY <2>1, FailMoves
  <2>3. QED
    BY <2>1, <2>2, StepIs
<1>2. CASE ScalarByte \/ BulkOne \/ BulkFirst \/ BulkNext \/ StreamByte
  BY <1>2, OneLoop, LoopMoves
<1>3. CASE SliceSlice \/ StreamSlice
  BY <1>3, SliceMoves
<1>4. CASE Return
  <2>1. /\ Read.op # "fixed" /\ need = -1 /\ Len(values) = Count(Read)
        /\ End(TRUE, values, offset)
    BY <1>4 DEF Return
  <2>2. ~(Len(values) < Count(Read))
    BY <2>1, InHand
  <2>3. values \in Seq(Returned) /\ offset \in 0 .. Len(input)
    BY DEF TypeInv, Reading
  <2>4. Moves(Ended(script, Conf, TRUE, values, offset))
    BY <2>1, <2>3, EndMoves
  <2>5. QED
    BY <2>1, <2>2, <2>4, StepIs
<1>5. QED
  BY <1>1, <1>2, <1>3, <1>4 DEF Next, Done

\* The varint of two bytes that is read at once is read in two steps otherwise.
LEMMA TwoMoves ==
    ASSUME TypeInv, BulkTwo
    PROVE  /\ ~Step(input, script, Conf).over
           /\ Moves(Step(input, script, Step(input, script, Conf)))
<1> DEFINE second == input[offset + 2]
           mid == Accumulated(Conf, Byte)
<1>1. /\ InLoop /\ More /\ digits = 0 /\ value = 0 /\ Byte >= Base /\ second < Base
      /\ offset + 1 < Len(input) /\ Read.op # "string" /\ Byte \in Nat /\ second \in Nat
      /\ Both \in Nat /\ Deliver(Both, offset + 2) /\ reader # "done"
  BY TwoBytes DEF InLoop
<1>2. /\ Conf.at = offset /\ Conf.value = 0 /\ Conf.digits = 0 /\ Conf.need = -1
      /\ Conf.values = values /\ script[Len(Conf.outs) + 1] = Read
  BY <1>1, ConfIs DEF InLoop
<1>3. MaxLen > 2 /\ MaxLen \in Nat
  BY ReadersAssumption
<1>4. Step(input, script, Conf) = mid
  <2>1. Step(input, script, Conf) = ByteTaken(script, Conf, Byte)
    BY <1>1, StepIs
  <2>2. ~(Conf.digits = MaxLen - 1) /\ ~(Byte < Base)
    BY <1>1, <1>2, <1>3, WordHolds
  <2>3. QED
    BY <2>1, <2>2 DEF ByteTaken
<1>5. (Byte % Base) \in Nat /\ Byte % Base < Base
  <2>1. \A u, v \in Nat : v > 1 => u % v \in Nat /\ u % v < v
    OBVIOUS
  <2>2. QED
    BY <1>1, <2>1, WordHolds
<1>6. (0 + (Byte % Base) * Place[0]) % Word = Byte % Base
  <2>1. \A u, w \in Nat : u < w => u % w = u
    OBVIOUS
  <2>2. Place[0] = 1
    BY Places
  <2>3. 0 + (Byte % Base) * Place[0] = Byte % Base
    BY <1>5, <2>2
  <2>4. Byte % Base < Word
    BY <1>5, WordHolds
  <2>5. QED
    BY <1>5, <2>1, <2>3, <2>4, WordHolds
<1>7. /\ mid.at = offset + 1 /\ mid.value = Byte % Base /\ mid.digits = 1 /\ mid.need = -1
      /\ mid.values = values /\ mid.outs = Conf.outs /\ mid.over = FALSE
  BY <1>2, <1>6 DEF Accumulated
<1> HIDE DEF mid
<1>8. Step(input, script, mid) = ByteTaken(script, mid, second)
  <2>1. offset \in Nat /\ Len(input) \in Nat
    BY <1>1, InHand DEF TypeInv, Reading
  <2>2. (offset + 1) + 1 = offset + 2
    BY <2>1
  <2>3. Read.op # "fixed" /\ Len(values) < Count(Read)
    BY <1>1 DEF InLoop
  <2>4. QED
    BY <1>1, <1>2, <1>7, <2>2, <2>3 DEF Step
<1>9. ByteTaken(script, mid, second) = Delivered(script, mid, Both, offset + 2)
  <2>1. ~(mid.digits = MaxLen - 1)
    BY <1>3, <1>7
  <2>2. mid.value + second * Place[mid.digits] = Both
    BY <1>7, WordHolds DEF Both
  <2>3. mid.at + 1 = offset + 2
    BY <1>1, <1>7 DEF TypeInv, Reading
  <2>4. QED
    BY <1>1, <2>1, <2>2, <2>3 DEF ByteTaken
<1>10. Delivered(script, mid, Both, offset + 2) = Delivered(script, Conf, Both, offset + 2)
  BY <1>1, <1>2, <1>7 DEF Delivered
<1>11. Moves(Delivered(script, Conf, Both, offset + 2))
  <2>1. offset \in Nat /\ Len(input) \in Nat
    BY <1>1, InHand DEF TypeInv, Reading
  <2>2. offset + 2 \in 0 .. Len(input)
    BY <1>1, <2>1
  <2>3. QED
    BY <1>1, <2>2, DeliverMoves
<1>12. QED
  BY <1>4, <1>7, <1>8, <1>9, <1>10, <1>11

-----------------------------------------------------------------------------
(***************************************************************************)
(* The run of steps from the beginning that both readers follow.           *)
(***************************************************************************)
RunTo(in, s, run, n) ==
    /\ run[0] = Begun
    /\ \A i \in 0 .. n - 1 : ~run[i].over /\ run[i + 1] = Step(in, s, run[i])

\* The byte slice has come to the end of the run; the stream is somewhere on it.
Along(run, n) ==
    /\ reader = "slice" => run[n] = Conf
    /\ reader # "slice" => run[n].over /\ run[n].outs = Seen(script, outcomes["slice"])
    /\ reader = "stream" => \E m \in 0 .. n : run[m] = Conf
    /\ reader = "done" => Seen(script, outcomes["stream"]) = run[n].outs

SameRun == \E n \in Nat : \E run : RunTo(input, script, run, n) /\ Along(run, n)

LEMMA OneMore ==
    ASSUME NEW in, NEW s, NEW run, NEW n \in Nat, RunTo(in, s, run, n), ~run[n].over
    PROVE  \E longer : RunTo(in, s, longer, n + 1) /\ longer[n + 1] = Step(in, s, run[n])
<1> DEFINE longer == [i \in 0 .. n + 1 |-> IF i = n + 1 THEN Step(in, s, run[n]) ELSE run[i]]
<1>1. longer[n + 1] = Step(in, s, run[n]) /\ \A i \in 0 .. n : longer[i] = run[i]
  OBVIOUS
<1> HIDE DEF longer
<1>2. ASSUME NEW i \in 0 .. (n + 1) - 1
      PROVE  ~longer[i].over /\ longer[i + 1] = Step(in, s, longer[i])
  <2>1. CASE i = n
    BY <1>1, <2>1
  <2>2. CASE i # n
    <3>1. i \in 0 .. n - 1 /\ i \in 0 .. n /\ i + 1 \in 0 .. n
      BY <2>2
    <3>2. ~run[i].over /\ run[i + 1] = Step(in, s, run[i])
      BY <3>1 DEF RunTo
    <3>3. QED
      BY <1>1, <3>1, <3>2
  <2>3. QED
    BY <2>1, <2>2
<1>3. longer[0] = Begun
  BY <1>1 DEF RunTo
<1>4. RunTo(in, s, longer, n + 1)
  BY <1>2, <1>3 DEF RunTo
<1>5. QED
  BY <1>1, <1>4

\* The byte slice makes the run longer.
LEMMA SliceArrives ==
    ASSUME reader = "slice", NEW n \in Nat, NEW run, RunTo(input, script, run, n), Moves(run[n])
    PROVE  SameRun'
<1>1. input' = input /\ script' = script
  BY DEF Moves
<1>2. CASE run[n].over
  <2>1. /\ reader' = "stream" /\ Seen(script, outcomes'["slice"]) = run[n].outs
        /\ Conf' = Begun
    BY <1>2 DEF Moves
  <2>2. run[0] = Conf' /\ 0 \in 0 .. n
    BY <2>1 DEF RunTo
  <2>3. Along(run, n)'
    BY <1>1, <1>2, <2>1, <2>2 DEF Along
  <2>4. QED
    BY <1>1, <2>3 DEF SameRun
<1>3. CASE ~run[n].over
  <2>1. reader' = "slice" /\ Conf' = run[n]
    BY <1>3 DEF Moves
  <2>2. Along(run, n)'
    BY <2>1 DEF Along
  <2>3. QED
    BY <1>1, <2>2 DEF SameRun
<1>4. QED
  BY <1>2, <1>3

\* The stream goes one step further on it.
LEMMA StreamArrives ==
    ASSUME reader = "stream", Conf.over = FALSE, SameRun, Moves(Step(input, script, Conf))
    PROVE  SameRun'
<1> DEFINE c == Step(input, script, Conf)
<1>1. /\ input' = input /\ script' = script /\ outcomes'["slice"] = outcomes["slice"]
  BY DEF Moves, Names
<1>2. PICK n \in Nat : \E run : RunTo(input, script, run, n) /\ Along(run, n)
  BY DEF SameRun
<1>3. PICK run : RunTo(input, script, run, n) /\ Along(run, n)
  BY <1>2
<1>4. PICK m \in 0 .. n : run[m] = Conf
  BY <1>3 DEF Along
<1>5. run[n].over /\ run[n].outs = Seen(script, outcomes["slice"])
  BY <1>3 DEF Along
<1>6. m \in 0 .. n - 1
  BY <1>4, <1>5
<1>7. run[m + 1] = c /\ m + 1 \in 0 .. n
  BY <1>3, <1>4, <1>6 DEF RunTo
<1> HIDE DEF c
<1>8. CASE c.over
  <2>1. m + 1 = n
    <3>1. SUFFICES ASSUME m + 1 # n PROVE FALSE
      OBVIOUS
    <3>2. m + 1 \in 0 .. n - 1
      BY <1>6, <3>1
    <3>3. ~run[m + 1].over
      BY <1>3, <3>2 DEF RunTo
    <3>4. QED
      BY <1>7, <1>8, <3>3
  <2>2. reader' = "done" /\ Seen(script, outcomes'["stream"]) = c.outs
    BY <1>8 DEF Moves, c
  <2>3. Along(run, n)'
    BY <1>1, <1>5, <1>7, <2>1, <2>2 DEF Along
  <2>4. QED
    BY <1>1, <1>3, <2>3 DEF SameRun
<1>9. CASE ~c.over
  <2>1. reader' = "stream" /\ Conf' = c
    BY <1>9 DEF Moves, c
  <2>2. Along(run, n)'
    BY <1>1, <1>5, <1>7, <2>1 DEF Along
  <2>3. QED
    BY <1>1, <1>3, <2>2 DEF SameRun
<1>10. QED
  BY <1>8, <1>9

LEMMA InitRun == Init => SameRun
<1> SUFFICES ASSUME Init PROVE SameRun
  OBVIOUS
<1> DEFINE run == [i \in 0 .. 0 |-> Begun]
<1>1. RunTo(input, script, run, 0)
  BY DEF RunTo
<1>2. Conf = Begun
  <2>1. Seen(script, <<>>) = <<>>
    BY DEF Seen
  <2>2. outcomes[reader] = <<>>
    BY DEF Init
  <2>3. QED
    BY <2>1, <2>2 DEF Init, Conf, Begun
<1>3. Along(run, 0)
  BY <1>2 DEF Init, Along
<1> HIDE DEF run
<1>4. QED
  BY <1>1, <1>3 DEF SameRun

LEMMA NextRun == TypeInv /\ SameRun /\ [Next]_vars => SameRun'
<1> SUFFICES ASSUME TypeInv, SameRun, [Next]_vars PROVE SameRun'
  OBVIOUS
<1>1. CASE UNCHANGED vars
  BY <1>1 DEF vars, SameRun, Along, Conf
<1>2. CASE Next /\ reader = "slice"
  <2>1. PICK n \in Nat : \E run : RunTo(input, script, run, n) /\ Along(run, n)
    BY DEF SameRun
  <2>2. PICK run : RunTo(input, script, run, n) /\ Along(run, n)
    BY <2>1
  <2>3. run[n] = Conf /\ ~run[n].over /\ reader # "done"
    BY <1>2, <2>2, ConfIs DEF Along
  <2>4. PICK one : RunTo(input, script, one, n + 1) /\ one[n + 1] = Step(input, script, Conf)
    BY <2>2, <2>3, OneMore
  <2>5. CASE BulkTwo
    <3>1. ~one[n + 1].over /\ Moves(Step(input, script, one[n + 1]))
      BY <2>4, <2>5, TwoMoves
    <3>2. n + 1 \in Nat
      OBVIOUS
    <3>3. PICK two : /\ RunTo(input, script, two, (n + 1) + 1)
                     /\ two[(n + 1) + 1] = Step(input, script, one[n + 1])
      BY <2>4, <3>1, <3>2, OneMore
    <3>4. (n + 1) + 1 \in Nat
      OBVIOUS
    <3>5. Moves(two[(n + 1) + 1])
      BY <3>1, <3>3
    <3>6. QED
      BY <1>2, <3>3, <3>4, <3>5, SliceArrives
  <2>6. CASE ~BulkTwo
    <3>1. Moves(one[n + 1])
      BY <1>2, <2>3, <2>4, <2>6, OneMoves
    <3>2. n + 1 \in Nat
      OBVIOUS
    <3>3. QED
      BY <1>2, <2>4, <3>1, <3>2, SliceArrives
  <2>7. QED
    BY <2>5, <2>6
<1>3. CASE Next /\ reader = "stream"
  <2>1. ~BulkTwo /\ reader # "done"
    BY <1>3 DEF BulkTwo, InVarint
  <2>2. Moves(Step(input, script, Conf))
    BY <1>3, <2>1, OneMoves
  <2>3. Conf.over = FALSE
    BY <2>1, ConfIs
  <2>4. QED
    BY <1>3, <2>2, <2>3, StreamArrives
<1>4. CASE Next /\ reader = "done"
  <2>1. UNCHANGED vars
    BY <1>4 DEF Next, ScalarEOF, ScalarByte, BulkEOF, BulkOne, BulkTwo, BulkFirst, BulkNext,
                StreamEOF, StreamByte, InVarint, SliceSlice, StreamSlice, InSlice, Return, Done
  <2>2. QED
    BY <1>1, <2>1
<1>5. QED
  BY <1>1, <1>2, <1>3, <1>4 DEF TypeInv, Current, Names

\* For every input and every sequence of reads a stream and a byte slice that hold the same bytes
\* decode the same and leave the same bytes behind: the two varint loops of the slice reader, with
\* their shortcuts for one and two bytes, are the one loop of streams (reader.go:82-222,
\* codecs.go:640-748).
THEOREM ReadersAgree == Spec => []SameReading
<1>1. TypeInv /\ SameRun => SameReading
  <2> SUFFICES ASSUME TypeInv, SameRun, reader = "done" PROVE SameReading
    BY DEF SameReading
  <2> DEFINE a == outcomes["slice"]
             b == outcomes["stream"]
  <2>1. Seen(script, a) = Seen(script, b)
    BY DEF SameRun, Along
  <2>2. a \in Seq(Outcome) /\ b \in Seq(Outcome)
    BY DEF TypeInv, Kept, Names
  <2> HIDE DEF a, b
  <2>3. /\ Len(Seen(script, a)) = Len(a) /\ Len(Seen(script, b)) = Len(b)
        /\ \A j \in 1 .. Len(a) : Seen(script, a)[j] = Normal(script[j].op, a[j])
        /\ \A j \in 1 .. Len(b) : Seen(script, b)[j] = Normal(script[j].op, b[j])
    BY <2>2, SeenTyped
  <2>4. Len(a) = Len(b) /\ DOMAIN a = 1 .. Len(a)
    BY <2>1, <2>2, <2>3, LenProperties
  <2>5. ASSUME NEW j \in 1 .. Len(a)
        PROVE  /\ a[j].ok = b[j].ok /\ a[j].values = b[j].values
               /\ a[j].ok \/ IsVarintRead(script[j].op) => a[j].at = b[j].at
    <3>1. Normal(script[j].op, a[j]) = Normal(script[j].op, b[j])
      BY <2>1, <2>3, <2>4
    <3>2. QED
      BY <3>1 DEF Normal
  <2>6. QED
    BY <2>4, <2>5 DEF SameReading, a, b
<1>2. Init => TypeInv /\ SameRun
  BY InitTypes, InitRun
<1>3. (TypeInv /\ SameRun) /\ [Next]_vars => (TypeInv /\ SameRun)'
  BY NextTypes, NextRun
<1>4. QED
  BY <1>1, <1>2, <1>3, PTL DEF Spec

-----------------------------------------------------------------------------
(***************************************************************************)
(* What the loops read is what a varint is: the definition Varint, which   *)
(* sums up the digits.                                                     *)
(***************************************************************************)
Sum(p, e) == SumIn(input, p, e)

\* All bytes behind p up to o have the flag.
Flagged(p, o) == FlaggedIn(input, p, o)

LEMMA InputGiven == TypeInv => input \in Seq(Nat)
<1> SUFFICES ASSUME TypeInv PROVE input \in Seq(Nat)
  OBVIOUS
<1>1. input \in Seq(Bytes) /\ Bytes \subseteq Nat
  BY DEF TypeInv, Given, Bytes
<1>2. \A i \in 1 .. Len(input) : input[i] \in Nat
  BY <1>1, ElementOfSeq
<1>3. QED
  BY <1>1, <1>2

LEMMA SumNone ==
    ASSUME NEW p \in Nat
    PROVE  Sum(p, p) = 0
  BY SumNoneIn DEF Sum

LEMMA SumMore ==
    ASSUME TypeInv, NEW p \in Nat, NEW o \in Nat, p <= o, o < Len(input)
    PROVE  /\ Sum(p, o) \in Nat /\ Sum(p, o + 1) \in Nat
           /\ Sum(p, o + 1) = Sum(p, o) + (input[o + 1] % Base) * Place[o - p]
  BY InputGiven, SumMoreIn DEF Sum

\* Digits before a place do not fill it.
LEMMA SumSmall ==
    ASSUME TypeInv, NEW p \in Nat, NEW n \in Nat, p + n <= Len(input)
    PROVE  Sum(p, p + n) \in Nat /\ Sum(p, p + n) < Place[n]
  BY InputGiven, SumSmallIn DEF Sum

\* Where the varint behind p ends, if it does.
Ends(p) == {k \in p + 1 .. Len(input) : input[k] < Base}

NoVarint(p) == [ok |-> FALSE, value |-> 0, at |-> p]

LEMMA VarintIs ==
    ASSUME NEW p
    PROVE  Varint(p) = IF Ends(p) = {} \/ Min(Ends(p)) - p > MaxLen \/ Sum(p, Min(Ends(p))) >= Word
                       THEN NoVarint(p)
                       ELSE [ok |-> TRUE, value |-> Sum(p, Min(Ends(p))), at |-> Min(Ends(p))]
  BY DEF Varint, Ends, Sum, SumIn, DigitsIn, NoVarint

\* Bytes with the flag to the end of the input, or too many of them.
LEMMA Endless ==
    ASSUME TypeInv, NEW p \in Nat, NEW o \in Nat, Flagged(p, o), o >= Len(input) \/ o - p >= MaxLen
    PROVE  Varint(p) = NoVarint(p)
<1>1. Len(input) \in Nat /\ MaxLen \in Nat
  BY ReadersAssumption, LenProperties DEF TypeInv, Given
<1>2. CASE Ends(p) = {}
  BY <1>2, VarintIs
<1>3. CASE Ends(p) # {}
  <2>1. \A k \in Ends(p) : k \in Nat /\ k > o
    <3>1. ASSUME NEW k \in Ends(p)
          PROVE  k \in Nat /\ k > o
      <4>1. k \in p + 1 .. Len(input) /\ input[k] < Base
        BY DEF Ends
      <4>2. k - 1 \in Nat /\ k - 1 < Len(input) /\ (k - 1) + 1 = k
        BY <1>1, <4>1
      <4>3. input[k] \in Nat
        <5>1. input[(k - 1) + 1] \in Nat
          BY <4>2, NextByte
        <5>2. QED
          BY <4>2, <5>1
      <4>4. ~(input[k] >= Base)
        BY <4>1, <4>3, WordHolds
      <4>5. QED
        BY <4>1, <4>4 DEF Flagged, FlaggedIn
    <3>2. QED
      BY <3>1
  <2>2. Min(Ends(p)) \in Ends(p)
    <3>1. Ends(p) \in SUBSET Nat /\ Ends(p) # {}
      BY <1>3, <2>1
    <3>2. \E n \in Ends(p) : \A m \in Ends(p) : n <= m
      BY <3>1, LeastNatural
    <3>3. QED
      BY <3>2 DEF Min
  <2>3. Min(Ends(p)) \in p + 1 .. Len(input) /\ Min(Ends(p)) > o
    BY <2>1, <2>2 DEF Ends
  <2>4. Min(Ends(p)) - p > MaxLen
    BY <1>1, <2>3
  <2>5. QED
    BY <2>4, VarintIs
<1>4. QED
  BY <1>2, <1>3

\* A byte without the flag behind bytes with it.
LEMMA EndFound ==
    ASSUME TypeInv, NEW p \in Nat, NEW o \in Nat, p <= o, o < Len(input), Flagged(p, o),
           input[o + 1] < Base
    PROVE  Ends(p) # {} /\ Min(Ends(p)) = o + 1
<1>1. Len(input) \in Nat
  BY LenProperties DEF TypeInv, Given
<1>2. o + 1 \in Ends(p)
  BY <1>1 DEF Ends
<1>3. \A k \in Ends(p) : k \in Nat /\ o + 1 <= k
  <2>1. ASSUME NEW k \in Ends(p)
        PROVE  k \in Nat /\ o + 1 <= k
    <3>1. k \in p + 1 .. Len(input) /\ input[k] < Base
      BY DEF Ends
    <3>2. k - 1 \in Nat /\ k - 1 < Len(input) /\ (k - 1) + 1 = k
      BY <1>1, <3>1
    <3>3. input[k] \in Nat
      <4>1. input[(k - 1) + 1] \in Nat
        BY <3>2, NextByte
      <4>2. QED
        BY <3>2, <4>1
    <3>4. ~(input[k] >= Base)
      BY <3>1, <3>3, WordHolds
    <3>5. QED
      BY <3>1, <3>4 DEF Flagged, FlaggedIn
  <2>2. QED
    BY <2>1
<1>4. \A x \in Ends(p) : (\A y \in Ends(p) : x <= y) => x = o + 1
  BY <1>2, <1>3
<1>5. QED
  BY <1>2, <1>3, <1>4 DEF Min

\* The loops stop with a value where the definition has one.
LEMMA VarintFound ==
    ASSUME TypeInv, NEW p \in Nat, NEW o \in Nat, p <= o, o < Len(input), Flagged(p, o),
           input[o + 1] < Base, o - p < MaxLen - 1 \/ (o - p = MaxLen - 1 /\ ~(input[o + 1] > 1))
    PROVE  Varint(p) = [ok |-> TRUE, value |-> Sum(p, o) + input[o + 1] * Place[o - p], at |-> o + 1]
<1> DEFINE b == input[o + 1]
           d == o - p
<1>1. MaxLen \in Nat /\ MaxLen > 2 /\ Half = Place[MaxLen - 1] /\ Half \in Nat /\ Word = 2 * Half
  BY ReadersAssumption, WordHolds DEF Word
<1>2. b \in Nat /\ b < Base /\ b % Base = b
  <2>1. b \in Nat /\ b < Base
    BY NextByte
  <2>2. \A u, v \in Nat : u < v => u % v = u
    OBVIOUS
  <2>3. QED
    BY <2>1, <2>2, WordHolds
<1>3. d \in Nat /\ d <= MaxLen - 1 /\ p + d = o /\ p + d <= Len(input) /\ Len(input) \in Nat
  BY <1>1, LenProperties DEF TypeInv, Given
<1>4. Sum(p, o) \in Nat /\ Sum(p, o) < Place[d] /\ Place[d] \in Nat
  BY <1>3, SumSmall, Places
<1>5. Sum(p, o + 1) = Sum(p, o) + b * Place[d]
  BY <1>2, SumMore
<1>6. Ends(p) # {} /\ Min(Ends(p)) = o + 1
  BY EndFound
<1> HIDE DEF b
<1>7. Sum(p, o) + b * Place[d] < Word
  <2>1. \A s, q, c, m \in Nat : s < q /\ c < m => s + c * q < m * q
    <3>1. SUFFICES ASSUME NEW s \in Nat, NEW q \in Nat, NEW c \in Nat, NEW m \in Nat, s < q, c < m
                   PROVE  s + c * q < m * q
      OBVIOUS
    <3>2. m * q = c * q + (m - c) * q /\ (m - c) * q >= q
      BY <3>1
    <3>3. c * q \in Nat /\ m * q \in Nat
      BY <3>1
    <3>4. QED
      BY <3>1, <3>2, <3>3
  <2>2. CASE d < MaxLen - 1
    <3>1. Sum(p, o) + b * Place[d] < Base * Place[d]
      BY <1>2, <1>4, <2>1, WordHolds
    <3>2. Place[d + 1] = Base * Place[d] /\ Place[d + 1] <= Half
      <4>1. d + 1 \in Nat /\ MaxLen - 1 \in Nat /\ d + 1 <= MaxLen - 1
        BY <1>1, <1>3, <2>2
      <4>2. Place[d + 1] <= Place[MaxLen - 1]
        BY <4>1, PlacesGrow
      <4>3. QED
        BY <1>1, <1>3, <4>2, Places
    <3>3. b * Place[d] \in Nat /\ Base * Place[d] \in Nat
      BY <1>2, <1>4, WordHolds
    <3>4. QED
      BY <1>1, <1>4, <3>1, <3>2, <3>3
  <2>3. CASE d = MaxLen - 1
    <3>1. b < 2 /\ 2 \in Nat
      BY <1>2, <2>3 DEF b
    <3>2. Sum(p, o) + b * Place[d] < 2 * Place[d]
      BY <1>2, <1>4, <2>1, <3>1
    <3>3. QED
      BY <1>1, <2>3, <3>2
  <2>4. QED
    BY <1>1, <1>3, <2>2, <2>3
<1>8. ~((o + 1) - p > MaxLen)
  BY <1>1, <1>3
<1>9. ~(Sum(p, o + 1) >= Word)
  <2>1. Sum(p, o + 1) \in Nat
    BY SumMore
  <2>2. QED
    BY <1>1, <1>5, <1>7, <2>1
<1>10. QED
  BY <1>5, <1>6, <1>8, <1>9, VarintIs DEF b

\* The loops give up where the definition has none.
LEMMA VarintTooLarge ==
    ASSUME TypeInv, NEW p \in Nat, NEW o \in Nat, o < Len(input), Flagged(p, o),
           o - p = MaxLen - 1, input[o + 1] > 1
    PROVE  Varint(p) = NoVarint(p)
<1>1. MaxLen \in Nat /\ MaxLen > 2 /\ Half = Place[MaxLen - 1] /\ Half \in Nat /\ Word = 2 * Half
  BY ReadersAssumption, WordHolds DEF Word
<1>2. p <= o /\ input[o + 1] \in Nat
  BY <1>1, NextByte
<1>3. CASE input[o + 1] < Base
  <2>1. Ends(p) # {} /\ Min(Ends(p)) = o + 1
    BY <1>2, <1>3, EndFound
  <2>2. /\ Sum(p, o) \in Nat
        /\ Sum(p, o + 1) = Sum(p, o) + (input[o + 1] % Base) * Place[o - p]
    BY <1>2, SumMore
  <2>3. input[o + 1] % Base = input[o + 1]
    <3>1. \A u, v \in Nat : u < v => u % v = u
      OBVIOUS
    <3>2. QED
      BY <1>2, <1>3, <3>1, WordHolds
  <2>4. \A b, h \in Nat : b > 1 => b * h >= 2 * h /\ b * h \in Nat
    OBVIOUS
  <2>5. input[o + 1] * Half >= 2 * Half /\ input[o + 1] * Half \in Nat
    BY <1>1, <1>2, <2>4
  <2>6. Sum(p, o + 1) >= Word
    BY <1>1, <2>2, <2>3, <2>5
  <2>7. QED
    BY <2>1, <2>6, VarintIs
<1>4. CASE ~(input[o + 1] < Base)
  <2>1. Flagged(p, o + 1)
    <3>1. ASSUME NEW k \in p + 1 .. o + 1
          PROVE  input[k] >= Base
      <4>1. CASE k = o + 1
        BY <1>2, <1>4, <4>1, WordHolds
      <4>2. CASE k # o + 1
        BY <4>2 DEF Flagged, FlaggedIn
      <4>3. QED
        BY <4>1, <4>2
    <3>2. QED
      BY <3>1 DEF Flagged, FlaggedIn
  <2>2. (o + 1) - p >= MaxLen /\ o + 1 \in Nat
    BY <1>1
  <2>3. QED
    BY <2>1, <2>2, Endless
<1>5. QED
  BY <1>3, <1>4

-----------------------------------------------------------------------------
(***************************************************************************)
(* Several varints, one after the other, up to the first that is none.     *)
(***************************************************************************)
Sequel == [ok : BOOLEAN, values : Seq(Int), at : Nat]

Nothing(p) == [ok |-> TRUE, values |-> <<>>, at |-> p]

Onward(op, s) ==
    IF s.ok /\ Varint(s.at).ok
    THEN [ok |-> TRUE, at |-> Varint(s.at).at,
          values |-> Append(s.values, VarintValue(op, Varint(s.at).value))]
    ELSE [s EXCEPT !.ok = FALSE]

LEMMA VarintTyped ==
    ASSUME TypeInv, NEW p \in Nat
    PROVE  Varint(p).ok \in BOOLEAN /\ Varint(p).value \in Nat /\ Varint(p).at \in Nat
<1>1. Len(input) \in Nat /\ MaxLen \in Nat
  BY ReadersAssumption, LenProperties DEF TypeInv, Given
<1>2. CASE Ends(p) = {} \/ Min(Ends(p)) - p > MaxLen \/ Sum(p, Min(Ends(p))) >= Word
  <2>1. Varint(p) = NoVarint(p)
    BY <1>2, VarintIs
  <2>2. QED
    BY <2>1 DEF NoVarint
<1>3. CASE ~(Ends(p) = {} \/ Min(Ends(p)) - p > MaxLen \/ Sum(p, Min(Ends(p))) >= Word)
  <2> DEFINE e == Min(Ends(p))
  <2>1. Ends(p) \in SUBSET Nat /\ Ends(p) # {}
    BY <1>1, <1>3 DEF Ends
  <2>2. \E n \in Ends(p) : \A m \in Ends(p) : n <= m
    BY <2>1, LeastNatural
  <2>3. e \in Ends(p)
    BY <2>2 DEF Min
  <2>4. e \in p + 1 .. Len(input)
    BY <2>3 DEF Ends
  <2>5. Varint(p) = [ok |-> TRUE, value |-> Sum(p, e), at |-> e]
    BY <1>3, VarintIs
  <2> HIDE DEF e
  <2>6. e - p \in Nat /\ p + (e - p) = e /\ e \in Nat /\ e <= Len(input)
    BY <1>1, <2>4
  <2>7. Sum(p, e) \in Nat
    <3>1. Sum(p, p + (e - p)) \in Nat
      BY <2>6, SumSmall
    <3>2. QED
      BY <2>6, <3>1
  <2>8. QED
    BY <2>5, <2>6, <2>7
<1>4. QED
  BY <1>2, <1>3

LEMMA OnwardTyped ==
    ASSUME TypeInv, NEW op, NEW s \in Sequel
    PROVE  Onward(op, s) \in Sequel
<1>1. s.at \in Nat /\ s.values \in Seq(Int)
  BY DEF Sequel
<1>2. Varint(s.at).value \in Nat /\ Varint(s.at).at \in Nat
  BY <1>1, VarintTyped
<1>3. VarintValue(op, Varint(s.at).value) \in Int
  BY <1>2, ValuesTyped
<1>4. \A v \in Int : Append(s.values, v) \in Seq(Int)
  BY <1>1, AppendProperties
<1>5. CASE s.ok /\ Varint(s.at).ok
  BY <1>2, <1>3, <1>4, <1>5 DEF Onward, Sequel
<1>6. CASE ~(s.ok /\ Varint(s.at).ok)
  BY <1>6 DEF Onward, Sequel
<1>7. QED
  BY <1>5, <1>6

\* VarintsFrom goes from one varint to the next.
LEMMA OneByOne ==
    ASSUME TypeInv, NEW op, NEW p \in Nat
    PROVE  /\ VarintsFrom(op, p, 0) = Nothing(p)
           /\ \A n \in Nat : /\ VarintsFrom(op, p, n) \in Sequel
                             /\ VarintsFrom(op, p, n + 1) = Onward(op, VarintsFrom(op, p, n))
<1> DEFINE f == [s \in Sequel |-> Onward(op, s)]
           Recurs(q) == q = [i \in Nat |->
                                IF i = 0 THEN [ok |-> TRUE, values |-> <<>>, at |-> p]
                                ELSE LET before == q[i - 1]
                                         next   == Varint(before.at)
                                     IN  IF before.ok /\ next.ok
                                         THEN [ok |-> TRUE, at |-> next.at,
                                               values |-> Append(before.values, VarintValue(op, next.value))]
                                         ELSE [before EXCEPT !.ok = FALSE]]
           Follows(q) == q = [i \in Nat |-> IF i = 0 THEN Nothing(p) ELSE Onward(op, q[i - 1])]
<1>1. \A n : VarintsFrom(op, p, n) = (CHOOSE q : Recurs(q))[n]
  BY DEF VarintsFrom
<1>2. \A q : Recurs(q) <=> Follows(q)
  BY DEF Onward, Nothing
<1>3. f \in [Sequel -> Sequel]
  BY OnwardTyped
<1>4. Nothing(p) \in Sequel
  BY DEF Nothing, Sequel
<1>5. PICK g : Iterates(Sequel, Nothing(p), f, g)
  <2> HIDE DEF f
  <2>1. QED
    BY <1>3, <1>4, Iterated
<1>6. g \in [Nat -> Sequel] /\ g[0] = Nothing(p) /\ \A n \in Nat : g[n + 1] = Onward(op, g[n])
  BY <1>5 DEF Iterates
<1>7. Follows(g)
  <2>1. \A i \in Nat : i # 0 => i - 1 \in Nat /\ g[(i - 1) + 1] = Onward(op, g[i - 1]) /\ (i - 1) + 1 = i
    BY <1>6
  <2>2. \A i \in Nat : g[i] = IF i = 0 THEN Nothing(p) ELSE Onward(op, g[i - 1])
    BY <1>6, <2>1
  <2>3. QED
    BY <1>6, <2>2
<1> DEFINE h == CHOOSE q : Recurs(q)
<1> HIDE DEF Recurs, Follows
<1>8. Follows(h)
  <2>1. Recurs(g)
    BY <1>2, <1>7
  <2>2. Recurs(h)
    BY <2>1
  <2>3. QED
    BY <1>2, <2>2
<1>9. \A n : VarintsFrom(op, p, n) = h[n]
  BY <1>1
<1> HIDE DEF h
<1>10. \A i \in Nat : h[i] = IF i = 0 THEN Nothing(p) ELSE Onward(op, h[i - 1])
  <2> DEFINE F == [i \in Nat |-> IF i = 0 THEN Nothing(p) ELSE Onward(op, h[i - 1])]
  <2>1. \A i \in Nat : F[i] = IF i = 0 THEN Nothing(p) ELSE Onward(op, h[i - 1])
    OBVIOUS
  <2>2. h = F
    BY <1>8 DEF Follows
  <2> HIDE DEF F
  <2>3. QED
    BY <2>1, <2>2
<1>11. h[0] = Nothing(p) /\ \A n \in Nat : h[n + 1] = Onward(op, h[n])
  <2>1. ASSUME NEW n \in Nat PROVE h[n + 1] = Onward(op, h[n])
    <3>1. n + 1 \in Nat /\ n + 1 # 0 /\ (n + 1) - 1 = n
      OBVIOUS
    <3>2. QED
      BY <1>10, <3>1
  <2>2. QED
    BY <1>10, <2>1
<1> DEFINE T == {n \in Nat : h[n] \in Sequel}
<1>12. 0 \in T
  BY <1>4, <1>11
<1>13. ASSUME NEW n \in Nat, n \in T
       PROVE  n + 1 \in T
  <2>1. h[n] \in Sequel
    BY <1>13
  <2>2. QED
    BY <1>11, <2>1, OnwardTyped
<1>14. Nat \subseteq T
  <2> HIDE DEF T
  <2>1. QED
    BY <1>12, <1>13, InductionBySet
<1>15. QED
  BY <1>9, <1>11, <1>14

\* Behind something that is no varint there is nothing more.
LEMMA NothingBehind ==
    ASSUME TypeInv, NEW op, NEW p \in Nat, NEW m \in Nat, NEW n \in Nat, m < n,
           ~Varint(VarintsFrom(op, p, m).at).ok
    PROVE  ~VarintsFrom(op, p, n).ok /\ VarintsFrom(op, p, n).values = VarintsFrom(op, p, m).values
<1> DEFINE s == VarintsFrom(op, p, m)
           At(i) == VarintsFrom(op, p, m + i)
           T == {i \in Nat : ~At(i + 1).ok /\ At(i + 1).values = s.values /\ At(i + 1) \in Sequel}
<1>1. 0 \in T
  <2>1. VarintsFrom(op, p, m + 1) = Onward(op, s) /\ s \in Sequel
    BY OneByOne
  <2>2. Onward(op, s) = [s EXCEPT !.ok = FALSE]
    BY DEF Onward
  <2>3. Onward(op, s) \in Sequel
    BY <2>1, OnwardTyped
  <2> HIDE DEF s
  <2>4. ~Onward(op, s).ok /\ Onward(op, s).values = s.values
    BY <2>1, <2>2 DEF Sequel
  <2>5. QED
    BY <2>1, <2>3, <2>4
<1>2. ASSUME NEW i \in Nat, i \in T
      PROVE  i + 1 \in T
  <2> DEFINE t == At(i + 1)
  <2>1. m + (i + 1) \in Nat /\ (m + (i + 1)) + 1 = m + ((i + 1) + 1)
    OBVIOUS
  <2>2. At((i + 1) + 1) = Onward(op, t)
    BY <2>1, OneByOne
  <2>3. ~t.ok /\ t.values = s.values /\ t \in Sequel
    BY <1>2
  <2> HIDE DEF t, At, s
  <2>4. Onward(op, t) = [t EXCEPT !.ok = FALSE] /\ Onward(op, t) \in Sequel
    BY <2>3, OnwardTyped DEF Onward
  <2>5. ~Onward(op, t).ok /\ Onward(op, t).values = s.values
    BY <2>3, <2>4 DEF Sequel
  <2>6. ~At((i + 1) + 1).ok /\ At((i + 1) + 1).values = s.values /\ At((i + 1) + 1) \in Sequel
    BY Zenon, <2>2, <2>4, <2>5
  <2>7. i + 1 \in Nat
    OBVIOUS
  <2>8. QED
    BY Zenon, <2>6, <2>7
<1>3. (n - m) - 1 \in T
  <2>1. (n - m) - 1 \in Nat
    OBVIOUS
  <2> HIDE DEF T
  <2>2. Nat \subseteq T
    BY <1>1, <1>2, InductionBySet
  <2>3. QED
    BY <2>1, <2>2
<1>4. m + (((n - m) - 1) + 1) = n
  OBVIOUS
<1>5. QED
  BY <1>3, <1>4

-----------------------------------------------------------------------------
(***************************************************************************)
(* In the middle of a read of varints, the values are those of the         *)
(* varints behind its start, and the value in hand is the sum of the       *)
(* digits behind them.                                                     *)
(***************************************************************************)
Begin(d)  == Start(d, Len(outcomes[d]) + 1)
SoFar     == VarintsFrom(Read.op, Begin(reader), Len(values))
Matched   == offset - digits

Underway ==
    reader # "done" /\ IsVarintRead(Read.op) =>
        /\ Begin(reader) \in Nat /\ Matched \in Nat
        /\ SoFar.ok /\ SoFar.values = values /\ SoFar.at = Matched
        /\ Flagged(Matched, offset)
        /\ value = Sum(Matched, offset)
        /\ Len(values) = Count(Read) => digits = 0

Agrees(out, def) == out.ok = def.ok /\ out.values = def.values /\ (out.ok => out.at = def.at)

Defined(d, j) == VarintsFrom(script[j].op, Start(d, j), Count(script[j]))

Matching ==
    \A d \in Names : \A j \in 1 .. Len(outcomes[d]) :
        IsVarintRead(script[j].op) => Agrees(outcomes[d][j], Defined(d, j))

\* A step that leaves the input and the outcomes alone leaves the definitions alone.
LEMMA SameDefinition ==
    ASSUME input' = input
    PROVE  /\ \A p : Varint(p)' = Varint(p)
           /\ \A op, p, n : VarintsFrom(op, p, n)' = VarintsFrom(op, p, n)
           /\ \A p, e : Sum(p, e)' = Sum(p, e)
           /\ \A p, o : Flagged(p, o)' = Flagged(p, o)
  BY DEF Varint, VarintsFrom, Sum, SumIn, DigitsIn, Flagged, FlaggedIn

\* Where a read begins is where the one before it ended, which stays.
LEMMA EndMatches ==
    ASSUME TypeInv, Matching, reader # "done", NEW ok \in BOOLEAN, NEW vs \in Seq(Returned),
           NEW o \in 0 .. Len(input), End(ok, vs, o),
           IsVarintRead(Read.op) =>
               Agrees([ok |-> ok, values |-> vs, at |-> o],
                      VarintsFrom(Read.op, Begin(reader), Count(Read)))
    PROVE  Matching' /\ Underway'
<1> DEFINE n == Len(outcomes[reader]) + 1
           out == [ok |-> ok, values |-> vs, at |-> o]
           last == ~ok \/ n = Len(script)
<1>1. /\ reader \in Names /\ n \in 1 .. Len(script) /\ Len(outcomes[reader]) \in Nat
      /\ Len(input) \in Nat /\ Len(script) \in Nat /\ Read = script[n]
      /\ outcomes \in [Names -> Seq(Outcome)]
  BY InHand DEF TypeInv, Kept, Read
<1>2. /\ outcomes' = [outcomes EXCEPT ![reader] = Append(@, out)]
      /\ reader' = IF ~last THEN reader ELSE IF reader = "slice" THEN "stream" ELSE "done"
      /\ offset' = IF last THEN 0 ELSE o
      /\ value' = 0 /\ digits' = 0 /\ need' = -1 /\ values' = <<>>
      /\ input' = input /\ script' = script
  BY DEF End
<1>3. out \in Outcome /\ out.at = o
  BY <1>1 DEF Outcome
<1> HIDE DEF out
<1>4. /\ Len(Append(outcomes[reader], out)) = n
      /\ Append(outcomes[reader], out)[n] = out
      /\ \A j \in 1 .. Len(outcomes[reader]) : Append(outcomes[reader], out)[j] = outcomes[reader][j]
  BY <1>1, <1>3, AppendProperties
<1>5. /\ outcomes'[reader] = Append(outcomes[reader], out)
      /\ \A d \in Names : d # reader => outcomes'[d] = outcomes[d]
  BY <1>1, <1>2
<1>6. ASSUME NEW d \in Names, NEW j \in 1 .. Len(outcomes[d]) + 1, d # reader => j # Len(outcomes[d]) + 1
      PROVE  Start(d, j)' = Start(d, j)
  <2>0. Len(outcomes[d]) \in Nat
    BY <1>1, LenProperties
  <2>1. CASE j = 1
    BY <2>1 DEF Start
  <2>2. CASE j # 1
    <3>1. j - 1 \in 1 .. Len(outcomes[d])
      BY <2>0, <2>2
    <3>2. outcomes'[d][j - 1] = outcomes[d][j - 1]
      BY <1>4, <1>5, <3>1
    <3>3. QED
      BY <2>2, <3>2 DEF Start
  <2>3. QED
    BY <2>1, <2>2
<1>7. Matching'
  <2>1. ASSUME NEW d \in Names, NEW j \in 1 .. Len(outcomes'[d]), IsVarintRead(script[j].op)
        PROVE  Agrees(outcomes'[d][j], Defined(d, j)')
    <3>0. Len(outcomes[d]) \in Nat
      BY <1>1, LenProperties
    <3>1. CASE d = reader /\ j = n
      <4>1. Start(d, j)' = Start(d, j)
        BY <1>6, <3>0, <3>1
      <4>2. Defined(d, j)' = VarintsFrom(Read.op, Begin(reader), Count(Read))
        BY <1>1, <1>2, <3>1, <4>1, SameDefinition DEF Defined, Begin, Count
      <4>3. outcomes'[d][j] = out /\ IsVarintRead(Read.op)
        BY <1>1, <1>4, <1>5, <2>1, <3>1
      <4>4. QED
        BY <4>2, <4>3 DEF out
    <3>2. CASE ~(d = reader /\ j = n)
      <4>1. j \in 1 .. Len(outcomes[d]) /\ outcomes'[d][j] = outcomes[d][j]
        <5>1. CASE d = reader
          <6>1. j \in 1 .. n /\ j # n
            BY <1>4, <1>5, <3>2, <5>1
          <6>2. j \in 1 .. Len(outcomes[reader])
            BY <1>1, <6>1
          <6>3. QED
            BY <1>4, <1>5, <5>1, <6>2
        <5>2. CASE d # reader
          BY <1>5, <5>2
        <5>3. QED
          BY <5>1, <5>2
      <4>2. Start(d, j)' = Start(d, j)
        BY <1>6, <3>0, <4>1
      <4>3. Defined(d, j)' = Defined(d, j)
        BY <1>2, <4>2, SameDefinition DEF Defined, Count
      <4>4. Agrees(outcomes[d][j], Defined(d, j))
        BY <2>1, <4>1 DEF Matching
      <4>5. QED
        BY <4>1, <4>3, <4>4
    <3>3. QED
      BY <3>1, <3>2
  <2>2. QED
    BY <1>2, <2>1 DEF Matching
<1>8. Underway'
  <2>1. SUFFICES ASSUME reader' # "done"
                 PROVE  /\ Begin(reader)' \in Nat /\ Matched' \in Nat
                        /\ SoFar'.ok /\ SoFar'.values = values' /\ SoFar'.at = Matched'
                        /\ Flagged(Matched, offset)'
                        /\ value' = Sum(Matched, offset)'
                        /\ digits' = 0
    BY DEF Underway
  <2>2. Begin(reader)' = offset' /\ offset' \in Nat
    <3>1. CASE last
      <4>1. reader' = "stream" /\ offset' = 0 /\ outcomes'["stream"] = <<>>
        BY <1>2, <1>5, <2>1, <3>1 DEF TypeInv, Current, Names
      <4>2. QED
        BY <4>1 DEF Begin, Start
    <3>2. CASE ~last
      <4>1. Len(outcomes'[reader']) + 1 = n + 1 /\ n + 1 # 1 /\ (n + 1) - 1 = n /\ reader' = reader
        BY <1>1, <1>2, <1>4, <1>5, <3>2
      <4>2. outcomes'[reader'][n].at = o /\ offset' = o
        BY <1>2, <1>3, <1>4, <1>5, <3>2
      <4>3. QED
        BY <1>1, <4>1, <4>2 DEF Begin, Start
    <3>3. QED
      BY <3>1, <3>2
  <2>3. Matched' = offset'
    BY <1>2, <2>2 DEF Matched
  <2>4. Len(values') = 0
    BY <1>2
  <2>5. TypeInv'
    BY EndTypes
  <2>6. SoFar' = Nothing(offset')
    <3>1. VarintsFrom(Read'.op, offset', 0) = Nothing(offset')
      BY <2>2, OneByOne
    <3>2. SoFar' = VarintsFrom(Read'.op, offset', 0)
      BY <1>2, <2>2, <2>4, SameDefinition DEF SoFar
    <3>3. QED
      BY <3>1, <3>2
  <2>7. Sum(offset', offset') = 0 /\ Flagged(offset', offset')
    <3>1. \A q \in Nat : Sum(q, q) = 0 /\ Flagged(q, q)
      BY SumNone DEF Flagged, FlaggedIn
    <3>2. QED
      BY <2>2, <3>1
  <2>8. QED
    BY <1>2, <2>2, <2>3, <2>6, <2>7, SameDefinition DEF Nothing
<1>9. QED
  BY <1>7, <1>8

\* A step within a read leaves the outcomes alone.
LEMMA SameOutcomes ==
    ASSUME Matching, UNCHANGED <<input, script, reader, outcomes>>
    PROVE  /\ Matching'
           /\ Read' = Read /\ Count(Read)' = Count(Read) /\ Begin(reader)' = Begin(reader)
           /\ \A d, j : Start(d, j)' = Start(d, j)
<1>1. \A d, j : Start(d, j)' = Start(d, j)
  BY DEF Start
<1>2. \A d, j : Defined(d, j)' = Defined(d, j)
  BY <1>1, SameDefinition DEF Defined, Count
<1>3. Matching'
  BY <1>2 DEF Matching
<1>4. Read' = Read /\ Count(Read)' = Count(Read) /\ Begin(reader)' = Begin(reader)
  BY DEF Read, Count, Begin, Start
<1>5. QED
  BY <1>1, <1>3, <1>4

\* Where a read of varints stands.
LEMMA Stands ==
    ASSUME TypeInv, Underway, InLoop, IsVarintRead(Read.op)
    PROVE  /\ offset \in Nat /\ digits \in Nat /\ Matched \in Nat /\ Matched + digits = offset
           /\ offset - Matched = digits /\ Matched <= offset
           /\ Begin(reader) \in Nat /\ Len(values) \in Nat /\ Count(Read) \in Nat
           /\ Len(values) < Count(Read)
           /\ SoFar.ok /\ SoFar.values = values /\ SoFar.at = Matched
           /\ SoFar \in Sequel
           /\ SoFar = VarintsFrom(Read.op, Begin(reader), Len(values))
           /\ VarintsFrom(Read.op, Begin(reader), Len(values) + 1) = Onward(Read.op, SoFar)
           /\ Flagged(Matched, offset) /\ value = Sum(Matched, offset)
<1>1. reader # "done" /\ Len(values) < Count(Read)
  BY DEF InLoop
<1>2. /\ Begin(reader) \in Nat /\ Matched \in Nat
      /\ SoFar.ok /\ SoFar.values = values /\ SoFar.at = Matched
      /\ Flagged(Matched, offset) /\ value = Sum(Matched, offset)
  BY <1>1 DEF Underway
<1>3. offset \in Nat /\ digits \in Nat /\ Len(values) \in Nat /\ Count(Read) \in Nat
  BY <1>1, InHand, ReadersAssumption DEF TypeInv, Reading
<1>4. Matched + digits = offset /\ offset - Matched = digits /\ Matched <= offset
  BY <1>2, <1>3 DEF Matched
<1>5. /\ SoFar = VarintsFrom(Read.op, Begin(reader), Len(values)) /\ SoFar \in Sequel
      /\ VarintsFrom(Read.op, Begin(reader), Len(values) + 1) = Onward(Read.op, SoFar)
  BY <1>2, <1>3, OneByOne DEF SoFar
<1>6. QED
  BY <1>1, <1>2, <1>3, <1>4, <1>5

\* A loop gives up where there is no varint.
LEMMA FailMatches ==
    ASSUME TypeInv, Underway, Matching, InLoop, NEW o \in 0 .. Len(input), Fail(o),
           IsVarintRead(Read.op) => ~Varint(Matched).ok
    PROVE  Matching' /\ Underway'
<1>1. End(FALSE, values, o) /\ values \in Seq(Returned) /\ reader # "done"
  BY DEF Fail, InLoop, TypeInv, Reading
<1>2. ASSUME IsVarintRead(Read.op)
      PROVE  Agrees([ok |-> FALSE, values |-> values, at |-> o],
                    VarintsFrom(Read.op, Begin(reader), Count(Read)))
  <2>1. /\ Begin(reader) \in Nat /\ Len(values) \in Nat /\ Count(Read) \in Nat
        /\ Len(values) < Count(Read) /\ SoFar.values = values /\ SoFar.at = Matched
        /\ SoFar = VarintsFrom(Read.op, Begin(reader), Len(values))
    BY <1>2, Stands
  <2>2. ~Varint(VarintsFrom(Read.op, Begin(reader), Len(values)).at).ok
    BY <1>2, <2>1
  <2>3. /\ ~VarintsFrom(Read.op, Begin(reader), Count(Read)).ok
        /\ VarintsFrom(Read.op, Begin(reader), Count(Read)).values = values
    BY <2>1, <2>2, NothingBehind
  <2>4. VarintsFrom(Read.op, Begin(reader), Count(Read)).ok \in BOOLEAN
    BY <2>1, OneByOne DEF Sequel
  <2>5. QED
    BY <2>3, <2>4 DEF Agrees
<1>3. QED
  BY <1>1, <1>2, EndMatches

\* A loop delivers the varint there is.
LEMMA DeliverMatches ==
    ASSUME TypeInv, Underway, Matching, InLoop, NEW x \in Nat, NEW o \in 0 .. Len(input),
           Deliver(x, o),
           IsVarintRead(Read.op) => Varint(Matched) = [ok |-> TRUE, value |-> x, at |-> o]
    PROVE  Matching' /\ Underway'
<1>1. reader # "done" /\ values \in Seq(Returned)
  BY DEF InLoop, TypeInv, Reading
<1>2. CASE Read.op = "string" /\ x >= Half
  <2>1. Fail(o) /\ ~IsVarintRead(Read.op)
    BY <1>2 DEF Deliver, IsVarintRead
  <2>2. QED
    BY <2>1, FailMatches
<1>3. CASE ~(Read.op = "string" /\ x >= Half)
  <2>1. /\ offset' = o /\ value' = 0 /\ digits' = 0
        /\ values' = IF Read.op = "string" THEN values ELSE Append(values, VarintValue(Read.op, x))
        /\ UNCHANGED <<input, script, reader, outcomes>>
    BY <1>3 DEF Deliver
  <2>2. Matching' /\ Read' = Read /\ Count(Read)' = Count(Read) /\ Begin(reader)' = Begin(reader)
    BY <2>1, SameOutcomes
  <2>3. ASSUME IsVarintRead(Read.op)
        PROVE  /\ Begin(reader)' \in Nat /\ Matched' \in Nat
               /\ SoFar'.ok /\ SoFar'.values = values' /\ SoFar'.at = Matched'
               /\ Flagged(Matched, offset)'
               /\ value' = Sum(Matched, offset)'
    <3>1. Read.op # "string"
      BY <2>3 DEF IsVarintRead
    <3>2. values' = Append(values, VarintValue(Read.op, x))
      BY <2>1, <3>1
    <3>3. /\ Begin(reader) \in Nat /\ Len(values) \in Nat
          /\ SoFar.ok /\ SoFar.values = values /\ SoFar.at = Matched
          /\ VarintsFrom(Read.op, Begin(reader), Len(values) + 1) = Onward(Read.op, SoFar)
      BY <2>3, Stands
    <3>4. Varint(Matched) = [ok |-> TRUE, value |-> x, at |-> o]
      BY <2>3
    <3>5. Onward(Read.op, SoFar) = [ok |-> TRUE, at |-> o, values |-> values']
      BY <3>2, <3>3, <3>4 DEF Onward
    <3>6. Len(values') = Len(values) + 1
      <4>1. VarintValue(Read.op, x) \in Returned
        BY ValuesTyped DEF Returned
      <4>2. QED
        BY <1>1, <3>2, <4>1, AppendProperties
    <3>7. SoFar' = VarintsFrom(Read.op, Begin(reader), Len(values) + 1)
      BY <2>1, <2>2, <3>6, SameDefinition DEF SoFar
    <3>8. o \in Nat /\ Matched' = o
      BY <2>1 DEF Matched
    <3>9. \A q \in Nat : Sum(q, q) = 0 /\ Flagged(q, q)
      BY SumNone DEF Flagged, FlaggedIn
    <3>10. Sum(Matched, offset)' = 0 /\ Flagged(Matched, offset)'
      <4>1. Sum(Matched, offset)' = Sum(Matched', offset')
        BY <2>1 DEF Sum, SumIn, DigitsIn
      <4>2. Flagged(Matched, offset)' = Flagged(Matched', offset')
        BY <2>1 DEF Flagged, FlaggedIn
      <4>3. QED
        BY <2>1, <3>8, <3>9, <4>1, <4>2
    <3>11. SoFar' = [ok |-> TRUE, at |-> o, values |-> values']
      BY <3>3, <3>5, <3>7
    <3>12. SoFar'.ok /\ SoFar'.values = values' /\ SoFar'.at = o
      BY <3>11
    <3>13. Begin(reader)' \in Nat
      BY <2>2, <3>3
    <3>14. QED
      BY <2>1, <3>8, <3>10, <3>12, <3>13
  <2>4. Underway'
    BY <2>1, <2>2, <2>3 DEF Underway
  <2>5. QED
    BY <2>2, <2>4
<1>4. QED
  BY <1>2, <1>3

LEMMA AccumulateMatches ==
    ASSUME TypeInv, Underway, Matching, InLoop, More, digits < MaxLen - 1, ~(Byte < Base),
           Accumulate(Byte)
    PROVE  Matching' /\ Underway'
<1>1. /\ offset' = offset + 1 /\ digits' = digits + 1 /\ values' = values
      /\ value' = (value + (Byte % Base) * Place[digits]) % Word
      /\ UNCHANGED <<input, script, reader, outcomes>>
  BY DEF Accumulate
<1>2. Matching' /\ Read' = Read /\ Count(Read)' = Count(Read) /\ Begin(reader)' = Begin(reader)
  BY <1>1, SameOutcomes
<1>3. ASSUME IsVarintRead(Read.op)
      PROVE  /\ Begin(reader)' \in Nat /\ Matched' \in Nat
             /\ SoFar'.ok /\ SoFar'.values = values' /\ SoFar'.at = Matched'
             /\ Flagged(Matched, offset)'
             /\ value' = Sum(Matched, offset)'
             /\ ~(Len(values') = Count(Read)')
  <2>1. /\ offset \in Nat /\ digits \in Nat /\ Matched \in Nat /\ Matched + digits = offset
        /\ offset - Matched = digits /\ Matched <= offset
        /\ Begin(reader) \in Nat /\ Len(values) \in Nat /\ Count(Read) \in Nat
        /\ Len(values) < Count(Read)
        /\ SoFar.ok /\ SoFar.values = values /\ SoFar.at = Matched
        /\ Flagged(Matched, offset) /\ value = Sum(Matched, offset)
    BY <1>3, Stands
  <2>2. Len(input) \in Nat /\ offset < Len(input) /\ MaxLen \in Nat
    BY ReadersAssumption, LenProperties DEF More, TypeInv, Given
  <2>3. Matched' = Matched /\ SoFar' = SoFar
    <3>1. Matched' = Matched
      BY <1>1, <2>1 DEF Matched
    <3>2. SoFar' = SoFar
      BY <1>1, <1>2, SameDefinition DEF SoFar
    <3>3. QED
      BY <3>1, <3>2
  <2>4. Flagged(Matched, offset + 1)
    <3>1. ASSUME NEW k \in Matched + 1 .. offset + 1
          PROVE  input[k] >= Base
      <4>1. CASE k = offset + 1
        <5>1. Byte \in Nat
          BY <2>1, <2>2, NextByte DEF Byte
        <5>2. Byte >= Base
          BY <5>1, WordHolds
        <5>3. QED
          BY <4>1, <5>2 DEF Byte
      <4>2. CASE k # offset + 1
        <5>1. k \in Matched + 1 .. offset
          BY <2>1, <4>2
        <5>2. QED
          BY <2>1, <5>1 DEF Flagged, FlaggedIn
      <4>3. QED
        BY <4>1, <4>2
    <3>2. QED
      BY <3>1 DEF Flagged, FlaggedIn
  <2>5. value' = Sum(Matched, offset + 1)
    <3>1. /\ Sum(Matched, offset + 1) \in Nat
          /\ Sum(Matched, offset + 1) = value + (Byte % Base) * Place[digits]
      BY <2>1, <2>2, SumMore DEF Byte
    <3>2. Sum(Matched, offset + 1) < Place[digits + 1]
      <4>1. Matched + (digits + 1) = offset + 1 /\ offset + 1 <= Len(input) /\ digits + 1 \in Nat
        BY <2>1, <2>2
      <4>2. Sum(Matched, Matched + (digits + 1)) < Place[digits + 1]
        BY <2>1, <4>1, SumSmall
      <4>3. QED
        BY <4>1, <4>2
    <3>3. Place[digits + 1] \in Nat /\ Place[digits + 1] <= Half
      <4>1. digits + 1 \in Nat /\ MaxLen - 1 \in Nat /\ digits + 1 <= MaxLen - 1
        BY <2>1, <2>2
      <4>2. Place[digits + 1] <= Place[MaxLen - 1]
        BY <4>1, PlacesGrow
      <4>3. QED
        BY <4>1, <4>2, Places, ReadersAssumption
    <3>4. Half \in Nat /\ Word = 2 * Half
      BY WordHolds DEF Word
    <3>5. \A u, w \in Nat : u < w => u % w = u
      OBVIOUS
    <3>6. Sum(Matched, offset + 1) < Word /\ Word \in Nat
      BY <3>1, <3>2, <3>3, <3>4
    <3>7. QED
      BY <1>1, <3>1, <3>5, <3>6
  <2>6. /\ Sum(Matched, offset)' = Sum(Matched', offset')
        /\ Flagged(Matched, offset)' = Flagged(Matched', offset')
    BY <1>1 DEF Sum, SumIn, DigitsIn, Flagged, FlaggedIn
  <2>7. Sum(Matched, offset)' = Sum(Matched, offset + 1) /\ Flagged(Matched, offset)'
    BY <1>1, <2>3, <2>4, <2>6
  <2>8. ~(Len(values') = Count(Read)')
    BY <1>1, <1>2, <2>1
  <2>9. QED
    BY <1>1, <1>2, <2>1, <2>3, <2>5, <2>7, <2>8
<1>4. Underway'
  BY <1>1, <1>2, <1>3 DEF Underway
<1>5. QED
  BY <1>2, <1>4

LEMMA LoopMatches ==
    ASSUME TypeInv, Underway, Matching, InLoop, More, LoopStep
    PROVE  Matching' /\ Underway'
<1>1. /\ offset \in Nat /\ Len(input) \in Nat /\ value \in Nat /\ digits \in 0 .. MaxLen - 1
      /\ MaxLen \in Nat /\ Byte \in Nat /\ Place[digits] \in Nat
      /\ reader # "done" /\ offset < Len(input)
  <2>1. digits \in 0 .. MaxLen - 1 /\ MaxLen \in Nat
    BY ReadersAssumption DEF TypeInv, Reading
  <2>2. Place[digits] \in Nat
    BY <2>1, Places
  <2>3. Byte \in Nat
    BY NextByte DEF TypeInv, Reading, More, Byte
  <2>4. QED
    BY <2>1, <2>2, <2>3, InHand, WordHolds DEF InLoop, More, TypeInv, Reading, Uint
<1>2. offset + 1 \in 0 .. Len(input) /\ Base \in Nat
  BY <1>1, WordHolds
<1>3. ASSUME IsVarintRead(Read.op)
      PROVE  /\ Matched \in Nat /\ Matched <= offset /\ offset - Matched = digits
             /\ Flagged(Matched, offset) /\ value = Sum(Matched, offset)
  BY <1>3, Stands
<1>4. CASE digits = MaxLen - 1 /\ Byte > 1
  <2>1. Fail(offset + 1)
    BY <1>4 DEF LoopStep
  <2>2. ASSUME IsVarintRead(Read.op)
        PROVE  ~Varint(Matched).ok
    <3>1. Varint(Matched) = NoVarint(Matched)
      BY <1>1, <1>3, <1>4, <2>2, VarintTooLarge DEF Byte
    <3>2. QED
      BY <3>1 DEF NoVarint
  <2>3. QED
    BY <1>2, <2>1, <2>2, FailMatches
<1>5. CASE ~(digits = MaxLen - 1 /\ Byte > 1) /\ Byte < Base
  <2> DEFINE x == value + Byte * Place[digits]
  <2>1. \A u, v, w \in Nat : u + v * w \in Nat
    OBVIOUS
  <2>2. x \in Nat
    BY <1>1, <2>1
  <2>3. Deliver(x, offset + 1)
    BY <1>5 DEF LoopStep
  <2>4. digits < MaxLen - 1 \/ (digits = MaxLen - 1 /\ ~(Byte > 1))
    BY <1>1, <1>5
  <2>5. ASSUME IsVarintRead(Read.op)
        PROVE  Varint(Matched) = [ok |-> TRUE, value |-> x, at |-> offset + 1]
    BY <1>1, <1>3, <1>5, <2>4, <2>5, VarintFound DEF Byte
  <2> HIDE DEF x
  <2>6. QED
    BY <1>2, <2>2, <2>3, <2>5, DeliverMatches
<1>6. CASE ~(digits = MaxLen - 1 /\ Byte > 1) /\ ~(Byte < Base)
  <2>1. digits < MaxLen - 1
    BY <1>1, <1>6, WordHolds
  <2>2. Accumulate(Byte)
    BY <1>6 DEF LoopStep
  <2>3. QED
    BY <1>6, <2>1, <2>2, AccumulateMatches
<1>7. QED
  BY <1>4, <1>5, <1>6

LEMMA TwoMatches ==
    ASSUME TypeInv, Underway, Matching, BulkTwo
    PROVE  Matching' /\ Underway'
<1>1. /\ InLoop /\ More /\ digits = 0
      /\ Byte >= Base /\ input[offset + 2] < Base /\ offset + 1 < Len(input)
      /\ Byte \in Nat /\ input[offset + 2] \in Nat /\ Both \in Nat
      /\ Deliver(Both, offset + 2)
  BY TwoBytes
<1>2. offset \in Nat /\ Len(input) \in Nat /\ offset + 2 \in 0 .. Len(input) /\ (offset + 1) + 1 = offset + 2
      /\ offset < Len(input) /\ offset + 1 \in Nat /\ (offset + 1) - offset = 1 /\ offset - offset = 0
      /\ offset <= offset + 1
  BY <1>1, InHand DEF InLoop, TypeInv, Reading
<1>3. ASSUME IsVarintRead(Read.op)
      PROVE  Varint(Matched) = [ok |-> TRUE, value |-> Both, at |-> offset + 2]
  <2>1. Matched = offset
    BY <1>1, <1>2 DEF Matched
  <2>2. Flagged(offset, offset + 1)
    <3>1. \A k \in offset + 1 .. offset + 1 : k = offset + 1
      BY <1>2
    <3>2. QED
      BY <1>1, <3>1 DEF Flagged, FlaggedIn, Byte
  <2>3. Sum(offset, offset + 1) = Byte % Base
    <3>1. Sum(offset, offset + 1) = Sum(offset, offset) + (Byte % Base) * Place[0]
      BY <1>2, SumMore DEF Byte
    <3>2. Sum(offset, offset) = 0 /\ Place[0] = 1
      BY <1>2, SumNone, Places
    <3>3. Byte % Base \in Nat
      BY <1>2, NextByte DEF Byte
    <3>4. QED
      BY <3>1, <3>2, <3>3
  <2>4. 1 < MaxLen - 1
    BY ReadersAssumption
  <2>5. Varint(offset) = [ok |-> TRUE, value |-> Sum(offset, offset + 1) + input[(offset + 1) + 1] * Place[(offset + 1) - offset],
                          at |-> (offset + 1) + 1]
    <3>1. (offset + 1) - offset < MaxLen - 1 /\ input[(offset + 1) + 1] < Base
      BY <1>1, <1>2, <2>4
    <3>2. QED
      BY <1>1, <1>2, <2>2, <3>1, VarintFound
  <2>6. Sum(offset, offset + 1) + input[(offset + 1) + 1] * Place[(offset + 1) - offset] = Both
    BY <1>2, <2>3, WordHolds DEF Both
  <2>7. QED
    BY <1>2, <2>1, <2>5, <2>6
<1>4. QED
  BY <1>1, <1>2, <1>3, DeliverMatches

LEMMA SliceMatches ==
    ASSUME TypeInv, Underway, Matching, SliceSlice \/ StreamSlice
    PROVE  Matching' /\ Underway'
<1>1. reader # "done" /\ (Read.op = "fixed" \/ need # -1)
  BY DEF SliceSlice, StreamSlice, InSlice
<1>2. ~IsVarintRead(Read.op)
  BY <1>1 DEF TypeInv, Reading, IsVarintRead
<1> DEFINE s == <<SubSeq(input, offset + 1, offset + Wanted)>>
<1>3. \/ \E o \in {offset, Len(input)} : Fail(o)
      \/ ~(Wanted > Rest) /\ End(TRUE, s, offset + Wanted)
  BY DEF SliceSlice, StreamSlice
<1>4. CASE \E o \in {offset, Len(input)} : Fail(o)
  <2>1. PICK o \in {offset, Len(input)} : Fail(o)
    BY <1>4
  <2>2. o \in 0 .. Len(input) /\ values \in Seq(Returned) /\ End(FALSE, values, o)
    <3>1. offset \in 0 .. Len(input) /\ Len(input) \in 0 .. Len(input)
      BY <1>1, SliceThere
    <3>2. values \in Seq(Returned)
      BY DEF TypeInv, Reading
    <3>3. End(FALSE, values, o)
      BY <2>1 DEF Fail
    <3>4. QED
      BY <3>1, <3>2, <3>3
  <2>3. QED
    BY <1>1, <1>2, <2>2, EndMatches
<1>5. CASE ~(Wanted > Rest) /\ End(TRUE, s, offset + Wanted)
  <2>1. Wanted <= Rest
    BY <1>1, <1>5, SliceThere
  <2>2. offset + Wanted \in 0 .. Len(input) /\ s \in Seq(Returned)
    BY <1>1, <2>1, SliceThere
  <2> HIDE DEF s
  <2>3. QED
    BY <1>1, <1>2, <1>5, <2>2, EndMatches
<1>6. QED
  BY <1>3, <1>4, <1>5

\* The last of the varints is read.
LEMMA ReturnMatches ==
    ASSUME TypeInv, Underway, Matching, Return
    PROVE  Matching' /\ Underway'
<1>1. /\ reader # "done" /\ Len(values) = Count(Read) /\ End(TRUE, values, offset)
      /\ values \in Seq(Returned) /\ offset \in 0 .. Len(input)
  BY DEF Return, TypeInv, Reading
<1>2. ASSUME IsVarintRead(Read.op)
      PROVE  Agrees([ok |-> TRUE, values |-> values, at |-> offset],
                    VarintsFrom(Read.op, Begin(reader), Count(Read)))
  <2>1. SoFar.ok /\ SoFar.values = values /\ SoFar.at = Matched /\ digits = 0 /\ Begin(reader) \in Nat
    BY <1>1, <1>2 DEF Underway
  <2>2. Matched = offset
    BY <1>1, <2>1 DEF Matched
  <2>3. SoFar = VarintsFrom(Read.op, Begin(reader), Count(Read))
    BY <1>1 DEF SoFar
  <2>4. SoFar \in Sequel
    BY <1>1, <2>1, <2>3, InHand, OneByOne
  <2>5. SoFar.ok = TRUE
    BY <2>1, <2>4 DEF Sequel
  <2>6. QED
    BY <2>1, <2>2, <2>3, <2>5 DEF Agrees
<1>3. QED
  BY <1>1, <1>2, EndMatches

LEMMA EOFMatches ==
    ASSUME TypeInv, Underway, Matching, InLoop, ~More, Fail(offset)
    PROVE  Matching' /\ Underway'
<1>1. offset \in 0 .. Len(input) /\ Len(input) \in Nat
  BY InHand DEF InLoop, TypeInv, Reading
<1>2. ASSUME IsVarintRead(Read.op)
      PROVE  ~Varint(Matched).ok
  <2>1. offset \in Nat /\ Matched \in Nat /\ Flagged(Matched, offset)
    BY <1>2, Stands
  <2>2. offset >= Len(input)
    BY <1>1 DEF More
  <2>3. Varint(Matched) = NoVarint(Matched)
    BY <2>1, <2>2, Endless
  <2>4. QED
    BY <2>3 DEF NoVarint
<1>3. QED
  BY <1>1, <1>2, FailMatches

LEMMA InitMatches == Init => Matching /\ Underway
<1> SUFFICES ASSUME Init PROVE Matching /\ Underway
  OBVIOUS
<1>1. TypeInv
  BY InitTypes
<1>2. /\ offset = 0 /\ value = 0 /\ digits = 0 /\ values = <<>> /\ Len(values) = 0 /\ reader = "slice"
      /\ \A d \in Names : outcomes[d] = <<>> /\ Len(outcomes[d]) = 0
  BY DEF Init, Names
<1>3. Matching
  BY <1>2 DEF Matching
<1>4. Begin(reader) = 0 /\ Matched = 0
  BY <1>2 DEF Begin, Start, Matched, Names
<1>5. SoFar = Nothing(0)
  BY <1>1, <1>2, <1>4, OneByOne DEF SoFar
<1>6. Sum(0, 0) = 0 /\ Flagged(0, 0)
  BY SumNone DEF Flagged, FlaggedIn
<1>7. Underway
  BY <1>2, <1>4, <1>5, <1>6 DEF Underway, Nothing
<1>8. QED
  BY <1>3, <1>7

LEMMA NextMatches == TypeInv /\ Matching /\ Underway /\ [Next]_vars => Matching' /\ Underway'
<1> SUFFICES ASSUME TypeInv, Matching, Underway, [Next]_vars PROVE Matching' /\ Underway'
  OBVIOUS
<1>1. CASE ScalarEOF \/ BulkEOF \/ StreamEOF
  <2>1. InLoop /\ ~More /\ Fail(offset)
    BY <1>1, OneEOF
  <2>2. QED
    BY <2>1, EOFMatches
<1>2. CASE ScalarByte \/ BulkOne \/ BulkFirst \/ BulkNext \/ StreamByte
  <2>1. InLoop /\ More /\ LoopStep
    BY <1>2, OneLoop
  <2>2. QED
    BY <2>1, LoopMatches
<1>3. CASE BulkTwo
  BY <1>3, TwoMatches
<1>4. CASE SliceSlice \/ StreamSlice
  BY <1>4, SliceMatches
<1>5. CASE Return
  BY <1>5, ReturnMatches
<1>6. CASE UNCHANGED vars
  <2>1. UNCHANGED <<input, script, reader, outcomes>> /\ UNCHANGED <<offset, value, digits, values>>
    BY <1>6 DEF vars
  <2>2. Matching' /\ Read' = Read /\ Count(Read)' = Count(Read) /\ Begin(reader)' = Begin(reader)
    BY <2>1, SameOutcomes
  <2>3. SoFar' = SoFar /\ Matched' = Matched
    BY <2>1, <2>2, SameDefinition DEF SoFar, Matched
  <2>4. /\ Sum(Matched, offset)' = Sum(Matched, offset)
        /\ Flagged(Matched, offset)' = Flagged(Matched, offset)
    BY <2>1, <2>3 DEF Sum, SumIn, DigitsIn, Flagged, FlaggedIn
  <2>5. Underway'
    BY <2>1, <2>2, <2>3, <2>4 DEF Underway
  <2>6. QED
    BY <2>2, <2>5
<1>7. QED
  BY <1>1, <1>2, <1>3, <1>4, <1>5, <1>6 DEF Next, Done

\* Each loop, whichever reader it runs on, reads exactly the varints that the bytes hold by the
\* definition: it accepts those of at most MaxLen bytes that fit in a word, returns their values,
\* stops behind them, and a slice that fails keeps the values before the bad one
\* (reader.go:82-173, codecs.go:616-748).
THEOREM ReadersExact == Spec => []ReadsVarints
<1>1. TypeInv /\ Matching => ReadsVarints
  <2> SUFFICES ASSUME TypeInv, Matching PROVE ReadsVarints
    OBVIOUS
  <2>1. DOMAIN outcomes = Names /\ \A d \in Names : DOMAIN outcomes[d] = 1 .. Len(outcomes[d])
    BY LenProperties DEF TypeInv, Kept
  <2>2. QED
    BY <2>1 DEF Matching, Agrees, Defined, ReadsVarints
<1>2. Init => TypeInv /\ Matching /\ Underway
  BY InitTypes, InitMatches
<1>3. (TypeInv /\ Matching /\ Underway) /\ [Next]_vars => (TypeInv /\ Matching /\ Underway)'
  BY NextTypes, NextMatches
<1>4. QED
  BY <1>1, <1>2, <1>3, PTL DEF Spec

-----------------------------------------------------------------------------
(***************************************************************************)
(* What the encoder writes is a varint: the digits behind offset o make y  *)
(* as they follow one another, whatever was summed up before them.         *)
(***************************************************************************)
WrittenAt(o, y) == WrittenIn(input, o, y)

\* The varint behind p is the one written there.
LEMMA WrittenFound ==
    ASSUME TypeInv, NEW p \in Nat, NEW x \in Uint, WrittenAt(p, x)
    PROVE  Varint(p) = [ok |-> TRUE, value |-> x, at |-> p + Len(WrittenUvarint(x))]
<1> DEFINE e == p + Len(WrittenUvarint(x))
<1>1. MaxLen \in Nat \ {0} /\ Half = Place[MaxLen - 1] /\ input \in Seq(Nat)
  BY InputGiven, ReadersAssumption
<1>2. PICK q : q = e
  OBVIOUS
<1>3. /\ q \in p + 1 .. Len(input)
      /\ q \in EndsIn(input, p) /\ \A k \in EndsIn(input, p) : k \in Nat /\ q <= k
      /\ q - p <= MaxLen
      /\ SumIn(input, p, q) = x
  BY <1>1, <1>2, WordWritten DEF WrittenAt
<1>4. Ends(p) # {} /\ Min(Ends(p)) = q
  <2>1. \A y \in Ends(p) : (\A k \in Ends(p) : y <= k) => y = q
    BY <1>3 DEF Ends, EndsIn
  <2>2. QED
    BY <1>3, <2>1 DEF Min, Ends, EndsIn
<1>5. ~(q - p > MaxLen) /\ ~(Sum(p, q) >= Word) /\ Sum(p, q) = x
  <2>1. ~(x >= Word)
    BY WordHolds DEF Uint
  <2>2. QED
    BY <1>1, <1>3, <2>1 DEF Sum
<1>6. Varint(p) = [ok |-> TRUE, value |-> x, at |-> q]
  BY <1>4, <1>5, VarintIs
<1>7. QED
  BY <1>2, <1>6

\* A prefix of the input behind p is written there.
LEMMA PrefixWritten ==
    ASSUME TypeInv, NEW p \in 0 .. Len(input), NEW x \in Nat,
           IsPrefix(WrittenUvarint(x), SubSeq(input, p + 1, Len(input)))
    PROVE  WrittenAt(p, x)
<1> DEFINE w == WrittenUvarint(x)
           rest == SubSeq(input, p + 1, Len(input))
<1>1. w \in Seq(Nat) /\ Len(w) \in Nat
  BY WrittenIs
<1>2. Len(input) \in Nat /\ p \in Nat /\ \A i \in 1 .. Len(input) : input[i] \in Nat
  <2>1. Len(input) \in Nat /\ p \in Nat
    BY LenProperties DEF TypeInv, Given
  <2>2. ASSUME NEW i \in 1 .. Len(input)
        PROVE  input[i] \in Nat
    <3>1. i - 1 \in Nat /\ i - 1 < Len(input) /\ (i - 1) + 1 = i
      BY <2>1
    <3>2. input[(i - 1) + 1] \in Nat
      BY <3>1, NextByte
    <3>3. QED
      BY <3>1, <3>2
  <2>3. QED
    BY <2>1, <2>2
<1>3. /\ rest \in Seq(Nat) /\ Len(rest) = Len(input) - p
      /\ \A i \in 1 .. Len(input) - p : rest[i] = input[p + i]
  <2>1. p + 1 \in Int /\ Len(input) \in Int /\ \A i \in p + 1 .. Len(input) : input[i] \in Nat
    BY <1>2
  <2>2. /\ rest \in Seq(Nat)
        /\ Len(rest) = IF p + 1 <= Len(input) THEN Len(input) - (p + 1) + 1 ELSE 0
        /\ \A i \in 1 .. Len(input) - (p + 1) + 1 : rest[i] = input[(p + 1) + i - 1]
    BY <2>1, SubSeqProperties
  <2> HIDE DEF rest
  <2>3. Len(rest) = Len(input) - p /\ Len(input) - (p + 1) + 1 = Len(input) - p
    BY <1>2, <2>2
  <2>4. \A i \in 1 .. Len(input) - p : (p + 1) + i - 1 = p + i
    BY <1>2
  <2>5. QED
    BY <2>2, <2>3, <2>4
<1> HIDE DEF w, rest
<1>4. Len(w) <= Len(rest) /\ \A i \in 1 .. Len(w) : w[i] = rest[i]
  <2>1. IsPrefix(w, rest)
    BY DEF w, rest
  <2>2. QED
    BY <1>1, <1>3, <2>1, PrefixElements
<1>5. p + Len(w) <= Len(input) /\ \A i \in 1 .. Len(w) : input[p + i] = w[i]
  <2>1. \A i \in 1 .. Len(w) : i \in 1 .. Len(input) - p
    BY <1>1, <1>2, <1>3, <1>4
  <2>2. QED
    BY <1>1, <1>2, <1>3, <1>4, <2>1
<1>6. QED
  BY <1>5 DEF WrittenAt, WrittenIn, w

\* What a read of one varint returns, by the definition.
LEMMA OneVarint ==
    ASSUME TypeInv, NEW op, NEW p \in Nat, Varint(p).ok
    PROVE  VarintsFrom(op, p, 1) = [ok |-> TRUE, values |-> <<VarintValue(op, Varint(p).value)>>,
                                    at |-> Varint(p).at]
<1>1. VarintsFrom(op, p, 0) = Nothing(p) /\ VarintsFrom(op, p, 0 + 1) = Onward(op, VarintsFrom(op, p, 0))
  BY OneByOne
<1>2. VarintsFrom(op, p, 1) = Onward(op, Nothing(p))
  BY <1>1
<1>3. Append(<<>>, VarintValue(op, Varint(p).value)) = <<VarintValue(op, Varint(p).value)>>
  OBVIOUS
<1>4. QED
  BY <1>2, <1>3 DEF Onward, Nothing

\* Every word the encoder writes, signed or not, is read back from both readers, whatever follows
\* it, and the next read begins right behind it (encoder.go:143-172, reader.go:82-173).
THEOREM ReadersInvertEncoder == Spec => []WrittenIsRead
<1>1. TypeInv /\ Matching => WrittenIsRead
  <2> SUFFICES ASSUME TypeInv, Matching PROVE WrittenIsRead
    OBVIOUS
  <2>1. DOMAIN outcomes = Names /\ \A d \in Names : DOMAIN outcomes[d] = 1 .. Len(outcomes[d])
    BY LenProperties DEF TypeInv, Kept
  <2>2. ASSUME NEW d \in Names, NEW j \in 1 .. Len(outcomes[d])
        PROVE  Start(d, j) \in 0 .. Len(input)
    <3>1. outcomes[d] \in Seq(Outcome) /\ Len(outcomes[d]) \in Nat /\ Len(input) \in Nat
      BY LenProperties DEF TypeInv, Kept, Given
    <3>2. CASE j = 1
      BY <3>1, <3>2 DEF Start
    <3>3. CASE j # 1
      <4>1. j - 1 \in 1 .. Len(outcomes[d])
        BY <3>1, <3>3
      <4>2. outcomes[d][j - 1] \in Outcome
        BY <3>1, <4>1, ElementOfSeq
      <4>3. outcomes[d][j - 1].at \in Nat /\ outcomes[d][j - 1].at <= Len(input)
        BY <4>1, <4>2 DEF TypeInv, Kept, Outcome
      <4>4. QED
        BY <3>1, <3>3, <4>3 DEF Start
    <3>4. QED
      BY <3>2, <3>3
  <2>3. ASSUME NEW d \in Names, NEW j \in 1 .. Len(outcomes[d]), NEW x \in Uint,
               script[j].op \in {"uvarint", "varint"},
               IsPrefix(WrittenUvarint(x), SubSeq(input, Start(d, j) + 1, Len(input)))
        PROVE  /\ outcomes[d][j].ok /\ outcomes[d][j].values = <<VarintValue(script[j].op, x)>>
               /\ outcomes[d][j].at = Start(d, j) + Len(WrittenUvarint(x))
    <3> DEFINE p == Start(d, j)
    <3>1. p \in 0 .. Len(input) /\ p \in Nat /\ x \in Nat
      BY <2>2, WordHolds DEF Uint
    <3>2. WrittenAt(p, x)
      BY <2>3, <3>1, PrefixWritten
    <3>3. Varint(p) = [ok |-> TRUE, value |-> x, at |-> p + Len(WrittenUvarint(x))]
      BY <3>1, <3>2, WrittenFound
    <3>4. VarintsFrom(script[j].op, p, 1) =
              [ok |-> TRUE, values |-> <<VarintValue(script[j].op, x)>>,
               at |-> p + Len(WrittenUvarint(x))]
      <4>1. Varint(p).ok /\ Varint(p).value = x /\ Varint(p).at = p + Len(WrittenUvarint(x))
        BY <3>3
      <4>2. VarintsFrom(script[j].op, p, 1) =
                [ok |-> TRUE, values |-> <<VarintValue(script[j].op, Varint(p).value)>>,
                 at |-> Varint(p).at]
        BY <3>1, <4>1, OneVarint
      <4>3. QED
        BY <4>1, <4>2
    <3>5. Count(script[j]) = 1 /\ IsVarintRead(script[j].op)
      BY <2>3 DEF Count, IsVarintRead
    <3>6. Defined(d, j) = VarintsFrom(script[j].op, p, 1)
      BY <3>5 DEF Defined
    <3>7. Agrees(outcomes[d][j], Defined(d, j))
      BY <3>5 DEF Matching
    <3> HIDE DEF p
    <3>8. Agrees(outcomes[d][j], [ok |-> TRUE, values |-> <<VarintValue(script[j].op, x)>>,
                                  at |-> p + Len(WrittenUvarint(x))])
      BY <3>4, <3>6, <3>7
    <3>9. QED
      BY <3>8 DEF Agrees, p
  <2>4. \A x : VarintValue("uvarint", x) = x /\ VarintValue("varint", x) = Unzigzag(x)
    BY DEF VarintValue
  <2>5. \A v \in Signed : Zigzag(v) \in Uint /\ Unzigzag(Zigzag(v)) = v
    BY ZigzagType, ZigzagInverse
  <2>6. ASSUME NEW d \in Names, NEW j \in 1 .. Len(outcomes[d]), NEW x \in Uint, NEW v,
               \/ script[j].op = "uvarint" /\ v = x
               \/ script[j].op = "varint" /\ v \in Signed /\ x = Zigzag(v),
               IsPrefix(WrittenUvarint(x), SubSeq(input, Start(d, j) + 1, Len(input)))
        PROVE  /\ outcomes[d][j].ok /\ outcomes[d][j].values = <<v>>
               /\ outcomes[d][j].at = Start(d, j) + Len(WrittenUvarint(x))
    <3>1. script[j].op \in {"uvarint", "varint"} /\ VarintValue(script[j].op, x) = v
      BY <2>4, <2>5, <2>6
    <3>2. QED
      BY <2>3, <2>6, <3>1
  <2>7. QED
    BY <2>1, <2>5, <2>6 DEF WrittenIsRead
<1>2. Init => TypeInv /\ Matching /\ Underway
  BY InitTypes, InitMatches
<1>3. (TypeInv /\ Matching /\ Underway) /\ [Next]_vars => (TypeInv /\ Matching /\ Underway)'
  BY NextTypes, NextMatches
<1>4. QED
  BY <1>1, <1>2, <1>3, PTL DEF Spec

=============================================================================
