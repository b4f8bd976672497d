# Verification of binary

This directory holds TLA+ models of `kelindar/binary`, a Go package that serializes values by
reflection, with the configurations that model-check them and machine-checked proofs about them.
Paths like `src/encoder.go:60` name the code; every definition that models code is listed with its
lines in `PROJECT.json` under `map`.

## The system

A value is encoded by the codec of its type. The package builds that codec once, from the type, keeps
it in a process-wide cache, and lets it write into a pooled buffer or to the caller's writer. Decoding
takes the same codec and writes over what the caller's destination holds. There are no goroutines of the
package's own: all concurrency is callers using the shared pools and the shared cache at the same time.

| Part | State it keeps | Operations | Talks to |
|---|---|---|---|
| Pooled encoding (`encoder.go`, `union.go:14-67`) | the pools `encoders`, `marshalBuffers`, `tagBuffers`; per object a buffer, a writer, a sticky error | `Marshal`, `MarshalTo`, `Encoder.Reset`, `Write`, union arms | codecs write to the encoder; a `MarshalBinary` method may call `Marshal` again |
| Codec cache and scanner (`scanner.go`) | the map `schemas`; per coder the pair `last`, `codec` | `scan`, `scanType` | `Encoder.Encode`, `Decoder.Decode` |
| Struct decoding (`codecs.go:780-1110`) | the destination, the decoder's position | `reflectStructCodec.EncodeTo`, `DecodeTo` on the direct and the generic path | the readers, the codecs of the fields |
| Readers (`reader.go`, `decoder.go`) | bytes and offset, or a stream | `Read`, `Slice`, `ReadUvarint`, `ReadTagged`, bulk varints | every codec |
| Union decoding (`union.go:115-185`) | the bounds of the reader, the arena, the selected arm | `DecodeTo`, `decodeArm`, `clear` | pooled decoders on a stream |
| Maps (`codecs.go:1200-1628`) | the map, the arena strings are cut from | three specialised codecs and a generic one | key and value codecs |
| Collections and pointers (`codecs.go:20-777`) | the slice and its capacity | counts, resizing, elements | element codecs |
| Custom codecs (`codecs.go:1114-1207`) | none | `MarshalBinary`, `UnmarshalBinary`, `GetBinaryCodec` | user code |
| `sorted` | none | delta encoding of integers, time series, counters | the encoder and decoder |
| `nocopy`, `unsafe` | none of their own, they alias the input | zero-copy decoding | the reader's bytes |

What is hard here, and what correctness means for each part:

* *Pooled encoding.* The output of `Marshal` is the array of a pooled buffer. It is not copied: the
  buffer is made to forget it. The body of a union arm is read out of a pooled buffer before that
  buffer goes back. Encoders come out of their pool with an old writer and an old error. Calls nest, fail
  in the middle, and panic. It is correct if objects and arrays have one owner at a time, an output never
  changes under its holder, a writer gets a prefix of its value and all of it on success, and every
  call returns.
* *Codec cache.* Building a codec takes no lock, so several goroutines build one for the same type.
  Coders also remember their last codec. It is correct if everyone uses one codec per type, no error
  leaves a codec behind, no shortcut for slices skips a method of the elements, and every scan returns.
* *Decoding.* Every codec decides for itself when it has seen enough of its input to touch the destination,
  and memory in the destination is used again. It is correct if nothing of the old contents shows in a
  decoded value, input that is cut short is an error, each `Decode` stops at the last byte of its value,
  and a failed one leaves a clear boundary between new and old fields.
* *Readers.* Two varint loops (scalar and bulk) must agree on value, position and error up to the tenth
  byte; streams read short.
* *Unions and maps.* The reader's bounds and the arena are swapped and restored; strings keep
  pointing into an array that `append` has outgrown.
* *sorted, nocopy, unsafe.* Arithmetic modulo 2^w has to be undone exactly; values alias the input.

## Modules

| Module | What it is |
|---|---|
| `MarshalPools` | pooled encoding, with the backing arrays of the buffers explicit |
| `MarshalSpec` | what `Marshal` and `MarshalTo` promise, with no pools |
| `MCMarshalPools` | values, their scripts and reference traces for TLC |
| `MarshalPools_proofs` | types, exclusive objects, unshared arrays; what buffers and outputs contain, what writers receive; the pools implement `MarshalSpec` |
| `Varints` | how integers are written, digit by digit; the conversion of signed words |
| `Facts_proofs` | facts that the proofs share: naturals, sequences, sums, induction and recursion; signed words survive the conversion, and what is written of a word is a varint of it |
| `Readers`, `MCReaders`, `Readers_proofs` | the readers of a decoder and their varint loops |
| `SortedSeries`, `MCSortedSeries`, `SortedSeries_proofs` | the package `sorted` (on top of `Varints`) |
| `SchemaCache`, `MCSchemaCache`, `SchemaCache_proofs` | the codec cache and the scanner; descriptions of Go types |
| `StructDecode`, `MCStructDecode`, `StructDecode_proofs` | decoding structs into destinations used before; structs and values |
| `WireFormat`, `MCWireFormat`, `WireFormat_proofs` | what the codecs of every type write and read, over nested types; types, versions and values |
| `DecodeMemory`, `MCDecodeMemory`, `DecodeMemory_proofs` | the arrays that decoded strings and slices point into; a view for TLC |

Definitions called "Mutant of X" are plausible bugs in X; replacing X by one of them must break the
property `PROJECT.json` names. They are used by nothing else.

### MarshalPools

A goroutine is a process `p`. Its call is a stack `frames[p]` of pooled objects, the outermost call
first; the top is the encoder the codecs write to. A value is a *script*: the sequence of what its codecs
do to the encoder (`write` a chunk, `none` for a union without an arm, `arm`..`endarm`, `custom`..`endcustom`
for a `MarshalBinary` method that calls `Marshal`, `fail`, `panic`). `ip[p]` counts the operations done.

| Code | Model |
|---|---|
| `Get` + `Reset` (+ `Grow`) in `Marshal`, `MarshalTo`, `reflectUnionCodec.EncodeTo` | `Get` with `ResetBuffer`, `ResetEncoder`, in `Begin` and `Open` |
| `Encoder.Write` with the sticky error | `Write`, used by `WriteChunk`, `EncodeNone`, `WriteArm`, `WriteCustom` |
| `bytes.Buffer.Write` (external) | `AppendBytes`: in place, or into a larger array, whichever |
| the caller's `io.Writer` (external) | `WriteSink`: any part of the bytes, with or without an error |
| `output = state.Bytes()`, `state.Buffer = bytes.Buffer{}` (`encoder.go:62-64`) | `TakeOutput` |
| `marshalBuffers.Put(state)` and return | `PutMarshal` |
| `e.WriteTagged(...)`, then `tagBuffers.Put(state)` (`union.go:64-66`) | `WriteArm`, then `PutArm` |
| an error through the frames | `Fail`, `Unwind` (one frame at a time) |
| a panic the caller recovers: nothing is deferred | `Panic`: the objects are lost, not returned |
| `sync.Pool` dropping objects at any time (external) | `Evict` |
| the caller's use of its output | `Scribble`, `Forget` |

`Get` and the writes and `Put` of a call are separate actions, so every interleaving of two calls over the
pools is explored. The bytes of a chunk are one token: no property looks inside a chunk.
`Trace` is the reference: the contents of every open buffer after each operation if all buffers
were private, computed from the script by `PureStep` (the assumption `TraceAssumption` says so).

### SchemaCache

A goroutine takes a coder nobody else uses (`Begin`), compares the type with the coder's last one
(`encoder.go:119`, `decoder.go:53`), asks `schemas` (`LoadHit`, `LoadMiss`), runs `scanType` as an explicit
stack of calls (`Visit`, `Return`, `Reject`), and stores the result or takes the one that was first
(`StoreFirst`, `StoreLate`). A type is a description: kind, marshaling methods, tags, and the types
`scanType` visits in order. A codec is who built it, what it is, and the types whose codecs it runs.
Go computes the codec of a slice of primitives from the kind of the elements and from the codec they got;
the model has both tests. `Deals` is what a type is made of, however deep: the properties compare it with
what `scanType` visited. `GoAssumption` says what Go says of types: only structs have tags, a type that is
not declared has no methods.

### StructDecode

One destination is decoded into again and again. `Open` gives the decoder a new input, the encoding of
one or two values cut at any byte, and keeps the destination or makes a fresh one. `Decode` starts
`reflectStructCodec.DecodeTo`; then each read is an action: a number (`ReadUint`), a string
(`ReadString`), the flag of a pointer (`ReadPointer`), the length of a slice and its resizing
(`ReadLength`), its body (`ReadBody`) or one element (`ReadElement`), and codecs that read a stream
before they touch the destination (`ReadBuffered`). The memory of a slice is kept up to its capacity, so
what an earlier value left there is in the model. `Direct` and `Unchecked` are the conditions under which
the code takes its inlined path, and does not look at how much input there is.

### Varints and Readers

`Varints` has the writing side: the conversion of signed words (`Zigzag`, `encoder.go:143-147`) and the
bytes of an unsigned one. `Readers` reads an input twice with one script of reads (scalar varints,
slices of integers, strings, fixed-width integers), first on a `sliceReader`, then on a `streamReader`.
A varint loop is a chain of actions, one per byte: `ScalarByte` (`reader.go:91-108`), `BulkOne`, `BulkTwo`,
`BulkFirst`, `BulkNext` (the loop of `readVarints`, `reader.go:115-160`, with its shortcuts for one and two bytes),
and `StreamByte` (`encoding/binary`, external). The width is a parameter: 128 is `Base`, 2^63 is `Half`, and
`Half = Place[MaxLen - 1]` (`Base` to that power) says what 63 = 9*7 says in the code, that the last byte has
one bit.
`Varint` defines what a varint is, without a loop; the loops are compared with it. Which error is returned
is not in the model, only that there is one: the readers differ in it (`io.EOF`, `io.ErrUnexpectedEOF`).

### SortedSeries

A state is a value of the caller (one column or two), a destination whose columns have memory and a length
in use, and the bytes of the last encoding. `Encode` sorts the value where it lies (any order `Less`
allows, and no change if it is sorted) and writes it; `EncodeDest` does so with what was decoded; `Decode` and
`DecodeJunk` read the bytes of the encoder, or others, into the destination. Each is one action, because one
goroutine runs it and no call inside gives the memory to another. A column is read by the folds in `Reading` (as
many values as were announced) and `ReadingAll` (until the bytes end); `Undone` has the three ways to combine
a difference with what came before: addition of unsigned words, of signed words, exclusive or. A decode that fails leaves in the destination's memory what
it had read; `Kept` and `PairLens` say which part of that the caller sees. A float is a number of one bit
more than the `float32` it is rounded to.

### WireFormat

A type is a description (`Desc`): a kind, and the types it is made of. The kinds are numbers and arrays of floats
(`fixed`), anything behind a length (`blob`: strings, byte slices, slices of floats, the slices of
`nocopy` and `unsafe`, with their prefixes), slices, pointers, structs and arrays (`tuple`), maps and unions.
As `scanType` makes the codec of a type from the codecs of its parts, `Made` makes the codecs of all types from `inner`,
the codecs of their parts; `Codecs[n]` are those of the types that are nested at most `n` deep, and `Codec` those of all. A codec
is a set of values, a zero value, what `wireMinBytes` and `isZeroWireCodec` say, and the two functions `encode` and `decode`.
No operator is recursive, and so the module can be proved about: a fact about a codec follows from facts about the codecs of its parts.
Maps differ in who checks what and
when: `ChecksFirst` (`stringMapCodec` looks at all keys first only if it writes in one piece, `codecs.go:1313`),
`TooLarge`, and `Least`, the bytes an entry takes at least.

| Code | Model |
|---|---|
| `wireMinBytes`, `isZeroWireCodec` | `MinBytes`, `Wireless` |
| one element after the other until one fails | `EncodeAll`, `DecodeAll` |
| `ensureElements`, `ensureAvailable`; a stream does not know what is left | `Scarce`; the field `knows` of the context |
| the three ways of `reflectCollectionCodec.DecodeTo` to fill a slice | `Elements`: resize only, append (`PutAt`), or count check and `DecodeAll` |
| `clear(m)`, then one entry after the other; the map stays where it is on an error | `Emptied`, `Entries`; `Bad(left)` carries what is left |
| `decodeArm`: the bounds of the reader narrowed, or a pooled decoder of the body | `Body`: the field `end` of the context, known from then on |
| arms cleared, body decoded into the arm that was there, arm set last | `UnionBody`, `SetArm` |

A slice in a destination has its elements up to the capacity, so that what an earlier value left behind the
length is decoded over later, as in Go. A state is one value on its way: `Send` encodes it, `Cut` and `Damage` change the bytes,
`Receive` decodes them with both readers into the two destinations, which live on from round to
round. `Versions` pairs the type that is written with the type that reads it: the two differ in the arms of their unions, and
their arms in the number of their fields (`Evolves`, `Extends`). What a version sees of a value is `Visible`, and `Legible` says which values it
can read at all.

### DecodeMemory

A slice is an array, an offset, a length and a capacity. What a caller was given is a *leaf*, with the
bytes it is supposed to show (`want`), or for `nocopy` the place of the input (`live`, `src`). `frames` is the
decoder, and one frame more for each arm of a union it is inside of, each with what it reads and its arena.

| Code | Model |
|---|---|
| `string(b)`; the buffer of `UnmarshalBinary`; `streamReader.Slice` | `TakeCopy` |
| `resizeSliceChecked` and `Read` into a byte slice of the destination | `TakeField` with `FieldSlice` |
| `mapArena`; `arenaBytes` within the capacity, and where `append` moves the arena | `BeginMap`; `TakeFromArena`, `TakeFromGrown`, both with `Cut` |
| `vv.SetZero()`, decode into `vv`, `rv.SetMapIndex` | `TakeEntry` with `Zeroed` |
| `setSlice`, `ToString` on the reader's slice (`nocopy`) | `TakeLive` |
| `decodeArm`: save, narrow, decode, restore | `EnterArm`, `LeaveArm` with `ArenaAfter` |
| a codec of the user that calls `Decode` on its decoder | `DecodeInside` |
| the caller fills its input again, writes to a value, appends to it | `Refill`, `WriteLeaf`, `WriteField` |

The decoder takes these in any order, whatever the type, and may stop anywhere: an error is an `End`. A
string is a leaf like a slice, one the caller does not write to. Which array is allocated is left to `CHOOSE`;
it is one nobody refers to.

## Runs

Numbers of states are distinct states; each run takes between a second and about two minutes.

| Run | Instance | Shows |
|---|---|---|
| `marshal_pools` | 2 goroutines in `Marshal`; a union arm with a nested `Marshal` inside, a nested `Marshal` that fails, one that panics | `TypeOK`, `Exclusive`, `Unshared`, `HeldBytes`, `OutputStable` (27 000 states) |
| `marshal_promise` | `Marshal` and `MarshalTo` over the same pools; unions, an error inside an arm, writers that fail, write short or are nil | `SinkFaithful`, and `Implements`: every step is a step of `MarshalSpec` or none (350 000) |
| `marshal_returns` | `MarshalTo` with a nested `Marshal` and an empty union | `CallsReturn` under fairness (330 000) |
| `schema_cache` | 2 goroutines, 2 coders, 17 types with and without methods and errors | `TypeOK`, `OneCodec`, `CodecHonoursMethods`, `OnlyScannable`, `ScanReturns` (85 000) |
| `schema_recursive` | `type Node struct { Value uint8; Next *Node }` | a violation of `ScanFits`, see below |
| `decode_reuse` | the direct path on streams; codecs on both readers | `TypeOK`, `FieldsInOrder`, `AcceptsOnlyWhole`, `IntactDecoded` (315 000) |
| `decode_slice` | the direct path in memory | `IntactDecoded`: what is all there is decoded, whatever the destination held (40 000) |
| `decode_short` | `struct { ID uint; Body []byte }` in memory | a violation of `AcceptsOnlyWhole`, see below |
| `readers` | every input of up to five bytes, four scripts | `TypeOK`; `ReadsVarints`: all loops accept the varints that fit in a word and nothing else; `SameReading`: slice and stream agree; `WrittenIsRead` (1 500 000) |
| `sorted_series` | seven types, up to three elements, 15 damaged inputs, memory for none or two elements | `TypeOK`; `RoundTrip`; `NoPanic`; `PairsMatch`; `Reencodes`: encoding what was decoded writes the same bytes (84 000) |
| `wire_format` | seventeen types and two versions of one; every cut, one damaged byte, two values one after the other | `TypeOK`; `RoundTrip`: into any destination; `Evolution`: arms and fields of arms the reader does not know; `CutRefused`; `SameOutcome`: count checks in memory and the end of a stream accept the same; `PartialRefused`: an encoding that failed is no value; `NeverMixed`: nor does a failed decoding leave a mixture (174 000) |
| `decode_memory` | two values and a field, one arm, an input of two bytes, one write of the caller | `TypeOK`; `Standing`: what the caller has changes only by its own writes; `Separate`: no two values share a cell, not even one `append` would use; `InputIntact` (436 000) |

### Bounds

* Two goroutines: every hazard of the pools and the cache is between two of them (one leaves something in an
  object, another takes it). A third adds only another owner of the same kind; the proofs are for any
  number.
* `Objects`, `Arrays`: identities that exist at once, not allocations: what is unreferenced is used
  again. Two nested calls hold at most six objects. In `marshal_pools` and `marshal_promise` a
  run that used up its arrays would only lose the growing writes, not the ones in place.
* `MaxIdle`: above this many idle objects a pool allocates no new one. With one or two idle objects
  every `Get` can still meet a used object or a new one.
* `MaxStack`: the calls of `scanType` a stack has room for. Finite types need three; the run of
  a recursive type has fifty and would overflow any number.
* Structs have two to five fields and slices up to two elements, in two values of different lengths: a destination then
  has more memory than one of them needs and less than the other.
* `Base`, `Half`: in `readers` digits below 4 and words of 32 values give varints of three bytes, so there is a byte
  that is neither first nor last, and the last carries one bit. Five bytes hold a longest varint and another one
  behind it, or one that is too long. In `sorted_series` words have 8 values: any two of the extreme ones
  differ by more than a signed word holds.
* `MaxSize`, and values of up to three elements: enough for ties in time and for a sort that is not one exchange.
* In `wire_format`: `Max16` is 2 instead of 65535 and `Batch` 2 instead of 8, so that keys and maps that are too large and maps
  encoded in one piece appear among values of up to three entries; numbers, counts and tags are below 128, one byte each.
  `Huge` is any number that takes more than its first byte; 40 is more than any encoding is long. `Depth` 7 is how deep the deepest type is nested.
  `Anything` only spares TLC the sets of all values: a codec is a function on `Anything \cup` its values, and no theorem asks
  what it does elsewhere.
  `Damages` are 0, 1 and 3: a false, a true, and a count or length that is too large for most of the values and not for all.
  `MaxRounds` 2: a destination used before (the first round leaves in it what a complete, cut or damaged
  value leaves); after the second there is nothing to do, which is why this run does not look for deadlocks. `Fragile`: the codec of `unsafe` makes room for any length before it reads, so a damaged
  length is a question of memory and is left out.
* In `decode_memory`: an arena of one byte (`MaxArena`, 64 KiB in the code) is full after the first string, so it is
  also replaced; an input of two bytes gives an arm and something behind it, or two neighbours in the arena; a field
  of capacity two that holds one byte has room to append. One arm (`MaxDepth` 2) has an arena from outside or one of its own.
  One write of the caller (`MaxFills`) is enough to change a shared cell. `View` in
  `MCDecodeMemory` names arrays by the place of first reference, leaves out bytes behind the length of a slice, which
  are written before they are read, and keeps of a saved arena whether there was one, which is all `ArenaAfter` reads. The
  properties are functions of what is kept.
* Symmetry: goroutines are interchangeable in the two safety runs of `MarshalPools`. `View` in
  `MCMarshalPools` identifies states that differ only in the names of objects and arrays, or in bytes no
  slice refers to. While `Exclusive` and `Unshared` hold the two states behave alike, and both are in
  the view, so a state in which they fail is never taken for one in which they hold. The liveness
  run uses neither.

### Fairness

`FairSpec` asks that a goroutine inside a call keeps running (`WF_vars(Encode(p))`), which the Go scheduler
gives; nothing in the code waits for another goroutine. Nothing makes a goroutine call again, a caller
let go of its output, or a pool evict an object.

### Disagreements found

* `schema_recursive`: `scanPointer`, `scanSlice` and `scanMap` scan the element type without asking whether
  that type is being scanned already. A type that contains itself makes `scanType` recurse until the stack
  is exhausted, which in Go ends the process. `src/README.md:9` promises "arbitrary data structures of variable
  size".
* `decode_short`: on the direct path a byte slice whose capacity suffices is given its new length
  without `ensureAvailable` (`src/codecs.go:1042`), and `sliceReader.Read` (`src/reader.go:64`) copies what is left and returns no
  error. If the slice is the last thing on the wire, a cut input is accepted, and the end of the field is
  what an earlier value left there. If something follows, it meets the end of the input and fails, which is
  why the slice has to be last. `src/reader_test.go:29-31` asserts an error for every cut
  input, but decodes into a fresh variable each time.

## Proofs

Each theorem holds for every value of the constants that satisfies the named assumptions of its modules, all of
which TLC evaluates on every run:

* `MarshalPools`: `IdentityAssumption`, `ScriptAssumption` and `TraceAssumption` only say that the names differ
  and that scripts and traces are what they are called.
* `SchemaCache`: `DescAssumption` and `GoAssumption` describe Go's types, recursive ones included;
  `NoCodecAssumption` says that no entry is no codec.
* `StructDecode`: `StructsAssumption` and `ValuesAssumption` say what structs and their values are; `WireAssumption`, that
  every number and length is below 128, one byte as a varint (longer ones are the subject of `Readers`).
* `DecodeMemory`: `MemoryAssumption`, that the input is an array and the bounds are positive.
* `WireFormat`: `WireAssumption` says what the descriptions of types are, among them that the keys of maps are numbers or strings and that a
  specialised codec of maps asks for no more bytes per entry than its key and value take (3, 9, 2 and 12 in the code, `codecs.go:1363`,
  `codecs.go:1439`, `nocopy/types.go:304`, `nocopy/types.go:388`); `DepthAssumption`, that no type contains itself, since `scanType` does not return for one that does
  (`schema_recursive`); `VersionAssumption`, that versions are versions in the sense of `Evolves`, and that the bytes of an encoding, its
  counts and lengths included, are below 128.
* `Readers`: `ReadersAssumption`, that the longest varint has more than two bytes and its last byte one bit,
  and that scripts and inputs are sequences of reads and bytes; `InputAssumption`, that no input is longer than
  half the largest integer, the length above which `streamReader.Slice` refuses without looking and
  `sliceReader.Slice` does not (`reader.go:198-202`). `ReadersAgree` is false without it, for inputs no memory holds.
* `Varints`, `SortedSeries`: `VarintsAssumption` (`Half` is positive) and, for the theorems about the state,
  `SortedAssumption` (a float fits in a word, an element too, and the longest varint has one bit in its last byte, as
  64 = 9*7 + 1), `ValuesAssumption` (columns hold numbers of the ranges of their Go types, `Times` and `Data`; junk is
  bytes; and there is no second column where the type has one) and `DestsAssumption`, that the caller's destination starts with columns of one length in memory that
  is there.

| Theorem | Statement | Argument |
|---|---|---|
| `TypeCorrect`, `TypesHold` (`MarshalPools_proofs`) | `Spec => []TypeOK` | `TypeInv` adds what makes the types inductive: `Fits`, every slice lies within its array, and `Shape`, the stack of frames is as deep as the trace of the script says for the phase of the call, so that `Top` and `Front` are applied to stacks that have one |
| `ObjectsExclusive`, `ArraysUnshared` (`MarshalPools_proofs`) | `Spec => []Exclusive`, `Spec => []Unshared` | each is inductive together with `TypeInv`: an object or array that is allocated is one nobody refers to, a `Get` moves an object from a pool to a frame and a `Put` back, and an array moves from the buffer to the hand-over to the caller, being forgotten at each step |
| `BuffersHoldTheirBytes`, `OutputsStable` (`MarshalPools_proofs`) | `Spec => []HeldBytes`, `Spec => []OutputStable` | `BytesInv` joins `TypeInv`, `Exclusive`, `Unshared` and `Bytes`, which says for every phase what the buffers still in use, the slice being handed over and the kept output contain; a write changes one object and one array, and by `Exclusive` and `Unshared` nobody else has them |
| `SinksFaithful`, `PoolsImplementPromise` (`MarshalPools_proofs`) | `Spec => []SinkFaithful`, `Spec => Implements` | `SinkInv` adds to `BytesInv` that a writer has what the outermost frame has written so far, or a prefix of it once the encoder has an error. The trace of a script grows by prefixes (`PureStep`), so what was received is a prefix of the whole. The refinement has one case per action: the start of a call, a write, every way to return, and what a caller does to its output are steps of `MarshalSpec`; nested calls, arms, hand-overs, unwinding and the pools are none |
| `CacheTypes`, `OneCodecPerType`, `MethodsHonoured`, `OnlyScannableCached` (`SchemaCache_proofs`) | `TypeOK`, `OneCodec`, `CodecHonoursMethods`, `OnlyScannable` always hold | `CacheInv`: the codecs a `scanType` call has collected are sound (`Sound`: they run the codec of every type with methods they deal with, and deal with nothing that is rejected) and belong to its first parts, and each call below waits for the type of the call above it. `MadeSound` is the step: what `Made` builds from sound codecs is sound, although `scanSlice` and `Known` skip codecs, because what they skip has no methods |
| `StructTypes` (`StructDecode_proofs`) | `Spec => []TypeOK` | `Typed`: a number has one cell of memory and a length never exceeds the memory, so every resize, in place or not, leaves cells of the field's kind |
| `IntactValuesDecoded` (`StructDecode_proofs`) | `Spec => []IntactDecoded`, on every path | `StructInv`: a decode is `Aligned` or `Lost`. `Aligned`: the input is a prefix of the wires of the values that were sent (`Sending`), the position is the end of the wire of the fields and elements read so far (`Here`), these fields are decoded and the ones behind are the old ones, and there is an error only if something is missing. Each read of `n` bytes that succeeds is the piece of the wire that belongs there, because of `FlattenElements`. `Lost`: a byte slice nobody checked ran short; then the position is the end of the input and the value was not intact |
| `FieldsDecodedInOrder`, `CutInputsRefused` (`StructDecode_proofs`) | `Spec => [](Checked => FieldsInOrder)`, `Spec => [](Checked => AcceptsOnlyWhole)` | from `StructInv`: `Lost` excludes `Checked`. `Checked` is false for structs with a byte slice on the direct path in memory, and there `decode_short` shows that `AcceptsOnlyWhole` fails (see above): it is the only exception |
| `MemoryTypes`, `ValuesStand`, `ValuesSeparate`, `InputNeverWritten` (`DecodeMemory_proofs`) | `TypeOK`, `Standing`, `Separate` always hold, and `InputIntact` of every step | `MemInv`: a leaf that is a copy lies outside the input, shows what it should, and is apart from every other up to its capacity; a frame reads only behind what was cut from its array; the arena of the top frame is the only one up to date, begins its array, and all that was cut from it lies below its length; the field has an array of its own. Each action keeps this, because it allocates what nobody refers to, cuts behind the arena's length, or, for the caller, writes into one leaf |
| `ReaderTypes` (`Readers_proofs`) | `Spec => []TypeOK` | `TypeInv` adds that the reads before the present one were good, that only a string waits for its bytes, and that a value without digits is zero. `OneLoop` shows that the five actions of the varint loops are one (`LoopStep`): the two overflow tests say the same, and the shortcut for one byte is the loop's first round |
| `ReadersAgree` (`Readers_proofs`) | `Spec => []SameReading` | a reader's progress is a configuration (`Conf`), and `Step` the only way on from one. Every action of every loop is a `Step`, `BulkTwo` two of them (`LoopMoves`, `TwoMoves`, `SliceMoves`). `SameRun` says that there is one run of steps from `Begun` which both readers follow, so they end alike; the offset at which a failed slice of bytes was given up is forgotten, because there they do differ |
| `ReadersExact` (`Readers_proofs`) | `Spec => []ReadsVarints` | `Underway`: in the middle of a read, what was returned is `VarintsFrom` so far, all bytes since have the flag, and the value in hand is the sum of their digits, without a remainder although the code computes modulo the word. `SumSmallIn` bounds the sum by the next place, so nothing overflows before the last byte, and there the code's test on one bit is the definition's test on the sum (`VarintFound`, `VarintTooLarge`) |
| `ReadersInvertEncoder` (`Readers_proofs`) | `Spec => []WrittenIsRead` | `WrittenIs` unfolds the encoder's loop, `WrittenCompletesIn` adds the written digits to a sum begun before them, and `WordWritten` concludes that the bytes of a word are a varint by the definition, wherever they lie: no word has too many, because the last digit is not zero. With `ReadersExact` and `ZigzagInverse` the readers return it |
| `ZigzagInverse` (`Facts_proofs`) | both conversions between signed and unsigned words undo each other, for every width | parity of the unsigned word |
| `UintDeltaInverse`, `IntDeltaInverse` (`SortedSeries_proofs`) | adding a difference of two words to the first gives the second, although the difference wraps around | the three intervals of one modulus in which a sum or difference of words lies (`WordCases`, `AsSignedCases`) |
| `ColumnsMatch` (`SortedSeries_proofs`) | `Spec => []PairsMatch` | inductive with the shape of the destination: a decode of two columns sets both lengths or none (`PairsDecoded`), and a sort in place leaves them |
| `SeriesTypes`, `SeriesStayInside` (`SortedSeries_proofs`) | `Spec => []TypeOK`, `Spec => []NoPanic` | `TypeInv` adds that a type of one column has nothing in its second and that a wire is bytes. `ReadingRuns` and `ReadingAllRuns` turn the folds into steps from `Begun`, so what a loop has read is shown by induction on its rounds: every value has taken a varint, which ends with a byte below `Base`, and `countVarints` counts those (`Paid`, `ReadingAllCounted`). `DecodedStands` has one case per decoder, failures included; the encoders write bytes because `FlattenElements` says what the pieces of a column join to |
| `SeriesRoundTrip`, `SeriesReencode` (`SortedSeries_proofs`) | `Spec => []RoundTrip`, `Spec => Reencodes` | `RInv` adds to `TypeInv` that what is on the wire was written of a sort `v` of what was sent, and that a destination that was returned shows `v` with its floats rounded (`Seen`). `WrittenReturns` is the step: by `UvarintWritten` the varint of every difference is found where it was written; the rounds of the fold (`ReadingRuns`) then undo one difference after the other (`PlacedStep`, `ColumnRead`), by the theorems about words and, for exclusive or, by `XorInverse` and `ReversedInverse`, which rest on the binary expansion of a number (`NumberOfBits`, `BitsOfFloat`); and `countVarints` counts one byte for each (`PlacedCounts`). A sort permutes the elements (`SortsKeep`), and a rounded float rounds to itself (`SingleDouble`, `SeenKeeps`), so what was returned is in order and is written as before |
| `WireTyped` (`WireFormat_proofs`) | `Spec => []TypeOK` | `LevelTyped`, by induction on the depth: if the codecs of the parts of a type keep within their input and leave values of their types, whatever the bytes, so does the codec made of them (`MadeTyped`, one lemma per kind). The zero value is a value, and what is decoded can be encoded (`ResultsAreValues`). `Inv` carries it along `Next`: what was sent is an encoding of the value (`SentIs`), what arrives is a prefix of it or damaged (`WireIs`), and what a reader has is a decoding of that (`GotIs`) |
| `SameWire` (`WireFormat_proofs`) | `Spec => []SameOutcome` | `LevelKnown`: two contexts with the same bytes and the same end (`Alongside`) are decoded alike, even into different destinations. The heart is `ScarceFails`: if a count is refused because so many elements cannot be there, the loop of a stream fails too, since every element consumes what `wireMinBytes` says (`AllDecoded`). A type without bytes has one value (`WirelessSeen`), keys of maps are seen as they are (`KeySeen`) |
| `RoundTrips`, `VersionsUnderstood`, `CutsRefused`, `PartsRefused` (`WireFormat_proofs`) | `Spec => []RoundTrip`, `[]Evolution`, `[]CutRefused`, `[]PartialRefused` | all four from one statement, `Understood`: let the input have what was encoded as far as it goes, and nothing behind an encoding that failed (`Carries`); then a decoding succeeds if and only if the encoding did, is there in full and is legible, stops at its last byte and shows what was visible of the value. `LevelRead` proves it by induction on the depth for all pairs of versions, with `ArmUnderstood` for arms, whose body ends with the encoding, so that a shorter struct leaves bytes that are skipped (`ShorterArm`) and a longer one fails at the first field that is not there (`LongerArm`). For structs and loops `ReadStep` adds one element; the count checks pass because the elements are there (`ScarceFails` again) |
| `MapsAndUnionsClean` (`WireFormat_proofs`) | `Spec => NeverMixed` | `Clean`: whatever a decoding of what was written, or of a beginning of it, ends with, failures included, the destination has its maps and unions as they were or with what was written (`unmixed`, which looks into structs and arrays). `LevelClean` proves it by induction on the depth for all pairs of versions. Each loop has an invariant that says what it leaves when it stops at any element: `CleanTo` for the parts of a struct or array, where those behind the failure are as they were; `EntriesTo` for a map, whose entries are complete but for the last. A union whose decoding fails is as before or has no arm (`UnionLeft`). What was decoded in full is told by `Understood` |

`HeldBytes` is not inductive: while an arm is being put back or an output handed over its statement
is silent about the bytes, so `BytesInv` follows them through these phases.

Induction over data is done where the property of a number is membership in a set (`InductionBySet` in
`Facts_proofs`, from the library's well-foundedness of the naturals); the library's own rules take an operator as
a parameter, which the provers do not instantiate. What a recursive function computes rests on `Iterated` (a
step taken any number of times from a start makes a function) for `Place`, `VarintsFrom` and `WrittenUvarint`,
on `FoldExists` and `FoldIterates` for the folds of `SortedSeries`, on `FlattenElements` for sequences joined
together, and on `SumFound` and `SumOfInterval` for sums.

The codecs of `WireFormat` are functions of the depth, made by `Recursion`, and the proofs go by induction on it. `Varints` comes to the other modules with
`Facts_proofs`; their theorems use nothing of it.

Only model-checked: the liveness properties `CallsReturn` and `ScanReturns`, since this prover knows neither fairness nor
`ENABLED`.

## Not modelled

* `repro.go` and `bench/` have no behaviour of the library. `convert_js.go` copies where `convert.go` casts.
* Numbers of more than one byte in `WireFormat` and `StructDecode`; `Readers` has the varints. The width of a
  field narrower than its varint: the high bits are dropped (`codecs.go:996`), and no text says what should happen.
* What `bufio.Reader` has read ahead when a decoder is given up (`reader.go:192`), and which readers are
  wrapped in one.
* A used `[]*T` with the same pointer twice (`codecs.go:208`): destinations are values in `WireFormat`.
* The difference between nil and empty slices and maps, user code in `UnmarshalBinary` that fails or keeps its buffer,
  panics while decoding.
* Two goroutines that marshal one unsorted value of `sorted` write to it at the same time; no text of the
  repository allows or forbids it, and `SortedSeries` encodes one value at a time.
* Lengths that exhaust memory, and the `Sort` and JSON methods of `nocopy`.
* In `StructDecode`, what a decoder has consumed when it fails.

## Plan

Modelling is where the code allows it to be, and every safety property of every passing run, invariant or action
property, is proved. What is left are the parts under *Not modelled*.
