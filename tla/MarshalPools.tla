---------------------------- MODULE MarshalPools ----------------------------
(***************************************************************************)
(* Marshal and MarshalTo (src/encoder.go) over the three sync.Pools the    *)
(* encoding side shares between goroutines: marshalBuffers (a buffer and   *)
(* its encoder), encoders (a bare encoder) and tagBuffers (src/union.go, a *)
(* buffer and its encoder for the body of a union arm).                    *)
(*                                                                         *)
(* A goroutine's call is a stack of frames, each holding one pooled        *)
(* object; the value being encoded is the script of what its codecs do to  *)
(* the encoder.  The backing arrays of the byte buffers are explicit,      *)
(* because the output of Marshal is the array of a pooled buffer and is    *)
(* not copied: everything here is about who may still write to an array.   *)
(*                                                                         *)
(* The contents of a chunk of bytes are one token.  An array or object     *)
(* that nothing references is collected, and its identity is used again.   *)
(***************************************************************************)
EXTENDS Naturals, Sequences, FiniteSets, SequencesExt

CONSTANTS
    Procs,    \* the goroutines
    Objects,  \* identities of pooled objects: bounds how many exist at once
    Arrays,   \* identities of backing arrays: bounds how many exist at once
    MaxIdle,  \* a pool with this many idle objects allocates no other: a bound
    Self,     \* the writer of an encoder that writes to its own buffer
    NoArray,  \* the array of a nil slice
    Calls,    \* which functions they call: "marshal", or "encoder" for MarshalTo
    Values,   \* the values the callers encode
    Script,   \* what the codecs of a value do, in order
    Trace     \* the bytes each open buffer must hold after each operation

Kinds == {"marshal", "encoder", "tag"}
Token == {"data", "tag", "size", "junk"} \X Nat
Op    == [name : {"write", "none", "arm", "endarm", "custom", "endcustom",
                  "fail", "panic"},
          arg  : Nat]

Data(c) == << <<"data", c>> >>
Size(n) == << <<"size", n>> >>
Junk    == <<"junk", 0>>

\* customCodec.EncodeTo: the length, then the bytes MarshalBinary returned.
Sized(body) == Size(Len(body)) \o body

\* Encoder.WriteTagged: a tag, the length of the body, the body.
Tagged(tag, body) == << <<"tag", tag>> >> \o Sized(body)

(***************************************************************************)
(* What one operation does to the stack of outputs when every buffer is    *)
(* private: the reference the pooled implementation is measured against.   *)
(***************************************************************************)
Onto(stack, bytes) == [stack EXCEPT ![Len(stack)] = @ \o bytes]

PureStep(stack, op) ==
    IF op.name = "write" THEN Onto(stack, Data(op.arg))
    ELSE IF op.name = "none" THEN Onto(stack, Tagged(0, <<>>))
    ELSE IF op.name \in {"arm", "custom"} THEN Append(stack, <<>>)
    ELSE IF op.name = "endarm" THEN Onto(Front(stack), Tagged(op.arg, Last(stack)))
    ELSE IF op.name = "endcustom" THEN Onto(Front(stack), Sized(Last(stack)))
    ELSE stack

Wire(v) == Trace[v][Len(Script[v])][1]

ASSUME IdentityAssumption == Self \notin Procs /\ NoArray \notin Arrays

ASSUME ScriptAssumption == Script \in [Values -> Seq(Op)]

ASSUME TraceAssumption ==
    \A v \in Values :
        /\ Trace[v] \in [0 .. Len(Script[v]) -> Seq(Seq(Token))]
        /\ Trace[v][0] = << <<>> >>
        /\ \A i \in 1 .. Len(Script[v]) :
              /\ Trace[v][i] = PureStep(Trace[v][i - 1], Script[v][i])
              /\ Trace[v][i] # <<>>

-----------------------------------------------------------------------------
VARIABLES
    pool,    \* per pool, the idle objects
    buf,     \* per object, its bytes.Buffer: an array and a length
    err,     \* per object, the encoder's sticky error
    out,     \* per object, where its encoder writes: Self or a caller's dst
    mem,     \* per array, the bytes in it
    phase,   \* per goroutine, where it is in the call
    val,     \* per goroutine, the value it encodes
    ip,      \* per goroutine, how many operations of the script are done
    frames,  \* per goroutine, the pooled objects it holds, outermost first
    ret,     \* per goroutine, the slice a finished Marshal is handing over
    sink,    \* per goroutine, what its dst has received in this call
    kept,    \* per goroutine, the output the caller still holds
    want,    \* per goroutine, what the caller knows to be in that output
    res      \* per goroutine, how its last call ended

heap   == <<buf, err, out, mem>>
call   == <<phase, val, ip, frames, ret>>
caller == <<kept, want, res>>
vars   == <<pool, heap, call, sink, caller>>

NoSlice == [arr |-> NoArray, len |-> 0]
Slices  == [arr : Arrays \cup {NoArray}, len : Nat]
Frame   == [kind : Kinds, obj : Objects]

TypeOK ==
    /\ pool \in [Kinds -> SUBSET Objects]
    /\ buf \in [Objects -> Slices]
    /\ err \in [Objects -> BOOLEAN]
    /\ out \in [Objects -> Procs \cup {Self}]
    /\ mem \in [Arrays -> Seq(Token)]
    /\ phase \in [Procs -> {"idle", "run", "put", "copy", "unwind"}]
    /\ val \in [Procs -> Values]
    /\ ip \in [Procs -> Nat]
    /\ frames \in [Procs -> Seq(Frame)]
    /\ ret \in [Procs -> Slices]
    /\ sink \in [Procs -> Seq(Token)]
    /\ kept \in [Procs -> Slices]
    /\ want \in [Procs -> Seq(Token)]
    /\ res \in [Procs -> {"none", "returned", "written", "error", "panic"}]

-----------------------------------------------------------------------------
Top(p)     == Last(frames[p])
Held(p)    == {frames[p][k].obj : k \in DOMAIN frames[p]}
Unused     == {o \in Objects : /\ \A p \in Procs : o \notin Held(p)
                              /\ \A k \in Kinds : o \notin pool[k]}
Referenced == {buf[o].arr : o \in Objects} \cup {ret[p].arr : p \in Procs}
                                           \cup {kept[p].arr : p \in Procs}
FreeArrays == Arrays \ Referenced

\* Which unused identity an allocation takes cannot be observed.
NewObject == CHOOSE o \in Unused : TRUE
NewArray  == CHOOSE a \in FreeArrays : TRUE

Contents(s) == IF s.arr = NoArray THEN <<>> ELSE SubSeq(mem[s.arr], 1, s.len)

OpOf(p)   == Script[val[p]][ip[p] + 1]
AtEnd(p)  == ip[p] = Len(Script[val[p]])
Doing(p, names) ==
    phase[p] = "run" /\ ~AtEnd(p) /\ OpOf(p).name \in names

-----------------------------------------------------------------------------
(* Writing: Encoder.Write on the encoder of object o.                       *)

\* bytes.Buffer.Write, in place when the array has room for w, and otherwise
\* into a larger array that starts with a copy of what was written so far.
AppendBytes(o, w) ==
    LET b    == buf[o]
        held == Contents(b)
        n    == b.len + Len(w)
    IN  \/ /\ b.arr # NoArray
           /\ mem' = [mem EXCEPT ![b.arr] = held \o w \o SubSeq(@, n + 1, Len(@))]
           /\ buf' = [buf EXCEPT ![o] = [arr |-> b.arr, len |-> n]]
        \/ /\ FreeArrays # {}
           /\ mem' = [mem EXCEPT ![NewArray] = held \o w]
           /\ buf' = [buf EXCEPT ![o] = [arr |-> NewArray, len |-> n]]

\* Mutant of WriteSink: the error of the writer is dropped.
WriteSinkForgets(o, w) ==
    /\ \E n \in 0 .. Len(w) : sink' = [sink EXCEPT ![out[o]] = @ \o SubSeq(w, 1, n)]
    /\ UNCHANGED err

\* A caller's writer takes some of the bytes; taking fewer is an error, and
\* an error may come with all of them.
WriteSink(o, w) ==
    \E n \in 0 .. Len(w), failed \in BOOLEAN :
        /\ n < Len(w) => failed
        /\ sink' = [sink EXCEPT ![out[o]] = @ \o SubSeq(w, 1, n)]
        /\ err' = [err EXCEPT ![o] = failed]

\* The error is sticky: after it nothing is written.
Write(o, w) ==
    /\ \/ err[o] /\ UNCHANGED <<mem, buf, err, sink>>
       \/ ~err[o] /\ out[o] = Self /\ AppendBytes(o, w) /\ UNCHANGED <<err, sink>>
       \/ ~err[o] /\ out[o] # Self /\ WriteSink(o, w) /\ UNCHANGED <<mem, buf>>
    /\ UNCHANGED out

(* Taking an object out of its pool and making it ready, and giving it back. *)

\* Mutant of ResetBuffer: the buffer is not emptied.
ResetBufferKeeps(o, kind) ==
    \/ (kind = "marshal" => buf[o].arr # NoArray) /\ UNCHANGED buf
    \/ /\ kind = "marshal" /\ buf[o].arr = NoArray
       /\ FreeArrays # {}
       /\ buf' = [buf EXCEPT ![o] = [arr |-> NewArray, len |-> 0]]

\* Mutant of ResetBuffer: off by one.
ResetBufferShrinks(o, kind) ==
    IF kind = "encoder" THEN UNCHANGED buf
    ELSE buf' = [buf EXCEPT ![o] = [arr |-> @.arr, len |-> @.len - 1]]

\* marshalState.Reset and Grow, tagState.Buffer.Reset; an encoder has none.
ResetBuffer(o, kind) ==
    \/ kind = "encoder" /\ UNCHANGED buf
    \/ /\ kind = "tag" \/ (kind = "marshal" /\ buf[o].arr # NoArray)
       /\ buf' = [buf EXCEPT ![o] = [arr |-> @.arr, len |-> 0]]
    \/ /\ kind = "marshal" /\ buf[o].arr = NoArray
       /\ FreeArrays # {}
       /\ buf' = [buf EXCEPT ![o] = [arr |-> NewArray, len |-> 0]]

\* Mutant of ResetEncoder: the writer of the last call stays.
ResetEncoderKeepsWriter(o, w, isNil) ==
    /\ err' = [err EXCEPT ![o] = isNil]
    /\ UNCHANGED out

\* Encoder.Reset; a nil writer is an error from the start.
ResetEncoder(o, w, isNil) ==
    /\ out' = [out EXCEPT ![o] = w]
    /\ err' = [err EXCEPT ![o] = isNil]

\* sync.Pool.Get: any idle object, or a new one although others are idle.
Available(kind) ==
    pool[kind] \cup (IF Cardinality(pool[kind]) < MaxIdle /\ Unused # {}
                     THEN {NewObject} ELSE {})

Get(p, kind, w, isNil) ==
    /\ \E o \in Available(kind) :
          /\ pool' = [pool EXCEPT ![kind] = @ \ {o}]
          /\ ResetBuffer(o, kind)
          /\ ResetEncoder(o, w, isNil)
          /\ frames' = [frames EXCEPT ![p] = Append(@, [kind |-> kind, obj |-> o])]
    /\ UNCHANGED mem

\* Mutant of Put: an object goes back to its pool while a codec still has it.
PutEarly(p) ==
    /\ pool' = [pool EXCEPT ![Top(p).kind] = @ \cup {Top(p).obj}]
    /\ frames' = [frames EXCEPT ![p] = IF Len(@) > 1 THEN @ ELSE Front(@)]

Put(p) ==
    /\ pool' = [pool EXCEPT ![Top(p).kind] = @ \cup {Top(p).obj}]
    /\ frames' = [frames EXCEPT ![p] = Front(@)]

\* Mutant of Forgotten: the pooled buffer keeps the array it gave away.
ForgottenNot(o) == buf

\* state.Buffer = bytes.Buffer{}
Forgotten(o) == [buf EXCEPT ![o] = NoSlice]

\* Objects nothing references are collected.
Collect(S) ==
    /\ buf' = [o \in Objects |-> IF o \in S THEN NoSlice ELSE buf[o]]
    /\ err' = [o \in Objects |-> IF o \in S THEN FALSE ELSE err[o]]
    /\ out' = [o \in Objects |-> IF o \in S THEN Self ELSE out[o]]

-----------------------------------------------------------------------------
(* Calls and what the codecs do in them.                                    *)

\* Marshal(v), or MarshalTo(v, dst) with a dst that has received nothing yet.
Begin(p) ==
    /\ phase[p] = "idle"
    /\ \E v \in Values : val' = [val EXCEPT ![p] = v]
    /\ \/ "marshal" \in Calls /\ Get(p, "marshal", Self, FALSE)
       \/ "encoder" \in Calls /\ \E isNil \in BOOLEAN : Get(p, "encoder", p, isNil)
    /\ phase' = [phase EXCEPT ![p] = "run"]
    /\ ip' = [ip EXCEPT ![p] = 0]
    /\ sink' = [sink EXCEPT ![p] = <<>>]
    /\ res' = [res EXCEPT ![p] = "none"]
    /\ UNCHANGED <<ret, kept, want>>

Advance(p) == ip' = [ip EXCEPT ![p] = @ + 1]

\* A codec writes a chunk.  Codecs that write return nil, so an error of the
\* writer is seen later; only the union codec returns e.err.
WriteChunk(p) ==
    /\ Doing(p, {"write"})
    /\ Write(Top(p).obj, Data(OpOf(p).arg))
    /\ Advance(p)
    /\ UNCHANGED <<pool, phase, val, frames, ret, caller>>

\* Mutant of EncodeNone: a write that failed is tried again.
EncodeNoneRetries(p) ==
    /\ Doing(p, {"none"})
    /\ Write(Top(p).obj, Tagged(0, <<>>))
    /\ IF err'[Top(p).obj] THEN UNCHANGED ip ELSE Advance(p)
    /\ UNCHANGED <<pool, phase, val, frames, ret, caller>>

\* A union with no arm set: WriteTagged(0, nil), and return e.err.
EncodeNone(p) ==
    /\ Doing(p, {"none"})
    /\ Write(Top(p).obj, Tagged(0, <<>>))
    /\ phase' = [phase EXCEPT ![p] = IF err'[Top(p).obj] THEN "unwind" ELSE @]
    /\ Advance(p)
    /\ UNCHANGED <<pool, val, frames, ret, caller>>

\* A union with an arm set, or a MarshalBinary method that calls Marshal.
Open(p) ==
    /\ \/ Doing(p, {"arm"}) /\ Get(p, "tag", Self, FALSE)
       \/ Doing(p, {"custom"}) /\ Get(p, "marshal", Self, FALSE)
    /\ Advance(p)
    /\ UNCHANGED <<phase, val, ret, sink, caller>>

\* The arm is encoded: its body goes to the enclosing encoder ...
WriteArm(p) ==
    /\ Doing(p, {"endarm"})
    /\ Top(p).kind = "tag"
    /\ Write(Last(Front(frames[p])).obj, Tagged(OpOf(p).arg, Contents(buf[Top(p).obj])))
    /\ phase' = [phase EXCEPT ![p] = "put"]
    /\ Advance(p)
    /\ UNCHANGED <<pool, val, frames, ret, caller>>

\* ... before its buffer goes back to the pool, and e.err is returned.
PutArm(p) ==
    /\ phase[p] = "put"
    /\ Top(p).kind = "tag"
    /\ Put(p)
    /\ phase' = [phase EXCEPT ![p] =
                    IF err[Last(Front(frames[p])).obj] THEN "unwind" ELSE "run"]
    /\ UNCHANGED <<heap, val, ip, ret, sink, caller>>

\* Marshal has encoded its value: the output is the buffer's own array, and
\* the pooled state forgets it ...
TakeOutput(p) ==
    /\ phase[p] = "run"
    /\ Top(p).kind = "marshal"
    /\ IF Len(frames[p]) = 1 THEN AtEnd(p) ELSE Doing(p, {"endcustom"})
    /\ ret' = [ret EXCEPT ![p] = buf[Top(p).obj]]
    /\ buf' = Forgotten(Top(p).obj)
    /\ phase' = [phase EXCEPT ![p] = "put"]
    /\ UNCHANGED <<pool, err, out, mem, val, ip, frames, sink, caller>>

\* ... before it goes back to the pool.  An inner Marshal returns to the
\* MarshalBinary method that called it, an outer one to the caller.
PutMarshal(p) ==
    /\ phase[p] = "put"
    /\ Top(p).kind = "marshal"
    /\ Put(p)
    /\ \/ /\ Len(frames[p]) > 1
          /\ phase' = [phase EXCEPT ![p] = "copy"]
          /\ UNCHANGED <<ret, caller>>
       \/ /\ Len(frames[p]) = 1
          /\ phase' = [phase EXCEPT ![p] = "idle"]
          /\ kept' = [kept EXCEPT ![p] = ret[p]]
          /\ want' = [want EXCEPT ![p] = Wire(val[p])]
          /\ ret' = [ret EXCEPT ![p] = NoSlice]
          /\ res' = [res EXCEPT ![p] = "returned"]
    /\ UNCHANGED <<heap, val, ip, sink>>

\* customCodec.EncodeTo: what MarshalBinary returned goes to the encoder.
WriteCustom(p) ==
    /\ phase[p] = "copy"
    /\ Write(Top(p).obj, Sized(Contents(ret[p])))
    /\ ret' = [ret EXCEPT ![p] = NoSlice]
    /\ phase' = [phase EXCEPT ![p] = "run"]
    /\ Advance(p)
    /\ UNCHANGED <<pool, val, frames, caller>>

\* MarshalTo has encoded its value: Encode returns e.err, and Put.
EndTo(p) ==
    /\ phase[p] = "run"
    /\ AtEnd(p)
    /\ Top(p).kind = "encoder"
    /\ Put(p)
    /\ phase' = [phase EXCEPT ![p] = "idle"]
    /\ res' = [res EXCEPT ![p] = IF err[Top(p).obj] THEN "error" ELSE "written"]
    /\ UNCHANGED <<heap, val, ip, ret, sink, kept, want>>

\* A codec returns an error: more than one arm set, a key or an element that
\* cannot be encoded, an error of MarshalBinary.
Fail(p) ==
    /\ Doing(p, {"fail"})
    /\ phase' = [phase EXCEPT ![p] = "unwind"]
    /\ UNCHANGED <<pool, heap, val, ip, frames, ret, sink, caller>>

\* The error goes up one frame, whose object goes back to its pool.
Unwind(p) ==
    /\ phase[p] = "unwind"
    /\ Put(p)
    /\ buf' = IF Top(p).kind = "marshal" THEN Forgotten(Top(p).obj) ELSE buf
    /\ \/ Len(frames[p]) > 1 /\ UNCHANGED <<phase, res>>
       \/ /\ Len(frames[p]) = 1
          /\ phase' = [phase EXCEPT ![p] = "idle"]
          /\ res' = [res EXCEPT ![p] = "error"]
    /\ UNCHANGED <<err, out, mem, val, ip, ret, sink, kept, want>>

\* A codec panics and the caller recovers: no Put is deferred, so every
\* object the call held is lost to its pool.
Panic(p) ==
    /\ Doing(p, {"panic"})
    /\ Collect(Held(p))
    /\ frames' = [frames EXCEPT ![p] = <<>>]
    /\ phase' = [phase EXCEPT ![p] = "idle"]
    /\ res' = [res EXCEPT ![p] = "panic"]
    /\ UNCHANGED <<pool, mem, val, ip, ret, sink, kept, want>>

(* The garbage collector and the caller.                                    *)

\* sync.Pool may drop an idle object at any time.
Evict ==
    /\ \E k \in Kinds : \E o \in pool[k] :
          /\ pool' = [pool EXCEPT ![k] = @ \ {o}]
          /\ Collect({o})
    /\ UNCHANGED <<mem, call, sink, caller>>

\* A caller overwrites the output it was given, or its spare capacity.
Scribble(p) ==
    /\ kept[p].arr # NoArray
    /\ mem' = [mem EXCEPT ![kept[p].arr] = [i \in DOMAIN @ |-> Junk]]
    /\ want' = [want EXCEPT ![p] = [i \in DOMAIN @ |-> Junk]]
    /\ UNCHANGED <<pool, buf, err, out, call, sink, kept, res>>

\* A caller lets go of its output.
Forget(p) ==
    /\ kept[p].arr # NoArray
    /\ kept' = [kept EXCEPT ![p] = NoSlice]
    /\ want' = [want EXCEPT ![p] = <<>>]
    /\ UNCHANGED <<pool, heap, call, sink, res>>

-----------------------------------------------------------------------------
Init ==
    /\ pool = [k \in Kinds |-> {}]
    /\ buf = [o \in Objects |-> NoSlice]
    /\ err = [o \in Objects |-> FALSE]
    /\ out = [o \in Objects |-> Self]
    /\ mem = [a \in Arrays |-> <<>>]
    /\ phase = [p \in Procs |-> "idle"]
    /\ val \in [Procs -> Values]
    /\ ip = [p \in Procs |-> 0]
    /\ frames = [p \in Procs |-> <<>>]
    /\ ret = [p \in Procs |-> NoSlice]
    /\ sink = [p \in Procs |-> <<>>]
    /\ kept = [p \in Procs |-> NoSlice]
    /\ want = [p \in Procs |-> <<>>]
    /\ res = [p \in Procs |-> "none"]

Encode(p) ==
    \/ WriteChunk(p) \/ EncodeNone(p) \/ Open(p)
    \/ WriteArm(p) \/ PutArm(p)
    \/ TakeOutput(p) \/ PutMarshal(p) \/ WriteCustom(p)
    \/ EndTo(p) \/ Fail(p) \/ Unwind(p) \/ Panic(p)

Next ==
    \/ \E p \in Procs : Begin(p) \/ Encode(p) \/ Scribble(p) \/ Forget(p)
    \/ Evict

Spec == Init /\ [][Next]_vars

\* A goroutine in a call keeps running; nothing makes it call again.
FairSpec == Spec /\ \A p \in Procs : WF_vars(Encode(p))

-----------------------------------------------------------------------------
(* What the pooling must not break.                                         *)

\* An object taken from a pool is in one frame of one call and in no pool,
\* and an idle object is in one pool (the Get and Put pairs of Marshal,
\* MarshalTo and reflectUnionCodec.EncodeTo, on every way out).
Exclusive ==
    /\ \A p, q \in Procs : \A i \in DOMAIN frames[p], j \in DOMAIN frames[q] :
          frames[p][i].obj = frames[q][j].obj => p = q /\ i = j
    /\ \A p \in Procs : \A i \in DOMAIN frames[p], k \in Kinds :
          frames[p][i].obj \notin pool[k]
    /\ \A k, l \in Kinds : k # l => pool[k] \cap pool[l] = {}

\* A backing array has one owner: a pooled buffer, a Marshal handing it over,
\* or the caller it was handed to (state.Buffer = bytes.Buffer{}).
Unshared ==
    /\ \A o, x \in Objects : buf[o].arr = buf[x].arr /\ o # x => buf[o].arr = NoArray
    /\ \A p, q \in Procs :
          /\ ret[p].arr = ret[q].arr /\ p # q => ret[p].arr = NoArray
          /\ kept[p].arr = kept[q].arr /\ p # q => kept[p].arr = NoArray
          /\ ret[p].arr = kept[q].arr => ret[p].arr = NoArray
    /\ \A p \in Procs, o \in Objects :
          /\ buf[o].arr = ret[p].arr => buf[o].arr = NoArray
          /\ buf[o].arr = kept[p].arr => buf[o].arr = NoArray

\* While a call runs, each buffer it has open holds exactly the bytes its
\* codecs have written, with nothing of an earlier call or of another
\* goroutine (Reset on every Get).
HeldBytes ==
    \A p \in Procs : phase[p] = "run" =>
        \A i \in DOMAIN frames[p] : frames[p][i].kind # "encoder" =>
            Contents(buf[frames[p][i].obj]) = Trace[val[p]][ip[p]][i]

\* The output a caller holds reads as it did when Marshal returned it, or as
\* the caller left it, whatever the pools do afterwards (output = state.Bytes()).
OutputStable == \A p \in Procs : Contents(kept[p]) = want[p]

\* A dst receives a prefix of the value's bytes and nothing else, and all of
\* them when MarshalTo returns nil (the sticky error of Encoder.Write).
SinkFaithful == \A p \in Procs :
    /\ IsPrefix(sink[p], Wire(val[p]))
    /\ res[p] = "written" => sink[p] = Wire(val[p])

\* Pooling cannot be observed: the calls do what MarshalSpec promises.
Promise == INSTANCE MarshalSpec WITH
    busy <- [p \in Procs |-> phase[p] # "idle"],
    kept <- [p \in Procs |-> Contents(kept[p])]
Implements == Promise!Spec

\* A call that starts returns: no Get and no Write waits for another call.
CallsReturn == \A p \in Procs : phase[p] # "idle" ~> phase[p] = "idle"

=============================================================================
