---------------------------- MODULE DecodeMemory ----------------------------
(***************************************************************************)
(* The memory behind decoded values: which arrays the strings and byte     *)
(* slices a caller got from Decoder.Decode point into, and who writes to   *)
(* these arrays later.                                                     *)
(*                                                                         *)
(* Most codecs copy.  The strings and byte slices of a map are cut from    *)
(* one array, the arena (mapArena, arenaBytes), which append replaces by a *)
(* larger one when it is full; decodeArm (src/union.go) saves and restores *)
(* it around the arm of a union.  A byte slice field is decoded into the   *)
(* memory the destination has.  The values of src/nocopy point into the    *)
(* input.  The caller fills its input again, writes into and appends to    *)
(* what it was given, and decodes again.                                   *)
(*                                                                         *)
(* Only the bytes of strings and byte slices are here, and a decoder takes *)
(* them from its input in any order of kinds; what the wire says is in     *)
(* WireFormat.                                                             *)
(***************************************************************************)
EXTENDS Naturals, Sequences, FiniteSets, SequencesExt

CONSTANTS
    Arrays,     \* names of arrays
    Input,      \* the one the caller decodes from
    None,       \* a nil slice
    InputLen,
    MaxArena,   \* stands for 64 KiB, the first size of an arena
    MaxLen,     \* bound: of a leaf
    MaxLeaves,  \* bound: values the caller holds
    MaxDepth,   \* bound: decoders and arms inside each other
    MaxFills    \* bound: what the caller writes

ASSUME MemoryAssumption ==
    /\ Input \in Arrays
    /\ None \notin Arrays
    /\ {InputLen, MaxArena, MaxLen, MaxLeaves, MaxDepth, MaxFills} \subseteq Nat \ {0}

VARIABLES
    heap,    \* per array its cells; a cell tells who filled it, and its place
    frames,  \* the decoder, and one frame for every arm it is inside of
    field,   \* the byte slice field of the destination, as the caller has it
    leaves,  \* the other values the caller was given
    fills    \* what the caller has written so far

vars == <<heap, frames, field, leaves, fills>>

Cell   == Nat \X Nat
Slices == [arr : Arrays, off : Nat, len : Nat, cap : Nat]

\* What a frame reads from and how far; whether that is a stream; the arena;
\* whether a map has begun; the variable for the values of its entries.
Frame  == [arr : Arrays, pos : Nat, end : Nat, stream : BOOLEAN,
           arena : Slices \cup {None}, inMap : BOOLEAN, vv : Slices \cup {None}]

\* A live leaf is supposed to show the input from src on, the others want.  A
\* string is a leaf too, one the caller happens not to write to.
Leaf   == [at : Slices, live : BOOLEAN, want : Seq(Cell), src : Nat]

-----------------------------------------------------------------------------
(* Slices and arrays.                                                       *)

Shown(s)    == SubSeq(heap[s.arr], s.off + 1, s.off + s.len)
Filled(by, off, n) == [i \in 1 .. n |-> <<by, off + i>>]
Blank(n)    == [i \in 1 .. n |-> <<0, 0>>]

Stored(cells, off, new) ==
    [i \in DOMAIN cells |-> IF i > off /\ i <= off + Len(new) THEN new[i - off] ELSE cells[i]]

Whole(a, n) == [arr |-> a, off |-> 0, len |-> n, cap |-> n]

Referred ==
    {leaves[i].at.arr : i \in DOMAIN leaves}
    \cup {frames[i].arr : i \in DOMAIN frames}
    \cup {s.arr : s \in ({frames[i].arena : i \in DOMAIN frames}
                          \cup {frames[i].vv : i \in DOMAIN frames}) \ {None}}
    \cup (IF field = None THEN {} ELSE {field.at.arr})

\* Arrays that can be allocated: nobody refers to them.
Free == Arrays \ (Referred \cup {Input})

Top        == frames[Len(frames)]
Decoding   == frames # <<>>

Fits(s) == s.len <= s.cap /\ s.off + s.cap <= Len(heap[s.arr])

\* A slice never goes past its array.
TypeOK ==
    /\ heap \in [Arrays -> Seq(Cell)] /\ Len(heap[Input]) = InputLen
    /\ frames \in Seq(Frame) /\ Len(frames) <= MaxDepth
    /\ field \in Leaf \cup {None}
    /\ leaves \in Seq(Leaf) /\ Len(leaves) <= MaxLeaves
    /\ fills \in 0 .. MaxFills
    /\ \A i \in DOMAIN frames :
          frames[i].pos <= frames[i].end /\ frames[i].end <= Len(heap[frames[i].arr])
    /\ Decoding /\ Top.arena # None => Fits(Top.arena)
    /\ field # None => Fits(field.at)
    /\ \A i \in DOMAIN leaves : Fits(leaves[i].at)

-----------------------------------------------------------------------------
(* Reading the input, and what is made of it.                               *)

Rest       == Top.end - Top.pos
Source(n)  == SubSeq(heap[Top.arr], Top.pos + 1, Top.pos + n)
Moved(f, n) == [f EXCEPT !.pos = @ + n]
SetTop(f)  == frames' = [frames EXCEPT ![Len(frames)] = f]
Give(l)    == leaves' = Append(leaves, l)

\* There are n bytes, and room for another leaf (a bound).
CanTake(n) == Decoding /\ n \in 1 .. Rest /\ n <= MaxLen /\ Len(leaves) < MaxLeaves

-----------------------------------------------------------------------------
(* The decoder.                                                             *)

Init ==
    /\ heap = [a \in Arrays |-> IF a = Input THEN Filled(0, 0, InputLen) ELSE <<>>]
    /\ frames = <<>>
    /\ field = None
    /\ leaves = <<>>
    /\ fills = 0

\* Unmarshal, NewDecoder and Decoder.Decode, into a destination the caller has
\* or into a new one.
Begin(stream, used) ==
    /\ ~Decoding
    /\ frames' = <<[arr |-> Input, pos |-> 0, end |-> InputLen, stream |-> stream,
                    arena |-> None, inMap |-> FALSE, vv |-> None]>>
    /\ field' = IF used THEN field ELSE None
    /\ UNCHANGED <<heap, leaves, fills>>

\* stringFromBytes; the buffer customCodec gives to UnmarshalBinary; a key or
\* value of a map on a stream.  A stream has read them into an array of their own.
TakeCopy(n, a) ==
    /\ CanTake(n)
    /\ heap' = [heap EXCEPT ![a] = Source(n)]
    /\ Give([at |-> Whole(a, n), live |-> FALSE, want |-> Source(n), src |-> 0])
    /\ SetTop(Moved(Top, n))
    /\ UNCHANGED <<field, fills>>

\* Mutant of FieldSlice: a new slice in memory is the one the reader returns.
FieldSliceAliased(n, a, direct) ==
    IF field # None /\ (n = 0 \/ direct \/ ~Top.stream) /\ field.at.cap >= n
    THEN [field.at EXCEPT !.len = n]
    ELSE IF ~Top.stream THEN [arr |-> Top.arr, off |-> Top.pos, len |-> n, cap |-> n]
    ELSE Whole(a, n)

\* Mutant of FieldSlice: the capacity is not looked at.
FieldSliceUnchecked(n, a, direct) ==
    IF field # None /\ (n = 0 \/ direct \/ ~Top.stream) THEN [field.at EXCEPT !.len = n] ELSE Whole(a, n)

\* resizeSliceChecked: within the capacity the memory of the destination.
\* From a stream, only a struct decoded directly does that; an empty slice
\* always keeps the memory.
FieldSlice(n, a, direct) ==
    IF field # None /\ (n = 0 \/ direct \/ ~Top.stream) /\ field.at.cap >= n
    THEN [field.at EXCEPT !.len = n] ELSE Whole(a, n)

\* byteSliceCodec.DecodeTo, and the byte slice of reflectStructCodec.DecodeTo.
TakeField(n, a, direct) ==
    /\ Decoding /\ n \in 0 .. Rest /\ (n = 0 => field # None) /\ (direct => Top.stream)
    /\ LET s == FieldSlice(n, a, direct)
       IN  /\ heap' = [heap EXCEPT ![s.arr] =
                          Stored(IF s.arr = a THEN Blank(n) ELSE @, s.off, Source(n))]
           /\ field' = [at |-> s, live |-> FALSE, want |-> Source(n), src |-> 0]
    /\ SetTop(Moved(Top, n))
    /\ UNCHANGED <<leaves, fills>>

\* A map begins.  mapArena: made once, for what is left of the input.  A map
\* that ends leaves it, and any later one takes it as it is.
BeginMap(a) ==
    /\ Decoding
    /\ IF Top.arena = None /\ ~Top.stream /\ Rest > 0
       THEN LET n == IF Rest < MaxArena THEN Rest ELSE MaxArena
            IN  /\ heap' = [heap EXCEPT ![a] = Blank(n)]
                /\ SetTop([Top EXCEPT !.arena = [Whole(a, n) EXCEPT !.len = 0], !.inMap = TRUE])
       ELSE /\ SetTop([Top EXCEPT !.inMap = TRUE])
            /\ UNCHANGED heap
    /\ UNCHANGED <<field, leaves, fills>>

\* Mutant of Cut: with the capacity of the arena.
CutOpen(arena, n) == [arena EXCEPT !.off = @ + arena.len, !.len = n, !.cap = @ - arena.len]

\* arenaBytes: the last n bytes of what was in front, without room behind.
Cut(arena, n) == [arena EXCEPT !.off = @ + arena.len, !.len = n, !.cap = n]

Arena == IF Top.arena = None THEN [arr |-> Input, off |-> 0, len |-> 0, cap |-> 0] ELSE Top.arena

\* append within the capacity.
TakeFromArena(n) ==
    /\ CanTake(n) /\ Top.inMap /\ ~Top.stream
    /\ Arena.len + n <= Arena.cap
    /\ heap' = [heap EXCEPT ![Arena.arr] = Stored(@, Arena.len, Source(n))]
    /\ Give([at |-> Cut(Arena, n), live |-> FALSE, want |-> Source(n), src |-> 0])
    /\ SetTop(Moved([Top EXCEPT !.arena = [Arena EXCEPT !.len = @ + n]], n))
    /\ UNCHANGED <<field, fills>>

\* append to a larger array, with any room behind.
TakeFromGrown(n, a, room) ==
    /\ CanTake(n) /\ Top.inMap /\ ~Top.stream
    /\ Arena.len + n > Arena.cap
    /\ LET grown == [Whole(a, Arena.len + n + room) EXCEPT !.len = Arena.len]
       IN  /\ heap' = [heap EXCEPT ![a] = Shown(Arena) \o Source(n) \o Blank(room)]
           /\ Give([at |-> Cut(grown, n), live |-> FALSE, want |-> Source(n), src |-> 0])
           /\ SetTop(Moved([Top EXCEPT !.arena = [grown EXCEPT !.len = @ + n]], n))
    /\ UNCHANGED <<field, fills>>

\* Mutant of Zeroed: the variable keeps its memory.
ZeroedNever(vv) == vv

\* vv.SetZero.
Zeroed(vv) == None

\* reflectMapCodec.DecodeTo: a value that is a slice, decoded into vv and
\* stored in the map from there.
TakeEntry(n, a) ==
    /\ CanTake(n) /\ Top.inMap
    /\ LET vv == Zeroed(Top.vv)
           s  == IF vv = None \/ Top.stream THEN Whole(a, n)
                 ELSE IF vv.cap >= n THEN [vv EXCEPT !.len = n] ELSE Whole(a, n)
       IN  /\ heap' = [heap EXCEPT ![s.arr] = Stored(IF s.arr = a THEN Blank(n) ELSE @, s.off, Source(n))]
           /\ Give([at |-> s, live |-> FALSE, want |-> Source(n), src |-> 0])
           /\ SetTop(Moved([Top EXCEPT !.vv = s], n))
    /\ UNCHANGED <<field, fills>>

\* A value of src/nocopy (setSlice, ToString, binaryToBools), from memory: the
\* slice the reader returns.  The body of an arm of a stream is no input.
TakeLive(n) ==
    /\ CanTake(n) /\ ~Top.stream
    /\ Give([at |-> [arr |-> Top.arr, off |-> Top.pos, len |-> n, cap |-> n],
             live |-> Top.arr = Input,
             want |-> Source(n), src |-> Top.pos])
    /\ SetTop(Moved(Top, n))
    /\ UNCHANGED <<heap, field, fills>>

\* decodeArm, after ReadTagged has taken the body: the reader narrowed to it,
\* the arena as it is; on a stream a pooled decoder of the array it is in.
EnterArm(n, a) ==
    /\ Decoding /\ n \in 1 .. Rest /\ Len(frames) < MaxDepth
    /\ LET outer == Moved(Top, n)
           inner == [Top EXCEPT !.inMap = FALSE, !.vv = None]
       IN  frames' = [frames EXCEPT ![Len(frames)] = outer] \o
               <<IF Top.stream
                 THEN [inner EXCEPT !.arr = a, !.pos = 0, !.end = n, !.stream = FALSE, !.arena = None]
                 ELSE [inner EXCEPT !.end = Top.pos + n]>>
    /\ heap' = IF Top.stream THEN [heap EXCEPT ![a] = Source(n)] ELSE heap
    /\ UNCHANGED <<field, leaves, fills>>

\* Mutant of ArenaAfter: what was saved is restored.
ArenaAfterSaved(outer, inner) == outer.arena

\* An arena that was made for the arm ends with it; another goes on where the
\* arm has left it.  A pooled decoder has its own.
ArenaAfter(outer, inner) ==
    IF outer.stream \/ outer.arena = None THEN None ELSE inner.arena

\* decodeArm returns.
LeaveArm ==
    /\ Len(frames) > 1
    /\ LET outer == frames[Len(frames) - 1]
       IN  frames' = [Front(frames) EXCEPT ![Len(frames) - 1].arena = ArenaAfter(outer, Top)]
    /\ UNCHANGED <<heap, field, leaves, fills>>

\* A codec of the user calls Decoder.Decode of its decoder.
DecodeInside ==
    /\ Decoding
    /\ SetTop([Top EXCEPT !.arena = None])
    /\ UNCHANGED <<heap, field, leaves, fills>>

\* Decode returns, with an error or without.
End ==
    /\ Decoding
    /\ frames' = <<>>
    /\ UNCHANGED <<heap, field, leaves, fills>>

Decode ==
    \/ \E stream, used \in BOOLEAN : Begin(stream, used)
    \/ \E n \in 1 .. InputLen : TakeFromArena(n) \/ TakeLive(n)
    \/ LeaveArm
    \/ DecodeInside
    \/ End

\* What may need an array.
DecodeAllocating(a) ==
    \/ \E n \in 0 .. InputLen, direct \in BOOLEAN : TakeField(n, a, direct)
    \/ \E n \in 1 .. InputLen :
          \/ \E room \in 0 .. 1 : TakeFromGrown(n, a, room)
          \/ TakeCopy(n, a)
          \/ TakeEntry(n, a)
          \/ EnterArm(n, a)
    \/ BeginMap(a)

-----------------------------------------------------------------------------
(* The caller, between two calls.                                           *)

CallerWrites == ~Decoding /\ fills < MaxFills /\ fills' = fills + 1

\* It uses its input for other data.
Refill ==
    /\ CallerWrites
    /\ heap' = [heap EXCEPT ![Input] = Filled(fills + 1, 0, InputLen)]
    /\ UNCHANGED <<frames, field, leaves>>

\* What it writes into a slice it was given, over its bytes or, to append one,
\* behind them.  If there is no room for that, append makes a copy.
Keeps(leaf, append) == IF append THEN leaf.at.len ELSE 0
Mine(leaf, append)  == Filled(fills + 1, 0, IF append THEN 1 ELSE leaf.at.len)

Written(leaf, append) ==
    heap' = [heap EXCEPT ![leaf.at.arr] =
                Stored(@, leaf.at.off + Keeps(leaf, append), Mine(leaf, append))]

Rewritten(leaf, append) ==
    [leaf EXCEPT !.at.len  = IF append THEN @ + 1 ELSE @,
                 !.want    = SubSeq(@, 1, Keeps(leaf, append)) \o Mine(leaf, append)]

HasRoom(leaf, append) == append => leaf.at.len < leaf.at.cap

WriteLeaf(i, append) ==
    /\ CallerWrites /\ HasRoom(leaves[i], append)
    /\ Written(leaves[i], append)
    /\ leaves' = [leaves EXCEPT ![i] = Rewritten(@, append)]
    /\ UNCHANGED <<frames, field>>

WriteField(append) ==
    /\ CallerWrites /\ field # None /\ HasRoom(field, append)
    /\ Written(field, append)
    /\ field' = Rewritten(field, append)
    /\ UNCHANGED <<frames, leaves>>

Caller ==
    \/ Refill
    \/ \E append \in BOOLEAN :
          \/ WriteField(append)
          \/ \E i \in DOMAIN leaves : WriteLeaf(i, append)

\* Which array is allocated makes no difference.
Next == Caller \/ Decode \/ (Free # {} /\ DecodeAllocating(CHOOSE a \in Free : TRUE))

Spec == Init /\ [][Next]_vars

-----------------------------------------------------------------------------
(* Properties.                                                              *)

\* What the caller was given stays what it is, whatever is decoded later by the
\* same decoder, filled into the input, or written into or appended to another
\* of its values; only it changes its own.  What src/nocopy decoded shows the
\* input, also after it was filled again.
Standing ==
    /\ \A i \in DOMAIN leaves :
          Shown(leaves[i].at) =
              IF leaves[i].live
              THEN SubSeq(heap[Input], leaves[i].src + 1, leaves[i].src + leaves[i].at.len)
              ELSE leaves[i].want
    /\ field # None => Shown(field.at) = field.want

Cells(s) == {<<s.arr, i>> : i \in s.off + 1 .. s.off + s.cap}
Room(s)  == {<<s.arr, i>> : i \in s.off + s.len + 1 .. s.off + s.cap}
Copied   == {i \in DOMAIN leaves : ~leaves[i].live}

\* No two values have a cell in common, not even one that append would use; none
\* has one of the input, if it is not of src/nocopy; and the room of the arena,
\* where the next string goes, is nobody's.  The arena is the one of the frame
\* on top: decodeArm brings the others up to date when it returns.
Separate ==
    /\ \A i, j \in Copied : i # j => Cells(leaves[i].at) \cap Cells(leaves[j].at) = {}
    /\ \A i \in Copied :
          /\ leaves[i].at.arr # Input
          /\ field # None => Cells(leaves[i].at) \cap Cells(field.at) = {}
          /\ Decoding /\ Top.arena # None => Cells(leaves[i].at) \cap Room(Top.arena) = {}
    /\ field # None => field.at.arr # Input
    /\ Decoding /\ Top.arena # None => Top.arena.arr # Input

\* Decoding reads the caller's input and never writes to it.
InputIntact == [][Decoding => heap'[Input] = heap[Input]]_vars

=============================================================================
