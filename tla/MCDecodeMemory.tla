--------------------------- MODULE MCDecodeMemory ---------------------------
EXTENDS DecodeMemory, TLC

CONSTANTS a1, a2, a3, a4, a5, a6

MCArrays == {Input, a1, a2, a3, a4, a5, a6}

\* States that differ in the names of arrays are one state: an array is the
\* place where it is first referred to.  A byte behind the length of a slice is
\* written before it is read, so that its value is not part of the state.  Of
\* the arena a frame has saved only whether there was one is read.
Arr(s)  == IF s = None THEN None ELSE s.arr
Order   == [i \in DOMAIN leaves |-> leaves[i].at.arr] \o <<IF field = None THEN None ELSE field.at.arr, Input>>
           \o [i \in DOMAIN frames |-> frames[i].arr]
           \o (IF Decoding THEN <<Arr(Top.arena)>> ELSE <<>>)
Name(a) == CHOOSE i \in DOMAIN Order : Order[i] = a /\ \A j \in 1 .. i - 1 : Order[j] # a
Seen(l) == IF l = None THEN None
           ELSE [l EXCEPT !.at.arr = Name(@)] @@ [bytes |-> IF Fits(l.at) THEN Shown(l.at) ELSE <<>>]
Saved(f) == <<f.pos, f.end, Name(f.arr), f.stream, f.inMap, f.arena = None,
              IF f.vv = None THEN None ELSE [f.vv EXCEPT !.arr = Name(@)],
              SubSeq(heap[f.arr], f.pos + 1, f.end)>>

View == <<[i \in DOMAIN leaves |-> Seen(leaves[i])],
          Seen(field),
          heap[Input], fills,
          [i \in DOMAIN frames |-> Saved(frames[i])],
          IF Decoding /\ Top.arena # None THEN [Top.arena EXCEPT !.arr = Name(@)] ELSE None>>

=============================================================================
