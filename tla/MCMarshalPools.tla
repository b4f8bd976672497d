--------------------------- MODULE MCMarshalPools ---------------------------
(***************************************************************************)
(* Instances of MarshalPools for TLC: the values, their scripts, and the   *)
(* reference trace of every script computed by PureStep.                   *)
(***************************************************************************)
EXTENDS MarshalPools, TLC

O(name, arg) == [name |-> name, arg |-> arg]

\* A union whose arm writes, in a struct with one more field.
Union   == << O("arm", 1), O("write", 1), O("endarm", 1), O("write", 2) >>
\* A MarshalBinary method that calls Marshal, then an empty union.
Wrapper == << O("custom", 0), O("write", 3), O("endcustom", 0), O("none", 0) >>
\* An arm whose element has such a method.
Nested  == << O("arm", 2), O("custom", 0), O("write", 4), O("endcustom", 0), O("endarm", 2) >>
\* An element that cannot be encoded, at the top and inside an arm, and a
\* MarshalBinary method that fails or panics after its own Marshal began.
Broken  == << O("arm", 1), O("write", 6), O("fail", 0) >>
Fails   == << O("custom", 0), O("write", 7), O("fail", 0) >>
Panics  == << O("arm", 1), O("custom", 0), O("panic", 0) >>

Scripts == [union |-> Union, wrapper |-> Wrapper, nested |-> Nested,
            broken |-> Broken, fails |-> Fails, panics |-> Panics]

MCScript == [v \in Values |-> Scripts[v]]

TraceOf(s) ==
    LET f[i \in 0 .. Len(s)] ==
            IF i = 0 THEN << <<>> >> ELSE PureStep(f[i - 1], s[i])
    IN  f

MCTrace == [v \in Values |-> TraceOf(Scripts[v])]

Symmetry == Permutations(Procs)

(***************************************************************************)
(* The identity of an object or an array cannot be observed, nor can bytes *)
(* no slice refers to: a state is fingerprinted by what each goroutine and *)
(* each pool holds.  While Exclusive and Unshared hold, two states with    *)
(* the same view behave alike; a state where one of them fails is distinct *)
(* from every state where they hold.                                       *)
(***************************************************************************)
SliceView(s)  == <<s.arr = NoArray, Contents(s)>>
ObjectView(o) == <<SliceView(buf[o]), err[o], out[o]>>
PoolView(k)   == LET seen == {ObjectView(o) : o \in pool[k]}
                 IN  [w \in seen |-> Cardinality({o \in pool[k] : ObjectView(o) = w})]

View == <<
    [p \in Procs |-> [i \in DOMAIN frames[p] |->
        <<frames[p][i].kind, ObjectView(frames[p][i].obj)>>]],
    [p \in Procs |-> <<SliceView(ret[p]), SliceView(kept[p])>>],
    [k \in Kinds |-> PoolView(k)],
    <<phase, val, ip, sink, want, res>>,
    <<Exclusive, Unshared>> >>

=============================================================================
