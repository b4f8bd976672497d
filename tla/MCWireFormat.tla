---------------------------- MODULE MCWireFormat ----------------------------
EXTENDS WireFormat, TLC

Fixed(n)   == [kind |-> "fixed", width |-> n, array |-> FALSE]
Blob(p)    == [kind |-> "blob", prefix |-> p, unit |-> 1, units |-> FALSE, own |-> FALSE]
Alias      == [Blob(0) EXCEPT !.own = TRUE]
SliceOf(t) == [kind |-> "slice", elem |-> t]
Struct(ts) == [kind |-> "tuple", parts |-> ts, ahead |-> FALSE]
Union(a)   == [kind |-> "union", arms |-> a]
Map(c, p, e, n) == [kind |-> "map", codec |-> c, prefix |-> p, entry |-> e, least |-> n]

\* Go: uint, string, a string as a key, nocopy.String, uint64 or int16 as a
\* key, [2]float32 and []float32 (their width scaled down), slices of them, and
\* so on.
MCDesc ==
    "uint"     :> Fixed(1) @@
    "string"   :> Blob(0) @@
    "key"      :> Blob(2) @@
    "alias"    :> Alias @@
    "fixed8"   :> Fixed(8) @@
    "fixed2"   :> Fixed(2) @@
    "floats"   :> [kind |-> "fixed", width |-> 4, array |-> TRUE] @@
    "ints"     :> SliceOf("uint") @@
    "hidden"   :> [kind |-> "skipped"] @@
    "empty"    :> Struct(<<"hidden">>) @@
    "item"     :> Struct(<<"uint", "string", "hidden">>) @@
    "ref"      :> [kind |-> "pointer", elem |-> "item"] @@
    \* decoded by themselves
    "empties"  :> SliceOf("empty") @@
    "items"    :> SliceOf("item") @@
    "refs"     :> SliceOf("ref") @@
    "aliases"  :> SliceOf("alias") @@
    "choices"  :> SliceOf("choice") @@
    "names"    :> [Struct(<<"string", "string">>) EXCEPT !.ahead = TRUE] @@
    "row"      :> Struct(<<"ints", "ints">>) @@
    "rows"     :> Struct(<<"row", "floats">>) @@
    "uint16s"  :> [kind |-> "blob", prefix |-> 8, unit |-> 2, units |-> FALSE, own |-> TRUE] @@
    "unsafe"   :> [kind |-> "blob", prefix |-> 8, unit |-> 2, units |-> TRUE, own |-> TRUE] @@
    "reals"    :> [kind |-> "blob", prefix |-> 0, unit |-> 2, units |-> TRUE, own |-> FALSE] @@
    "strings"  :> Map("string", 0, "strings*", 3) @@
    "uints"    :> Map("uint64", 0, "uints*", 9) @@
    "lists"    :> Map("reflect", 0, "lists*", 0) @@
    "dict"     :> Map("own", 2, "dict*", 2) @@
    "hash"     :> Map("own", 4, "hash*", 12) @@
    "blob4"    :> [Alias EXCEPT !.prefix = 4] @@
    "picks"    :> Map("reflect", 0, "picks*", 0) @@
    "nested"   :> Union(1 :> "picks" @@ 2 :> "choice") @@
    \* the entries of the maps
    "strings*" :> Struct(<<"key", "string">>) @@
    "uints*"   :> Struct(<<"fixed8", "uint">>) @@
    "lists*"   :> Struct(<<"fixed2", "ints">>) @@
    "dict*"    :> Struct(<<"alias", "alias">>) @@
    "hash*"    :> Struct(<<"fixed8", "blob4">>) @@
    "picks*"   :> Struct(<<"fixed2", "choice">>) @@
    \* unions and versions of them
    "choice"   :> Union(1 :> "uint" @@ 2 :> "strings" @@ 3 :> "ints") @@
    "node1"    :> Struct(<<"uint">>) @@
    "node2"    :> Struct(<<"uint", "string">>) @@
    "old"      :> Union(1 :> "node1") @@
    "new"      :> Union(1 :> "node2" @@ 4 :> "ints") @@
    "message1" :> Struct(<<"old", "ints">>) @@
    "message2" :> Struct(<<"new", "ints">>)

MCTypes == DOMAIN MCDesc

MCAnything == Any

Roots == {"empties", "items", "refs", "aliases", "choices", "names", "rows", "uint16s",
          "unsafe", "reals", "strings", "uints", "lists", "dict", "hash", "nested", "message2"}

MCVersions == {<<t, t>> : t \in Roots}
    \cup {<<"message1", "message2">>, <<"message2", "message1">>}

S(s)      == [mem |-> s, len |-> Len(s)]
Ints(s)   == S([i \in DOMAIN s |-> <<s[i]>>])
Fix(n, w) == [i \in 1 .. w |-> IF i = 1 THEN n ELSE 0]
Nil       == [tag \in {1, 2, 3} |-> <<>>]
Item(n)   == <<<<n>>, IF n = 0 THEN <<>> ELSE <<n, 2>>, 0>>
E(k, v)   == <<k, v>>

MCValues ==
    "empties"  :> {S(<<>>), S(<<<<0>>, <<0>>>>)} @@
    "items"    :> {S(<<Item(1)>>), S(<<Item(0), Item(2)>>)} @@
    "refs"     :> {S(<<<<Item(1)>>>>), S(<<<<>>, <<Item(0)>>>>)} @@
    "aliases"  :> {S(<<<<>>>>), S(<<<<1>>, <<>>>>)} @@
    "choices"  :> {S(<<Nil, Nil>>), S(<<[Nil EXCEPT ![1] = <<<<2>>>>]>>),
                   S(<<[Nil EXCEPT ![3] = <<Ints(<<1>>)>>], Nil>>),
                   S(<<[Nil EXCEPT ![2] = <<<<E(<<1>>, <<>>), E(<<1, 2, 3>>, <<>>)>>>>]>>),
                   S(<<[Nil EXCEPT ![1] = <<<<2>>>>, ![3] = <<S(<<>>)>>]>>)} @@
    "nested"   :> {1 :> <<<<E(Fix(1, 2), [Nil EXCEPT ![1] = <<<<2>>>>]), E(Fix(2, 2), Nil)>>>> @@ 2 :> <<>>,
                   1 :> <<>> @@ 2 :> <<[Nil EXCEPT ![3] = <<Ints(<<1>>)>>]>>,
                   1 :> <<>> @@ 2 :> <<[Nil EXCEPT ![1] = <<<<1>>>>, ![3] = <<Ints(<<1>>)>>]>>} @@
    "names"    :> {<<<<>>, <<>>>>, <<<<1>>, <<3>>>>} @@
    "rows"     :> {<<<<S(<<>>), Ints(<<1, 2>>)>>, Fix(3, 4)>>, <<<<Ints(<<1>>), Ints(<<3>>)>>, Fix(0, 4)>>} @@
    "uint16s"  :> {<<>>, <<1, 0>>, <<1, 0, 2, 3>>} @@
    "unsafe"   :> {<<>>, <<1, 0>>, <<1, 0, 2, 3>>} @@
    "reals"    :> {<<>>, <<1, 0>>, <<1, 0, 2, 3>>} @@
    "strings"  :> {<<>>, <<E(<<>>, <<>>)>>, <<E(<<2>>, <<1>>), E(<<1>>, <<>>)>>, <<E(<<1, 2, 3>>, <<>>)>>,
                   <<E(<<1>>, <<>>), E(<<1, 2, 3>>, <<>>)>>} @@
    "uints"    :> {<<>>, <<E(Fix(1, 8), <<3>>)>>} @@
    "lists"    :> {<<>>, <<E(Fix(1, 2), S(<<>>))>>, <<E(Fix(1, 2), Ints(<<1>>)), E(Fix(2, 2), S(<<>>))>>} @@
    "dict"     :> {<<>>, <<E(<<>>, <<>>), E(<<1>>, <<2>>)>>, <<E(<<1>>, <<>>), E(<<2>>, <<>>), E(<<3>>, <<>>)>>} @@
    "hash"     :> {<<E(Fix(1, 8), <<>>)>>, <<E(Fix(0, 8), <<2>>)>>} @@
    "message1" :> {<<(1 :> <<>>), Ints(<<1>>)>>, <<(1 :> <<<<<<2>>>>>>), Ints(<<1, 2>>)>>} @@
    "message2" :> {<<(1 :> <<>> @@ 4 :> <<>>), S(<<>>)>>,
                   <<(1 :> <<<<<<1>>, <<3>>>>>> @@ 4 :> <<>>), Ints(<<1>>)>>,
                   <<(1 :> <<>> @@ 4 :> <<Ints(<<1>>)>>), Ints(<<2>>)>>}

=============================================================================
