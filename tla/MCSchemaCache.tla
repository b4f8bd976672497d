--------------------------- MODULE MCSchemaCache ----------------------------
(***************************************************************************)
(* Instances of SchemaCache for TLC: Go types and their descriptions.      *)
(***************************************************************************)
EXTENDS SchemaCache, TLC

D(kind, parts) == [kind |-> kind, basic |-> "other", exact |-> FALSE, method |-> "none",
                   tags |-> "plain", parts |-> parts]
Basic(basic)   == [D("primitive", <<>>) EXCEPT !.basic = basic]

Go ==
    "uint8"      :> Basic("uint8") @@
    "string"     :> [Basic("other") EXCEPT !.exact = TRUE] @@
    \* type Octet uint8, with MarshalBinary and UnmarshalBinary
    "Octet"      :> [Basic("uint8") EXCEPT !.method = "marshal"] @@
    "chan"       :> D("other", <<>>) @@
    "[]uint8"    :> D("slice", <<"uint8">>) @@
    "[]Octet"    :> D("slice", <<"Octet">>) @@
    "[]string"   :> D("slice", <<"string">>) @@
    \* type Level uint8, with GetBinaryCodec
    "Level"      :> [Basic("uint8") EXCEPT !.method = "codec"] @@
    "*Level"     :> D("pointer", <<"Level">>) @@
    "[]*Level"   :> D("slice", <<"*Level">>) @@
    \* struct { A []uint8; B []Octet }
    "Plain"      :> D("struct", <<"[]uint8", "[]Octet">>) @@
    "map[string][]uint8" :> [D("map", <<"string", "[]uint8">>) EXCEPT !.exact = TRUE] @@
    \* struct { A []*Level; B []string; C map[string][]uint8 }
    "Mixed"      :> D("struct", <<"[]*Level", "[]string", "map[string][]uint8">>) @@
    \* struct { A *Plain `binary:"1,union"`; B *chan `binary:"2,union"` }
    "Broken"     :> [D("struct", <<"Plain", "chan">>) EXCEPT !.tags = "union"] @@
    \* struct { A *uint8 `binary:"1,union"`; B *uint8 `binary:"1,union"` }
    "Duplicate"  :> [D("struct", <<"uint8">>) EXCEPT !.tags = "invalid"] @@
    \* GetBinaryCodec returns nil
    "NilCodec"   :> [D("struct", <<>>) EXCEPT !.method = "nil"] @@
    "[]NilCodec" :> D("slice", <<"NilCodec">>) @@
    \* type Node struct { Value uint8; Next *Node }
    "*Node"      :> D("pointer", <<"Node">>) @@
    "Node"       :> D("struct", <<"uint8", "*Node">>)

MCDesc == [t \in Types |-> Go[t]]

=============================================================================
