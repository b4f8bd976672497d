--------------------------- MODULE MCStructDecode ---------------------------
(***************************************************************************)
(* Instances of StructDecode for TLC: structs and their values.  The slices*)
(* of two values of a struct differ in length, so that a destination has   *)
(* more memory than one of them needs and less than the other.             *)
(***************************************************************************)
EXTENDS StructDecode

MCFields == [
    \* struct { ID uint; Body []byte; Values []uint32; hidden; Name string }
    direct  |-> <<"uint", "bytes", "varuints", "skipped", "string">>,
    \* struct { Name string; Next *uint; Flags []bool; Names []string }
    mixed   |-> <<"string", "pointer", "bools", "strings">>,
    \* struct { Body []byte; Values []uint32; Flags []bool }: no primitive field
    generic |-> <<"bytes", "varuints", "bools">>,
    \* struct { ID uint; Body []byte }
    last    |-> <<"uint", "bytes">> ]

MCValues == [
    direct  |-> { << 5, <<1, 2>>, <<3>>, 0, <<7>> >>,
                  << 6, <<4>>, <<8, 9>>, 0, <<>> >> },
    mixed   |-> { << <<1>>, <<9>>, <<1, 0>>, << <<3>> >> >>,
                  << <<>>, <<>>, <<0>>, << <<>>, <<4, 5>> >> >> },
    generic |-> { << <<1, 2>>, <<3>>, <<1, 0>> >>,
                  << <<>>, <<8, 9>>, <<1>> >> },
    last    |-> { << 5, <<1, 2>> >>, << 6, <<3>> >> } ]

\* What a run takes of these, and what it decodes it from.
Of(f)     == [t \in Structs |-> f[t]]
TheFields == Of(MCFields)
TheValues == Of(MCValues)
OnBoth    == [t \in Structs |-> IF t = "direct" THEN {"stream"} ELSE {"slice", "stream"}]
OnSlices  == [t \in Structs |-> {"slice"}]

\* Every value alone, and every value before one other.
TheInputs == [t \in Structs |->
    {<<v>> : v \in MCValues[t]} \cup
    {<<v, CHOOSE w \in MCValues[t] : w # v>> : v \in MCValues[t]}]

=============================================================================
