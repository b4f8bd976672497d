--------------------------- MODULE MCSortedSeries ---------------------------
(***************************************************************************)
(* Instances of SortedSeries for TLC.  Words have 8 values and take one or *)
(* two bytes, the second of which holds one bit; elements of slices have   *)
(* 4 values, floats 4 and, before they are rounded, 8.                     *)
(***************************************************************************)
EXTENDS SortedSeries

Singles(S, n) == {[time |-> s, data |-> <<>>] : s \in BoundedSeq(S, n)}

ThePairs == {[time |-> s, data |-> t] : s \in BoundedSeq({3, 7}, 2), t \in BoundedSeq({1, 6}, 2)}

\* One column, or two, which may be of different lengths.
TheValues ==
    [Int16s       |-> Singles({-2, 0, 1}, 3),
     Int64s       |-> Singles({-4, -3, 3}, 3),
     Uint16s      |-> Singles({0, 3}, 3),
     Uint64s      |-> Singles({1, 7}, 2),
     Timestamps   |-> Singles({0, 5, 7}, 3),
     TimeCounters |-> ThePairs,
     TimeSeries   |-> ThePairs]

\* Memory for two elements, of which one is in use, or none.
Used(data) ==
    {[time |-> <<1, 1>>, data |-> data, timeLen |-> 1, dataLen |-> Min({1, Len(data)})],
     [time |-> <<>>, data |-> <<>>, timeLen |-> 0, dataLen |-> 0]}

TheDests == [k \in Kinds |-> Used(IF k \in Pairs THEN <<2, 2>> ELSE <<>>)]

TheAppended == {<<0, 6>>, <<3, 1>>}

\* Bytes that end in the middle of a varint, or hold one that does not fit in a word (4, 2) or is
\* too long (4, 4), and good ones, behind counts and sizes that are right, too small or too large.
TheBytes == { <<>>, <<4>>, <<4, 2>>, <<1, 2>>, <<1, 4, 2>>, <<4, 4, 1>>, <<2, 0, 1, 4>> }

TheJunk ==
    {[count |-> c, size |-> Len(b), bytes |-> b] : c \in 1 .. 2, b \in TheBytes}
        \cup {[count |-> 1, size |-> 3, bytes |-> <<1, 2>>]}

=============================================================================
