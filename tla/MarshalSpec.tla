---------------------------- MODULE MarshalSpec -----------------------------
(***************************************************************************)
(* What Marshal and MarshalTo promise their callers, with no pool, buffer  *)
(* or encoder in sight: a call returns the bytes of its own value, a dst   *)
(* receives a prefix of them and all of them unless an error is reported,  *)
(* and what one caller holds is changed by nobody else.                    *)
(***************************************************************************)
EXTENDS Naturals, Sequences, SequencesExt

CONSTANTS
    Procs,    \* the callers
    Values,   \* the values they encode
    Wire(_),  \* the bytes of a value
    Junk      \* what a caller may put in an output it holds

VARIABLES busy, val, sink, kept, res

vars == <<busy, val, sink, kept, res>>

Init ==
    /\ busy = [p \in Procs |-> FALSE]
    /\ val \in [Procs -> Values]
    /\ sink = [p \in Procs |-> <<>>]
    /\ kept = [p \in Procs |-> <<>>]
    /\ res = [p \in Procs |-> "none"]

Call(p) ==
    /\ ~busy[p]
    /\ busy' = [busy EXCEPT ![p] = TRUE]
    /\ \E v \in Values : val' = [val EXCEPT ![p] = v]
    /\ sink' = [sink EXCEPT ![p] = <<>>]
    /\ res' = [res EXCEPT ![p] = "none"]
    /\ UNCHANGED kept

\* The dst has received more, and nothing but the bytes of the value.
Deliver(p) ==
    /\ busy[p]
    /\ IsPrefix(sink[p], sink'[p])
    /\ IsPrefix(sink'[p], Wire(val[p]))
    /\ sink' = [sink EXCEPT ![p] = sink'[p]]
    /\ UNCHANGED <<busy, val, kept, res>>

Return(p, how) ==
    /\ busy[p]
    /\ busy' = [busy EXCEPT ![p] = FALSE]
    /\ res' = [res EXCEPT ![p] = how]
    /\ UNCHANGED <<val, sink>>

\* Marshal returns an output, MarshalTo returns nil, or the call fails.
Returned(p) == Return(p, "returned") /\ kept' = [kept EXCEPT ![p] = Wire(val[p])]
Written(p)  == Return(p, "written") /\ sink[p] = Wire(val[p]) /\ UNCHANGED kept
Failed(p)   == (Return(p, "error") \/ Return(p, "panic")) /\ UNCHANGED kept

\* A caller overwrites, or lets go of, the output it holds.
Use(p) ==
    /\ \/ kept' = [kept EXCEPT ![p] = [i \in DOMAIN @ |-> Junk]]
       \/ kept' = [kept EXCEPT ![p] = <<>>]
    /\ UNCHANGED <<busy, val, sink, res>>

Next == \E p \in Procs :
    Call(p) \/ Deliver(p) \/ Returned(p) \/ Written(p) \/ Failed(p) \/ Use(p)

Spec == Init /\ [][Next]_vars

=============================================================================
