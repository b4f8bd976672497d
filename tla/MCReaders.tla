----------------------------- MODULE MCReaders -----------------------------
(***************************************************************************)
(* Instances of Readers for TLC.  With digits below 4 and words of 32      *)
(* values a varint has up to three bytes, and the third holds one bit, as  *)
(* the tenth does in the code.                                             *)
(***************************************************************************)
EXTENDS Readers

CONSTANT MaxInput    \* the longest input

R(op, n) == [op |-> op, n |-> n]

TheScripts == { <<R("uvarint", 1), R("varint", 1)>>,
                <<R("uvarints", 2), R("varint", 1)>>,
                <<R("varints", 2), R("fixed", 2)>>,
                <<R("string", 1), R("varints", 1)>> }

TheInputs == BoundedSeq(0 .. 2 * Base - 1, MaxInput)

=============================================================================
