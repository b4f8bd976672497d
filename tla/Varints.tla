------------------------------ MODULE Varints ------------------------------
(***************************************************************************)
(* Variable-length integers: how the encoder writes one.  A byte carries a *)
(* digit below Base (128 in the code) and, if it is not the last of its    *)
(* integer, a flag that adds Base to it.  Words are the integers of 2*Half *)
(* values (2^64 in the code), unsigned, or signed in two's complement.     *)
(***************************************************************************)
EXTENDS Integers, Sequences

CONSTANTS Base,     \* one more than the largest digit of a byte
          Half      \* the number of non-negative signed words

ASSUME VarintsAssumption == /\ Base \in Nat \ {0, 1}
                            /\ Half \in Nat \ {0}

Word   == 2 * Half
Uint   == 0 .. Word - 1
Signed == -Half .. Half - 1

\* What the digit behind d others counts: Base to the power of d, a shift by 7 * d in the code.
Place[d \in Nat] == IF d = 0 THEN 1 ELSE Base * Place[d - 1]

-----------------------------------------------------------------------------
\* uint64(v) << 1: twice v, modulo Word.
Doubled(v) == IF v < 0 THEN 2 * v + Word ELSE 2 * v

\* The unsigned word WriteVarint writes for v: negative ones are inverted bit by bit.
Zigzag(v) == IF v < 0 THEN (Word - 1) - Doubled(v) ELSE Doubled(v)

\* Its inverse.  The exclusive or with -int64(x & 1) inverts all bits, or none.
Unzigzag(x) == IF x % 2 = 1 THEN -(x \div 2) - 1 ELSE x \div 2

\* Mutant of WrittenUvarint: the loop goes on at the largest digit too late.
WrittenUvarintLate(x) ==
    LET put[u \in Nat] == IF u <= Base THEN <<u>> ELSE <<Base + (u % Base)>> \o put[u \div Base]
    IN  put[x]

\* The bytes of an unsigned integer, low digits first.
WrittenUvarint(x) ==
    LET put[u \in Nat] == IF u < Base THEN <<u>> ELSE <<Base + (u % Base)>> \o put[u \div Base]
    IN  put[x]

=============================================================================
