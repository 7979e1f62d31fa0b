------------------------------ MODULE MCColumn -------------------------------
(* Numbers for TLC: bytes of two bits, words of four such bytes, and sums    *)
(* that reach the ends of a word exactly and wrap there.                     *)
EXTENDS Column

SmallShifts == 0 .. 4
Powers      == [s \in SmallShifts |-> 2 ^ s]
SmallPsums  == {-96, -5, 64}
=============================================================================
