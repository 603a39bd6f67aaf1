------------------------------- MODULE TpmBits -------------------------------
(***************************************************************************)
(* A u32 as the set of the positions of the bits that are set in it: & is  *)
(* the intersection, | the union, and ! the complement in Positions.       *)
(***************************************************************************)
EXTENDS Integers

Width == 32
Positions == 0 .. Width - 1

\* The bits of a number below 2^31.
Bits(v) == {i \in 0 .. Width - 2 : (v \div 2^i) % 2 = 1}

\* Bits shifted out of the word are lost.
Shl(word, n) == {i \in Positions : i - n \in word}
Shr(word, n) == {i \in Positions : i + n \in word}
==============================================================================
