----------------------------- MODULE MCOptimizer -----------------------------
(* Blocks of an unsigned shift of constants and parameters and a terminator, *)
(* over 3-bit integers.                                                      *)
EXTENDS Optimizer, Bitwise
AndBits(a, b) == a & b
OrBits(a, b) == a | b
XorBits(a, b) == a ^^ b
UnsignedOps == {"const", "param", "lshr"}
Least == {MinInt}
TwoInputs == {-1, 2}
NoSlots == {}
Three == {[made |-> {<<"const", MinInt>>, <<"param", 0>>, <<"lshr", 0>>}, insts |-> 3]}
==============================================================================
