--------------------------- MODULE MCLocustObjects ---------------------------
(* Instances of LocustObjects for TLC: a few names in every bucket. *)
EXTENDS LocustObjects

CONSTANTS u1, u2, b1, b2

TwoUsers == {u1, u2}
TwoBuckets == {b1, b2}
Objects == {<<b1, 1>>, <<b1, 2>>, <<b2, 1>>}
Symmetry == Permutations(TwoUsers)

=============================================================================
