--------------------------- MODULE MCDataIntegrity ---------------------------
(* Instances of DataIntegrity for TLC. *)
EXTENDS DataIntegrity

CONSTANTS u1, u2

TwoUsers == {u1, u2}

\* Both objects of one user in the first check, one of the other in the second.
OneOfEach == {<<1, u1, 1>>, <<1, u1, 2>>, <<2, u2, 1>>}

=============================================================================
