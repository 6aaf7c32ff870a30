--------------------------- MODULE MCTargetLocking ---------------------------
(* Instances of TargetLocking for TLC. *)
EXTENDS TargetLocking, TLC

CONSTANTS s1, s2, p1, p2, t1, t2

OneTarget  == <<t1>>
TwoTargets == <<t1, t2>>

\* Clients that ask for the same kind of lock are interchangeable.
ClientSymmetry == Permutations(Client \ Parallel) \cup Permutations(Parallel)

=============================================================================
