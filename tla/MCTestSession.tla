--------------------------- MODULE MCTestSession ---------------------------
(* Two tests marked parallel, one of which uses the I/O fixture, and one    *)
(* that is not, on two xdist workers.                                       *)
EXTENDS TestSession

CONSTANTS p1, p2, s1, w1, w2

Tests == {p1, p2, s1}
ParallelTests == {p1, p2}
IOTests == {p1}
Workers == {w1, w2}

\* A new execution, and two in which earlier runs have left statuses: a result of
\* a test that may be lost, and an Executing in and outside the parallel session.
TodoOnly == [t \in Tests |-> "TODO"]
EarlierRuns ==
    {TodoOnly,
     [TodoOnly EXCEPT ![p1] = "PASS", ![s1] = "Executing"],
     [TodoOnly EXCEPT ![p1] = "Executing", ![p2] = "FAIL"]}

=============================================================================
