--------------------------- MODULE MCExecutionPlan ---------------------------
(* Instances of ExecutionPlan for TLC. *)
EXTENDS ExecutionPlan

CONSTANTS f, g, b, c, usefixtures, x, y, z, u, e1, e2

TwoExecutions == <<e1, e2>>

\* u is named by an execution and not collected.
ThreeTests == <<x, y, z>>

\* Two features, two base marks, a mark of each other kind before and after
\* them: every branch of create_test_map, and the forms the tests use.
AllMarkLists ==
    {<<>>, <<f>>, <<f, ParallelMark>>, <<ParallelMark, g>>, <<f, g>>,
     <<g, f, ParallelMark>>, <<f, Skip>>, <<b>>, <<b, ParallelMark>>, <<b, f>>,
     <<b, c>>, <<c, usefixtures>>}

\* Executions that share no test, in both orders, that overlap, one that names
\* a test twice, and one without tests.
AllContents ==
    {[e \in Execution |-> IF e = e1 THEN <<x, y>> ELSE <<z, u>>],
     [e \in Execution |-> IF e = e1 THEN <<u>> ELSE <<z, y, x>>],
     [e \in Execution |-> IF e = e1 THEN <<x, y>> ELSE <<y, z>>],
     [e \in Execution |-> IF e = e1 THEN <<x, y, x>> ELSE <<z>>],
     [e \in Execution |-> IF e = e1 THEN <<x>> ELSE <<>>]}

=============================================================================
