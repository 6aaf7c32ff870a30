----------------------------- MODULE BoundedPool -----------------------------
(***************************************************************************)
(* What commons/worker.py promises to those who use it: wenque() accepts   *)
(* an item once fewer than Size of the accepted ones are left to process,  *)
(* each item is processed once, and end_workers() returns only when all    *)
(* have been.  WorkerPool implements it; DataIntegrity is built on it.     *)
(***************************************************************************)
EXTENDS Naturals, FiniteSets

CONSTANTS
    Item, \* what can be enqueued
    Size  \* how many threads the pool has

VARIABLES
    pending, \* items accepted and not yet processed
    done,    \* items processed
    open     \* end_workers() has not returned

vars == <<pending, done, open>>

Init == pending = {} /\ done = {} /\ open = TRUE

\* Mutant of Enqueue: a queue without a bound.
EnqueueFreely(i) ==
    /\ open
    /\ i \in Item \ (pending \cup done)
    /\ pending' = pending \cup {i}
    /\ UNCHANGED <<done, open>>

Enqueue(i) ==
    /\ open
    /\ i \in Item \ (pending \cup done)
    /\ pending' = pending \cup {i}
    /\ Cardinality(pending') <= Size
    /\ UNCHANGED <<done, open>>

Process(i) ==
    /\ i \in pending
    /\ pending' = pending \ {i}
    /\ done' = done \cup {i}
    /\ UNCHANGED open

\* An item whose processing raises stays pending: the pool never shuts down.
Shutdown ==
    /\ open
    /\ pending = {}
    /\ open' = FALSE
    /\ UNCHANGED <<pending, done>>

Next ==
    \/ \E i \in Item : Enqueue(i) \/ Process(i)
    \/ Shutdown

Spec == Init /\ [][Next]_vars

=============================================================================
