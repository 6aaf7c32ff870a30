------------------------------ MODULE LRUCache ------------------------------
(***************************************************************************)
(* core/runner.py: LRUCache, a table of bounded size that remembers in a   *)
(* fifo the order in which its keys came in, and InMemoryDB, which adds    *)
(* pop_one.  Every operation holds the cache's lock from its first line to *)
(* its last, so each is one step.  The values are left out: an operation   *)
(* never looks at one.                                                     *)
(***************************************************************************)
EXTENDS Integers, Sequences, SequencesExt

CONSTANTS
    Key,     \* what is stored
    MaxSize  \* maxsize of the cache

ASSUME CacheAssumption == MaxSize \in Nat \ {0}

VARIABLES
    table,   \* keys of the table
    fifo,    \* keys in the fifo, left end first
    entered, \* auxiliary: keys of the table, in the order they came in
    popped   \* auxiliary: pop_one has returned a key

cacheVars == <<table, fifo, entered, popped>>

CacheTypeOK ==
    /\ table \subseteq Key
    /\ fifo \in Seq(Key)
    /\ entered \in Seq(Key)
    /\ popped \in BOOLEAN

CacheInit ==
    /\ table = {}
    /\ fifo = <<>>
    /\ entered = <<>>
    /\ popped = FALSE

-----------------------------------------------------------------------------
(* LRUCache. *)

\* The fifo after the append of store().
Grown(k) == IF k \in table THEN fifo ELSE Append(fifo, k)

\* Mutants of Evicted: the right end of the fifo, or one entry too late.
EvictedNewest(k) == IF Len(Grown(k)) > MaxSize THEN {Last(Grown(k))} ELSE {}
EvictedLate(k) == IF Len(Grown(k)) > MaxSize + 1 THEN {Head(Grown(k))} ELSE {}

\* What store() deletes from the table: the left end of an overfull fifo.
Evicted(k) == IF Len(Grown(k)) > MaxSize THEN {Head(Grown(k))} ELSE {}

Store(k) ==
    /\ fifo' = IF Evicted(k) = {} THEN Grown(k) ELSE Tail(Grown(k))
    /\ table' = (table \cup {k}) \ Evicted(k)
    /\ entered' = LET kept == IF k \in table THEN entered ELSE Append(entered, k)
                  IN  IF Evicted(k) = {} THEN kept
                      ELSE RemoveFirst(kept, Head(Grown(k)))
    /\ UNCHANGED popped

Delete(k) ==
    /\ table' = table \ {k}
    /\ fifo' = RemoveFirst(fifo, k)
    /\ entered' = RemoveFirst(entered, k)
    /\ UNCHANGED popped

\* Mutant of PopOne: a lookup that leaves the key in the table.
PeekOne(k) ==
    /\ k \in table
    /\ popped' = TRUE
    /\ UNCHANGED <<table, entered, fifo>>

\* InMemoryDB.pop_one returns k; the fifo keeps it.
PopOne(k) ==
    /\ k \in table
    /\ table' = table \ {k}
    /\ entered' = RemoveFirst(entered, k)
    /\ popped' = TRUE
    /\ UNCHANGED fifo

CacheNext == \E k \in Key : Store(k) \/ Delete(k) \/ PopOne(k)

\* An InMemoryDB, as scripts/locust uses it.  As long as popped is FALSE it is
\* an LRUCache, as conftest.py uses it.
CacheSpec == CacheInit /\ [][CacheNext]_cacheVars

-----------------------------------------------------------------------------
(* Properties. *)

\* The fifo lists each key of the table once, oldest first.
InStep ==
    /\ table = ToSet(fifo)
    /\ IsInjective(fifo)
    /\ fifo = entered

\* In an LRUCache store() and delete() keep the fifo in step with the table:
\* what makes an eviction take the oldest entry.  An InMemoryDB is out of step
\* once pop_one has left a key behind in the fifo.
FifoMatchesTable == ~popped => InStep

\* The cache never outgrows its size, and no entry is out of reach of an
\* eviction: the table cannot grow without bound, whoever pops.
Bounded ==
    /\ Len(fifo) <= MaxSize
    /\ table \subseteq ToSet(fifo)

\* store() "evicts left most old entry": in an LRUCache an entry leaves the
\* table only when it is the oldest, and never the one just stored.
EvictsOldest ==
    [][\A k \in Key : ~popped /\ Store(k) =>
            /\ k \in table'
            /\ table \ table' \subseteq {entered[i] : i \in DOMAIN entered \cap {1}}]_cacheVars

=============================================================================
