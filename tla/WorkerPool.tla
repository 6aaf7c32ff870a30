----------------------------- MODULE WorkerPool -----------------------------
(***************************************************************************)
(* commons/worker.py: Workers, a pool of threads fed through a WorkQ, the  *)
(* queue.Queue whose put() first takes a permit of a semaphore and whose   *)
(* task_done() first gives one back.  One thread, the caller, enqueues     *)
(* NumItems items with wenque() and shuts the pool down with end_workers().*)
(*                                                                         *)
(* The semaphore and the queue have a lock each, so put() and task_done()  *)
(* are two steps.  Items are numbered in the order they are enqueued; the  *)
(* numbers above NumItems are the None pills of end_workers.               *)
(***************************************************************************)
EXTENDS Integers, Sequences, FiniteSets

CONSTANTS
    Worker,    \* the threads of the pool
    NumItems,  \* how many items the caller enqueues
    MaxRaises  \* bound: calls of the work function that raise

ASSUME PoolAssumption ==
    /\ IsFiniteSet(Worker)
    /\ Worker # {}
    /\ NumItems \in Nat
    /\ MaxRaises \in Nat

\* start_workers makes the queue as long as the pool is wide.
MaxSize == Cardinality(Worker)

Items   == 1..NumItems
LastPut == NumItems + MaxSize

VARIABLES
    permits,     \* value of the semaphore
    queue,       \* items in the queue
    unfinished,  \* unfinished_tasks of queue.Queue
    caller,      \* where the caller stands
    sent,        \* how many items and pills it has put
    pc,          \* where each thread stands
    item,        \* what each thread has taken last, 0 before the first
    results      \* auxiliary: how many times each item has been processed

vars == <<permits, queue, unfinished, caller, sent, pc, item, results>>

TypeOK ==
    /\ permits \in 0..MaxSize
    /\ queue \in Seq(1..LastPut)
    /\ unfinished \in Nat
    /\ caller \in {"acquire", "put", "join", "joinThreads", "returned"}
    /\ sent \in 0..LastPut
    /\ pc \in [Worker -> {"get", "work", "release", "taskDone", "exited", "raised"}]
    /\ item \in [Worker -> 0..LastPut]
    /\ results \in [Items -> Nat]

Init ==
    /\ permits = MaxSize
    /\ queue = <<>>
    /\ unfinished = 0
    /\ caller = "acquire"
    /\ sent = 0
    /\ pc = [w \in Worker |-> "get"]
    /\ item = [w \in Worker |-> 0]
    /\ results = [i \in Items |-> 0]

-----------------------------------------------------------------------------
(* The caller: wenque() for every item, then end_workers(). *)

\* Mutant of Acquire: a queue made without a size takes no permit.
AcquireNothing ==
    /\ caller = "acquire"
    /\ sent < LastPut
    /\ caller' = "put"
    /\ UNCHANGED <<permits, queue, unfinished, sent, pc, item, results>>

\* WorkQ.put: semaphore.acquire() ...
Acquire ==
    /\ caller = "acquire"
    /\ sent < LastPut
    /\ permits > 0
    /\ permits' = permits - 1
    /\ caller' = "put"
    /\ UNCHANGED <<queue, unfinished, sent, pc, item, results>>

\* ... and queue.Queue.put(), which waits for a free place of its own.
Put ==
    /\ caller = "put"
    /\ Len(queue) < MaxSize
    /\ queue' = Append(queue, sent + 1)
    /\ unfinished' = unfinished + 1
    /\ sent' = sent + 1
    /\ caller' = IF sent' = LastPut THEN "join" ELSE "acquire"
    /\ UNCHANGED <<permits, pc, item, results>>

\* Mutant of Join: end_workers does not wait for the queue.
JoinAtOnce ==
    /\ caller = "join"
    /\ caller' = "joinThreads"
    /\ UNCHANGED <<permits, queue, unfinished, sent, pc, item, results>>

\* queue.Queue.join()
Join ==
    /\ caller = "join"
    /\ unfinished = 0
    /\ caller' = "joinThreads"
    /\ UNCHANGED <<permits, queue, unfinished, sent, pc, item, results>>

JoinThreads ==
    /\ caller = "joinThreads"
    /\ \A w \in Worker : pc[w] \in {"exited", "raised"}
    /\ caller' = "returned"
    /\ UNCHANGED <<permits, queue, unfinished, sent, pc, item, results>>

-----------------------------------------------------------------------------
(* Workers.worker: the body of a thread. *)

Get(w) ==
    /\ pc[w] = "get"
    /\ queue # <<>>
    /\ queue' = Tail(queue)
    /\ item' = [item EXCEPT ![w] = Head(queue)]
    /\ pc' = [pc EXCEPT ![w] = IF Head(queue) \in Items THEN "work" ELSE "release"]
    /\ UNCHANGED <<permits, unfinished, caller, sent, results>>

\* wq.func(wi)
Work(w) ==
    /\ pc[w] = "work"
    /\ results' = [results EXCEPT ![item[w]] = @ + 1]
    /\ pc' = [pc EXCEPT ![w] = "release"]
    /\ UNCHANGED <<permits, queue, unfinished, caller, sent, item>>

Raised == {w \in Worker : pc[w] = "raised"}

\* Mutant of Raise: the thread catches the exception, calls task_done() and
\* ends, as if the item had been processed.
RaiseDone(w) ==
    /\ pc[w] = "work"
    /\ Cardinality(Raised) < MaxRaises
    /\ pc' = [pc EXCEPT ![w] = "raised"]
    /\ permits' = permits + 1
    /\ unfinished' = unfinished - 1
    /\ UNCHANGED <<queue, caller, sent, item, results>>

\* wq.func(wi) raises: the thread ends without a task_done().
Raise(w) ==
    /\ pc[w] = "work"
    /\ Cardinality(Raised) < MaxRaises
    /\ pc' = [pc EXCEPT ![w] = "raised"]
    /\ UNCHANGED <<permits, queue, unfinished, caller, sent, item, results>>

\* WorkQ.task_done: semaphore.release() ...
Release(w) ==
    /\ pc[w] = "release"
    /\ permits' = permits + 1
    /\ pc' = [pc EXCEPT ![w] = "taskDone"]
    /\ UNCHANGED <<queue, unfinished, caller, sent, item, results>>

\* Mutant of TaskDone: the thread breaks out of its loop on the pill without
\* the queue's task_done().
TaskDoneNotForPill(w) ==
    /\ pc[w] = "taskDone"
    /\ unfinished' = IF item[w] \in Items THEN unfinished - 1 ELSE unfinished
    /\ pc' = [pc EXCEPT ![w] = IF item[w] \in Items THEN "get" ELSE "exited"]
    /\ UNCHANGED <<permits, queue, caller, sent, item, results>>

\* ... and queue.Queue.task_done(); the pill ends the thread.
TaskDone(w) ==
    /\ pc[w] = "taskDone"
    /\ unfinished' = unfinished - 1
    /\ pc' = [pc EXCEPT ![w] = IF item[w] \in Items THEN "get" ELSE "exited"]
    /\ UNCHANGED <<permits, queue, caller, sent, item, results>>

-----------------------------------------------------------------------------

CallerStep == Acquire \/ Put \/ Join \/ JoinThreads

WorkerStep(w) == Get(w) \/ Work(w) \/ Release(w) \/ TaskDone(w)

\* end_workers() has returned and the threads are gone.
Finished == caller = "returned" /\ UNCHANGED vars

Next ==
    \/ CallerStep
    \/ \E w \in Worker : WorkerStep(w) \/ Raise(w)
    \/ Finished

Spec == Init /\ [][Next]_vars

\* Threads are scheduled; the work function returns or raises.
Fairness == WF_vars(CallerStep) /\ \A w \in Worker : WF_vars(WorkerStep(w))

FairSpec == Spec /\ Fairness

-----------------------------------------------------------------------------
(* Properties. *)

\* Threads that hold an item or a pill which the queue still counts.
Busy == {w \in Worker : pc[w] \in {"work", "release", "taskDone", "raised"}}

\* Threads that hold a permit.
Holders == {w \in Worker : pc[w] \in {"work", "release", "raised"}}

\* No permit is lost or made up: each is free, on its way into the queue, in
\* the queue, or held by one thread.  A thread that raised keeps it for good.
PermitsConserved ==
    permits + Len(queue) + Cardinality(Holders)
        + (IF caller = "put" THEN 1 ELSE 0) = MaxSize

\* The three counts of WorkQ agree: its permits with its places, and with both
\* unfinished_tasks, so that task_done never runs ahead of the puts.
Counts ==
    /\ PermitsConserved
    /\ unfinished = Len(queue) + Cardinality(Busy)

\* A caller that has its permit finds a free place: queue.Queue.put never
\* blocks it a second time.
PermitMeansPlace == caller = "put" => Len(queue) < MaxSize

\* The queue's join() returns only when every item was processed, once: a
\* call that raised keeps end_workers from ever reporting a clean shutdown.
JoinMeansProcessed ==
    caller \in {"joinThreads", "returned"} =>
        /\ Raised = {}
        /\ \A i \in Items : results[i] = 1

\* An item is never worked on twice, nor while another thread has it.
WorkedOnce ==
    /\ \A i \in Items : results[i] <= 1
    /\ \A w \in Worker : pc[w] = "work" => results[item[w]] = 0
    /\ \A w, x \in Worker : w # x /\ item[w] = item[x] => item[w] = 0

\* end_workers() returns, with every thread gone, unless a call raised; then
\* it does not return.
ShutdownEnds ==
    /\ [](Raised = {}) => <>(caller = "returned" /\ \A w \in Worker : pc[w] = "exited")
    /\ [](Raised # {} => [](caller # "returned"))

\* Items that are in the queue, or with a thread that has not processed them.
Pending ==
    {i \in Items : \/ \E n \in 1..Len(queue) : queue[n] = i
                   \/ \E w \in Worker : pc[w] \in {"work", "raised"} /\ item[w] = i}

Processed == {i \in Items : results[i] > 0}

\* The threads, the queue and the semaphore together are a BoundedPool as wide
\* as the pool has threads.
Pool == INSTANCE BoundedPool WITH
    Item <- Items, Size <- MaxSize,
    pending <- Pending, done <- Processed, open <- caller # "returned"

\* Workers does what BoundedPool promises of a pool that wide: no more items are
\* waiting or in work than it has threads, and end_workers returns only when
\* every item it was given has been processed.
ImplementsPool == Pool!Spec

=============================================================================
