-------------------------- MODULE WorkerPoolProofs --------------------------
(***************************************************************************)
(* Proofs about WorkerPool.  The invariant has four parts: types, the      *)
(* counts of permits and unfinished items, the order in which numbers pass *)
(* through the queue, and how far every number taken from it has come.     *)
(***************************************************************************)
EXTENDS WorkerPool, FiniteSetTheorems, TLAPS

\* How many items and pills have been taken from the queue.
Taken == sent - Len(queue)

\* The caller has put everything when it waits in join(), and nothing is left
\* when it is past it.
CallerInOrder ==
    /\ caller \in {"acquire", "put"} => sent < LastPut
    /\ caller \in {"join", "joinThreads", "returned"} => sent = LastPut
    /\ caller \in {"joinThreads", "returned"} => unfinished = 0

\* The queue holds the numbers that follow the last one taken, and every
\* number taken went to one thread.
QueueInOrder ==
    /\ Taken \in Nat
    /\ \A k \in 1..Len(queue) : queue[k] = Taken + k
    /\ \A w \in Worker : item[w] <= Taken
    /\ \A w, x \in Worker : w # x /\ item[w] = item[x] => item[w] = 0

\* An item has been processed once when it was taken and no thread works on
\* it, or has raised on it, and not at all before.
Progress ==
    /\ \A w \in Worker : pc[w] \in {"work", "raised"} =>
            item[w] \in Items /\ results[item[w]] = 0
    /\ \A i \in Items :
         \/ i > Taken /\ results[i] = 0
         \/ i <= Taken /\ results[i] = 1
         \/ /\ results[i] = 0
            /\ \E w \in Worker : pc[w] \in {"work", "raised"} /\ item[w] = i

IInv == TypeOK /\ Counts /\ CallerInOrder /\ QueueInOrder /\ Progress

-----------------------------------------------------------------------------

\* start_workers makes a pool of at least one thread.
LEMMA Sizes == MaxSize \in Nat \ {0} /\ NumItems \in Nat /\ LastPut \in Nat
<1>1. Cardinality(Worker) \in Nat
  BY PoolAssumption, FS_CardinalityType
<1>2. Cardinality(Worker) # 0
  BY PoolAssumption, FS_EmptySet
<1> QED BY <1>1, <1>2, PoolAssumption DEF MaxSize, LastPut

\* Any set of threads is finite, and joining or leaving it counts for one.
LEMMA CountThreads ==
    ASSUME NEW S \in SUBSET Worker, NEW w \in Worker
    PROVE  /\ Cardinality(S) \in Nat
           /\ w \notin S => Cardinality(S \cup {w}) = Cardinality(S) + 1
           /\ w \in S => /\ Cardinality(S) > 0
                         /\ Cardinality(S \ {w}) = Cardinality(S) - 1
<1>1. IsFiniteSet(S)
  BY PoolAssumption, FS_Subset
<1>2. Cardinality(S) \in Nat
  BY <1>1, FS_CardinalityType
<1>3. w \notin S => Cardinality(S \cup {w}) = Cardinality(S) + 1
  BY <1>1, FS_AddElement
<1>4. w \in S => Cardinality(S) > 0
  BY <1>1, <1>2, FS_EmptySet
<1>5. w \in S => Cardinality(S \ {w}) = Cardinality(S) - 1
  BY <1>1, FS_RemoveElement
<1> QED BY <1>2, <1>3, <1>4, <1>5

\* The counts are numbers.
LEMMA CountTypes == Cardinality(Holders) \in Nat /\ Cardinality(Busy) \in Nat
<1>1. PICK w \in Worker : TRUE
  BY PoolAssumption
<1>2. Holders \in SUBSET Worker /\ Busy \in SUBSET Worker
  BY DEF Holders, Busy
<1> QED BY <1>1, <1>2, CountThreads

\* What adding a last element does to a queue.
LEMMA QueueAppend ==
    ASSUME NEW S, NEW q \in Seq(S), NEW e \in S
    PROVE  /\ Len(q) \in Nat
           /\ Append(q, e) \in Seq(S)
           /\ Len(Append(q, e)) = Len(q) + 1
           /\ \A k \in 1..Len(q) : Append(q, e)[k] = q[k]
           /\ Append(q, e)[Len(q) + 1] = e
OBVIOUS

\* What taking the first element off a queue does to it.
LEMMA QueueTail ==
    ASSUME NEW S, NEW q \in Seq(S), q # <<>>
    PROVE  /\ Len(q) \in Nat
           /\ Len(q) > 0
           /\ Head(q) = q[1]
           /\ Head(q) \in S
           /\ Tail(q) \in Seq(S)
           /\ Len(Tail(q)) = Len(q) - 1
           /\ \A k \in 1..(Len(q) - 1) : Tail(q)[k] = q[k + 1]
OBVIOUS

-----------------------------------------------------------------------------
(* The initial states. *)

\* A pool that has just been started satisfies the invariant.
LEMMA InitEstablishes == Init => IInv
<1> SUFFICES ASSUME Init PROVE IInv
  OBVIOUS
<1> USE DEF Init
<1>1. Holders = {} /\ Busy = {} /\ Cardinality({}) = 0
  BY FS_EmptySet DEF Holders, Busy
<1>2. TypeOK
  BY Sizes DEF TypeOK, Items
<1>3. Counts
  BY <1>1, Sizes DEF Counts, PermitsConserved
<1>4. CallerInOrder
  BY Sizes DEF CallerInOrder, LastPut
<1>5. QueueInOrder
  BY DEF QueueInOrder, Taken
<1>6. Progress
  BY DEF Progress, Taken, Items
<1> QED BY <1>2, <1>3, <1>4, <1>5, <1>6 DEF IInv

-----------------------------------------------------------------------------
(* Steps of the caller. *)

\* Nothing that a thread holds changes in a step of the caller.
LEMMA CallerLeavesThreads ==
    ASSUME UNCHANGED <<pc, item, results>>
    PROVE  Holders' = Holders /\ Busy' = Busy
BY DEF Holders, Busy

\* semaphore.acquire() moves a permit from the semaphore to the caller.
LEMMA AcquirePreserves == IInv /\ Acquire => IInv'
<1> SUFFICES ASSUME IInv, Acquire PROVE IInv'
  OBVIOUS
<1> USE DEF IInv, Acquire
<1>1. Holders' = Holders /\ Busy' = Busy
  BY CallerLeavesThreads
<1>2. TypeOK'
  BY Sizes DEF TypeOK
<1>3. Counts'
  BY <1>1, Sizes, CountTypes DEF Counts, PermitsConserved, TypeOK
<1>4. CallerInOrder'
  BY DEF CallerInOrder
<1>5. QueueInOrder' /\ Progress'
  BY DEF QueueInOrder, Progress, Taken
<1> QED BY <1>2, <1>3, <1>4, <1>5

\* queue.Queue.put() moves the caller's permit into the queue.
LEMMA PutPreserves == IInv /\ Put => IInv'
<1> SUFFICES ASSUME IInv, Put PROVE IInv'
  OBVIOUS
<1> USE DEF IInv, Put
<1>1. Holders' = Holders /\ Busy' = Busy
  BY CallerLeavesThreads
<1>2. sent \in Nat /\ sent < LastPut /\ sent + 1 \in 1..LastPut
  BY Sizes DEF CallerInOrder, TypeOK
<1>3. /\ Len(queue) \in Nat
      /\ queue' \in Seq(1..LastPut)
      /\ Len(queue') = Len(queue) + 1
      /\ \A k \in 1..Len(queue) : queue'[k] = queue[k]
      /\ queue'[Len(queue) + 1] = sent + 1
  BY <1>2, QueueAppend DEF TypeOK
<1>4. Taken' = Taken /\ Taken \in Int
  BY <1>2, <1>3 DEF Taken
<1>5. TypeOK'
  BY <1>2, <1>3, Sizes DEF TypeOK
<1>6. Counts'
  BY <1>1, <1>3, Sizes, CountTypes DEF Counts, PermitsConserved, TypeOK
<1>7. CallerInOrder'
  BY <1>2, Sizes DEF CallerInOrder
<1>8. QueueInOrder'
  <2>1. ASSUME NEW k \in 1..Len(queue') PROVE queue'[k] = Taken' + k
    <3>1. CASE k \in 1..Len(queue)
      BY <3>1, <1>3, <1>4 DEF QueueInOrder
    <3>2. CASE k = Len(queue) + 1
      BY <3>2, <1>2, <1>3, <1>4 DEF Taken
    <3> QED BY <2>1, <3>1, <3>2, <1>3
  <2> QED BY <2>1, <1>4 DEF QueueInOrder
<1>9. Progress'
  BY <1>4 DEF Progress
<1> QED BY <1>5, <1>6, <1>7, <1>8, <1>9

\* Waiting for the queue, then for the threads, changes the caller alone.
LEMMA JoinPreserves == IInv /\ (Join \/ JoinThreads) => IInv'
<1> SUFFICES ASSUME IInv, Join \/ JoinThreads PROVE IInv'
  OBVIOUS
<1> USE DEF IInv, Join, JoinThreads
<1>1. Holders' = Holders /\ Busy' = Busy
  BY CallerLeavesThreads
<1>2. TypeOK'
  BY DEF TypeOK
<1>3. Counts'
  BY <1>1 DEF Counts, PermitsConserved
<1>4. CallerInOrder'
  BY DEF CallerInOrder
<1>5. QueueInOrder' /\ Progress'
  BY DEF QueueInOrder, Progress, Taken
<1> QED BY <1>2, <1>3, <1>4, <1>5

-----------------------------------------------------------------------------
(* Steps of a thread. *)

\* While a thread holds something, the caller is not past join().
LEMMA BusyKeepsCaller ==
    ASSUME IInv, NEW w \in Worker, w \in Busy
    PROVE  caller \notin {"joinThreads", "returned"} /\ unfinished > 0
<1>1. Cardinality(Busy) > 0
  BY CountThreads DEF Busy
<1>2. Len(queue) \in Nat
  BY DEF IInv, TypeOK
<1> QED BY <1>1, <1>2, CountTypes DEF IInv, Counts, CallerInOrder

\* A thread takes the next number; the permit of its place goes with it.
LEMMA GetPreserves ==
    ASSUME IInv, NEW w \in Worker, Get(w)
    PROVE  IInv'
<1> USE DEF IInv, Get
<1>1. /\ Len(queue) \in Nat
      /\ Len(queue) > 0
      /\ Head(queue) = queue[1]
      /\ Head(queue) \in 1..LastPut
      /\ queue' \in Seq(1..LastPut)
      /\ Len(queue') = Len(queue) - 1
      /\ \A k \in 1..(Len(queue) - 1) : queue'[k] = queue[k + 1]
  BY QueueTail DEF TypeOK
<1>2. /\ Taken \in Nat
      /\ Taken' = Taken + 1
      /\ Head(queue) = Taken + 1
  <2>1. sent \in Int
    BY Sizes DEF TypeOK
  <2>2. Taken' = Taken + 1
    BY <2>1, <1>1 DEF Taken
  <2>3. Taken \in Nat /\ queue[1] = Taken + 1
    BY <1>1 DEF QueueInOrder
  <2> QED BY <2>2, <2>3, <1>1
<1>3. /\ item'[w] = Taken + 1
      /\ \A x \in Worker : x # w => item'[x] = item[x] /\ pc'[x] = pc[x]
      /\ \A x \in Worker : item[x] \in Nat /\ item[x] <= Taken
      /\ pc'[w] = IF Taken + 1 \in Items THEN "work" ELSE "release"
  <2>1. item \in [Worker -> 0..LastPut] /\ DOMAIN pc = Worker
    BY DEF TypeOK
  <2>2. \A x \in Worker : item[x] \in Nat /\ item[x] <= Taken
    BY <2>1, Sizes DEF QueueInOrder
  <2>3. item'[w] = Taken + 1 /\ \A x \in Worker : x # w => item'[x] = item[x]
    BY <2>1, <1>2
  <2>4. pc'[w] = IF Taken + 1 \in Items THEN "work" ELSE "release"
    BY <2>1, <1>2
  <2>5. \A x \in Worker : x # w => pc'[x] = pc[x]
    BY <2>1
  <2> QED BY <2>2, <2>3, <2>4, <2>5
<1>4. w \notin Holders /\ w \notin Busy
  BY DEF Holders, Busy
<1>5. Holders' = Holders \cup {w} /\ Busy' = Busy \cup {w}
  BY <1>3 DEF Holders, Busy
<1>6. /\ Cardinality(Holders') = Cardinality(Holders) + 1
      /\ Cardinality(Busy') = Cardinality(Busy) + 1
  BY <1>4, <1>5, CountThreads DEF Holders, Busy
<1>7. TypeOK'
  BY <1>1, <1>3, Sizes DEF TypeOK
<1>8. Counts'
  <2>1. permits \in Int /\ unfinished \in Int
    BY Sizes DEF TypeOK
  <2>2. /\ PermitsConserved
        /\ unfinished = Len(queue) + Cardinality(Busy)
    BY DEF Counts
  <2>3. PermitsConserved'
    BY <2>1, <2>2, <1>1, <1>6, CountTypes, Sizes DEF PermitsConserved
  <2>4. unfinished' = Len(queue') + Cardinality(Busy')
    BY <2>1, <2>2, <1>1, <1>6, CountTypes
  <2> QED BY <2>3, <2>4 DEF Counts
<1>9. CallerInOrder'
  BY DEF CallerInOrder
<1>10. QueueInOrder'
  <2>1. \A k \in 1..Len(queue') : queue'[k] = Taken' + k
    BY <1>1, <1>2 DEF QueueInOrder
  <2>2. \A x \in Worker : item'[x] <= Taken'
    BY <1>2, <1>3
  <2>3. \A x, y \in Worker : x # y /\ item'[x] = item'[y] => item'[x] = 0
    <3> SUFFICES ASSUME NEW x \in Worker, NEW y \in Worker, x # y, item'[x] = item'[y]
                 PROVE  item'[x] = 0
      OBVIOUS
    <3>1. x # w /\ y # w
      BY <1>2, <1>3
    <3> QED BY <3>1, <1>3 DEF QueueInOrder
  <2> QED BY <2>1, <2>2, <2>3, <1>2 DEF QueueInOrder
<1>11. Progress'
  <2>1. ASSUME NEW x \in Worker, pc'[x] \in {"work", "raised"}
        PROVE  item'[x] \in Items /\ results[item'[x]] = 0
    <3>1. CASE x = w
      <4>1. Taken + 1 \in Items
        BY <3>1, <2>1, <1>3
      <4>2. ~ \E y \in Worker : item[y] = Taken + 1
        BY <1>2, <1>3
      <4> QED BY <3>1, <4>1, <4>2, <1>2, <1>3 DEF Progress
    <3>2. CASE x # w
      BY <3>2, <2>1, <1>3 DEF Progress
    <3> QED BY <3>1, <3>2
  <2>2. ASSUME NEW i \in Items
        PROVE  \/ i > Taken' /\ results[i] = 0
               \/ i <= Taken' /\ results[i] = 1
               \/ /\ results[i] = 0
                  /\ \E x \in Worker : pc'[x] \in {"work", "raised"} /\ item'[x] = i
    <3> i \in Int
      BY Sizes DEF Items
    <3>1. CASE i = Taken + 1
      BY <3>1, <1>3, <2>1
    <3>2. CASE i > Taken + 1
      <4>1. ~ \E y \in Worker : item[y] = i
        BY <3>2, <1>2, <1>3
      <4> QED BY <3>2, <4>1, <1>2 DEF Progress
    <3>3. CASE i <= Taken
      <4>1. \A y \in Worker : pc[y] \in {"work", "raised"} => y # w
        OBVIOUS
      <4> QED BY <3>3, <4>1, <1>2, <1>3 DEF Progress
    <3> QED BY <3>1, <3>2, <3>3, <1>2
  <2> QED BY <2>1, <2>2 DEF Progress
<1> QED BY <1>7, <1>8, <1>9, <1>10, <1>11

\* The one thread that holds an item processes it.
LEMMA WorkPreserves ==
    ASSUME IInv, NEW w \in Worker, Work(w)
    PROVE  IInv'
<1> USE DEF IInv, Work
<1>1. Holders' = Holders /\ Busy' = Busy
  BY DEF Holders, Busy, TypeOK
<1>2. /\ item[w] \in Items
      /\ item[w] <= Taken
      /\ results[item[w]] = 0
  BY DEF Progress, QueueInOrder
<1>3. /\ results'[item[w]] = 1
      /\ \A i \in Items : i # item[w] => results'[i] = results[i]
      /\ results' \in [Items -> Nat]
  BY <1>2 DEF TypeOK
<1>4. TypeOK'
  BY <1>3 DEF TypeOK
<1>5. Counts'
  BY <1>1 DEF Counts, PermitsConserved
<1>6. CallerInOrder' /\ QueueInOrder'
  BY DEF CallerInOrder, QueueInOrder, Taken
<1>7. \A x \in Worker : x # w => item[x] # item[w] /\ pc'[x] = pc[x]
  <2>1. item[w] # 0
    BY <1>2, Sizes DEF Items
  <2> QED BY <2>1 DEF QueueInOrder, TypeOK
<1>8. pc'[w] = "release" /\ item' = item /\ Taken' = Taken
  BY DEF TypeOK, Taken
<1>9. Progress'
  <2>1. ASSUME NEW x \in Worker, pc'[x] \in {"work", "raised"}
        PROVE  item[x] \in Items /\ results'[item[x]] = 0
    BY <2>1, <1>3, <1>7, <1>8 DEF Progress
  <2>2. ASSUME NEW i \in Items
        PROVE  \/ i > Taken /\ results'[i] = 0
               \/ i <= Taken /\ results'[i] = 1
               \/ /\ results'[i] = 0
                  /\ \E x \in Worker : pc'[x] \in {"work", "raised"} /\ item[x] = i
    <3>1. CASE i = item[w]
      BY <3>1, <1>2, <1>3
    <3>2. CASE i # item[w]
      BY <3>2, <1>3, <1>7 DEF Progress
    <3> QED BY <3>1, <3>2
  <2> QED BY <2>1, <2>2, <1>8 DEF Progress
<1> QED BY <1>4, <1>5, <1>6, <1>9

\* A thread that raises keeps its item, unprocessed, and its permit.
LEMMA RaisePreserves ==
    ASSUME IInv, NEW w \in Worker, Raise(w)
    PROVE  IInv'
<1> USE DEF IInv, Raise
<1>1. Holders' = Holders /\ Busy' = Busy
  BY DEF Holders, Busy, TypeOK
<1>2. TypeOK'
  BY DEF TypeOK
<1>3. Counts'
  BY <1>1 DEF Counts, PermitsConserved
<1>4. CallerInOrder' /\ QueueInOrder'
  BY DEF CallerInOrder, QueueInOrder, Taken
<1>5. \A x \in Worker : pc'[x] \in {"work", "raised"} <=> pc[x] \in {"work", "raised"}
  BY DEF TypeOK
<1>6. Progress'
  BY <1>5 DEF Progress, Taken
<1> QED BY <1>2, <1>3, <1>4, <1>6

\* semaphore.release() gives back the permit that the thread holds.
LEMMA ReleasePreserves ==
    ASSUME IInv, NEW w \in Worker, Release(w)
    PROVE  IInv'
<1> USE DEF IInv, Release
<1>1. w \in Holders /\ Holders' = Holders \ {w} /\ Busy' = Busy
  BY DEF Holders, Busy, TypeOK
<1>2. /\ Cardinality(Holders) > 0
      /\ Cardinality(Holders') = Cardinality(Holders) - 1
  BY <1>1, CountThreads DEF Holders
<1>3. Len(queue) \in Nat
  BY DEF TypeOK
<1>4. TypeOK'
  BY <1>2, <1>3, Sizes, CountTypes DEF TypeOK, Counts, PermitsConserved
<1>5. Counts'
  BY <1>1, <1>2, <1>3, Sizes, CountTypes DEF Counts, PermitsConserved, TypeOK
<1>6. CallerInOrder' /\ QueueInOrder'
  BY DEF CallerInOrder, QueueInOrder, Taken
<1>7. \A x \in Worker : pc'[x] \in {"work", "raised"} <=> pc[x] \in {"work", "raised"}
  BY DEF TypeOK
<1>8. Progress'
  BY <1>7 DEF Progress, Taken, TypeOK
<1> QED BY <1>4, <1>5, <1>6, <1>8

\* task_done() uncounts what the thread held.
LEMMA TaskDonePreserves ==
    ASSUME IInv, NEW w \in Worker, TaskDone(w)
    PROVE  IInv'
<1> USE DEF IInv, TaskDone
<1>1. w \in Busy /\ Busy' = Busy \ {w} /\ Holders' = Holders
  BY DEF Holders, Busy, TypeOK
<1>2. Cardinality(Busy') = Cardinality(Busy) - 1
  BY <1>1, CountThreads DEF Busy
<1>3. unfinished > 0 /\ caller \notin {"joinThreads", "returned"}
  BY <1>1, BusyKeepsCaller
<1>4. TypeOK'
  BY <1>3 DEF TypeOK
<1>5. Counts'
  BY <1>1, <1>2, CountTypes DEF Counts, PermitsConserved, TypeOK
<1>6. CallerInOrder'
  BY <1>3 DEF CallerInOrder
<1>7. QueueInOrder'
  BY DEF QueueInOrder, Taken
<1>8. \A x \in Worker : pc'[x] \in {"work", "raised"} <=> pc[x] \in {"work", "raised"}
  BY DEF TypeOK
<1>9. Progress'
  BY <1>8 DEF Progress, Taken, TypeOK
<1> QED BY <1>4, <1>5, <1>6, <1>7, <1>9

-----------------------------------------------------------------------------
(* The theorems. *)

\* The invariant holds in every reachable state of every pool.
THEOREM PoolInvariant == Spec => []IInv
<1>1. Init => IInv
  BY InitEstablishes
<1>2. IInv /\ [Next]_vars => IInv'
  <2> SUFFICES ASSUME IInv, [Next]_vars PROVE IInv'
    OBVIOUS
  <2>1. CASE CallerStep
    BY <2>1, AcquirePreserves, PutPreserves, JoinPreserves DEF CallerStep
  <2>2. ASSUME NEW w \in Worker, WorkerStep(w) \/ Raise(w) PROVE IInv'
    BY <2>2, GetPreserves, WorkPreserves, RaisePreserves, ReleasePreserves,
       TaskDonePreserves DEF WorkerStep
  <2>3. CASE UNCHANGED vars
    BY <2>3 DEF vars, IInv, TypeOK, Counts, PermitsConserved, CallerInOrder,
       QueueInOrder, Progress, Taken, Holders, Busy
  <2> QED BY <2>1, <2>2, <2>3 DEF Next, Finished
<1> QED BY <1>1, <1>2, PTL DEF Spec

\* WorkQ never loses a permit and never makes one up, and unfinished_tasks counts
\* what is queued or in a thread's hands, for any number of threads, items and
\* calls that raise.
THEOREM PermitsAreConserved == Spec => []Counts
<1>1. IInv => Counts
  BY DEF IInv
<1> QED BY <1>1, PoolInvariant, PTL

\* A permit of the semaphore is a free place in the queue.
THEOREM PermitsArePlaces == Spec => []PermitMeansPlace
<1>1. IInv => PermitMeansPlace
  <2> SUFFICES ASSUME IInv PROVE PermitMeansPlace
    OBVIOUS
  <2>1. Len(queue) \in Nat /\ permits \in Nat
    BY Sizes DEF IInv, TypeOK
  <2>2. caller = "put" => Len(queue) < MaxSize
    BY <2>1, Sizes, CountTypes DEF IInv, Counts, PermitsConserved
  <2> QED BY <2>2 DEF PermitMeansPlace
<1> QED BY <1>1, PoolInvariant, PTL

\* end_workers never gets past join() before every item was processed exactly
\* once; in particular it never returns after a call that raised.
THEOREM JoinWaitsForAll == Spec => []JoinMeansProcessed
<1>1. IInv => JoinMeansProcessed
  <2> SUFFICES ASSUME IInv, caller \in {"joinThreads", "returned"}
               PROVE  Raised = {} /\ \A i \in Items : results[i] = 1
    BY DEF JoinMeansProcessed
  <2>1. \A w \in Worker : w \notin Busy
    BY BusyKeepsCaller
  <2>2. \A w \in Worker : pc[w] \notin {"work", "raised"}
    BY <2>1 DEF Busy
  <2>3. Len(queue) = 0 /\ Taken = LastPut
    <3>1. Len(queue) \in Nat /\ sent = LastPut /\ unfinished = 0
      BY DEF IInv, TypeOK, CallerInOrder
    <3>2. Len(queue) = 0
      BY <3>1, CountTypes DEF IInv, Counts
    <3> QED BY <3>1, <3>2, Sizes DEF Taken
  <2>4. \A i \in Items : ~(i > Taken)
    BY <2>3, Sizes DEF Items, LastPut
  <2> QED BY <2>2, <2>4 DEF IInv, Progress, Raised
<1> QED BY <1>1, PoolInvariant, PTL

\* No item is worked on twice or by two threads.
THEOREM ItemsAreWorkedOnce == Spec => []WorkedOnce
<1>1. IInv => WorkedOnce
  <2> SUFFICES ASSUME IInv PROVE WorkedOnce
    OBVIOUS
  <2>1. \A i \in Items : results[i] <= 1
    BY DEF IInv, Progress
  <2> QED BY <2>1 DEF IInv, Progress, QueueInOrder, WorkedOnce
<1> QED BY <1>1, PoolInvariant, PTL

-----------------------------------------------------------------------------
(* The pool implements BoundedPool. *)

\* An item that was enqueued is pending until it has been processed: it waits
\* in the queue, or a thread has it.
PendingItems ==
    /\ Pending = {i \in Items : i <= sent /\ results[i] = 0}
    /\ Processed = {i \in Items : results[i] = 1}
    /\ \A i \in Items : i > sent => results[i] = 0

LEMMA PendingIs == IInv => PendingItems
<1> SUFFICES ASSUME IInv PROVE PendingItems
  OBVIOUS
<1>1. /\ Len(queue) \in Nat /\ sent \in Nat /\ Taken \in Nat /\ Taken = sent - Len(queue)
      /\ Items \subseteq Int
  BY Sizes DEF IInv, TypeOK, QueueInOrder, Taken, Items
<1>2. \A k \in 1..Len(queue) : queue[k] = Taken + k
  BY DEF IInv, QueueInOrder
<1>3. ASSUME NEW i \in Items
      PROVE  (\E n \in 1..Len(queue) : queue[n] = i) <=> (i > Taken /\ i <= sent)
  <2>1. ASSUME i > Taken, i <= sent PROVE i - Taken \in 1..Len(queue) /\ queue[i - Taken] = i
    BY <1>1, <1>2, <2>1
  <2> QED BY <1>1, <1>2, <2>1
<1>4. ASSUME NEW i \in Items
      PROVE  i \in Pending <=> i <= sent /\ results[i] = 0
  <2>1. i > Taken => results[i] = 0
    BY <1>1 DEF IInv, Progress, QueueInOrder
  <2>2. ASSUME NEW w \in Worker, pc[w] \in {"work", "raised"}, item[w] = i
        PROVE  i <= Taken /\ results[i] = 0
    BY <2>2 DEF IInv, Progress, QueueInOrder
  <2>3. ASSUME i <= Taken, results[i] = 0
        PROVE  \E w \in Worker : pc[w] \in {"work", "raised"} /\ item[w] = i
    BY <1>1, <2>3 DEF IInv, Progress
  <2> QED BY <1>1, <1>3, <2>1, <2>2, <2>3 DEF Pending
<1>5. Pending = {i \in Items : i <= sent /\ results[i] = 0}
  BY <1>4 DEF Pending
<1>6. \A i \in Items : results[i] \in {0, 1} /\ (i > sent => results[i] = 0)
  BY <1>1 DEF IInv, Progress
<1> QED BY <1>5, <1>6 DEF Processed, PendingItems

\* Each pending item holds a permit of its own.
LEMMA PendingBounded == IInv => Cardinality(Pending) <= MaxSize
<1> SUFFICES ASSUME IInv PROVE Cardinality(Pending) <= MaxSize
  OBVIOUS
<1> DEFINE waiting == (Taken + 1)..sent
           taken == {item[w] : w \in Holders}
           f == [w \in Holders |-> item[w]]
<1>1. /\ Len(queue) \in Nat /\ sent \in Nat /\ Taken \in Nat /\ Taken = sent - Len(queue)
      /\ permits \in Nat
  BY Sizes DEF IInv, TypeOK, QueueInOrder, Taken
<1>2. IsFiniteSet(waiting) /\ Cardinality(waiting) = Len(queue)
  <2>1. Taken + 1 \in Int /\ sent \in Int
    BY <1>1
  <2>2. /\ IsFiniteSet((Taken + 1)..sent)
        /\ Cardinality((Taken + 1)..sent)
             = IF Taken + 1 > sent THEN 0 ELSE sent - (Taken + 1) + 1
    BY <2>1, FS_Interval
  <2> QED BY <1>1, <2>2
<1>3. IsFiniteSet(Holders)
  BY PoolAssumption, FS_Subset DEF Holders
<1>4. IsFiniteSet(taken) /\ Cardinality(taken) <= Cardinality(Holders)
  <2>1. f \in Surjection(Holders, taken)
    BY DEF Surjection
  <2> QED BY <1>3, <2>1, FS_Surjection
<1>5. Pending \subseteq waiting \cup taken
  <2>1. ASSUME NEW n \in 1..Len(queue) PROVE queue[n] \in waiting
    BY <1>1 DEF IInv, QueueInOrder
  <2>2. ASSUME NEW w \in Worker, pc[w] \in {"work", "raised"} PROVE item[w] \in taken
    BY <2>2 DEF Holders
  <2> QED BY <2>1, <2>2 DEF Pending
<1> HIDE DEF waiting, taken
<1>6. IsFiniteSet(waiting \cup taken)
      /\ Cardinality(waiting \cup taken)
           = Cardinality(waiting) + Cardinality(taken) - Cardinality(waiting \cap taken)
  BY <1>2, <1>4, FS_Union
<1>7. IsFiniteSet(waiting \cap taken)
  <2>1. waiting \cap taken \in SUBSET waiting
    OBVIOUS
  <2> QED BY <1>2, <2>1, FS_Subset
<1>8. /\ Cardinality(waiting \cap taken) \in Nat /\ Cardinality(waiting) \in Nat
      /\ Cardinality(taken) \in Nat /\ Cardinality(waiting \cup taken) \in Nat
  BY <1>2, <1>4, <1>6, <1>7, FS_CardinalityType
<1>9. Cardinality(Pending) <= Cardinality(waiting \cup taken) /\ Cardinality(Pending) \in Nat
  <2>1. Pending \in SUBSET (waiting \cup taken)
    BY <1>5
  <2>2. IsFiniteSet(Pending) /\ Cardinality(Pending) <= Cardinality(waiting \cup taken)
    BY <1>6, <2>1, FS_Subset
  <2> QED BY <2>2, FS_CardinalityType
<1>10. Len(queue) + Cardinality(Holders) <= MaxSize
  BY <1>1, CountTypes, Sizes DEF IInv, Counts, PermitsConserved
<1> QED BY <1>1, <1>2, <1>4, <1>6, <1>8, <1>9, <1>10, CountTypes, Sizes

\* BoundedPool counts as this module does.
LEMMA SameCount == ASSUME NEW S PROVE Pool!Cardinality(S) = Cardinality(S)
BY DEF Cardinality, Pool!Cardinality

\* A step of the pool is a step of a BoundedPool, or none.
LEMMA PoolStep ==
    ASSUME IInv, IInv', [Next]_vars
    PROVE  [Pool!Next]_(Pool!vars)
<1>1. /\ Pending = {i \in Items : i <= sent /\ results[i] = 0}
      /\ Processed = {i \in Items : results[i] = 1}
      /\ \A i \in Items : i > sent => results[i] = 0
  BY PendingIs DEF PendingItems
<1>2. /\ Pending' = {i \in Items : i <= sent' /\ results'[i] = 0}
      /\ Processed' = {i \in Items : results'[i] = 1}
  <2>1. PendingItems'
    BY PendingIs, PTL
  <2> QED BY <2>1 DEF PendingItems
<1>3. ASSUME sent' = sent, results' = results, (caller = "returned") <=> (caller' = "returned")
      PROVE  UNCHANGED Pool!vars
  BY <1>1, <1>2, <1>3 DEF Pool!vars
<1>4. CASE Acquire \/ Join
  BY <1>3, <1>4 DEF Acquire, Join
<1>5. CASE Put
  <2>1. /\ sent' = sent + 1 /\ results' = results /\ caller = "put" /\ caller' # "returned"
        /\ sent \in Nat /\ Items \subseteq Int
    BY <1>5, Sizes DEF Put, IInv, TypeOK, Items
  <2>2. Processed' = Processed
    BY <1>1, <1>2, <2>1
  <2>3. CASE sent + 1 \in Items
    <3>1. Pending' = Pending \cup {sent + 1} /\ sent + 1 \notin Pending \cup Processed
      <4>1. ASSUME NEW i \in Items PROVE i \in Pending' <=> i \in Pending \/ i = sent + 1
        BY <1>1, <1>2, <2>1, <2>3, <4>1
      <4>2. sent + 1 > sent /\ ~(sent + 1 <= sent)
        BY <2>1
      <4>3. Pending \subseteq Items /\ Pending' \subseteq Items
        BY <1>1, <1>2
      <4>4. Pending' = Pending \cup {sent + 1}
        BY <2>3, <4>1, <4>3
      <4>5. sent + 1 \notin Pending /\ results[sent + 1] = 0
        BY <1>1, <2>3, <4>2
      <4>6. sent + 1 \notin Processed
        BY <1>1, <4>5
      <4> QED BY <4>4, <4>5, <4>6
    <3>2. Cardinality(Pending') <= MaxSize
      <4>1. (Cardinality(Pending) <= MaxSize)'
        BY PendingBounded, PTL
      <4> QED BY <4>1 DEF MaxSize
    <3>3. /\ caller # "returned"
          /\ (caller # "returned")' = (caller # "returned")
      BY <2>1
    <3>4. Pool!Enqueue(sent + 1)
      BY <2>2, <2>3, <3>1, <3>2, <3>3, SameCount DEF Pool!Enqueue
    <3> QED BY <2>3, <3>4 DEF Pool!Next
  <2>4. CASE sent + 1 \notin Items
    <3>1. Pending' = Pending
      <4>1. ASSUME NEW i \in Items PROVE i \in Pending' <=> i \in Pending
        BY <1>1, <1>2, <2>1, <2>4, <4>1
      <4> QED BY <1>1, <1>2, <4>1
    <3> QED BY <2>1, <2>2, <3>1 DEF Pool!vars
  <2> QED BY <2>3, <2>4
<1>6. CASE JoinThreads
  <2>1. caller = "joinThreads" /\ caller' = "returned" /\ sent' = sent /\ results' = results
    BY <1>6 DEF JoinThreads
  <2>2. \A w \in Worker : w \notin Busy
    BY <2>1, BusyKeepsCaller
  <2>3. Len(queue) = 0
    BY <2>1, CountTypes DEF IInv, TypeOK, Counts, CallerInOrder
  <2>4. Pending = {}
    BY <2>2, <2>3 DEF Pending, Busy
  <2>5. Pending' = Pending /\ Processed' = Processed
    BY <1>1, <1>2, <2>1
  <2> QED BY <2>1, <2>4, <2>5 DEF Pool!Next, Pool!Shutdown
<1>7. ASSUME NEW w \in Worker, Work(w) PROVE Pool!Next
  <2>1. /\ item[w] \in Items /\ results[item[w]] = 0 /\ item[w] <= Taken
        /\ sent' = sent /\ caller' = caller
    BY <1>7 DEF Work, IInv, Progress, QueueInOrder
  <2>2. /\ results'[item[w]] = 1
        /\ \A i \in Items : i # item[w] => results'[i] = results[i]
    BY <1>7, <2>1 DEF Work, IInv, TypeOK
  <2>3. item[w] <= sent
    BY <2>1, Sizes DEF Taken, IInv, TypeOK, Items
  <2>4. Pending' = Pending \ {item[w]} /\ Processed' = Processed \cup {item[w]}
    BY <1>1, <1>2, <2>1, <2>2
  <2>5. item[w] \in Pending
    BY <1>1, <2>1, <2>3
  <2> QED BY <2>1, <2>4, <2>5 DEF Pool!Next, Pool!Process
<1>8. ASSUME NEW w \in Worker, Get(w) \/ Release(w) \/ TaskDone(w) \/ Raise(w)
      PROVE  UNCHANGED Pool!vars
  BY <1>3, <1>8 DEF Get, Release, TaskDone, Raise
<1>9. CASE UNCHANGED vars
  BY <1>3, <1>9 DEF vars
<1> QED BY <1>4, <1>5, <1>6, <1>7, <1>8, <1>9 DEF Next, CallerStep, WorkerStep, Finished

\* The threads, the queue and the semaphore implement a pool that processes
\* each item once, has at most one unprocessed item to a thread, and shuts
\* down only when nothing is left.
THEOREM PoolIsBounded == Spec => ImplementsPool
<1>1. Init => Pool!Init
  <2> SUFFICES ASSUME Init PROVE Pool!Init
    OBVIOUS
  <2>1. Len(queue) = 0 /\ caller # "returned"
    BY DEF Init
  <2>2. Pending = {} /\ Processed = {}
    BY <2>1 DEF Init, Pending, Processed
  <2> QED BY <2>1, <2>2 DEF Pool!Init
<1>2. IInv /\ IInv' /\ [Next]_vars => [Pool!Next]_(Pool!vars)
  BY PoolStep
<1> QED BY <1>1, <1>2, PoolInvariant, PTL DEF Spec, ImplementsPool, Pool!Spec

\* Every variable of the pool keeps its type.
THEOREM PoolTypes == Spec => []TypeOK
<1>1. IInv => TypeOK
  BY DEF IInv
<1> QED BY <1>1, PoolInvariant, PTL

=============================================================================
