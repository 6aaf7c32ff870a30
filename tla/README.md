# A formal model of the cortx-test framework

cortx-test is a test automation framework: besides the test cases of the product
it contains a distributed runner that spreads tests over several machines, locks
target setups in a database, reports results to Jira, and runs I/O in the
background of tests with threads, processes, pools and caches.  This directory
holds TLA+ specifications of that machinery, TLC configurations that check them on
small instances, and proofs that TLAPS checks for all instances.  The product
clients and the test cases themselves (most of `src/libs`, `src/tests` and
`src/comptests`) are outside the model: they keep no state of the framework.

Contents

1. The system and its components
2. Modules, and how they correspond to the code
3. The runs
4. Fairness
5. What is proved
6. Where documents and code disagree
7. Abstractions and limits
8. Not modelled
9. What is left

## 1. The system and its components

A distributed execution works as follows.  The **primebot** (`src/drunner.py`)
collects the tests with pytest, reads Jira test executions, groups their tests by
mark into an execution plan, and puts a ticket for each message into a bounded
`WorkQ`.  A **producer** thread (`src/core/producer.py`) takes the tickets and
sends them to a Kafka topic.  Several **corbots** (`src/testrunner.py`) in one
consumer group poll the topic.  For each message a corbot checks the **health** of
the targets of the message, spins until the **locking server** code has written and
confirmed a lock for one of them in the `r2_systems` collection behind a **REST
service**, runs pytest in a child process against that target, and releases the
lock.

A corbot can also run a test execution by itself: it opens up to three **pytest
sessions** one after the other, the first on several xdist workers, and the hooks
of `conftest.py` in every process report each test to Jira and to the report
database.

Tests that need load run it beside themselves: **data integrity I/O** forks upload
processes and verifies their objects through a **thread pool**, the **HA tests**
send requests from threads while pods are shut down, and the **Locust** load
scripts have users that share an object **cache**.

| component | state | operations | what is hard | what makes it correct |
|---|---|---|---|---|
| Target locking, `core/locking_server.py` | the lock fields of each target's document | `find_free_target`, `lock_target`, `is_target_locked`, `unlock_target` | every operation is a search followed by an update, over REST, from several machines; answers get lost, runners die | exclusive use; a used target is never free; the record names its users; every message gets a target |
| Target health, `core/health_status_check_update.py` | the health flag, in the same document | `health_check` | writes back the whole document it read | only healthy targets are given out; locks are not touched |
| Systems REST service, `systems_api.py`, `mongodbapi.py` | the collection | search (count, then find), update | search is two database operations; 200 also when nothing was modified | one update is atomic |
| Primebot, `drunner.py` | test maps, plan | `create_test_map`, `develop_execution_plan`, `run` | maps that must agree; a test in two executions; hanging joins | each test is sent out once, as marked, for an execution that names it; `run` returns |
| Kafka producer and consumer, `producer.py`, `kafka_consumer.py` | the records in flight, offsets | `server`, `produce`, `get_consumer` | discarded records, background commits, rebalancing | at-most-once while nobody is killed; nothing is lost |
| Corbot, `testrunner.py` | the message in hand; the session it runs | `check_kafka_msg_trigger_test`, `trigger_tests_from_te`, `trigger_unexecuted_tests` | exceptions, kills, idle exits, exit codes | every ticket is executed; every test of an execution is started |
| Pytest hooks, `conftest.py` | phase of a test, its status in Jira and in the report database | `makereport`, `logreport`, `run_io_async` | a hook runs in the worker and again, later, in the controller; requests are refused or raise | statuses and results agree; no result is lost to a late `Executing` unnoticed |
| Worker pool, `commons/worker.py` | semaphore, queue, threads | `WorkQ.put/get/task_done`, `Workers.start_workers/wenque/end_workers` | two locks for one bound; calls that raise; shutdown through a full queue | permits match places; `join` means processed; shutdown ends |
| Data integrity I/O, `libs/di` | upload processes, csv file, stop event, failure lists | start, upload, stop, verify | the verdict is taken before the downloads end; lists outlive a check; events across processes | a pass misses little, and what it misses is reported later |
| HA background I/O, `libs/ha` | the event and the flag shared with the function that deletes pods | one background function per kind of request | the event is looked at after the request it is about | must-pass failures are real ones; what is excused is bounded; threads end |
| Caches, `core/runner.py` | table and fifo | `store`, `delete`, `lookup`, `pop_one` | stale fifo entries | bounded; evicts the oldest |
| Locust objects, `scripts/locust` | buckets, objects in the cache and in users' hands | create buckets, put, head, download, delete, clean up | an object in a user's hands is in no cache; failed requests; users killed at the end | an object has one user; reads find their object; none is stranded without a cause |

`PROJECT.json` also lists the hazards, each at the line where it bites, with the
properties that cover it, or the reason why none does.  The latter are mostly races
and failures against which the code does nothing: the properties exempt them, and
say that nothing else goes wrong.

## 2. Modules, and how they correspond to the code

```
   TargetLease <--implements-- TargetLocking --EXTENDS--> SystemDB
                                    ^
                       TargetLockingProofs, MCTargetLocking

   ExecutionPlan ~~messages~~> Distribution <~~abstracts WorkQ~~ WorkerPool
                                 |        |                         |
             StartRun stands for the    implements              implements
             locking of TargetLocking     v                         v
                                     TicketQueue   DataIntegrity --> BoundedPool

   LocustObjects --EXTENDS--> LRUCache (InMemoryDB, LRUCache)

   TestSession        DisruptedIO
```

**SystemDB** is the document of one target and the queries and updates that
`locking_server.py` builds for it: `InSharedUse`, `MayConvert`,
`MayTakeExclusive` are the queries of `lock_target`, `ExclusiveConfirmed` and
`SharedConfirmed` those of `is_target_locked`, `ConvertToShared`, `JoinShared`,
`TakeExclusive`, `LeaveShared`, `ReleaseExclusive` the updates.  An update that
contains values read earlier takes the document as seen and the document as it is;
`ReleaseExclusive` is the one update whose filter names the owner.

**TargetLocking** is one message per client on its way through
`check_kafka_msg_trigger_test`: health check (`HealthSnapshot`, `HealthFetch`,
`HealthStore`, `HealthDone`), the spin of `get_available_target`
(`FindTarget`, `LockSearch`, `LockFind`, `LockPatch`, `Confirm`, `ConfirmFind`),
the child process (`FinishTests`) and `unlock_target` (`UnlockSearch`,
`UnlockFind`, `Release`).  Each REST call and each database operation is a step of
its own; the count and the find of one search are separate steps wherever the
code uses the document returned.  `SearchFails`, `UpdateFails` and `AnswerLost`
are calls that fail before or after they take effect, `Abort` is a run that ends
before `unlock_target`.  The auxiliary variable `clobbered` remembers that an
update whose filter is the setupname alone was applied to lock fields that had
changed since they were read, i.e. that the missing compare-and-set was missed.

**TargetLease** is what locking promises, without records: a target has one
sequential user, or any number of parallel ones.  `Lease` in `TargetLocking` maps
the control state to it: the users of a target are the clients that have written
its lock and not yet returned it.

**ExecutionPlan** is the primebot before it sends anything: `CollectTest` is one
round of `create_test_map`; `NextExecution` is the outer loop of
`develop_execution_plan` with the list it gets from Jira (`NoTests` if that is
empty, when `get_te_tickets_data` raises), `PassOver`, `PlanTest` and `PlanFails`
are the rounds of its inner loop; `EmitTag` is one round of the loop in `run`.
`FiledUnder` and `TestMark` are the two marks the code computes for a test, the
one it is filed under and the one it is grouped under.

**Distribution** is `run`'s loop of puts and joins, the thread of
`producer.server`, the topic, and the poll loop of the corbots.  `WorkQ` is taken
in whole operations there; `WorkerPool` justifies it.  The Kafka broker and client
library are external, and modelled from what the code relies on and configures:
partition logs, background delivery and commits, hand-over of partitions, commit
on `close`.  `DeliveryFails` is a call of `delivery_report` with an error, which it
prints: the ticket is nowhere then, and `Flush` and `run` go on as after a delivery.
`undelivered` remembers it.

**TicketQueue** is what the distribution is to those who start it, without queues,
threads, partitions and offsets: tickets that wait, what each corbot holds, and how
often each was executed.  `HandOut` gives a waiting ticket to one corbot, `PassOver`
drops one without tests, `Execute` and `Finish` are the child process, and `Fault`
takes at most one ticket away, a waiting one or what a corbot holds.  `Tickets` in
`Distribution` maps `Unread` to the tickets that wait and `msg` to those held.  The
puts, the producer thread, the broker's deliveries, commits and hand-overs of
partitions and the empty polls are unseen there; `Poll` is `HandOut` or `PassOver`,
`StartRun` is `Execute`, `EndRun` is `Finish`, and `Refuse`, `ServerDies`, `DeliveryFails` and
`Fail` are `Fault`.  A killed corbot is no step of `TicketQueue`: its last tickets are
delivered again.

**WorkerPool** is `WorkQ` and `Workers`, with the semaphore and the queue as two
locks, so `put` (`Acquire`, `Put`) and `task_done` (`Release`, `TaskDone`) are two
steps each, and with calls of the work function that raise.

**BoundedPool** is what the pool promises to its callers: an item is accepted while
fewer than `Size` are left to process, each is processed once, and `end_workers`
returns when none is left.  `WorkerPool` implements it, with a refinement mapping
that leaves the queue and the threads out, and `DataIntegrity` uses its actions.

**LRUCache** is the two caches of `core/runner.py`.  Each operation holds the lock
throughout and is one step.  The module has the operations only; until the
auxiliary variable `popped` is set, an `InMemoryDB` has behaved as an `LRUCache`.

**LocustObjects** is a load test from `on_test_start` to `on_test_stop`:
`CreateBucket` and `DeleteBucket` are the turns of the two loops over the buckets,
`BeginPut`/`Uploaded`/`UploadFails`, `BeginPopped`/`Read`/`ReadFails` and
`Deleted`/`DeleteFails` the tasks of a user, cut where the greenlet waits for the
store.  `StopUsers` is the end of the run time: locust kills the users where they
are, and a request under way may still take effect.  `forgotten`, `unanswered` and
`evicted` remember why an object is where nobody reaches it.

**DataIntegrity** is a test run that makes several checks: `StartIO` is
`start_io_async` with a new manager, `StartProcess`, `Upload` and `EndProcess` the
thread and the processes of `uploader`, `StopIO` is `stop_io_async`, and `Verify`,
`Enqueue`, `Download`, `Count`, `End` (or `NoFile`, `NothingUploaded`)
`verify_data_integrity` with the downloader's threads.  `failed` is the pair of
class attributes of `DataIntegrityValidator`, which no check clears.  `PassOver`
chooses the rows that `deleteInfo.csv` names; nothing in the repository writes that
file, so any objects of an instance may be among them.  A download ends in one of three
ways: the checksums agree (`verified`), the object enters a list of failures
(`failed`), or, without a connection or with an exception once the file is on the
disk, the log tells of it and nothing else (`unjudged`).

**DisruptedIO** is the protocol between `delete_kpod_with_shutdown_methods`
(`SetEvent`, `ShutDown`, `ClearEvent`, `SetFlag`, `CheckServices`) and the threads
that ten background functions of `ha_common_libs_k8s.py` run.  A request is
`Begin`, then `Succeed` or `Fail`; how its failure is judged is an action per
function (`BenchReadsEvent`, `PutJudged`, `CopyJudged`, ...), with a step for each
time the function looks at the event.  `hit` says whether a shutdown was open
during the request: the model knows what the code has to guess.  `EndEarly` is a thread
that ends between two requests: the set-up of `event_s3_operation` puts its failure on
the queue of the test (`BenchSetUpFails`), all others put nothing: a failed set-up of
the copies, the parts or the overwritten objects, `bucket_list` outside the `try`
(`GetRaises`, `ListingRaises`), an error of the REST client (`UserRaises`).

**TestSession** is `trigger_tests_from_te` and the hooks: `OpenParallel`,
`OpenRedo`, `OpenSerial` and `Finish` are its calls of pytest, `Start`, `Setup`,
`Call` and `Teardown` the phases of a test with the reports made for each,
`LateReport` the same report read by the controller of xdist, `Poll` and
`PollTimesOut` the thread of `get_test_status`.  A request to Jira is answered,
refused, or raises; `lapse` remembers what kept the last status of a test from
Jira.  The tests of an execution are selected by `--test_type`, by default of any
status: `before` is what earlier runs have left in Jira, a member of the constant
`Earlier`.  The second session takes tests listed as TODO only.  `Unhealthy`, `Crash`, `Abort` and `StopEarly` are the ways a session ends
before its tests do.

**MC...** modules instantiate these for TLC; **...Proofs** modules hold the
theorems.  Some definitions are preceded by operators marked *Mutant of ...*: the
same definition with a bug put in (a dropped guard, a missing `task_done`, an
off-by-one).  No specification uses them.  Substituted for the original, each
makes TLC report the property it is paired with in `PROJECT.json`, which shows
that the property can fail and that the instance is large enough to show it.

## 3. The runs

| run (cfg) | instance | what it shows |
|---|---|---|
| `target_locking` (TargetLockingSafety) | 1 sequential and 2 parallel clients, 1 target, 1 failed or lost call, 1 aborted run | exclusive use, and the agreement of records and users, break only through an update over changed fields |
| `target_locking_lease` (TargetLockingLease) | 2 sequential and 1 parallel client, 2 targets | executions without a clobbered update implement `TargetLease`, and under fair scheduling every message is executed |
| `target_exclusive` (TargetLockingExclusive) | 2 sequential clients, 1 target | disagreement, section 6 |
| `execution_plan` (ExecutionPlanSafety) | 3 collected tests and one that is not, 2 executions, 12 mark lists | no test is sent out twice; feature tests are planned as marked; a message of sequential tests names their execution; the plan breaks off only at an execution without tests, or for a test named twice |
| `execution_plan_marks` (ExecutionPlanMarks) | the same | disagreement, section 6 |
| `distribution` (Distribution) | 3 tickets, one of them empty, queue of 1, 1 partition, 2 corbots, 1 refusal, 1 failed delivery, 1 exception, 1 kill | at-most-once and nothing lost while the faults they exclude have not happened; when `run` returns, the tickets not in the topic are those whose delivery failed; it returns exactly if nothing was discarded; every delivered ticket is executed; without a kill it all implements `TicketQueue` |
| `worker_pool` (WorkerPool) | 3 threads, 4 items, 2 raises | permits, places and unfinished tasks agree, `join` means processed, the pool implements `BoundedPool`; `end_workers` returns if no call raises, and only then |
| `locust_objects` (LocustObjects) | 2 users, 2 buckets, 3 names, cache of 2, 2 failed requests | the cache stays bounded and evicts its oldest entry until something is popped; an object has one user; a read finds its object; an object out of reach has one of three causes |
| `data_integrity` (DataIntegrity) | 2 checks, 2 users with 2 files each, pool of 2, 3 faults, 3 objects that may be listed as deleted | but for deleted objects and those of which only the log tells, a check that passes overlooked at most as many objects as the pool has threads; after a failure that was counted no later check passes; a verdict accounts for every row; every check ends |
| `background_io` (DisruptedIO) | 2 threads, 6 pairs of functions, 2 requests each, 2 pods | a false alarm or a masked failure needs a window of its own; a missed s3bench run is excused once its own flag is set; every thread puts its result on the queue or ends for an error that it does not catch |
| `overwrite` (Overwrite) | 1 overwriting thread | disagreement, section 6 |
| `test_session` (TestSession) | 2 tests marked parallel, one with I/O, and 1 serial; 2 xdist workers; 2 faults; all options; a new execution and two with earlier statuses | a status or a second run that is wrong has one of the causes named; what may replace a result; which tests may not be started; the run ends |

Why the bounds are enough.  *Locking*: the races are between two clients and one
document; a third client makes a count of two and a leave beside a join possible,
and a second target makes the search move on.  One failure and one aborted run
suffice because each only adds an abandoned lock or a lost update, and the
theorems of section 5 have no bound.  *Plan*: a test can go wrong by itself or
against another test of the same mark, so three tests cover the pairs, in two
executions that share no test, or one, or of which one names a test twice or names
none; the mark lists contain each kind of mark
before and after the feature marks.  *Distribution*: the queue is shorter than the
list of tickets plus the pill, so `put` blocks; one failed delivery, refusal, exception
and kill each, so that they meet; two corbots allow every hand-over of
a partition, and partitions do not interact: a record is in one of them, and a
second one only adds records of which nobody looks at the order.  Empty polls count
up to 2 instead of the configured limit: only reaching the limit matters.  *Pool*:
more items than places, and as many pills as threads behind them.  *Locust*: one
object more than fits the cache, and as many users as can meet over an object; one
failure takes an object out of reach, and a second one befalls the clean-up of
another.  *Data integrity*: two checks, so that the second inherits lists; more
rows than the pool takes at once, and more faults than it has threads; a user whose
objects are all deleted, and one of whom one is.
*Background I/O*: two pods, so that what one window leaves behind meets the next;
two s3bench threads share a flag, which is when it can be lost; the other functions
share nothing but the event, so each needs to be in one pair only.  *Sessions*: two
parallel tests occupy both workers at once, and two faults can hit one test in both
of its sessions, or its status in the worker and in the controller; an earlier run has
left nothing, or a result of a test that may be lost, or an `Executing` inside or outside
the parallel session.

Deadlock is checked in `target_locking`, `target_exclusive` and the plan.  The other
systems may really stop: in `Distribution` all corbots may have left or the join may
hang, in `WorkerPool` a call that raised leaves the pool stuck, in
`TargetLockingLease` only steps that do not clobber are admitted, so that a client
whose next step would clobber has none, and `LocustObjects`, `DataIntegrity`,
`DisruptedIO` and `TestSession` come to an end.

Symmetry is used in `target_locking` (clients that ask for the same kind of lock)
and in `locust_objects` (users); both check invariants, and the latter an action
property that mentions no user.

## 4. Fairness

- `TargetLocking!Fairness`: weak fairness of each client's own steps.  A runner is
  a process that keeps running, its spin has no waiting of its own, and pytest
  ends.  No fairness is assumed between the clients, of failures, or of the
  verdict of the health check.  `EveryMessageRuns` is conditional: no update is
  clobbered (otherwise a lock may be left behind with no owner) and the targets are
  healthy from some point on (otherwise a spin without end is what the code does).
  With more clients than targets and endless arrivals a client could starve; the
  model has one message per client.  The run uses `FairSerializedSpec`: since a
  fair execution cannot stop where a step is enabled, its executions are those of
  `FairSpec` that clobber nothing, the only ones the property speaks of.
- `WorkerPool!FairSpec`: weak fairness of the caller and of each thread: threads
  are scheduled and work functions return or raise.
- `Distribution!FairSpec`: weak fairness of the primebot, of the producer thread,
  of delivery (a ticket that is produced is delivered or given up), of the assignment of a partition that nobody reads, and of the runs;
  strong fairness of `Poll` for each corbot and partition, because an assignment
  may move back and forth and a poll returns a message whenever its member owns
  a partition with unread records often enough.  None is assumed of `Commit`,
  `PollNothing` or faults.
- `DataIntegrity!FairSpec`: weak fairness of the main thread, of each upload process,
  and of the downloads: processes are scheduled and requests end in an answer or a
  timeout.  The test that runs meanwhile ends (`StopIO` is part of the main thread).
- `DisruptedIO!FairSpec`: weak fairness of each background thread, none of the
  errors that end one and none of the disruptor: `WorkersEnd` must not depend on the event ever being cleared.  The
  thread that deletes buckets ends only if its account has enough of them, which is
  the condition the property makes.
- `TestSession!FairSpec`: weak fairness of the next-state relation as a whole:
  some process goes on.  More is not needed, since every step uses up a test, a phase of
  one, a fault, or a thread that polls.

## 5. What is proved

All theorems hold for every value of the constants that satisfies the named
assumptions (`ClientAssumption`, `TargetAssumption`, `PoolAssumption`,
`CacheAssumption`, `ObjectAssumption`, `IntegrityAssumption`,
`DisruptionAssumption`, `SessionAssumption`, `DistributionAssumption`,
`PlanAssumption`): finitely many clients and threads where they are counted, a
non-empty target list, a size of at least one, marks of different kinds.  The
bounds on faults are arbitrary.

**TargetLockingProofs.**

- `ControlTypes`: the types of the control state.
- `RecordsFitUsers`: the inductive invariant, in short: while nothing is clobbered,
  a record that an exclusive user confirmed carries exactly that client's name and
  is not shared, a record in shared use has no sequential user, a free record has
  no user, and what a client that is about to update has *seen* is consistent
  with the query it passed.  `ExclusiveUse` alone is not inductive: a step of
  `lock_target` keeps it only because the document it saw, equal to the document it
  overwrites, had no user.
- `ExclusiveUseWhileSerialized`: `Spec => []SerializedExclusiveUse`.
- `FreeTargetsAreUnused`: `Spec => []FreeMeansUnused`.  Added to the invariant: while
  nothing is clobbered, a record that says free is blank, and one that is not shared
  counts nobody (`BlankInv`), so that an exclusive release, which leaves the counter
  alone, frees a blank record.
- `LockingTypes`: `Spec => []TypeOK`.  `setup_in_useby` stays a string of names and
  blanks whatever is written over it (`Typed`).
- `HoldersStayRecorded`: `Spec => []HoldersAreRecorded`.  A client that leaves takes its
  own name out of the record and no other.  What `str.replace` and `strip` leave is
  defined by positions (`Without` lists the kept ones by `Nth`, the k-th smallest of a
  set) so that it can be reasoned about without recursion: `NthLists` shows, from the
  least-number principle, that `Nth` runs through a finite set of positions, and
  `WithoutTakesOut` that the names left are those before but one.
- `RecordsAreExact`: `Spec => []RecordsMatchUsers`.  As long as no call failed and no run
  was aborted, each step that writes a record is a join, a take or a release of the
  client that makes it (`UnchangedRecord`, `WritesLock`, `TakesBack`), and each keeps
  three facts together (`Matches`): the names are the users, the record is free iff
  there are none, and the count is that of the parallel users.  The reset by the last
  client needs the count to be right, and the count needs the join not to be lost.
- `LocksImplementLease`: `SerializedSpec => ImplementsLease`, by step simulation:
  `LockPatch` (or its lost answer, which stutters) is `Grant`, `Retry` after a
  refused confirmation, `Release`, failure and abort are `Return`, all else
  stutters.

**WorkerPoolProofs.**  `PermitsAreConserved`, `PermitsArePlaces`, `JoinWaitsForAll`,
`ItemsAreWorkedOnce`, and the refinement `PoolIsBounded`: `Spec => ImplementsPool`.
The strengthening says that items leave the queue in the order they enter it, so
that the queue is the interval of numbers between what was taken and what was sent;
an item at work has not been counted in `results`, and every number taken is
processed or held by exactly one thread.  `PoolTypes` is the type invariant.

**ExecutionPlanProofs.**  `PlanTypes`, `TestsAreSentOnce`, `FeatureTestsAreSent`,
`SequentialTestsAreNamed` and `PlanningFailsForCause`, for any tests, mark lists and
contents of executions, from `PlanInvariant`, which follows the three loops.
`Position` says how far each list was walked through; `Filing` what the test map
holds of the tests collected so far, and nothing of the others; `Planning` that an
execution was noted for exactly the plannable tests at the places passed, and that it
names them; `Grouping` that a planned test is in one half of one group, the half its
mark files it under; `Emission` that the messages of a mark are those of its group.
That a test is never sent out twice rests on the last two: a test has one
`test_mark`, and one half of that mark's group.  That a test with a feature mark is
found again under its `test_mark` rests on the mark being among those it was filed
under (`MarkTypes`), which is what fails for base marks (section 6).  `PlanFails`
needs a noted execution, and the place at which it was noted lies before the one the
loop has reached: the test is named twice.

**LocustObjectsProofs** has two parts.  The first states what the two caches of
`LRUCache` keep when their operations are called in any order (`CacheSpec`):
`CacheIsBounded` (every `InMemoryDB`), `FifoListsTheTable` and `OldestIsEvicted`
(until the first pop).
`InStep`, the body of `FifoMatchesTable`, is what makes the left end of the fifo the
oldest key.  After `pop_one` it fails: a popped key stays in the fifo, and if it is
stored again the fifo holds it twice, so that a later `store` evicts it at its
first place, before older entries.  This is how the Locust scripts use the cache;
it costs them cached objects, never the bound.

The second part is the load test.  `UsersDoNotShare`, `ReadsAreOfStoredObjects` and
`ObjectsStayInReach` come from one invariant (`LocustInvariant`): every object that is
cached or held has a name that was used, cache and hands are disjoint, and what is
held for reading is stored.  A name is used once, which is why an upload cannot
overwrite an object in another user's hands.  `LoadTestUsesTheCache` shows that the
load test implements `CacheSpec` (each of its steps is one operation of the cache or
leaves it alone), so that what the first part says holds in it
(`LoadTestCacheIsBounded`, `LoadTestEvictsOldest`).

**DataIntegrityProofs.**  `PassesMissFew` and `FailuresAreReported`, from
`IntegrityInvariant`: failures are of rows that were enqueued and processed; at
`Count` every row that is not listed as deleted has been accepted, so that at most
`NWORKERS` are pending, and only those can fail after the count.  That failures of
earlier checks are counted again makes every verdict after the first failed one
`failed`.  `VerdictsAreComplete` and `VerdictsAccountForRows` come from a second
invariant, `CompleteInv`: the csv file names what the ended processes uploaded and
nothing else (`RowsInv`), from the verification on every process has ended or was
skipped, and the rows enqueued are in the pool or processed (`LedgerInv`); what was
processed was found intact, has failed, or only the log tells of it.  `PassesMissFew`
needs both: the rows of a check that passed, without the deleted and the unjudged, were
found intact, have failed after the count, or are still in the pool.

**DisruptedIOProofs.**  `AlarmsAreBounded`, `MasksAreBounded` and `OwnFlagExcuses`,
from `DisruptedInvariant`, which charges each false alarm to a window: a thread has
raised as many as windows were closed, minus one if its present request was hit by
the last one; masks are charged in the same way to the windows opened.
`DisruptedTypes` is the type invariant.

**TestSessionProofs.**  `ExecutingHasACause`, `DatabaseAgrees`, `RerunHasACause`,
`NoTestIsPassedOver` and `ResultsStand`, from `SessionInvariant`: what is known of
a test in each phase (`Control`), of one not started (`Fresh`), of one whose report
the controller has yet to read (`Awaited`), of one that ended without a record
(`Unrecorded`, `Told`), how often it was started (`Counted`), and who still covers
it (`Covered`).  They hold for any set of earlier statuses: a test that this run has told
Jira nothing of keeps the status it had (`Fresh`, `Untold`), an `Executing` among them
(`Stale`).  `SessionTypes` is the type invariant.

**DistributionProofs.**  `TicketsRunOnce`, `TicketsAreKept` and `ReturnIsDelivery`,
from `DistributionInvariant`.  `Queued` says that tickets leave the `WorkQ` in the
order of the plan, so that the producer thread has handled an initial part of it;
`Counted` that `unfinished` is the queue, the item at work and what was refused,
which is why `join` tells a refusal; `Once` that a handled ticket is in the client's
buffer, at one place of one partition, or undelivered.  `join` does not tell a failed
delivery, which is why `ReturnMeansDelivered` can only except it.  Then the position of a reader separates
what was read from what was not, whoever reads (`Unrepeated`, `Unlost`), as long as
no kill sets a position back.  `DistributionTypes` is the type invariant.
`DistributionIsAQueue` is the refinement of `TicketQueue`, by step simulation: each
lemma `...Waits` says which of the five places of a ticket that waits (the plan, the
`WorkQ`, the thread, the client's buffer, a partition past its reader) a step moves it
between.  That a poll really takes a ticket away from those that wait needs the
invariant of the state it leads to (`ReadIsPast`: what was read is nowhere on its way),
and that a corbot finishes what it has executed needs `Running`.
`TicketQueueWithoutCrashes` says the same as `Spec /\ [](crashes = 0) => Tickets!Spec`.

Every invariant and every action property a passing run checks is the subject of a
theorem.  Only model-checked is liveness under fairness, which is outside the
prover's reach: `EveryMessageRuns`, `RunReturns`, `EveryTicketRuns`, `ShutdownEnds`,
`ChecksEnd`, `WorkersEnd` and `RunEnds`.

## 6. Where documents and code disagree

Three are runs that violate one property; `PROJECT.json` quotes the lines.

- `target_exclusive`: two sequential clients hold the same target.  The update of
  `lock_target` filters on the setupname only, so a second client that searched
  before writes over a lock already confirmed.
- `execution_plan_marks`: a test marked `parallel` with base marks only is made
  sequential or dropped, because it is filed under the variable that a finished
  loop left behind.
- `overwrite`: `object_overwrite_dnld` tests the method `event.is_set` and does not
  call it, so that every failure is excused and none is ever counted.

Others appear in the models, where properties make allowance for them:

- Storing the health flag writes back old lock fields (`HealthStore`, which sets
  `clobbered`).
- A message of parallel tests of two executions names one of them
  (`SequentialTestsMatchExecution` speaks of sequential tests only).
- A ticket is executed twice after its corbot is killed: stored offsets are
  committed in the background (`AtMostOnce` assumes `crashes = 0`).
- A test can be left `Executing` in Jira: skipped from its body, for which
  `makereport` has no branch; or overtaken by the controller, which posts
  `Executing` after the worker posted the result.  An answer of Jira other than
  success is not looked at.  (`ExecutingIsExplained`, `DatabaseFollowsJira`.)
- A delivery that fails is printed, and `run` returns as if the ticket were in the topic
  (`ReturnMeansDelivered`, `NothingLost`).
- The second session looks for tests listed as TODO: one that could not be collected, or
  was lost with its worker, is passed over if an earlier run has left it another status
  (`EveryTestStarts`).
- A download that ends with a logged exception is in neither list of failures, and if all
  rows are listed as deleted a check passes with nothing verified (`RowsAccountedFor`).
- A background thread that raises in its set-up, or in a listing outside its `try`, puts no
  result on the queue that the test waits for (`WorkersEnd`).
- The failed downloads are counted before `end_workers` (`PassMissesFewFailures`),
  and a stop event set after the fork reaches no upload process
  (`EndProcess`).
- Objects popped for a HEAD or a download that fails are never stored again
  (`forgotten`).

## 7. Abstractions and limits

- `setup_in_useby` is a sequence of names and blanks.  `client in clients` is a
  substring test in the code; it differs from membership only if one client's name
  is part of another's.  `""` in the code is the empty sequence.
- "This module allocates the system only if that system is healthy"
  (`docs/Architectural-Overview.md`) holds at the time of `find_free_target` only:
  `lock_target` does not ask for the flag again (`FindTarget` and `LockSearch` show
  where it is read).
- Client names are unique per message (host name and time stamp); all targets of
  the list exist in the collection, so a query fails on its conditions only.
- The verdict of the health check is a free choice: it is computed by the product's
  health library.
- A failed call is counted once, against `MaxFaults`, however long the retries of
  the HTTP client take.
- The maximum poll interval is 12 hours in the configuration; a corbot that is
  thrown out of its group because a run takes longer is not a separate action:
  `Assign` may take a partition from a member at any time.
- A record that was acknowledged is not lost inside Kafka; a delivery that fails is
  `DeliveryFails`, and `flush`, called without a timeout, waits until each delivery has
  succeeded or failed.  Topics are not deleted while the model runs.
- The primebot never produces the STOP message a corbot understands, so corbots end
  by idling, by an exception, or killed.
- Values in the caches are left out, no operation looks at one; so is `lookup`,
  which changes nothing.
- Marks of a test are in the order of pytest's `iter_markers`.
- The object store, s3bench, the pods, Jira and the report database are external:
  each request takes effect or not, and fails or not, as far as the code can tell.
- A `DisruptedIO` thread makes a fixed number of requests; the code's loops over
  buckets, objects and parts are such numbers.  Which answer of a request counts as a
  failure is taken from each function; the content of requests is left out.
- In `TestSession` the tests a process may start next are any that are left; xdist's
  order does not matter to a property.  A process that raises in a hook where pytest
  catches nothing ends the run (`Abort`).
- In `DataIntegrity` an upload process appends its rows in one step when it ends:
  the file is not read before the processes were joined.  That rows of two processes
  may mix, because the lock of the file is released before its buffer is flushed, is
  left out.

## 8. Not modelled

- `ReportClient` (`commons/report_client.py`): a singleton under double-checked
  locking.  Each process makes one before its threads start; there is no second
  actor.
- The reporting REST service: stateless handlers over MongoDB, each a search, an
  insert or an update of one document.
- Client configuration, system utilities, random alert generation: files, shell
  commands, a sequential script.
- The greenlet pool is a layer over `gevent.pool` that the core does not use; the
  report RPC server is a stub.
- Collection of tests by pytest, and the deletion and creation of the Kafka topic
  before a run.
- Product libraries, tests and deployment scripts, by far the largest part of the
  repository: clients of a system under test and straight-line test cases.  What
  they share with the framework is modelled where they use it (`libs/di`, the
  background threads of `libs/ha`, `scripts/locust`); the rest has no state but the
  product's, so that a model of it would be a model of the product.  This is why the
  specifications stand for a small share of the repository's lines.

## 9. What is left

- The loops of `libs/ha` over nodes that are restarted (`ha_common_libs.py`), which
  drive hosts over ssh and share no state with other threads.
