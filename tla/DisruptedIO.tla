----------------------------- MODULE DisruptedIO -----------------------------
(***************************************************************************)
(* libs/ha: a test shuts pods down while threads in the background send    *)
(* S3 and IAM requests.  The threads share an Event with the function that *)
(* deletes the pods: it is set while a pod goes down, and a thread whose   *)
(* request fails looks at it to decide whether the failure was to be       *)
(* expected.  s3bench workloads last longer than that window: a list of    *)
(* one boolean, event_set_clr, remembers that a window was missed.         *)
(*                                                                         *)
(* The pods, the S3 server and s3bench are external: a request disturbed   *)
(* by a shutdown may fail or not, and any other may fail too.              *)
(***************************************************************************)
EXTENDS Naturals

CONSTANTS
    Worker,    \* threads in the background
    Cast,      \* which functions they run: a set of functions to Kind
    Requests,  \* requests, or s3bench runs, each of them makes
    MaxPods    \* pods the disruptor shuts down, one by one

Kind == {"bench", "put", "get", "delete", "copy", "mpu", "users", "cruds",
         "version", "overwrite"}

ASSUME DisruptionAssumption ==
    /\ Cast \subseteq [Worker -> Kind]
    /\ Requests \in Nat \ {0}
    /\ MaxPods \in Nat

VARIABLES
    event,    \* the Event of the test
    flag,     \* event_set_clr[0]
    given,    \* event_set_clr was handed to the disruptor
    dpc,      \* where the disruptor stands
    opened,   \* how often it has set the event
    closed,   \* how often it has cleared it
    kind,     \* the function a worker runs
    holds,    \* event_set_clr was handed to the worker
    pc,       \* where the worker stands
    left,     \* its requests to come, the one in progress included
    hit,      \* a window was open during its last request
    owed,     \* the flag was set for a window its last run overlapped
    outcome,  \* how that request ended
    grace,    \* event_clear_flg of the copying thread
    listed,   \* length of the deleting thread's bucket_list
    stock,    \* buckets of its account
    alarms,   \* failures of disturbed requests reported as must-pass
    diAlarms, \* objects reported as corrupted whose disturbed GET failed
    masked    \* failures of undisturbed requests that were excused

testVars == <<given, kind, holds>>
podVars == <<event, dpc, opened, closed>>
listVars == <<listed, stock>>
countVars == <<alarms, diAlarms, masked>>
vars == <<podVars, flag, testVars, pc, left, hit, owed, outcome, grace,
          listVars, countVars>>

TypeOK ==
    /\ event \in BOOLEAN /\ flag \in BOOLEAN /\ given \in BOOLEAN
    /\ dpc \in {"next", "shutting", "clear", "flag", "check", "failed"}
    /\ opened \in 0..MaxPods /\ closed \in 0..MaxPods
    /\ kind \in [Worker -> Kind] /\ holds \in [Worker -> BOOLEAN]
    /\ pc \in [Worker -> {"ready", "busy", "judge", "flag", "reset", "di",
                          "compare", "relist", "over", "dead"}]
    /\ left \in [Worker -> 0..Requests]
    /\ hit \in [Worker -> BOOLEAN] /\ owed \in [Worker -> BOOLEAN]
    /\ outcome \in [Worker -> {"fine", "corrupt", "genuine", "disturbed"}]
    /\ grace \in [Worker -> BOOLEAN]
    /\ listed \in [Worker -> Nat] /\ stock \in [Worker -> Nat]
    /\ alarms \in [Worker -> Nat] /\ diAlarms \in [Worker -> Nat]
    /\ masked \in [Worker -> Nat]

\* The tests hand the list to some of the threads and to the disruptor, or to
\* the threads only, or use none.  bucket_list() has been called by the thread
\* that deletes.
Init ==
    /\ event = FALSE /\ flag = FALSE /\ given \in BOOLEAN
    /\ dpc = "next" /\ opened = 0 /\ closed = 0
    /\ kind \in Cast
    /\ holds \in {h \in [Worker -> BOOLEAN] :
                    \A w \in Worker : h[w] => kind[w] = "bench"}
    /\ pc = [w \in Worker |-> "ready"]
    /\ left = [w \in Worker |-> Requests]
    /\ hit = [w \in Worker |-> FALSE] /\ owed = [w \in Worker |-> FALSE]
    /\ outcome = [w \in Worker |-> "fine"]
    /\ grace = [w \in Worker |-> FALSE]
    /\ stock \in {s \in [Worker -> 0..Requests] :
                    \A w \in Worker : kind[w] # "delete" => s[w] = 0}
    /\ listed = stock
    /\ alarms = [w \in Worker |-> 0] /\ diAlarms = [w \in Worker |-> 0]
    /\ masked = [w \in Worker |-> 0]

-----------------------------------------------------------------------------
(* delete_kpod_with_shutdown_methods: one window for each pod. *)

Disturbing == dpc \in {"shutting", "clear"}

workerVars == <<pc, left, outcome, grace, listVars, countVars>>

\* Mutant of SetEvent: the shutdown begins, and no event is set for it.
ShutDownUnannounced ==
    /\ dpc = "next" /\ opened < MaxPods
    /\ opened' = opened + 1
    /\ dpc' = "shutting"
    /\ hit' = [w \in Worker |-> hit[w] \/ pc[w] = "busy"]
    /\ UNCHANGED <<event, closed, flag, testVars, owed, workerVars>>

\* The event is set, and a shutdown begins that every request under way, and
\* every request begun before it ends, may feel.
SetEvent ==
    /\ dpc = "next" /\ opened < MaxPods
    /\ event' = TRUE
    /\ opened' = opened + 1
    /\ dpc' = "shutting"
    /\ hit' = [w \in Worker |-> hit[w] \/ pc[w] = "busy"]
    /\ UNCHANGED <<closed, flag, testVars, owed, workerVars>>

\* The pod is down; or it is not, and the function returns with the event set.
ShutDown ==
    /\ dpc = "shutting"
    /\ dpc' \in {"clear", "failed"}
    /\ UNCHANGED <<event, opened, closed, flag, testVars, hit, owed, workerVars>>

ClearEvent ==
    /\ dpc = "clear"
    /\ event' = FALSE
    /\ closed' = closed + 1
    /\ dpc' = IF given THEN "flag" ELSE "check"
    /\ UNCHANGED <<opened, flag, testVars, hit, owed, workerVars>>

\* The runs in progress, or not judged yet, have missed the window.
Missed ==
    [w \in Worker |-> owed[w] \/ (hit[w] /\ pc[w] \in {"busy", "judge", "flag"})]

\* Mutant of SetFlag: the flag is never set.
ForgetFlag ==
    /\ dpc = "flag"
    /\ owed' = Missed
    /\ dpc' = "check"
    /\ UNCHANGED <<event, opened, closed, flag, testVars, hit, workerVars>>

SetFlag ==
    /\ dpc = "flag"
    /\ flag' = TRUE
    /\ owed' = Missed
    /\ dpc' = "check"
    /\ UNCHANGED <<event, opened, closed, testVars, hit, workerVars>>

\* The services of the pod are offline, and the next pod is taken; or they are
\* not, and the function returns.
CheckServices ==
    /\ dpc = "check"
    /\ dpc' \in {"next", "failed"}
    /\ UNCHANGED <<event, opened, closed, flag, testVars, hit, owed, workerVars>>

Disrupt == SetEvent \/ ShutDown \/ ClearEvent \/ SetFlag \/ CheckServices

-----------------------------------------------------------------------------
(* What the background functions have in common. *)

requestVars == <<hit, owed, outcome>>

\* The worker is through with a request: n are left, and the list of the
\* deleting thread has lost its first bucket.
Advance(w, n) ==
    /\ left' = [left EXCEPT ![w] = n]
    /\ hit' = [hit EXCEPT ![w] = FALSE]
    /\ owed' = [owed EXCEPT ![w] = FALSE]
    /\ outcome' = [outcome EXCEPT ![w] = "fine"]
    /\ listed' = IF kind[w] = "delete" THEN [listed EXCEPT ![w] = @ - 1]
                 ELSE listed
    /\ pc' = [pc EXCEPT ![w] =
                IF n = 0 THEN "over"
                ELSE IF kind[w] = "delete" /\ listed[w] = 1 THEN "relist"
                ELSE "ready"]

Excuse(w) ==
    /\ masked' = [masked EXCEPT ![w] = IF outcome[w] = "genuine" THEN @ + 1 ELSE @]
    /\ UNCHANGED <<alarms, diAlarms>>

Report(w) ==
    /\ alarms' = [alarms EXCEPT ![w] = IF outcome[w] = "disturbed" THEN @ + 1 ELSE @]
    /\ UNCHANGED <<diAlarms, masked>>

\* The handler of a failed request: if event.is_set().
ByEvent(w) == IF event THEN Excuse(w) ELSE Report(w)

\* The thread ends between two requests: p is "over" if its result is on the
\* queue of the test, and "dead" if none will ever be.
Leave(w, p) ==
    /\ pc' = [pc EXCEPT ![w] = p]
    /\ UNCHANGED <<podVars, flag, testVars, left, hit, owed, outcome, grace,
                   listVars, countVars>>

SettingUp(w) == pc[w] = "ready" /\ left[w] = Requests

\* Without s3bench the error is the result.
BenchSetUpFails(w) == kind[w] = "bench" /\ SettingUp(w) /\ Leave(w, "over")

\* A call before the copies raises, or its answer leads to sys.exit(1).
CopySetUpFails(w) == kind[w] = "copy" /\ SettingUp(w) /\ Leave(w, "dead")

\* The bucket or the multipart upload is not created: sys.exit(1).
PartSetUpFails(w) == kind[w] = "mpu" /\ SettingUp(w) /\ Leave(w, "dead")

\* bucket_list() or the first upload of an object raises.
OverwriteSetUpFails(w) == kind[w] = "overwrite" /\ SettingUp(w) /\ Leave(w, "dead")

\* bucket_list() raises; or it has named a bucket, s3_data has not: a KeyError.
GetRaises(w) == kind[w] = "get" /\ pc[w] = "ready" /\ Leave(w, "dead")

\* bucket_list() raises, before the first deletion or when the list is used up.
ListingRaises(w) ==
    /\ kind[w] = "delete"
    /\ SettingUp(w) \/ pc[w] = "relist"
    /\ Leave(w, "dead")

\* An error of the REST client that iam_bucket_cruds does not catch.
UserRaises(w) == kind[w] = "users" /\ pc[w] = "ready" /\ Leave(w, "dead")

EndEarly(w) ==
    \/ BenchSetUpFails(w) \/ CopySetUpFails(w) \/ PartSetUpFails(w)
    \/ OverwriteSetUpFails(w) \/ GetRaises(w) \/ ListingRaises(w) \/ UserRaises(w)

Begin(w) ==
    /\ pc[w] = "ready"
    /\ kind[w] = "delete" => listed[w] > 0
    /\ pc' = [pc EXCEPT ![w] = "busy"]
    /\ hit' = [hit EXCEPT ![w] = Disturbing]
    /\ UNCHANGED <<podVars, flag, testVars, left, owed, outcome, grace, listVars,
                   countVars>>

\* The request, or the run, has succeeded.
Succeed(w) ==
    /\ pc[w] = "busy"
    /\ stock' = IF kind[w] = "delete" THEN [stock EXCEPT ![w] = @ - 1] ELSE stock
    /\ IF kind[w] \in {"bench", "get"}
       THEN /\ pc' = [pc EXCEPT ![w] = IF kind[w] = "get" THEN "di" ELSE "judge"]
            /\ UNCHANGED <<left, requestVars, listed>>
       ELSE Advance(w, left[w] - 1)
    /\ UNCHANGED <<podVars, flag, testVars, grace, countVars>>

\* It has failed, for the disruption if there was one.
Fail(w) ==
    /\ pc[w] = "busy"
    /\ outcome' = [outcome EXCEPT ![w] = IF hit[w] THEN "disturbed" ELSE "genuine"]
    /\ pc' = [pc EXCEPT ![w] = "judge"]
    /\ UNCHANGED <<podVars, flag, testVars, left, hit, owed, grace, listVars,
                   countVars>>

-----------------------------------------------------------------------------
(* event_s3_operation: each run of s3bench, failed or not, is put among the *)
(* runs that must have passed or among those that may have failed.          *)

benchRest == <<podVars, testVars, grace, stock>>

\* The first half of the condition.
BenchReadsEvent(w) ==
    /\ kind[w] = "bench" /\ pc[w] = "judge"
    /\ pc' = [pc EXCEPT ![w] = IF event THEN "reset" ELSE "flag"]
    /\ IF event THEN Excuse(w) ELSE UNCHANGED countVars
    /\ UNCHANGED <<benchRest, flag, requestVars, left, listed>>

\* The second half: isinstance(event_set_clr, list) and event_set_clr[0].
BenchReadsFlag(w) ==
    /\ pc[w] = "flag"
    /\ IF holds[w] /\ flag
       THEN /\ Excuse(w)
            /\ pc' = [pc EXCEPT ![w] = "reset"]
            /\ UNCHANGED <<requestVars, left, listed>>
       ELSE Report(w) /\ Advance(w, left[w] - 1)
    /\ UNCHANGED <<benchRest, flag>>

BenchResets(w) ==
    /\ pc[w] = "reset"
    /\ flag' = (flag /\ ~holds[w])
    /\ Advance(w, left[w] - 1)
    /\ UNCHANGED <<benchRest, countVars>>

-----------------------------------------------------------------------------
(* The functions that judge each failed request by the event. *)

judgeRest == <<podVars, flag, testVars, stock>>

\* Mutant of PutJudged: if event.is_set, without the call.
PutExcused(w) ==
    /\ kind[w] = "put" /\ pc[w] = "judge"
    /\ Excuse(w)
    /\ Advance(w, left[w] - 1)
    /\ UNCHANGED <<judgeRest, grace>>

\* put_get_delete: the objects it puts.
PutJudged(w) ==
    /\ kind[w] = "put" /\ pc[w] = "judge"
    /\ ByEvent(w)
    /\ Advance(w, left[w] - 1)
    /\ UNCHANGED <<judgeRest, grace>>

\* start_random_mpu: the parts it uploads.
PartJudged(w) ==
    /\ kind[w] = "mpu" /\ pc[w] = "judge"
    /\ ByEvent(w)
    /\ Advance(w, left[w] - 1)
    /\ UNCHANGED <<judgeRest, grace>>

\* iam_bucket_cruds: the users it creates and deletes.
UserJudged(w) ==
    /\ kind[w] = "users" /\ pc[w] = "judge"
    /\ ByEvent(w)
    /\ Advance(w, left[w] - 1)
    /\ UNCHANGED <<judgeRest, grace>>

\* bucket_cruds: after an exception it goes on, after a wrong answer it stops.
CrudJudged(w) ==
    /\ kind[w] = "cruds" /\ pc[w] = "judge"
    /\ ByEvent(w)
    /\ \E n \in {0, left[w] - 1} : Advance(w, n)
    /\ UNCHANGED <<judgeRest, grace>>

\* parallel_put_object: the versions it puts.
VersionJudged(w) ==
    /\ kind[w] = "version" /\ pc[w] = "judge"
    /\ ByEvent(w)
    /\ Advance(w, left[w] - 1)
    /\ UNCHANGED <<judgeRest, grace>>

\* object_overwrite_dnld: the condition is the method event.is_set, not a call
\* of it, and is always true.
OverwriteJudged(w) ==
    /\ kind[w] = "overwrite" /\ pc[w] = "judge"
    /\ Excuse(w)
    /\ Advance(w, left[w] - 1)
    /\ UNCHANGED <<judgeRest, grace>>

\* create_bucket_copy_obj: a failure excused by the event lets one more pass
\* after the event is cleared.
CopyJudged(w) ==
    /\ kind[w] = "copy" /\ pc[w] = "judge"
    /\ IF event \/ grace[w] THEN Excuse(w) ELSE Report(w)
    /\ grace' = [grace EXCEPT ![w] = event]
    /\ Advance(w, left[w] - 1)
    /\ UNCHANGED judgeRest

-----------------------------------------------------------------------------
(* put_get_delete: the objects it reads, with di_check. *)

GetJudged(w) ==
    /\ kind[w] = "get" /\ pc[w] = "judge"
    /\ ByEvent(w)
    /\ pc' = [pc EXCEPT ![w] = "di"]
    /\ UNCHANGED <<judgeRest, grace, requestVars, left, listed>>

\* A GET may succeed and yet return other data than was put.
GetCorrupt(w) ==
    /\ kind[w] = "get" /\ pc[w] = "busy"
    /\ outcome' = [outcome EXCEPT ![w] = "corrupt"]
    /\ pc' = [pc EXCEPT ![w] = "di"]
    /\ UNCHANGED <<podVars, flag, testVars, left, hit, owed, grace, listVars,
                   countVars>>

Overlook(w) ==
    /\ masked' = [masked EXCEPT ![w] =
                    IF outcome[w] = "corrupt" /\ ~hit[w] THEN @ + 1 ELSE @]
    /\ UNCHANGED <<alarms, diAlarms>>

\* The checksum of what is on the disk is taken, also after a GET that failed,
\* and the event is looked at again.
CheckDI(w) ==
    /\ pc[w] = "di"
    /\ IF event
       THEN Overlook(w) /\ Advance(w, left[w] - 1)
       ELSE /\ pc' = [pc EXCEPT ![w] = "compare"]
            /\ UNCHANGED <<left, requestVars, listed, countVars>>
    /\ UNCHANGED <<judgeRest, grace>>

\* elif not event.is_set() and the checksums differ.
CompareDI(w) ==
    /\ pc[w] = "compare"
    /\ IF event THEN Overlook(w)
       ELSE /\ diAlarms' = [diAlarms EXCEPT ![w] =
                              IF outcome[w] = "disturbed" THEN @ + 1 ELSE @]
            /\ UNCHANGED <<alarms, masked>>
    /\ Advance(w, left[w] - 1)
    /\ UNCHANGED <<judgeRest, grace>>

-----------------------------------------------------------------------------
(* put_get_delete: the buckets it deletes. *)

\* Mutant of DeleteJudged: a failed deletion is not counted.
DeleteRetried(w) ==
    /\ kind[w] = "delete" /\ pc[w] = "judge"
    /\ ByEvent(w)
    /\ listed' = [listed EXCEPT ![w] = @ - 1]
    /\ pc' = [pc EXCEPT ![w] = IF listed[w] = 1 THEN "relist" ELSE "ready"]
    /\ UNCHANGED <<judgeRest, grace, requestVars, left>>

\* A bucket whose deletion failed is counted, taken off the list, and stays in
\* the account.
DeleteJudged(w) ==
    /\ kind[w] = "delete" /\ pc[w] = "judge"
    /\ ByEvent(w)
    /\ Advance(w, left[w] - 1)
    /\ UNCHANGED <<judgeRest, grace>>

\* The list is used up before the count is reached: while True until the
\* account has buckets again (or ListingRaises).
Relist(w) ==
    /\ pc[w] = "relist" /\ stock[w] > 0
    /\ listed' = [listed EXCEPT ![w] = stock[w]]
    /\ pc' = [pc EXCEPT ![w] = "ready"]
    /\ UNCHANGED <<judgeRest, grace, requestVars, left, countVars>>

-----------------------------------------------------------------------------

Work(w) ==
    \/ Begin(w) \/ Succeed(w) \/ Fail(w)
    \/ BenchReadsEvent(w) \/ BenchReadsFlag(w) \/ BenchResets(w)
    \/ PutJudged(w) \/ PartJudged(w) \/ UserJudged(w) \/ CrudJudged(w)
    \/ VersionJudged(w) \/ OverwriteJudged(w) \/ CopyJudged(w)
    \/ GetJudged(w) \/ GetCorrupt(w) \/ CheckDI(w) \/ CompareDI(w)
    \/ DeleteJudged(w) \/ Relist(w)

Next == Disrupt \/ \E w \in Worker : Work(w) \/ EndEarly(w)

Spec == Init /\ [][Next]_vars

\* The threads run, and a request that is never answered times out; no error is
\* due.
FairSpec == Spec /\ \A w \in Worker : WF_vars(Work(w))

-----------------------------------------------------------------------------
(* Properties *)

\* The shutdown of a pod failed, and the event was never cleared.
Stuck == event /\ dpc = "failed"

\* A thread reports as a must-pass failure what a shutdown explains at most once
\* for each window, and as corrupted an object whose GET had been excused, or
\* could have been, at most once for each: only the request that is under way
\* when the window closes is judged too late.
AlarmsPerWindow ==
    \A w \in Worker : alarms[w] <= closed /\ diAlarms[w] <= closed

\* What a window can hide: the failure of the request a thread had under way
\* before it, if it looks at the event only after it is set, and for s3bench
\* runs and copies, which remember a window, one more after it is closed.  Only
\* a shutdown that fails leaves the event set, and everything excused.  (The
\* overwriting thread excuses everything: FailuresCount.)
MasksPerWindow ==
    Stuck \/ \A w \in Worker :
        kind[w] # "overwrite" =>
            masked[w] <= opened + (IF kind[w] \in {"bench", "copy"} THEN closed ELSE 0)

\* "Thread event set-clear flag reference when s3bench workload execution miss
\* the event set-clear time window" (event_s3_operation): a run that the flag was
\* set for is never reported, if no other thread was handed the same flag.
MissedRunsAreExcused ==
    [][\A w \in Worker :
         kind[w] = "bench" /\ owed[w] /\ (\A v \in Worker \ {w} : ~holds[v]) /\ holds[w]
            => alarms'[w] = alarms[w]]_vars

\* The thread has ended for an error that it does not catch: in its set-up, or in
\* a listing, a look into s3_data or a call of the REST client.
EndedWithout(w) ==
    /\ pc[w] = "dead"
    /\ \/ kind[w] \in {"get", "delete", "users"}
       \/ kind[w] \in {"copy", "mpu", "overwrite"} /\ left[w] = Requests

\* Whatever fails and whenever the windows open, a thread ends by putting its
\* result on the queue that the test reads, or without one for an error of that
\* kind: the others are caught and judged.  Of a thread that deletes buckets this
\* is said only if its account has as many as it is to delete.
WorkersEnd ==
    \A w \in Worker :
        (kind[w] = "delete" => stock[w] >= left[w])
            ~> pc[w] = "over" \/ EndedWithout(w)

\* "Event is cleared, Overwrite failed or Object download failed"
\* (object_overwrite_dnld): a failure counts when no pod was ever shut down.
FailuresCount == opened = 0 => \A w \in Worker : masked[w] = 0

=============================================================================
