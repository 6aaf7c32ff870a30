---------------------------- MODULE DataIntegrity ----------------------------
(***************************************************************************)
(* libs/di: a test uploads objects in the background and has them verified *)
(* at its end.  RunDataCheckManager starts a thread (uploader.start) that  *)
(* forks one process for each user (uploader.upload); verification         *)
(* downloads what the processes have listed in a csv file and a list of    *)
(* deletions does not name, through a pool of threads (BoundedPool), and   *)
(* counts the failures.                                                    *)
(*                                                                         *)
(* A test run makes several such checks one after the other, each with a   *)
(* manager and users of its own; DataIntegrityValidator's lists are        *)
(* attributes of the class and outlive them.                               *)
(***************************************************************************)
EXTENDS Naturals, FiniteSets

CONSTANTS
    User,      \* users of a check
    File,      \* files each of them uploads
    NWORKERS,  \* threads of the pool
    MaxChecks, \* bound: checks of the test run
    MaxFaults, \* bound: requests that fail, or objects that come back changed
    Deletable  \* bound: objects that the list of deletions may name

ASSUME IntegrityAssumption ==
    /\ NWORKERS \in Nat \ {0}
    /\ MaxChecks \in Nat

Object == (1..MaxChecks) \X User \X File

VARIABLES
    check,     \* number of the check the main thread is in
    main,      \* where it stands
    event,     \* the manager's stop event
    proc,      \* the upload process of each user
    todo,      \* files a process has not tried to upload
    uploaded,  \* uploadObjects: rows a process has gathered
    csv,       \* rows of UPLOADED_FILES, {} also when there is no such file
    deleted,   \* objects of the rows the checks have passed over as deleted
    queued,    \* objects wenque() has accepted
    pending, done, open,  \* the pool of this check
    failed,    \* failed_files and failed_files_server_error
    summary,   \* summary['failed_files']
    verdict,   \* what each check said: "none", "passed", "failed", "raised"
    faults,    \* requests that failed, counted
    verified,  \* auxiliary: objects whose checksum was compared and matched
    unjudged   \* auxiliary: objects whose download ended in a log line only

uploadVars == <<proc, todo, uploaded>>
poolVars == <<pending, done, open>>
fateVars == <<verified, unjudged>>
vars == <<check, main, event, uploadVars, csv, deleted, queued, poolVars, failed,
          summary, verdict, faults, fateVars>>

Pool == INSTANCE BoundedPool WITH Item <- Object, Size <- NWORKERS

TypeOK ==
    /\ check \in 0..MaxChecks
    /\ main \in {"idle", "test", "stopping", "enqueue", "ending"}
    /\ event \in BOOLEAN /\ open \in BOOLEAN
    /\ proc \in [User -> {"new", "skipped", "alive", "ended"}]
    /\ todo \in [User -> SUBSET File]
    /\ uploaded \in [User -> SUBSET Object]
    /\ csv \subseteq Object /\ deleted \subseteq Object /\ queued \subseteq Object
    /\ verified \subseteq Object /\ unjudged \subseteq Object
    /\ pending \subseteq Object /\ done \subseteq Object /\ failed \subseteq Object
    /\ summary \in Nat
    /\ verdict \in [1..MaxChecks -> {"none", "passed", "failed", "raised"}]
    /\ faults \in 0..MaxFaults

Init ==
    /\ check = 0 /\ main = "idle" /\ event = FALSE
    /\ proc = [u \in User |-> "ended"]
    /\ todo = [u \in User |-> {}]
    /\ uploaded = [u \in User |-> {}]
    /\ csv = {} /\ deleted = {} /\ queued = {}
    /\ pending = {} /\ done = {} /\ open = FALSE
    /\ failed = {} /\ summary = 0 /\ faults = 0
    /\ verified = {} /\ unjudged = {}
    /\ verdict = [c \in 1..MaxChecks |-> "none"]

Fault == faults < MaxFaults /\ faults' = faults + 1

-----------------------------------------------------------------------------
(* The upload: uploader.start and its processes. *)

\* start_io_async of a new manager, whose event is clear.
StartIO ==
    /\ main = "idle" /\ check < MaxChecks
    /\ check' = check + 1
    /\ main' = "test"
    /\ event' = FALSE
    /\ proc' = [u \in User |-> "new"]
    /\ todo' = [u \in User |-> File]
    /\ uploaded' = [u \in User |-> {}]
    /\ UNCHANGED <<csv, deleted, queued, poolVars, failed, summary, verdict, faults,
                   fateVars>>

\* The thread reaches a process: once the event is set it starts no more.
StartProcess(u) ==
    /\ proc[u] = "new"
    /\ proc' = [proc EXCEPT ![u] = IF event THEN "skipped" ELSE "alive"]
    /\ UNCHANGED <<check, main, event, todo, uploaded, csv, deleted, queued, poolVars,
                   failed, summary, verdict, faults, fateVars>>

\* A thread of the process uploads a file; one that fails is only logged.
Upload(u, f) ==
    /\ proc[u] = "alive" /\ f \in todo[u]
    /\ todo' = [todo EXCEPT ![u] = @ \ {f}]
    /\ \/ /\ uploaded' = [uploaded EXCEPT ![u] = @ \cup {<<check, u, f>>}]
          /\ UNCHANGED faults
       \/ Fault /\ UNCHANGED uploaded
    /\ UNCHANGED <<check, main, event, proc, csv, deleted, queued, poolVars, failed,
                   summary, verdict, fateVars>>

\* The process has been through all its files: the event it looks at before
\* each one is its own copy, made by the fork when the event was clear.
EndProcess(u) ==
    /\ proc[u] = "alive" /\ todo[u] = {}
    /\ csv' = csv \cup uploaded[u]
    /\ proc' = [proc EXCEPT ![u] = "ended"]
    /\ UNCHANGED <<check, main, event, todo, uploaded, deleted, queued, poolVars,
                   failed, summary, verdict, faults, fateVars>>

-----------------------------------------------------------------------------
(* The verdict: stop_io_async and verify_data_integrity. *)

\* The test is over, or get_test_status has seen its result: the event is set,
\* if asked for, and the uploading thread joined.
StopIO(eventual_stop) ==
    /\ main = "test"
    /\ event' = (event \/ eventual_stop)
    /\ main' = "stopping"
    /\ UNCHANGED <<check, uploadVars, csv, deleted, queued, poolVars, failed, summary,
                   verdict, faults, fateVars>>

Rows == {o \in csv : o[1] = check}

\* Mutant of Joined: also the processes that were not started are waited for.
JoinedAll == main = "stopping" /\ \A u \in User : proc[u] = "ended"

\* uploader.start joins the processes that are alive.
Joined == main = "stopping" /\ \A u \in User : proc[u] \in {"skipped", "ended"}

\* The manager's caller gets an answer, or an exception.
Answer(v) ==
    /\ verdict' = [verdict EXCEPT ![check] = v]
    /\ main' = "idle"
    /\ UNCHANGED <<check, event, uploadVars, csv, deleted, queued, failed, faults, fateVars>>

\* Without the csv file open() raises, and the threads just started stay.
NoFile ==
    /\ Joined /\ csv = {}
    /\ pending' = {} /\ done' = {} /\ open' = TRUE
    /\ Answer("raised")
    /\ UNCHANGED summary

\* Mutant of NothingUploaded: a summary without a failure.
NothingUploadedPasses ==
    /\ Joined /\ csv # {} /\ Rows = {}
    /\ pending' = {} /\ done' = {} /\ open' = FALSE
    /\ Answer("passed")
    /\ UNCHANGED summary

\* Without a row of these users the answer is None, and its caller's
\* response.get raises.
NothingUploaded ==
    /\ Joined /\ csv # {} /\ Rows = {}
    /\ pending' = {} /\ done' = {} /\ open' = FALSE
    /\ Answer("raised")
    /\ UNCHANGED summary

\* Rows of this check that the list of deletions names, if there is such a list:
\* nothing in the repository writes it.
PassOver == \E gone \in SUBSET (Rows \cap Deletable) : deleted' = deleted \cup gone

\* Mutant of Verify: each verification begins with empty lists.
VerifyAfresh ==
    /\ Joined /\ Rows # {}
    /\ main' = "enqueue"
    /\ pending' = {} /\ done' = {} /\ open' = TRUE
    /\ queued' = {} /\ failed' = {}
    /\ PassOver
    /\ UNCHANGED <<check, event, uploadVars, csv, summary, verdict, faults, fateVars>>

\* Mutant of Verify: the uploading thread is not waited for.
VerifyEarly ==
    /\ main = "stopping" /\ Rows # {}
    /\ main' = "enqueue"
    /\ pending' = {} /\ done' = {} /\ open' = TRUE
    /\ queued' = {}
    /\ PassOver
    /\ UNCHANGED <<check, event, uploadVars, csv, failed, summary, verdict, faults, fateVars>>

\* start_workers, the rows of this check's users, and those among them that were
\* deleted.
Verify ==
    /\ Joined /\ Rows # {}
    /\ main' = "enqueue"
    /\ pending' = {} /\ done' = {} /\ open' = TRUE
    /\ queued' = {}
    /\ PassOver
    /\ UNCHANGED <<check, event, uploadVars, csv, failed, summary, verdict, faults, fateVars>>

\* wenque of one row; those of deleted objects are passed over.
Enqueue(o) ==
    /\ main = "enqueue"
    /\ o \in Rows \ (queued \cup deleted)
    /\ queued' = queued \cup {o}
    /\ Pool!Enqueue(o)
    /\ UNCHANGED <<check, main, event, uploadVars, csv, deleted, failed, summary, verdict,
                   faults, fateVars>>

\* download_and_compare_chksum: the object is as it was, or it is gone or changed,
\* or, without a connection or with an exception once it is on the disk, it
\* enters neither list and only the log tells of it.
Download(o) ==
    /\ main \in {"enqueue", "ending"}
    /\ Pool!Process(o)
    /\ \/ verified' = verified \cup {o} /\ UNCHANGED <<failed, unjudged, faults>>
       \/ Fault /\ failed' = failed \cup {o} /\ UNCHANGED fateVars
       \/ Fault /\ unjudged' = unjudged \cup {o} /\ UNCHANGED <<failed, verified>>
    /\ UNCHANGED <<check, main, event, uploadVars, csv, deleted, queued, summary, verdict>>

\* The failures are counted when the loop has been through the rows.
Count ==
    /\ main = "enqueue" /\ queued = Rows \ deleted
    /\ summary' = Cardinality(failed)
    /\ main' = "ending"
    /\ UNCHANGED <<check, event, uploadVars, csv, deleted, queued, poolVars, failed, verdict,
                   faults, fateVars>>

\* end_workers, and status = response.get("failed_files") == 0.
End ==
    /\ main = "ending"
    /\ Pool!Shutdown
    /\ Answer(IF summary = 0 THEN "passed" ELSE "failed")
    /\ UNCHANGED summary

-----------------------------------------------------------------------------

Main ==
    \/ StartIO \/ StopIO(FALSE) \/ StopIO(TRUE)
    \/ NoFile \/ NothingUploaded \/ Verify \/ Count \/ End
    \/ \E o \in Object : Enqueue(o)

Process(u) == StartProcess(u) \/ EndProcess(u) \/ \E f \in File : Upload(u, f)

Next == Main \/ (\E u \in User : Process(u)) \/ (\E o \in Object : Download(o))

Spec == Init /\ [][Next]_vars

\* Processes and threads are scheduled, and requests come to an end.
Fairness ==
    /\ WF_vars(Main)
    /\ \A u \in User : WF_vars(Process(u))
    /\ WF_vars(\E o \in Object : Download(o))

FairSpec == Spec /\ Fairness

-----------------------------------------------------------------------------
(* Properties. *)

Failures(c) == {o \in failed : o[1] = c}
Listed(c) == {o \in csv : o[1] = c}

\* The failures are counted while downloads are still running, so that a check
\* may pass although objects of its own were not found intact; but for those
\* listed as deleted and those of which only the log tells, which no check ever
\* counts, they are never more than the pool has threads.
PassMissesFewFailures ==
    \A c \in 1..MaxChecks : verdict[c] = "passed" =>
        Cardinality(Listed(c) \ (verified \cup deleted \cup unjudged)) <= NWORKERS

\* The lists outlive a check: a failure in them that one misses every later one
\* reports, and after that no check of the test run passes again.
LaterChecksReport ==
    \A c \in 1..MaxChecks : verdict[c] = "passed" =>
        \A e \in 1..(c - 1) : Failures(e) = {} /\ verdict[e] # "failed"

\* A check that gives a verdict has been through the download of every object
\* that its users uploaded, the deleted ones excepted, and no upload was still
\* under way.
VerdictIsComplete ==
    main = "idle" /\ check > 0 /\ verdict[check] \in {"passed", "failed"} =>
        /\ done = (UNION {uploaded[u] : u \in User}) \ deleted
        /\ \A u \in User : proc[u] \in {"skipped", "ended"}

\* No check gives a verdict without an upload, and each row it is about has been
\* found intact, is in a list of failures, was passed over as deleted, or is
\* told of by the log alone; which need not leave one that is intact.
RowsAccountedFor ==
    \A c \in 1..MaxChecks : verdict[c] \in {"passed", "failed"} =>
        /\ Listed(c) # {}
        /\ Listed(c) \subseteq verified \cup failed \cup unjudged \cup deleted

\* A check that was started gives its verdict or raises.
ChecksEnd == []<>(main = "idle")

=============================================================================
