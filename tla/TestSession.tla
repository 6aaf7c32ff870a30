---------------------------- MODULE TestSession ----------------------------
(***************************************************************************)
(* A test execution run by testrunner.py outside Kafka: a pytest session   *)
(* for the tests marked parallel (on several xdist workers, or on one      *)
(* process if force_serial_run is set), a second session for those of them *)
(* that Jira still lists as TODO, and one for the other tests.  The hooks  *)
(* of conftest.py report each test to Jira and to the report database.     *)
(*                                                                         *)
(* With xdist every hook for a report runs twice: in the worker, and later *)
(* in the controller, which reads the reports from a queue.                *)
(***************************************************************************)
EXTENDS Naturals, FiniteSets

CONSTANTS Test,       \* the tests of the test execution
          Parallel,   \* those marked parallel
          UsesIO,     \* those that use the fixture run_io_async
          Worker,     \* the xdist workers
          Main,       \* the process of a session without xdist
          NoTest,
          Earlier,    \* bound: what earlier runs may have left in Jira
          MaxFaults   \* bound: failed requests, bad health and crashes

Result == {"PASS", "FAIL", "BLOCKED"}
Status == Result \union {"TODO", "Executing"}

ASSUME SessionAssumption ==
    /\ Parallel \subseteq Test
    /\ UsesIO \subseteq Test
    /\ Main \notin Worker
    /\ NoTest \notin Test
    /\ Earlier \subseteq [Test -> Status]
    /\ MaxFaults \in Nat

VARIABLES
    opt,      \* the options of the run
    before,   \* history: the status of each test when the run began
    phase,    \* the session that is running
    left,     \* its tests that no process has started
    cur,      \* the test of each process
    stage,    \* the phase that test is in
    rep,      \* the outcomes of its setup and call
    poll,     \* the thread of get_test_status
    failed,   \* session.testsfailed is not zero
    late,     \* tests whose setup report waits for the controller
    jira,     \* the status of each test in the test execution
    db,       \* the result of the last entry this run has made for it in the
              \* report database
    runs,     \* history: how often a test was started
    lapse,    \* history: what kept the last status of a test from Jira
    faults

vars == <<opt, before, phase, left, cur, stage, rep, poll, failed, late, jira, db,
          runs, lapse, faults>>

Process == Worker \union {Main}
Outcome == {"passed", "failed", "skipped"}
Answer == {"done", "refused", "raised"}
Lapse == {"skipped", "refused", "raised", "late", "cut"}
Sessions == {"parallel", "redo", "serial"}

Options == [force_serial_run : BOOLEAN, stop_on_first_error : BOOLEAN,
            jira_update : BOOLEAN, unimportable : BOOLEAN]

TypeOK ==
    /\ opt \in Options
    /\ before \in Earlier
    /\ phase \in Sessions \union {"start", "done", "stopped"}
    /\ left \subseteq Test
    /\ cur \in [Process -> Test \union {NoTest}]
    /\ stage \in [Process -> {"idle", "setup", "call", "teardown"}]
    /\ rep \in [Process -> [setup : Outcome, call : Outcome]]
    /\ poll \in [Process -> {"off", "on", "ended"}]
    /\ failed \in [Process -> BOOLEAN]
    /\ late \subseteq Test
    /\ jira \in [Test -> Status]
    /\ db \in [Test -> Result \union {"none"}]
    /\ runs \in [Test -> 0..2]
    /\ lapse \in [Test -> SUBSET Lapse]
    /\ faults \in 0..MaxFaults
    \* A poll thread belongs to a test, and no test is run by two processes.
    /\ \A w \in Process : poll[w] = "on" => stage[w] \in {"call", "teardown"}
    /\ \A v, w \in Process : cur[v] = cur[w] /\ cur[v] # NoTest => v = w

NoReport == [setup |-> "skipped", call |-> "skipped"]

\* The tests of an execution are selected by --test_type: unless it is TODO alone
\* they have any status.
Init ==
    /\ opt \in Options
    /\ before \in Earlier
    /\ phase = "start"
    /\ left = {}
    /\ cur = [w \in Process |-> NoTest]
    /\ stage = [w \in Process |-> "idle"]
    /\ rep = [w \in Process |-> NoReport]
    /\ poll = [w \in Process |-> "off"]
    /\ failed = [w \in Process |-> FALSE]
    /\ late = {}
    /\ jira = before
    /\ db = [t \in Test |-> "none"]
    /\ runs = [t \in Test |-> 0]
    /\ lapse = [t \in Test |-> {}]
    /\ faults = 0

-----------------------------------------------------------------------------
(* The sessions of trigger_tests_from_te.                                  *)

Distributed == phase = "parallel" /\ ~opt.force_serial_run

Processes == IF Distributed THEN Worker
             ELSE IF phase \in Sessions THEN {Main} ELSE {}

Cut(t) == [lapse EXCEPT ![t] = @ \union {"cut"}]
CutAll == [t \in Test |-> IF \E w \in Process : cur[w] = t
                          THEN lapse[t] \union {"cut"} ELSE lapse[t]]

\* The processes of a session are new, those of the last one are gone.
NewProcesses ==
    /\ cur' = [w \in Process |-> NoTest]
    /\ stage' = [w \in Process |-> "idle"]
    /\ rep' = [w \in Process |-> NoReport]
    /\ poll' = [w \in Process |-> "off"]
    /\ failed' = [w \in Process |-> FALSE]
    /\ late' = {}

RunPytest(session, tests) ==
    /\ phase' = session
    /\ left' = tests
    /\ NewProcesses
    /\ UNCHANGED <<opt, before, jira, db, runs, lapse, faults>>

\* With -x a process starts no test after a failure.
Halted(w) == opt.stop_on_first_error /\ failed[w]

Ended ==
    /\ phase \in Sessions
    /\ \A w \in Processes : cur[w] = NoTest
    /\ late = {}
    /\ left = {} \/ \E w \in Processes \ Worker : Halted(w)

\* A module that cannot be imported ends a session before its first test,
\* unless --continue-on-collection-errors is given; under xdist it depends on
\* who meets the error.
OpenParallel ==
    /\ phase = "start"
    /\ \E tests \in (IF opt.unimportable THEN {{}} ELSE {Parallel})
                    \union (IF opt.force_serial_run THEN {} ELSE {Parallel}) :
           RunPytest("parallel", tests)

\* Mutant: the status in Jira is not asked for.
UnexecutedAll == Parallel
\* Mutant: as if the hooks left no test as TODO.
UnexecutedStuck ==
    {t \in Parallel : jira[t] = "Executing"}
Unexecuted == {t \in Parallel : jira[t] = "TODO"}

OpenRedo ==
    /\ phase = "parallel" /\ Ended
    /\ ~opt.force_serial_run
    /\ RunPytest("redo", Unexecuted)

OpenSerial ==
    /\ phase = (IF opt.force_serial_run THEN "parallel" ELSE "redo") /\ Ended
    /\ RunPytest("serial", IF opt.unimportable THEN {} ELSE Test \ Parallel)

Finish ==
    /\ phase = "serial" /\ Ended
    /\ RunPytest("done", {})

\* The exit codes 3 and 4 end the whole run, and an exception in a hook makes
\* pytest exit with 3, like bad health does.
Abort ==
    /\ phase' = "stopped"
    /\ left' = {}
    /\ lapse' = CutAll
    /\ NewProcesses

-----------------------------------------------------------------------------
(* A test in a process of the session.                                     *)

Fault(answer) ==
    /\ answer # "done" => opt.jira_update /\ faults < MaxFaults
    /\ faults' = IF answer = "done" THEN faults ELSE faults + 1

Post(t, status, answer) ==
    jira' = IF opt.jira_update /\ answer = "done"
            THEN [jira EXCEPT ![t] = status] ELSE jira

MayStart(w, t) ==
    /\ w \in Processes /\ cur[w] = NoTest
    /\ t \in left
    /\ ~Halted(w)

Start(w, t) ==
    /\ MayStart(w, t)
    /\ cur' = [cur EXCEPT ![w] = t]
    /\ stage' = [stage EXCEPT ![w] = "setup"]
    /\ left' = left \ {t}
    /\ runs' = [runs EXCEPT ![t] = @ + 1]
    /\ UNCHANGED <<opt, before, phase, rep, poll, failed, late, jira, db, lapse, faults>>

Unhealthy(w, t) ==
    /\ MayStart(w, t)
    /\ faults < MaxFaults
    /\ faults' = faults + 1
    /\ Abort
    /\ UNCHANGED <<opt, before, jira, db, runs>>

\* The report of the setup: a failed one is posted at once by makereport, where
\* an exception is caught; a passed one by logreport, where it is not.
Setup(w, outcome, io, answer) ==
    LET t == cur[w]
    IN  /\ stage[w] = "setup"
        /\ Fault(answer)
        /\ outcome = "skipped" => answer = "done"
        /\ UNCHANGED <<opt, before, db, runs>>
        /\ \/ /\ outcome = "passed" /\ answer = "raised"
              /\ Abort
              /\ UNCHANGED jira
           \/ /\ ~(outcome = "passed" /\ answer = "raised")
              /\ IF outcome = "skipped" THEN UNCHANGED jira
                 ELSE Post(t, IF outcome = "passed" THEN "Executing" ELSE "FAIL",
                           answer)
              /\ rep' = [rep EXCEPT ![w].setup = outcome]
              /\ stage' = [stage EXCEPT ![w] =
                             IF outcome = "passed" THEN "call" ELSE "teardown"]
              /\ poll' = [poll EXCEPT ![w] =
                            IF t \in UsesIO /\ (io \/ outcome = "passed")
                            THEN "on" ELSE "off"]
              /\ failed' = [failed EXCEPT ![w] = @ \/ outcome = "failed"]
              /\ late' = IF Distributed /\ opt.jira_update /\ outcome = "passed"
                         THEN late \union {t} ELSE late
              /\ UNCHANGED <<phase, left, cur, lapse>>

Call(w, outcome) ==
    /\ stage[w] = "call"
    /\ rep' = [rep EXCEPT ![w].call = outcome]
    /\ stage' = [stage EXCEPT ![w] = "teardown"]
    /\ failed' = [failed EXCEPT ![w] = @ \/ outcome = "failed"]
    /\ UNCHANGED <<opt, before, phase, left, cur, poll, late, jira, db, runs, lapse,
                   faults>>

\* get_test_status: the upload of a test is stopped when its call has passed,
\* or when any test of the session has failed.  A call that is skipped is
\* neither: the thread goes on until its timeout.
Poll(w) ==
    /\ poll[w] = "on"
    /\ failed[w] \/ (stage[w] = "teardown" /\ rep[w].call = "passed")
    /\ poll' = [poll EXCEPT ![w] = "ended"]
    /\ UNCHANGED <<opt, before, phase, left, cur, stage, rep, failed, late, jira, db,
                   runs, lapse, faults>>

\* Mutant: no timeout.
PollForEver(w) == FALSE
PollTimesOut(w) ==
    /\ poll[w] = "on"
    /\ poll' = [poll EXCEPT ![w] = "ended"]
    /\ UNCHANGED <<opt, before, phase, left, cur, stage, rep, failed, late, jira, db,
                   runs, lapse, faults>>

\* The branches of makereport, in their order.
\* Mutant: a branch is missing.
ResultOnlyOfSetup(setup, call, teardown) ==
    CASE setup = "failed" \/ teardown = "failed" -> "FAIL"
      [] setup = "passed" /\ call = "passed" -> "PASS"
      [] setup = "skipped"                   -> "BLOCKED"
      [] OTHER                               -> "none"
ResultOf(setup, call, teardown) ==
    CASE setup = "failed" \/ teardown = "failed"   -> "FAIL"
      [] setup = "passed" /\ call = "failed"       -> "FAIL"
      [] setup = "passed" /\ call = "passed"       -> "PASS"
      [] setup = "skipped"                         -> "BLOCKED"
      [] OTHER                                     -> "none"

\* The entry in the database needs the credentials that are read for Jira, and
\* is not made if the request to Jira raised.
\* Mutant: no exception is seen.
RecordedAnyway(t, result, answer, entry) ==
    IF opt.jira_update /\ entry /\ result # "none"
    THEN [db EXCEPT ![t] = result] ELSE db
Recorded(t, result, answer, entry) ==
    IF opt.jira_update /\ answer # "raised" /\ entry /\ result # "none"
    THEN [db EXCEPT ![t] = result] ELSE db

Teardown(w, outcome, answer, entry) ==
    LET t == cur[w]
        result == ResultOf(rep[w].setup, rep[w].call, outcome)
    IN  /\ stage[w] = "teardown"
        /\ poll[w] # "on"
        /\ Fault(answer)
        /\ result = "none" => answer = "done"
        /\ IF result = "none" THEN UNCHANGED jira ELSE Post(t, result, answer)
        /\ db' = Recorded(t, result, answer, entry)
        /\ lapse' = [lapse EXCEPT ![t] = @ \union ({answer} \ {"done"}) \union
                       (IF /\ rep[w] = [setup |-> "passed", call |-> "skipped"]
                           /\ outcome = "passed"
                        THEN {"skipped"} ELSE {})]
        /\ cur' = [cur EXCEPT ![w] = NoTest]
        /\ stage' = [stage EXCEPT ![w] = "idle"]
        /\ rep' = [rep EXCEPT ![w] = NoReport]
        /\ poll' = [poll EXCEPT ![w] = "off"]
        /\ failed' = [failed EXCEPT ![w] = @ \/ outcome = "failed"]
        /\ UNCHANGED <<opt, before, phase, left, late, runs>>

-----------------------------------------------------------------------------
(* xdist: the controller, and workers that are lost.                       *)

\* logreport in the controller: it posts Executing however late it is.
LateReport(t, answer) ==
    /\ t \in late
    /\ Fault(answer)
    /\ UNCHANGED <<opt, before, db, runs>>
    /\ \/ answer = "raised" /\ Abort /\ UNCHANGED jira
       \/ /\ answer # "raised"
          /\ Post(t, "Executing", answer)
          /\ late' = late \ {t}
          /\ lapse' = IF /\ jira[t] \in Result /\ jira'[t] = "Executing"
                         /\ \A w \in Process : cur[w] # t
                      THEN [lapse EXCEPT ![t] = @ \union {"late"}] ELSE lapse
          /\ UNCHANGED <<phase, left, cur, stage, rep, poll, failed>>

Crash(w) ==
    /\ Distributed /\ w \in Worker /\ cur[w] # NoTest
    /\ faults < MaxFaults
    /\ faults' = faults + 1
    /\ lapse' = Cut(cur[w])
    /\ cur' = [cur EXCEPT ![w] = NoTest]
    /\ stage' = [stage EXCEPT ![w] = "idle"]
    /\ rep' = [rep EXCEPT ![w] = NoReport]
    /\ poll' = [poll EXCEPT ![w] = "off"]
    /\ failed' = [failed EXCEPT ![w] = TRUE]   \* it is reported as a failure
    /\ UNCHANGED <<opt, before, phase, left, late, jira, db, runs>>

\* With -x the controller ends the session at the first failure it hears of.
StopEarly ==
    /\ Distributed
    /\ \E w \in Worker : Halted(w)
    /\ left' = {}
    /\ lapse' = CutAll
    /\ NewProcesses
    /\ UNCHANGED <<opt, before, phase, jira, db, runs, faults>>

Next ==
    \/ OpenParallel \/ OpenRedo \/ OpenSerial \/ Finish \/ StopEarly
    \/ \E w \in Process :
         \/ \E t \in Test : Start(w, t) \/ Unhealthy(w, t)
         \/ \E outcome \in Outcome :
              \/ Call(w, outcome)
              \/ \E io \in BOOLEAN, answer \in Answer :
                     Setup(w, outcome, io, answer)
         \/ \E outcome \in {"passed", "failed"}, answer \in Answer,
               entry \in BOOLEAN : Teardown(w, outcome, answer, entry)
         \/ Poll(w) \/ PollTimesOut(w) \/ Crash(w)
    \/ \E t \in Test, answer \in Answer : LateReport(t, answer)

Spec == Init /\ [][Next]_vars
FairSpec == Spec /\ WF_vars(Next)   \* the processes and the controller go on

-----------------------------------------------------------------------------
(* Properties.                                                             *)

\* This run has told Jira nothing of a test: it has not started it, is in its
\* first setup, or updates are switched off.
Untold(t) ==
    \/ runs[t] = 0
    \/ runs[t] = 1 /\ \E w \in Process : cur[w] = t /\ stage[w] = "setup"
    \/ ~opt.jira_update

\* A test is listed as Executing only while it runs, if an earlier run has left
\* it so, or if its last status was kept from Jira: it was skipped by its body,
\* for which makereport has no branch, its process was lost, the request failed,
\* or the controller posted Executing after the worker had posted the result
\* (pytest_runtest_logreport).
ExecutingIsExplained ==
    \A t \in Test : jira[t] = "Executing" =>
        \/ lapse[t] # {}
        \/ \E w \in Process : cur[w] = t /\ stage[w] \in {"call", "teardown"}
        \/ before[t] = "Executing" /\ Untold(t)

\* The result in the report database is the status in Jira, unless a request to
\* Jira was refused (its answer is not looked at) or the controller was late.
DatabaseFollowsJira ==
    \A t \in Test : db[t] # "none" =>
        jira[t] = db[t] \/ lapse[t] \cap {"refused", "late"} # {}

\* A result is replaced by Executing in two ways only: one of an earlier run
\* when the test gets past its first setup, and one of this run by the
\* controller of a parallel session.  In particular the second session of
\* trigger_unexecuted_tests takes no test that has a result.
ResultStands ==
    [][\A t \in Test : jira[t] \in Result /\ jira'[t] = "Executing" =>
           \/ Untold(t) /\ jira[t] = before[t]
           \/ Distributed /\ t \in late]_vars

\* A test is run a second time only if no earlier run has left it a status, and
\* Jira was not told of its first run: updates are switched off, its status was
\* lost, or nothing was posted.
RerunIsExplained ==
    \A t \in Test : runs[t] > 1 =>
        /\ before[t] = "TODO"
        /\ \/ ~opt.jira_update
           \/ lapse[t] \ {"late"} # {}

\* Every parallel test has been started once the serial session begins, and
\* every test at the end if all modules can be imported; -x gives that up.  If
\* some cannot, xdist may have started none, and trigger_unexecuted_tests makes
\* up for that: not with force_serial_run, and not for a test that an earlier
\* run has left with another status than TODO.
EveryTestStarts ==
    ~opt.stop_on_first_error =>
        /\ phase \in {"serial", "done"} =>
               \A t \in Parallel :
                   \/ runs[t] > 0
                   \/ opt.unimportable /\ (opt.force_serial_run \/ before[t] # "TODO")
        /\ phase = "done" /\ ~opt.unimportable => \A t \in Test : runs[t] > 0

\* The run ends, although the teardown of a test joins the thread of
\* get_test_status, which a skipped test does not stop.
RunEnds == <>(phase \in {"done", "stopped"})

=============================================================================
