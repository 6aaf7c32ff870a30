------------------------- MODULE TestSessionProofs -------------------------
(***************************************************************************)
(* Proofs about TestSession, for any tests, workers and faults.            *)
(*                                                                         *)
(* The properties speak of what Jira lists, and a process changes that at  *)
(* the report of the setup and of the teardown of its test, the controller *)
(* at any time after.  The inductive invariant says what is known of a     *)
(* test in between: which session it belongs to (Control), what has been   *)
(* posted of it before it starts (Fresh), what may still be posted of it   *)
(* (Awaited), and why it is listed as TODO or was never started (Told,     *)
(* Covered).                                                               *)
(***************************************************************************)
EXTENDS TestSession, TLAPS

SessionTests == IF phase \in {"parallel", "redo"} THEN Parallel
                ELSE IF phase = "serial" THEN Test \ Parallel ELSE {}

Running(t) == \E w \in Process : cur[w] = t /\ stage[w] \in {"call", "teardown"}

\* The processes of the session have tests of the session, which are not left.
Control ==
    /\ \A w \in Process : cur[w] # NoTest => w \in Processes
    /\ \A w \in Process : stage[w] = "idle" <=> cur[w] = NoTest
    /\ \A w \in Process : stage[w] = "call" => rep[w].setup = "passed"
    /\ \A w \in Process : cur[w] # NoTest =>
           cur[w] \notin left /\ cur[w] \in SessionTests
    /\ left \subseteq SessionTests
    /\ phase = "redo" => ~opt.force_serial_run

\* Nothing has been posted of a test that is left or in its setup, and nothing
\* of the serial tests before their session; and nothing posts TODO.
Fresh ==
    /\ ~opt.jira_update => \A t \in Test : jira[t] = before[t]
    /\ \A t \in left : jira[t] = before[t]
    /\ \A w \in Process : stage[w] = "setup" => jira[cur[w]] = before[cur[w]]
    /\ phase = "start" => \A t \in Test : jira[t] = before[t]
    /\ phase \in {"start", "parallel", "redo"} =>
           \A t \in Test \ Parallel : jira[t] = before[t] /\ runs[t] = 0
    /\ \A t \in Test : jira[t] = "TODO" => before[t] = "TODO"

\* The controller has reports of tests that got past their setup.
Awaited ==
    /\ late # {} => Distributed /\ opt.jira_update
    /\ \A t \in late : t \notin left /\ runs[t] > 0
    /\ \A w \in Process : cur[w] \in late => stage[w] \in {"call", "teardown"}
    /\ \A t \in late : jira[t] \in Result \/ lapse[t] # {} \/ Running(t)

\* No test that is running has an entry of its last start, unless Jira was told
\* otherwise.
Unrecorded ==
    /\ \A w \in Process : cur[w] # NoTest =>
           db[cur[w]] = "none" \/ lapse[cur[w]] \cap {"refused", "late"} # {}
    /\ \A t \in Test : runs[t] = 0 => db[t] = "none"

\* A test that was run and is listed as TODO was not reported.
Told ==
    /\ \A t \in Test : runs[t] > 0 /\ jira[t] = "TODO" =>
           \/ \E w \in Process : cur[w] = t
           \/ ~opt.jira_update
           \/ lapse[t] \ {"late"} # {}
    /\ \A t \in Test : jira[t] # before[t] => runs[t] > 0
    /\ \A w \in Process : cur[w] # NoTest => runs[cur[w]] > 0

\* A test starts at most once in a session, and twice in the parallel ones if it
\* had no status before the run.
Counted ==
    /\ phase \in {"start", "parallel"} => \A t \in Test : runs[t] <= 1
    /\ phase \in {"parallel", "serial"} => \A t \in left : runs[t] = 0
    /\ phase = "redo" => \A t \in left : runs[t] <= 1 /\ before[t] = "TODO"
    /\ phase = "start" => \A t \in Test : runs[t] = 0
    /\ \A t \in Test : before[t] # "TODO" => runs[t] <= 1

\* What a session was given is left or has been started.
Covered ==
    ~opt.stop_on_first_error =>
        /\ phase = "redo" => \A t \in Parallel :
               t \in left \/ runs[t] > 0 \/ (opt.unimportable /\ before[t] # "TODO")
        /\ phase = "parallel" /\ ~opt.unimportable =>
               \A t \in Parallel : t \in left \/ runs[t] > 0
        /\ phase = "serial" /\ ~opt.unimportable =>
               \A t \in Test \ Parallel : t \in left \/ runs[t] > 0

\* An Executing that an earlier run has left.
Stale(t) == before[t] = "Executing" /\ Untold(t)

IInv == /\ TypeOK /\ Control /\ Fresh /\ Awaited /\ Unrecorded /\ Told
        /\ Counted /\ Covered
        /\ ExecutingIsExplained /\ DatabaseFollowsJira
        /\ RerunIsExplained /\ EveryTestStarts

-----------------------------------------------------------------------------
(* The steps. *)

LEMMA SessionUnchanged ==
  ASSUME UNCHANGED <<opt, phase>>
  PROVE  /\ Processes' = Processes
         /\ Distributed' = Distributed
         /\ SessionTests' = SessionTests
BY DEF Processes, Distributed, SessionTests

\* A test of which nothing was told stays so while its process is in the setup.
LEMMA UntoldKept ==
  ASSUME NEW t, UNCHANGED <<opt, runs>>,
         \A w \in Process : cur[w] = t /\ stage[w] = "setup"
                               => cur'[w] = t /\ stage'[w] = "setup"
  PROVE  Untold(t) => Untold(t)'
BY DEF Untold

\* A process takes a test that is left.
LEMMA StartKeeps ==
  ASSUME IInv, NEW w \in Process, NEW t \in Test, Start(w, t)
  PROVE  IInv'
<1>1. /\ Processes' = Processes /\ Distributed' = Distributed
      /\ SessionTests' = SessionTests
  BY SessionUnchanged DEF Start
<1>2. /\ t \in left /\ cur[w] = NoTest /\ w \in Processes /\ t # NoTest
      /\ \A v \in Process : cur[v] # t
  BY SessionAssumption DEF Start, MayStart, IInv, Control, TypeOK
<1>3. /\ \A v \in Process : cur'[v] = IF v = w THEN t ELSE cur[v]
      /\ \A v \in Process : stage'[v] = IF v = w THEN "setup" ELSE stage[v]
      /\ \A u \in Test : runs'[u] = IF u = t THEN runs[u] + 1 ELSE runs[u]
      /\ left' = left \ {t}
      /\ UNCHANGED <<opt, before, phase, rep, poll, failed, late, jira, db, lapse, faults>>
  BY DEF Start, IInv, TypeOK
<1>4. TypeOK'
  <2>1. runs[t] <= 1 /\ runs[t] \in 0..2
    BY <1>2 DEF IInv, Counted, TypeOK, Control, SessionTests
  <2>2. runs' \in [Test -> 0..2]
    BY <2>1 DEF Start, IInv, TypeOK
  <2>3. /\ cur' \in [Process -> Test \union {NoTest}]
        /\ stage' \in [Process -> {"idle", "setup", "call", "teardown"}]
    BY DEF Start, IInv, TypeOK
  <2>4. \A v \in Process : poll'[v] = "on" => stage'[v] \in {"call", "teardown"}
    BY <1>2, <1>3 DEF IInv, TypeOK, Control
  <2>5. \A u, v \in Process : cur'[u] = cur'[v] /\ cur'[u] # NoTest => u = v
    BY <1>2, <1>3 DEF IInv, TypeOK
  <2> QED BY <1>3, <2>2, <2>3, <2>4, <2>5 DEF IInv, TypeOK
<1>5. Control'
  BY <1>1, <1>2, <1>3 DEF IInv, Control
<1>6. Fresh'
  BY <1>1, <1>2, <1>3 DEF IInv, Fresh, Control, SessionTests
<1>7. Awaited'
  <2>1. \A u \in Test : Running(u) => Running(u)'
    BY <1>2, <1>3 DEF Running, IInv, Control
  <2> QED BY <1>1, <1>2, <1>3, <2>1 DEF IInv, Awaited, TypeOK
<1>17. runs[t] = 0 \/ (before[t] = "TODO" /\ jira[t] = "TODO")
  <2>1. phase \in Sessions
    BY <1>2 DEF Processes, Sessions, Distributed
  <2> QED BY <1>2, <2>1 DEF IInv, Counted, Fresh, Sessions
<1>8. Unrecorded'
  <2>1. db[t] # "TODO"
    BY DEF IInv, TypeOK, Result
  <2>2. db[t] = "none" \/ lapse[t] \cap {"refused", "late"} # {}
    BY <1>17, <2>1 DEF IInv, DatabaseFollowsJira, Unrecorded
  <2>3. \A u \in Test : runs'[u] = 0 => runs[u] = 0
    BY <1>2, <1>3 DEF IInv, TypeOK
  <2> QED BY <1>2, <1>3, <2>2, <2>3 DEF IInv, Unrecorded
<1>16. /\ \A u \in Test : runs[u] \in 0..2
       /\ \A u \in Test : runs[u] > 0 => runs'[u] > 0
       /\ runs'[t] > 0
  <2>1. \A u \in Test : runs[u] \in 0..2
    BY DEF IInv, TypeOK
  <2> QED BY <1>3, <2>1
<1>9. Told'
  <2>1. ASSUME NEW u \in Test, runs'[u] > 0, jira'[u] = "TODO"
        PROVE  \/ \E v \in Process : cur'[v] = u
               \/ ~opt'.jira_update
               \/ lapse'[u] \ {"late"} # {}
    <3>1. CASE u = t
      BY <1>3, <3>1
    <3>2. CASE u # t
      BY <1>2, <1>3, <2>1, <3>2, SessionAssumption DEF IInv, Told
    <3> QED BY <3>1, <3>2
  <2>2. \A u \in Test : jira'[u] # before'[u] => runs'[u] > 0
    BY <1>3, <1>16 DEF IInv, Told
  <2>3. \A v \in Process : cur'[v] # NoTest => runs'[cur'[v]] > 0
    BY <1>2, <1>3, <1>16 DEF IInv, Told, TypeOK
  <2> QED BY <2>1, <2>2, <2>3 DEF Told
<1>10. Counted'
  <2>1. phase # "start"
    BY <1>2 DEF Processes, Sessions, Distributed
  <2>2. phase = "parallel" => \A u \in Test : runs'[u] <= 1
    BY <1>2, <1>3, <1>16 DEF IInv, Counted
  <2>3. \A u \in Test : before[u] # "TODO" => runs'[u] <= 1
    BY <1>3, <1>17 DEF IInv, Counted
  <2> QED BY <1>2, <1>3, <2>1, <2>2, <2>3 DEF IInv, Counted, TypeOK
<1>11. Covered'
  BY <1>2, <1>3, <1>16, SessionAssumption DEF IInv, Covered
<1>12. ExecutingIsExplained'
  <2> SUFFICES ASSUME NEW u \in Test, jira[u] = "Executing"
               PROVE  lapse[u] # {} \/ Running(u)' \/ Stale(u)'
    BY <1>3 DEF ExecutingIsExplained, Running, Stale
  <2>1. lapse[u] # {} \/ Running(u) \/ Stale(u)
    BY DEF IInv, ExecutingIsExplained, Running, Stale
  <2>2. Running(u) => Running(u)'
    BY <1>2, <1>3 DEF Running, IInv, Control
  <2>3. CASE u # t /\ Stale(u)
    BY <1>2, <1>3, <2>3, SessionAssumption DEF Stale, Untold
  <2>4. CASE u = t /\ Stale(u)
    <3>1. opt.jira_update => runs[t] = 0
      BY <1>17, <2>4 DEF Stale
    <3>2. opt.jira_update => runs'[t] = 1 /\ cur'[w] = t /\ stage'[w] = "setup"
      BY <1>3, <3>1
    <3> QED BY <1>3, <2>4, <3>2 DEF Stale, Untold
  <2> QED BY <2>1, <2>2, <2>3, <2>4
<1>13. DatabaseFollowsJira'
  BY <1>3 DEF IInv, DatabaseFollowsJira
<1>14. RerunIsExplained'
  <2> SUFFICES ASSUME NEW u \in Test, runs'[u] > 1
               PROVE  before[u] = "TODO" /\ (~opt.jira_update \/ lapse[u] \ {"late"} # {})
    BY <1>3 DEF RerunIsExplained
  <2>1. CASE u = t
    <3>1. runs[t] > 0 /\ before[t] = "TODO" /\ jira[t] = "TODO"
      BY <1>3, <1>16, <1>17, <2>1
    <3> QED BY <1>2, <2>1, <3>1 DEF IInv, Told
  <2>2. CASE u # t
    BY <1>3, <2>2 DEF IInv, RerunIsExplained
  <2> QED BY <2>1, <2>2
<1>15. EveryTestStarts'
  BY <1>3, <1>16, SessionAssumption DEF IInv, EveryTestStarts
<1> QED BY <1>4, <1>5, <1>6, <1>7, <1>8, <1>9, <1>10, <1>11, <1>12, <1>13,
           <1>14, <1>15 DEF IInv

-----------------------------------------------------------------------------
(* A session that is cut short. *)

CutShort ==
    /\ \/ phase' = "stopped"
       \/ phase' = phase /\ opt.stop_on_first_error
    /\ left' = {}
    /\ lapse' = CutAll
    /\ NewProcesses
    /\ UNCHANGED <<opt, before, jira, db, runs>>
    /\ faults' \in 0..MaxFaults

LEMMA NewProcessesTyped ==
  ASSUME IInv, NewProcesses
  PROVE  /\ cur' \in [Process -> Test \union {NoTest}]
         /\ stage' \in [Process -> {"idle", "setup", "call", "teardown"}]
         /\ rep' \in [Process -> [setup : Outcome, call : Outcome]]
         /\ poll' \in [Process -> {"off", "on", "ended"}]
         /\ failed' \in [Process -> BOOLEAN]
         /\ late' = {}
         /\ \A w \in Process : /\ cur'[w] = NoTest /\ stage'[w] = "idle"
                               /\ poll'[w] = "off"
<1>1. NoReport \in [setup : Outcome, call : Outcome]
  BY DEF NoReport, Outcome
<1>2. /\ cur' \in [Process -> Test \union {NoTest}]
      /\ stage' \in [Process -> {"idle", "setup", "call", "teardown"}]
      /\ poll' \in [Process -> {"off", "on", "ended"}]
  BY DEF NewProcesses
<1>3. rep' \in [Process -> [setup : Outcome, call : Outcome]]
  BY <1>1 DEF NewProcesses
<1>4. failed' \in [Process -> BOOLEAN]
  BY DEF NewProcesses
<1> QED BY <1>2, <1>3, <1>4 DEF NewProcesses

LEMMA CutShortKeeps == ASSUME IInv, CutShort PROVE IInv'
<1>1. /\ cur' \in [Process -> Test \union {NoTest}]
      /\ stage' \in [Process -> {"idle", "setup", "call", "teardown"}]
      /\ rep' \in [Process -> [setup : Outcome, call : Outcome]]
      /\ poll' \in [Process -> {"off", "on", "ended"}]
      /\ failed' \in [Process -> BOOLEAN]
      /\ late' = {}
      /\ \A w \in Process : /\ cur'[w] = NoTest /\ stage'[w] = "idle"
                            /\ poll'[w] = "off"
  BY NewProcessesTyped DEF CutShort
<1>2. /\ left' = {}
      /\ \/ phase' = "stopped"
         \/ phase' = phase /\ opt'.stop_on_first_error
      /\ UNCHANGED <<opt, before, jira, db, runs>>
  BY DEF CutShort
<1>3. /\ lapse' \in [Test -> SUBSET Lapse]
      /\ \A t \in Test : lapse'[t] = lapse[t] \/ lapse'[t] = lapse[t] \union {"cut"}
      /\ \A t \in Test : (\E w \in Process : cur[w] = t)
                            => lapse'[t] = lapse[t] \union {"cut"}
  BY DEF CutShort, CutAll, IInv, TypeOK, Lapse
<1>4. TypeOK'
  BY <1>1, <1>2, <1>3, SessionAssumption DEF CutShort, IInv, TypeOK
<1>5. Control'
  BY <1>1, <1>2 DEF IInv, Control
<1>6. Fresh'
  BY <1>1, <1>2 DEF IInv, Fresh
<1>7. Awaited'
  BY <1>1, <1>2 DEF Awaited
<1>8. Unrecorded'
  BY <1>1, <1>2 DEF IInv, Unrecorded
<1>9. Told'
  <2>1. ASSUME NEW t \in Test, runs[t] > 0, jira[t] = "TODO", opt.jira_update
        PROVE  lapse'[t] \ {"late"} # {}
    <3>1. CASE \E w \in Process : cur[w] = t
      BY <1>3, <3>1
    <3>2. CASE lapse[t] \ {"late"} # {}
      BY <1>3, <3>2
    <3> QED BY <2>1, <3>1, <3>2 DEF IInv, Told
  <2> QED BY <1>1, <1>2, <2>1 DEF IInv, Told
<1>10. Counted'
  BY <1>1, <1>2 DEF IInv, Counted
<1>11. Covered'
  BY <1>2 DEF IInv, Covered
<1>12. ExecutingIsExplained'
  <2> SUFFICES ASSUME NEW t \in Test, jira[t] = "Executing"
               PROVE  lapse'[t] # {} \/ Stale(t)'
    BY <1>2 DEF ExecutingIsExplained, Stale
  <2>1. CASE \E w \in Process : cur[w] = t
    BY <1>3, <2>1
  <2>2. CASE lapse[t] # {}
    BY <1>3, <2>2
  <2>3. CASE Stale(t) /\ \A w \in Process : cur[w] # t
    BY <1>2, <2>3 DEF Stale, Untold
  <2> QED BY <2>1, <2>2, <2>3 DEF IInv, ExecutingIsExplained, Stale
<1>13. DatabaseFollowsJira'
  BY <1>2, <1>3 DEF IInv, DatabaseFollowsJira
<1>14. RerunIsExplained'
  BY <1>2, <1>3 DEF IInv, RerunIsExplained
<1>15. EveryTestStarts'
  BY <1>2 DEF IInv, EveryTestStarts
<1> QED BY <1>4, <1>5, <1>6, <1>7, <1>8, <1>9, <1>10, <1>11, <1>12, <1>13,
           <1>14, <1>15 DEF IInv

-----------------------------------------------------------------------------
(* The sessions. *)

LEMMA AllIdle ==
  ASSUME IInv, phase = "start" \/ Ended
  PROVE  \A w \in Process : cur[w] = NoTest
<1>1. \A w \in Process : cur[w] # NoTest => w \in Processes
  BY DEF IInv, Control
<1>2. CASE phase = "start"
  BY <1>1, <1>2 DEF Processes, Distributed, Sessions
<1>3. CASE Ended
  BY <1>1, <1>3 DEF Ended
<1> QED BY <1>2, <1>3

\* A session may be opened with tests of its own of which Jira was told nothing.
LEMMA RunPytestKeeps ==
  ASSUME IInv, NEW session \in Sessions \union {"done"}, NEW tests \in SUBSET Test,
         RunPytest(session, tests),
         \A w \in Process : cur[w] = NoTest,
         tests \subseteq SessionTests',
         \A t \in tests : jira[t] = before[t],
         session = "redo" => ~opt.force_serial_run,
         session \in {"parallel", "redo"} => phase \in {"start", "parallel"},
         Counted', Covered', EveryTestStarts'
  PROVE  IInv'
<1>1. /\ cur' \in [Process -> Test \union {NoTest}]
      /\ stage' \in [Process -> {"idle", "setup", "call", "teardown"}]
      /\ rep' \in [Process -> [setup : Outcome, call : Outcome]]
      /\ poll' \in [Process -> {"off", "on", "ended"}]
      /\ failed' \in [Process -> BOOLEAN]
      /\ late' = {}
      /\ \A w \in Process : /\ cur'[w] = NoTest /\ stage'[w] = "idle"
                            /\ poll'[w] = "off"
  BY NewProcessesTyped DEF RunPytest
<1>2. /\ left' = tests /\ phase' = session
      /\ UNCHANGED <<opt, before, jira, db, runs, lapse, faults>>
  BY DEF RunPytest
<1>3. TypeOK'
  BY <1>1, <1>2, SessionAssumption DEF IInv, TypeOK
<1>4. Control'
  BY <1>1, <1>2 DEF Control
<1>5. Fresh'
  <2>1. \A t \in Test \ Parallel : session \in {"parallel", "redo"}
            => jira[t] = before[t] /\ runs[t] = 0
    BY DEF IInv, Fresh
  <2>2. session # "start"
    BY DEF Sessions
  <2> QED BY <1>1, <1>2, <2>1, <2>2 DEF IInv, Fresh
<1>6. Awaited'
  BY <1>1, <1>2 DEF Awaited
<1>7. Unrecorded'
  BY <1>1, <1>2 DEF IInv, Unrecorded
<1>8. Told'
  BY <1>1, <1>2 DEF IInv, Told
<1>9. ExecutingIsExplained'
  <2> SUFFICES ASSUME NEW t \in Test, jira[t] = "Executing"
               PROVE  lapse[t] # {} \/ Stale(t)'
    BY <1>2 DEF ExecutingIsExplained, Stale
  <2>1. lapse[t] # {} \/ Stale(t)
    BY SessionAssumption DEF IInv, ExecutingIsExplained, Control, Stale
  <2> QED BY <1>2, <2>1, SessionAssumption DEF Stale, Untold
<1>10. DatabaseFollowsJira' /\ RerunIsExplained'
  BY <1>2 DEF IInv, DatabaseFollowsJira, RerunIsExplained
<1> QED BY <1>3, <1>4, <1>5, <1>6, <1>7, <1>8, <1>9, <1>10 DEF IInv

LEMMA OpenParallelKeeps == ASSUME IInv, OpenParallel PROVE IInv'
<1>1. PICK tests \in (IF opt.unimportable THEN {{}} ELSE {Parallel})
                     \union (IF opt.force_serial_run THEN {} ELSE {Parallel}) :
          RunPytest("parallel", tests)
  BY DEF OpenParallel
<1>2. /\ phase = "start" /\ phase' = "parallel" /\ left' = tests
      /\ tests \in SUBSET Test /\ tests \subseteq Parallel
      /\ UNCHANGED <<opt, before, runs>>
      /\ ~opt.unimportable => tests = Parallel
  BY <1>1, SessionAssumption DEF OpenParallel, RunPytest
<1>3. \A w \in Process : cur[w] = NoTest
  BY <1>2, AllIdle
<1>4. tests \subseteq SessionTests'
  BY <1>2 DEF SessionTests
<1>5. \A t \in tests : jira[t] = before[t]
  BY <1>2 DEF IInv, Fresh
<1>6. Counted'
  BY <1>2 DEF IInv, Counted
<1>7. Covered' /\ EveryTestStarts'
  BY <1>2 DEF Covered, EveryTestStarts
<1> QED BY <1>1, <1>2, <1>3, <1>4, <1>5, <1>6, <1>7, RunPytestKeeps DEF Sessions

\* Unless -x is given, a session ends when nothing is left of it.
LEMMA EndedMeansNoneLeft ==
  ASSUME Ended, ~opt.stop_on_first_error
  PROVE  left = {}
BY DEF Ended, Halted

LEMMA OpenRedoKeeps == ASSUME IInv, OpenRedo PROVE IInv'
<1>1. /\ phase = "parallel" /\ phase' = "redo" /\ left' = Unexecuted
      /\ Unexecuted \in SUBSET Test
      /\ RunPytest("redo", Unexecuted)
      /\ ~opt.force_serial_run
      /\ UNCHANGED <<opt, before, runs>>
  BY SessionAssumption DEF OpenRedo, RunPytest, Unexecuted
<1>2. \A w \in Process : cur[w] = NoTest
  BY AllIdle DEF OpenRedo
<1>3. /\ Unexecuted \subseteq SessionTests'
      /\ \A t \in Unexecuted : jira[t] = before[t] /\ before[t] = "TODO"
  BY <1>1, SessionAssumption DEF SessionTests, Unexecuted, IInv, Fresh
<1>4. Counted'
  BY <1>1, <1>3 DEF IInv, Counted
<1>5. ~opt.stop_on_first_error =>
          \A t \in Parallel :
              t \in Unexecuted \/ runs[t] > 0 \/ (opt.unimportable /\ before[t] # "TODO")
  <2>1. ~opt.stop_on_first_error => left = {}
    BY EndedMeansNoneLeft DEF OpenRedo
  <2>2. \A t \in Parallel : t \in Unexecuted \/ runs[t] > 0 \/ before[t] # "TODO"
    BY SessionAssumption DEF Unexecuted, IInv, Told
  <2> QED BY <1>1, <2>1, <2>2 DEF IInv, Covered
<1>6. Covered' /\ EveryTestStarts'
  BY <1>1, <1>5 DEF Covered, EveryTestStarts
<1> QED BY <1>1, <1>2, <1>3, <1>4, <1>6, RunPytestKeeps DEF Sessions

LEMMA OpenSerialKeeps == ASSUME IInv, OpenSerial PROVE IInv'
<1> DEFINE tests == IF opt.unimportable THEN {} ELSE Test \ Parallel
<1>1. /\ phase = IF opt.force_serial_run THEN "parallel" ELSE "redo"
      /\ Ended
      /\ phase' = "serial" /\ left' = tests
      /\ tests \in SUBSET Test /\ tests \subseteq Test \ Parallel
      /\ RunPytest("serial", tests)
      /\ UNCHANGED <<opt, before, runs>>
  BY DEF OpenSerial, RunPytest
<1>2. \A w \in Process : cur[w] = NoTest
  BY AllIdle DEF OpenSerial
<1>3. \A t \in Test \ Parallel : jira[t] = before[t] /\ runs[t] = 0
  BY <1>1 DEF IInv, Fresh
<1>4. tests \subseteq SessionTests' /\ \A t \in tests : jira[t] = before[t]
  BY <1>1, <1>3 DEF SessionTests
<1>5. Counted'
  BY <1>1, <1>3 DEF IInv, Counted
<1>6. Covered'
  BY <1>1 DEF Covered
<1>7. EveryTestStarts'
  <2> SUFFICES ASSUME ~opt.stop_on_first_error, NEW t \in Parallel
               PROVE  \/ runs[t] > 0
                      \/ opt.unimportable /\ (opt.force_serial_run \/ before[t] # "TODO")
    BY <1>1 DEF EveryTestStarts
  <2>1. left = {}
    BY <1>1, EndedMeansNoneLeft
  <2> QED BY <1>1, <2>1 DEF IInv, Covered
<1> HIDE DEF tests
<1> QED BY <1>1, <1>2, <1>4, <1>5, <1>6, <1>7, RunPytestKeeps DEF Sessions

LEMMA FinishKeeps == ASSUME IInv, Finish PROVE IInv'
<1>1. /\ phase = "serial" /\ phase' = "done" /\ left' = {}
      /\ RunPytest("done", {})
      /\ Ended
      /\ UNCHANGED <<opt, before, runs>>
  BY DEF Finish, RunPytest
<1>2. \A w \in Process : cur[w] = NoTest
  BY <1>1, AllIdle
<1>3. Counted' /\ Covered'
  BY <1>1 DEF IInv, Counted, Covered
<1>4. EveryTestStarts'
  <2>1. ~opt.stop_on_first_error => left = {}
    BY <1>1, EndedMeansNoneLeft
  <2> QED BY <1>1, <2>1, SessionAssumption DEF IInv, Covered, EveryTestStarts
<1> QED BY <1>1, <1>2, <1>3, <1>4, RunPytestKeeps

-----------------------------------------------------------------------------
(* A test in a process. *)

\* What is known of the test of a process.
LEMMA OwnTest ==
  ASSUME IInv, NEW w \in Process, stage[w] # "idle"
  PROVE  /\ cur[w] \in Test /\ cur[w] # NoTest
         /\ cur[w] \notin left
         /\ \A v \in Process : v # w => cur[v] # cur[w]
BY SessionAssumption DEF IInv, TypeOK, Control

\* The report of a setup, unless it ends the session.
SetupPosted(w) ==
    /\ stage[w] = "setup"
    /\ \E outcome \in Outcome, status \in {"Executing", "FAIL"} :
         /\ rep' = [rep EXCEPT ![w].setup = outcome]
         /\ stage' = [stage EXCEPT ![w] =
                        IF outcome = "passed" THEN "call" ELSE "teardown"]
         /\ status = "Executing" => outcome = "passed"
         /\ \/ jira' = jira
            \/ opt.jira_update /\ jira' = [jira EXCEPT ![cur[w]] = status]
         /\ \/ late' = late
            \/ /\ outcome = "passed" /\ Distributed /\ opt.jira_update
               /\ late' = late \union {cur[w]}
    /\ \E on \in {"on", "off"} : poll' = [poll EXCEPT ![w] = on]
    /\ \E bad \in BOOLEAN : failed' = [failed EXCEPT ![w] = bad]
    /\ faults' \in 0..MaxFaults
    /\ UNCHANGED <<opt, before, phase, left, cur, db, runs, lapse>>

LEMMA FaultTyped ==
  ASSUME IInv, NEW answer, Fault(answer)
  PROVE  faults' \in 0..MaxFaults
BY SessionAssumption DEF Fault, IInv, TypeOK

LEMMA AbortCutsShort ==
  ASSUME IInv, Abort, UNCHANGED <<opt, before, jira, db, runs>>, faults' \in 0..MaxFaults
  PROVE  CutShort
BY DEF Abort, CutShort

LEMMA SetupCases ==
  ASSUME IInv, NEW w \in Process, NEW outcome \in Outcome, NEW io \in BOOLEAN,
         NEW answer \in Answer, Setup(w, outcome, io, answer)
  PROVE  CutShort \/ SetupPosted(w)
<1>1. faults' \in 0..MaxFaults
  BY FaultTyped DEF Setup
<1>2. CASE outcome = "passed" /\ answer = "raised"
  <2>1. Abort /\ UNCHANGED <<opt, before, jira, db, runs>>
    BY <1>2 DEF Setup
  <2> QED BY <1>1, <2>1, AbortCutsShort
<1>3. CASE ~(outcome = "passed" /\ answer = "raised")
  <2>1. /\ stage[w] = "setup"
        /\ rep' = [rep EXCEPT ![w].setup = outcome]
        /\ stage' = [stage EXCEPT ![w] =
                       IF outcome = "passed" THEN "call" ELSE "teardown"]
        /\ UNCHANGED <<opt, before, phase, left, cur, db, runs, lapse>>
    BY <1>3 DEF Setup
  <2>2. \E status \in {"Executing", "FAIL"} :
            /\ status = "Executing" => outcome = "passed"
            /\ \/ jira' = jira
               \/ opt.jira_update /\ jira' = [jira EXCEPT ![cur[w]] = status]
    <3>1. CASE outcome = "skipped"
      BY <1>3, <3>1 DEF Setup
    <3>2. CASE outcome # "skipped"
      <4> DEFINE status == IF outcome = "passed" THEN "Executing" ELSE "FAIL"
      <4>1. Post(cur[w], status, answer)
        BY <1>3, <3>2 DEF Setup
      <4>2. \/ jira' = jira
            \/ opt.jira_update /\ jira' = [jira EXCEPT ![cur[w]] = status]
        BY <4>1 DEF Post
      <4>3. status \in {"Executing", "FAIL"} /\ (status = "Executing" => outcome = "passed")
        OBVIOUS
      <4> QED BY <4>2, <4>3
    <3> QED BY <3>1, <3>2
  <2>3. \/ late' = late
        \/ /\ outcome = "passed" /\ Distributed /\ opt.jira_update
           /\ late' = late \union {cur[w]}
    BY <1>3 DEF Setup
  <2>4. \E on \in {"on", "off"} : poll' = [poll EXCEPT ![w] = on]
    BY <1>3 DEF Setup
  <2>5. \E bad \in BOOLEAN : failed' = [failed EXCEPT ![w] = bad]
    <3>1. failed' = [failed EXCEPT ![w] = failed[w] \/ outcome = "failed"]
      BY <1>3 DEF Setup
    <3>2. (failed[w] \/ outcome = "failed") \in BOOLEAN
      OBVIOUS
    <3> QED BY <3>1, <3>2
  <2> QED BY <1>1, <2>1, <2>2, <2>3, <2>4, <2>5 DEF SetupPosted
<1> QED BY <1>2, <1>3

LEMMA SetupKeeps ==
  ASSUME IInv, NEW w \in Process, SetupPosted(w)
  PROVE  IInv'
<1> DEFINE t == cur[w]
<1>1. /\ t \in Test /\ t # NoTest /\ t \notin left
      /\ \A v \in Process : v # w => cur[v] # t
      /\ stage[w] = "setup" /\ jira[t] = before[t] /\ t \notin late /\ runs[t] > 0
      /\ t \in SessionTests
  BY OwnTest DEF SetupPosted, IInv, Fresh, Awaited, Told, Control
<1>2. PICK outcome \in Outcome, status \in {"Executing", "FAIL"} :
         /\ rep' = [rep EXCEPT ![w].setup = outcome]
         /\ stage' = [stage EXCEPT ![w] =
                        IF outcome = "passed" THEN "call" ELSE "teardown"]
         /\ status = "Executing" => outcome = "passed"
         /\ \/ jira' = jira
            \/ opt.jira_update /\ jira' = [jira EXCEPT ![t] = status]
         /\ \/ late' = late
            \/ /\ outcome = "passed" /\ Distributed /\ opt.jira_update
               /\ late' = late \union {t}
  BY DEF SetupPosted
<1>3. UNCHANGED <<opt, before, phase, left, cur, db, runs, lapse>>
  BY DEF SetupPosted
<1>4. /\ Processes' = Processes /\ Distributed' = Distributed
      /\ SessionTests' = SessionTests
  BY <1>3, SessionUnchanged
<1>5. /\ \A v \in Process : v # w => stage'[v] = stage[v] /\ rep'[v] = rep[v]
      /\ stage'[w] \in {"call", "teardown"}
      /\ stage'[w] = "call" => rep'[w].setup = "passed"
  BY <1>2 DEF IInv, TypeOK
<1>6. /\ \A u \in Test : u # t => jira'[u] = jira[u]
      /\ jira'[t] = jira[t] \/ (opt.jira_update /\ jira'[t] = status)
      /\ late' = late \/ (Distributed /\ opt.jira_update /\ late' = late \union {t})
  BY <1>1, <1>2 DEF IInv, TypeOK
<1> HIDE DEF t
<1>7. TypeOK'
  <2>1. rep' \in [Process -> [setup : Outcome, call : Outcome]]
    BY <1>2 DEF IInv, TypeOK
  <2>2. stage' \in [Process -> {"idle", "setup", "call", "teardown"}]
    BY <1>2 DEF IInv, TypeOK
  <2>3. jira' \in [Test -> Status]
    BY <1>1, <1>2 DEF IInv, TypeOK, Status, Result
  <2>4. late' \subseteq Test
    BY <1>1, <1>2 DEF IInv, TypeOK
  <2>5. poll' \in [Process -> {"off", "on", "ended"}]
    BY DEF SetupPosted, IInv, TypeOK
  <2>6. failed' \in [Process -> BOOLEAN]
    BY DEF SetupPosted, IInv, TypeOK
  <2>7. \A v \in Process : poll'[v] = "on" => stage'[v] \in {"call", "teardown"}
    <3>1. \A v \in Process : v # w => poll'[v] = poll[v]
      BY DEF SetupPosted, IInv, TypeOK
    <3> QED BY <1>5, <3>1 DEF IInv, TypeOK
  <2>8. faults' \in 0..MaxFaults
    BY DEF SetupPosted
  <2> QED BY <1>3, <2>1, <2>2, <2>3, <2>4, <2>5, <2>6, <2>7, <2>8 DEF IInv, TypeOK
<1>8. Control'
  BY <1>1, <1>3, <1>4, <1>5 DEF IInv, Control, t
<1>9. Fresh'
  <2>1. phase # "start" /\ (phase \in {"parallel", "redo"} => t \in Parallel)
    BY <1>1 DEF SessionTests
  <2>2. ~opt.jira_update => \A u \in Test : jira'[u] = before[u]
    BY <1>1, <1>6 DEF IInv, Fresh
  <2>3. \A u \in left : jira'[u] = before[u]
    BY <1>1, <1>6 DEF IInv, Fresh, TypeOK
  <2>4. \A v \in Process : stage'[v] = "setup" => jira'[cur[v]] = before[cur[v]]
    <3> SUFFICES ASSUME NEW v \in Process, stage'[v] = "setup"
                 PROVE  jira'[cur[v]] = before[cur[v]]
      OBVIOUS
    <3>1. v # w /\ stage[v] = "setup"
      BY <1>5
    <3> QED BY <1>1, <1>6, <3>1, OwnTest DEF IInv, Fresh
  <2>5. phase \in {"start", "parallel", "redo"} =>
            \A u \in Test \ Parallel : jira'[u] = before[u] /\ runs[u] = 0
    BY <1>6, <2>1 DEF IInv, Fresh
  <2>6. \A u \in Test : jira'[u] = "TODO" => before[u] = "TODO"
    BY <1>6 DEF IInv, Fresh
  <2> QED BY <1>3, <2>1, <2>2, <2>3, <2>4, <2>5, <2>6 DEF Fresh
<1>10. \A u \in Test : Running(u) => Running(u)'
  BY <1>1, <1>3, <1>5 DEF Running
<1>11. \A u \in Test : u = t => Running(u)'
  BY <1>3, <1>5 DEF Running, t
<1>12. Awaited'
  <2>1. late' # {} => Distributed /\ opt.jira_update
    BY <1>6 DEF IInv, Awaited
  <2>2. \A u \in late' : u \notin left /\ runs[u] > 0
    BY <1>1, <1>6 DEF IInv, Awaited
  <2>3. \A v \in Process : cur[v] \in late' => stage'[v] \in {"call", "teardown"}
    BY <1>1, <1>5, <1>6 DEF IInv, Awaited
  <2>4. ASSUME NEW u \in late'
        PROVE  jira'[u] \in Result \/ lapse[u] # {} \/ Running(u)'
    <3>1. u \in Test
      BY <1>1, <1>6 DEF IInv, TypeOK
    <3>2. CASE u = t
      BY <1>11, <3>1, <3>2
    <3>3. CASE u # t
      BY <1>6, <1>10, <3>1, <3>3 DEF IInv, Awaited
    <3> QED BY <3>2, <3>3
  <2> QED BY <1>3, <1>4, <2>1, <2>2, <2>3, <2>4 DEF Awaited
<1>13. Unrecorded'
  BY <1>3 DEF IInv, Unrecorded
<1>14. Told'
  BY <1>1, <1>3, <1>6 DEF IInv, Told
<1>15. Counted' /\ Covered'
  BY <1>3 DEF IInv, Counted, Covered
<1>16. ExecutingIsExplained'
  <2>1. \A u \in Test : jira[u] = "Executing" => lapse[u] # {} \/ Running(u) \/ Stale(u)
    BY DEF IInv, ExecutingIsExplained, Running, Stale
  <2>2. ASSUME NEW u \in Test, jira'[u] = "Executing"
        PROVE  lapse[u] # {} \/ Running(u)' \/ Stale(u)'
    <3>1. CASE u = t
      BY <1>11, <3>1
    <3>2. CASE u # t
      <4>1. \A v \in Process : cur[v] = u => v # w
        BY <3>2 DEF t
      <4>2. Untold(u) => Untold(u)'
        BY <1>3, <1>5, <4>1, UntoldKept
      <4> QED BY <1>3, <1>6, <1>10, <2>1, <2>2, <3>2, <4>2 DEF Stale
    <3> QED BY <3>1, <3>2
  <2> QED BY <1>3, <2>2 DEF ExecutingIsExplained, Running, Stale
<1>17. DatabaseFollowsJira'
  <2>1. db[t] = "none" \/ lapse[t] \cap {"refused", "late"} # {}
    BY <1>1 DEF IInv, Unrecorded, t
  <2> QED BY <1>3, <1>6, <2>1 DEF IInv, DatabaseFollowsJira
<1>18. RerunIsExplained' /\ EveryTestStarts'
  BY <1>3 DEF IInv, RerunIsExplained, EveryTestStarts
<1> QED BY <1>7, <1>8, <1>9, <1>12, <1>13, <1>14, <1>15, <1>16, <1>17, <1>18
        DEF IInv

LEMMA CallKeeps ==
  ASSUME IInv, NEW w \in Process, NEW outcome \in Outcome, Call(w, outcome)
  PROVE  IInv'
<1>1. UNCHANGED <<opt, before, phase, left, cur, poll, late, jira, db, runs, lapse, faults>>
  BY DEF Call
<1>2. /\ Processes' = Processes /\ Distributed' = Distributed
      /\ SessionTests' = SessionTests
  BY <1>1, SessionUnchanged
<1>3. /\ \A v \in Process : v # w => stage'[v] = stage[v] /\ rep'[v] = rep[v]
      /\ stage[w] = "call" /\ stage'[w] = "teardown"
  BY DEF Call, IInv, TypeOK
<1>4. TypeOK'
  <2>1. /\ rep' \in [Process -> [setup : Outcome, call : Outcome]]
        /\ stage' \in [Process -> {"idle", "setup", "call", "teardown"}]
    BY DEF Call, IInv, TypeOK
  <2>2. failed' \in [Process -> BOOLEAN]
    <3>1. (failed[w] \/ outcome = "failed") \in BOOLEAN
      OBVIOUS
    <3>2. failed' = [failed EXCEPT ![w] = failed[w] \/ outcome = "failed"]
      BY DEF Call
    <3> QED BY <3>1, <3>2 DEF IInv, TypeOK
  <2>3. \A v \in Process : poll'[v] = "on" => stage'[v] \in {"call", "teardown"}
    BY <1>1, <1>3 DEF IInv, TypeOK
  <2> QED BY <1>1, <2>1, <2>2, <2>3 DEF IInv, TypeOK
<1>5. Control'
  BY <1>1, <1>2, <1>3 DEF IInv, Control
<1>6. Fresh'
  BY <1>1, <1>3 DEF IInv, Fresh
<1>7. \A u \in Test : Running(u) <=> Running(u)'
  BY <1>1, <1>3 DEF Running
<1>8. Awaited'
  BY <1>1, <1>2, <1>3, <1>7 DEF IInv, Awaited, TypeOK
<1>9. Unrecorded' /\ Told' /\ Counted' /\ Covered'
  BY <1>1 DEF IInv, Unrecorded, Told, Counted, Covered
<1>12. \A u \in Test : Untold(u) => Untold(u)'
  BY <1>1, <1>3, UntoldKept
<1>10. ExecutingIsExplained'
  BY <1>1, <1>7, <1>12 DEF IInv, ExecutingIsExplained, Running
<1>11. DatabaseFollowsJira' /\ RerunIsExplained' /\ EveryTestStarts'
  BY <1>1 DEF IInv, DatabaseFollowsJira, RerunIsExplained, EveryTestStarts
<1> QED BY <1>4, <1>5, <1>6, <1>8, <1>9, <1>10, <1>11 DEF IInv

\* The thread that polls the status of a test touches nothing else.
LEMMA PollKeeps ==
  ASSUME IInv, NEW w \in Process, poll' = [poll EXCEPT ![w] = "ended"],
         UNCHANGED <<opt, before, phase, left, cur, stage, rep, failed, late, jira, db,
                     runs, lapse, faults>>
  PROVE  IInv'
<1>1. TypeOK'
  BY DEF IInv, TypeOK
<1>2. /\ Processes' = Processes /\ Distributed' = Distributed
      /\ SessionTests' = SessionTests
  BY SessionUnchanged
<1>3. Control' /\ Fresh' /\ Counted' /\ Covered'
  BY <1>2 DEF IInv, Control, Fresh, Counted, Covered
<1>4. Awaited' /\ Unrecorded' /\ Told'
  BY <1>2 DEF IInv, Awaited, Unrecorded, Told, Running
<1>5. ExecutingIsExplained' /\ DatabaseFollowsJira' /\ RerunIsExplained'
      /\ EveryTestStarts'
  BY DEF IInv, ExecutingIsExplained, Untold, DatabaseFollowsJira, RerunIsExplained,
         EveryTestStarts
<1> QED BY <1>1, <1>3, <1>4, <1>5 DEF IInv

\* A process is done with its test: what is said of it, if anything, is said.
Done(w) ==
    /\ cur' = [cur EXCEPT ![w] = NoTest]
    /\ stage' = [stage EXCEPT ![w] = "idle"]
    /\ rep' = [rep EXCEPT ![w] = NoReport]
    /\ poll' = [poll EXCEPT ![w] = "off"]
    /\ failed' \in [Process -> BOOLEAN]
    /\ faults' \in 0..MaxFaults
    /\ UNCHANGED <<opt, before, phase, left, late, runs>>

LEMMA ResultIsKnown ==
  ASSUME IInv, NEW w \in Process, NEW outcome \in {"passed", "failed"},
         stage[w] = "teardown"
  PROVE  LET result == ResultOf(rep[w].setup, rep[w].call, outcome)
         IN  /\ result \in Result \union {"none"}
             /\ result = "none" =>
                    /\ rep[w].setup = "passed" /\ rep[w].call = "skipped"
                    /\ outcome = "passed"
<1>1. rep[w].setup \in Outcome /\ rep[w].call \in Outcome
  BY DEF IInv, TypeOK
<1> DEFINE setup == rep[w].setup
           call == rep[w].call
<1> HIDE DEF setup, call
<1>2. CASE setup = "failed" \/ outcome = "failed"
  BY <1>2 DEF ResultOf, Result, setup, call
<1>3. CASE setup = "passed" /\ call = "failed" /\ outcome = "passed"
  BY <1>3 DEF ResultOf, Result, setup, call
<1>4. CASE setup = "passed" /\ call = "passed" /\ outcome = "passed"
  BY <1>4 DEF ResultOf, Result, setup, call
<1>5. CASE setup = "skipped" /\ outcome = "passed"
  BY <1>5 DEF ResultOf, Result, setup, call
<1>6. CASE setup = "passed" /\ call = "skipped" /\ outcome = "passed"
  BY <1>6 DEF ResultOf, Result, setup, call
<1> QED BY <1>1, <1>2, <1>3, <1>4, <1>5, <1>6 DEF Outcome, setup, call

\* The report of a teardown.
TeardownPosted(w) ==
    /\ stage[w] = "teardown"
    /\ Done(w)
    /\ \E result \in Result \union {"none"}, answer \in Answer, extra \in SUBSET Lapse :
         /\ jira' = IF opt.jira_update /\ answer = "done" /\ result # "none"
                    THEN [jira EXCEPT ![cur[w]] = result] ELSE jira
         /\ \/ db' = db
            \/ /\ opt.jira_update /\ answer # "raised" /\ result # "none"
               /\ db' = [db EXCEPT ![cur[w]] = result]
         /\ lapse' = [lapse EXCEPT ![cur[w]] = @ \union extra]
         /\ answer # "done" => answer \in extra
         /\ result = "none" => "skipped" \in extra

LEMMA TeardownCases ==
  ASSUME IInv, NEW w \in Process, NEW outcome \in {"passed", "failed"},
         NEW answer \in Answer, NEW entry \in BOOLEAN,
         Teardown(w, outcome, answer, entry)
  PROVE  TeardownPosted(w)
<1> DEFINE t == cur[w]
           result == ResultOf(rep[w].setup, rep[w].call, outcome)
           skips == IF /\ rep[w] = [setup |-> "passed", call |-> "skipped"]
                       /\ outcome = "passed"
                    THEN {"skipped"} ELSE {}
           extra == ({answer} \ {"done"}) \union skips
<1>1. stage[w] = "teardown"
  BY DEF Teardown
<1>2. /\ result \in Result \union {"none"}
      /\ result = "none" => /\ rep[w].setup = "passed" /\ rep[w].call = "skipped"
                            /\ outcome = "passed"
  BY <1>1, ResultIsKnown
<1>3. result = "none" => skips = {"skipped"}
  <2>1. rep[w] \in [setup : Outcome, call : Outcome]
    BY DEF IInv, TypeOK
  <2>2. rep[w].setup = "passed" /\ rep[w].call = "skipped"
            => rep[w] = [setup |-> "passed", call |-> "skipped"]
    BY <2>1
  <2> HIDE DEF result
  <2> QED BY <1>2, <2>2
<1>4. /\ IF result = "none" THEN UNCHANGED jira ELSE Post(t, result, answer)
      /\ db' = Recorded(t, result, answer, entry)
      /\ lapse' = [lapse EXCEPT ![t] = (lapse[t] \union ({answer} \ {"done"})) \union skips]
      /\ Fault(answer)
  BY DEF Teardown
<1>5. Done(w)
  <2>1. failed' \in [Process -> BOOLEAN]
    <3>1. (failed[w] \/ outcome = "failed") \in BOOLEAN
      OBVIOUS
    <3>2. failed' = [failed EXCEPT ![w] = failed[w] \/ outcome = "failed"]
      BY DEF Teardown
    <3> QED BY <3>1, <3>2 DEF IInv, TypeOK
  <2> QED BY <1>4, <2>1, FaultTyped DEF Teardown, Done
<1> HIDE DEF result, skips
<1>6. lapse' = [lapse EXCEPT ![t] = lapse[t] \union extra]
  BY <1>4
<1>7. skips \in SUBSET Lapse
  BY DEF skips, Lapse
<1>8. /\ extra \in SUBSET Lapse
      /\ answer # "done" => answer \in extra
      /\ result = "none" => "skipped" \in extra
  BY <1>3, <1>7 DEF Answer, Lapse
<1>9. jira' = IF opt.jira_update /\ answer = "done" /\ result # "none"
              THEN [jira EXCEPT ![t] = result] ELSE jira
  BY <1>4 DEF Post
<1>10. \/ db' = db
       \/ /\ opt.jira_update /\ answer # "raised" /\ result # "none"
          /\ db' = [db EXCEPT ![t] = result]
  BY <1>4 DEF Recorded
<1> HIDE DEF extra
<1> QED BY <1>1, <1>2, <1>5, <1>6, <1>8, <1>9, <1>10 DEF TeardownPosted

\* What Done does to the invariant, whatever it means for Jira.
LEMMA DoneKeeps ==
  ASSUME IInv, NEW w \in Process, stage[w] # "idle", Done(w),
         jira' \in [Test -> Status],
         \A u \in Test : u # cur[w] => jira'[u] = jira[u],
         jira'[cur[w]] = "TODO" => jira[cur[w]] = "TODO",
         ~opt.jira_update => jira' = jira
  PROVE  /\ cur' \in [Process -> Test \union {NoTest}]
         /\ stage' \in [Process -> {"idle", "setup", "call", "teardown"}]
         /\ rep' \in [Process -> [setup : Outcome, call : Outcome]]
         /\ poll' \in [Process -> {"off", "on", "ended"}]
         /\ failed' \in [Process -> BOOLEAN]
         /\ faults' \in 0..MaxFaults
         /\ \A v \in Process : poll'[v] = "on" => stage'[v] \in {"call", "teardown"}
         /\ \A u, v \in Process : cur'[u] = cur'[v] /\ cur'[u] # NoTest => u = v
         /\ Control' /\ Fresh' /\ Counted' /\ Covered' /\ EveryTestStarts'
         /\ \A u \in Test : u # cur[w] => (Running(u) => Running(u)') /\ (Stale(u) => Stale(u)')
<1> DEFINE t == cur[w]
<1>1. /\ t \in Test /\ t # NoTest /\ t \notin left
      /\ \A v \in Process : v # w => cur[v] # t
      /\ t \in SessionTests
  BY OwnTest DEF IInv, Control
<1>2. /\ \A v \in Process : v # w => /\ cur'[v] = cur[v] /\ stage'[v] = stage[v]
                                     /\ rep'[v] = rep[v] /\ poll'[v] = poll[v]
      /\ cur'[w] = NoTest /\ stage'[w] = "idle" /\ poll'[w] = "off"
      /\ UNCHANGED <<opt, before, phase, left, late, runs>>
  BY DEF Done, IInv, TypeOK
<1>3. /\ Processes' = Processes /\ Distributed' = Distributed
      /\ SessionTests' = SessionTests
  BY <1>2, SessionUnchanged
<1>4. NoReport \in [setup : Outcome, call : Outcome]
  BY DEF NoReport, Outcome
<1>5. /\ cur' \in [Process -> Test \union {NoTest}]
      /\ stage' \in [Process -> {"idle", "setup", "call", "teardown"}]
      /\ poll' \in [Process -> {"off", "on", "ended"}]
  BY DEF Done, IInv, TypeOK
<1>6. rep' \in [Process -> [setup : Outcome, call : Outcome]]
  BY <1>4 DEF Done, IInv, TypeOK
<1>7. failed' \in [Process -> BOOLEAN] /\ faults' \in 0..MaxFaults
  BY DEF Done
<1>8. /\ \A v \in Process : poll'[v] = "on" => stage'[v] \in {"call", "teardown"}
      /\ \A u, v \in Process : cur'[u] = cur'[v] /\ cur'[u] # NoTest => u = v
  <2>1. \A v \in Process : poll'[v] = "on" => stage'[v] \in {"call", "teardown"}
    BY <1>2 DEF IInv, TypeOK
  <2>2. ASSUME NEW u \in Process, NEW v \in Process, cur'[u] = cur'[v],
               cur'[u] # NoTest
        PROVE  u = v
    <3>1. cur[u] = cur[v] /\ cur[u] # NoTest
      BY <1>2, <2>2
    <3> QED BY <3>1 DEF IInv, TypeOK
  <2> QED BY <2>1, <2>2
<1>9. Control'
  BY <1>2, <1>3 DEF IInv, Control
<1>10. Fresh'
  <2>1. phase # "start" /\ (phase \in {"parallel", "redo"} => t \in Parallel)
    BY <1>1 DEF SessionTests
  <2>2. \A v \in Process : stage'[v] = "setup" => jira'[cur'[v]] = before[cur'[v]]
    <3> SUFFICES ASSUME NEW v \in Process, stage'[v] = "setup"
                 PROVE  jira'[cur'[v]] = before[cur'[v]]
      OBVIOUS
    <3>1. v # w /\ stage[v] = "setup" /\ cur'[v] = cur[v]
      BY <1>2
    <3> QED BY <1>1, <3>1, OwnTest DEF IInv, Fresh
  <2>3. \A u \in left : jira'[u] = before[u]
    BY <1>1 DEF IInv, Fresh, TypeOK
  <2>4. phase \in {"start", "parallel", "redo"} =>
            \A u \in Test \ Parallel : jira'[u] = before[u] /\ runs[u] = 0
    BY <2>1 DEF IInv, Fresh
  <2>5. ~opt.jira_update => \A u \in Test : jira'[u] = before[u]
    BY DEF IInv, Fresh
  <2>6. \A u \in Test : jira'[u] = "TODO" => before[u] = "TODO"
    BY DEF IInv, Fresh
  <2> QED BY <1>2, <2>1, <2>2, <2>3, <2>4, <2>5, <2>6 DEF Fresh
<1>11. Counted' /\ Covered' /\ EveryTestStarts'
  BY <1>2 DEF IInv, Counted, Covered, EveryTestStarts
<1>12. \A u \in Test : u # t => (Running(u) => Running(u)') /\ (Stale(u) => Stale(u)')
  <2> SUFFICES ASSUME NEW u \in Test, u # t
               PROVE  (Running(u) => Running(u)') /\ (Stale(u) => Stale(u)')
    OBVIOUS
  <2>1. Running(u) => Running(u)'
    BY <1>2 DEF Running
  <2>2. Untold(u) => Untold(u)'
    BY <1>2, UntoldKept
  <2> QED BY <1>2, <2>1, <2>2 DEF Stale
<1> QED BY <1>5, <1>6, <1>7, <1>8, <1>9, <1>10, <1>11, <1>12

LEMMA TeardownKeeps ==
  ASSUME IInv, NEW w \in Process, TeardownPosted(w)
  PROVE  IInv'
<1> DEFINE t == cur[w]
<1>1. /\ t \in Test /\ t # NoTest /\ t \notin left /\ runs[t] > 0
      /\ \A v \in Process : v # w => cur[v] # t
      /\ stage[w] = "teardown"
  BY OwnTest DEF TeardownPosted, IInv, Told
<1>2. PICK result \in Result \union {"none"}, answer \in Answer, extra \in SUBSET Lapse :
         /\ jira' = IF opt.jira_update /\ answer = "done" /\ result # "none"
                    THEN [jira EXCEPT ![t] = result] ELSE jira
         /\ \/ db' = db
            \/ /\ opt.jira_update /\ answer # "raised" /\ result # "none"
               /\ db' = [db EXCEPT ![t] = result]
         /\ lapse' = [lapse EXCEPT ![t] = @ \union extra]
         /\ answer # "done" => answer \in extra
         /\ result = "none" => "skipped" \in extra
  BY DEF TeardownPosted
<1>3. /\ Done(w)
      /\ \A v \in Process : v # w => cur'[v] = cur[v] /\ stage'[v] = stage[v]
      /\ cur'[w] = NoTest /\ stage'[w] = "idle"
      /\ UNCHANGED <<opt, before, phase, left, late, runs>>
  BY DEF TeardownPosted, Done, IInv, TypeOK
<1>4. Processes' = Processes /\ Distributed' = Distributed
  BY <1>3, SessionUnchanged
<1>5. /\ jira' \in [Test -> Status]
      /\ \A u \in Test : u # t => jira'[u] = jira[u]
      /\ jira'[t] = "TODO" => jira[t] = "TODO"
      /\ ~opt.jira_update => jira' = jira
  BY <1>1, <1>2 DEF IInv, TypeOK, Status, Result
<1>6. /\ lapse' \in [Test -> SUBSET Lapse]
      /\ \A u \in Test : lapse[u] \subseteq lapse'[u]
      /\ lapse'[t] = lapse[t] \union extra
  BY <1>1, <1>2 DEF IInv, TypeOK
<1>7. \/ jira'[t] = result /\ result # "none" /\ opt.jira_update
      \/ jira'[t] = jira[t] /\ answer # "done" /\ answer \in extra
      \/ jira'[t] = jira[t] /\ "skipped" \in extra
      \/ jira'[t] = jira[t] /\ ~opt.jira_update
  BY <1>1, <1>2 DEF IInv, TypeOK
<1>8. /\ db' \in [Test -> Result \union {"none"}]
      /\ \A u \in Test : u # t => db'[u] = db[u]
      /\ \/ db'[t] = db[t]
         \/ opt.jira_update /\ answer # "raised" /\ result # "none" /\ db'[t] = result
  BY <1>1, <1>2 DEF IInv, TypeOK, Result
<1>9. /\ Control' /\ Fresh' /\ Counted' /\ Covered' /\ EveryTestStarts'
      /\ \A u \in Test : u # t => (Running(u) => Running(u)') /\ (Stale(u) => Stale(u)')
  BY <1>1, <1>3, <1>5, DoneKeeps
<1> HIDE DEF t
<1>10. TypeOK'
  <2>1. /\ cur' \in [Process -> Test \union {NoTest}]
        /\ stage' \in [Process -> {"idle", "setup", "call", "teardown"}]
        /\ rep' \in [Process -> [setup : Outcome, call : Outcome]]
        /\ poll' \in [Process -> {"off", "on", "ended"}]
        /\ failed' \in [Process -> BOOLEAN]
        /\ faults' \in 0..MaxFaults
        /\ \A v \in Process : poll'[v] = "on" => stage'[v] \in {"call", "teardown"}
        /\ \A u, v \in Process : cur'[u] = cur'[v] /\ cur'[u] # NoTest => u = v
    BY <1>1, <1>3, <1>5, DoneKeeps DEF t
  <2> QED BY <1>3, <1>5, <1>6, <1>8, <2>1 DEF IInv, TypeOK
<1>11. \/ jira'[t] \in Result
       \/ lapse'[t] # {}
       \/ jira' = jira /\ ~opt.jira_update
  <2>1. CASE jira'[t] = result /\ result # "none" /\ opt.jira_update
    BY <1>2, <2>1
  <2>2. CASE extra # {}
    BY <1>6, <2>2
  <2>3. CASE ~opt.jira_update
    BY <1>5, <2>3
  <2> QED BY <1>7, <2>1, <2>2, <2>3
<1>12. Awaited'
  <2>1. \A v \in Process : cur'[v] \in late => stage'[v] \in {"call", "teardown"}
    <3> SUFFICES ASSUME NEW v \in Process, cur'[v] \in late
                 PROVE  stage'[v] \in {"call", "teardown"}
      OBVIOUS
    <3>1. late \subseteq Test
      BY DEF IInv, TypeOK
    <3>2. v # w
      BY <1>3, <3>1, SessionAssumption
    <3> QED BY <1>3, <3>2 DEF IInv, Awaited
  <2>2. ASSUME NEW u \in late
        PROVE  jira'[u] \in Result \/ lapse'[u] # {} \/ Running(u)'
    <3>1. u \in Test /\ opt.jira_update
      BY DEF IInv, TypeOK, Awaited
    <3>2. CASE u = t
      BY <1>11, <3>1, <3>2
    <3>3. CASE u # t
      <4>1. jira[u] \in Result \/ lapse[u] # {} \/ Running(u)
        BY DEF IInv, Awaited
      <4> QED BY <1>5, <1>6, <1>9, <3>1, <3>3, <4>1
    <3> QED BY <3>2, <3>3
  <2> QED BY <1>3, <1>4, <2>1, <2>2 DEF IInv, Awaited
<1>13. Unrecorded'
  <2>2. \A u \in Test : runs'[u] = 0 => db'[u] = "none"
    BY <1>1, <1>3, <1>8 DEF IInv, Unrecorded
  <2> SUFFICES ASSUME NEW v \in Process, cur'[v] # NoTest
               PROVE  \/ db'[cur'[v]] = "none"
                      \/ lapse'[cur'[v]] \cap {"refused", "late"} # {}
    BY <2>2 DEF Unrecorded
  <2>1. v # w /\ cur'[v] = cur[v] /\ cur[v] # t /\ cur[v] \in Test
    BY <1>1, <1>3 DEF IInv, TypeOK
  <2> QED BY <1>6, <1>8, <2>1 DEF IInv, Unrecorded
<1>14. Told'
  <2>1. ASSUME NEW u \in Test, runs[u] > 0, jira'[u] = "TODO", opt.jira_update
        PROVE  (\E v \in Process : cur'[v] = u) \/ lapse'[u] \ {"late"} # {}
    <3>1. CASE u = t
      BY <1>6, <1>7, <2>1, <3>1 DEF Result, Answer
    <3>2. CASE u # t
      <4>1. (\E v \in Process : cur[v] = u) \/ lapse[u] \ {"late"} # {}
        BY <1>5, <2>1, <3>2 DEF IInv, Told
      <4> QED BY <1>3, <1>6, <3>2, <4>1 DEF t
    <3> QED BY <3>1, <3>2
  <2>2. \A u \in Test : jira'[u] # before[u] => runs[u] > 0
    BY <1>1, <1>5 DEF IInv, Told
  <2>3. \A v \in Process : cur'[v] # NoTest => runs[cur'[v]] > 0
    BY <1>3 DEF IInv, Told
  <2> QED BY <1>3, <2>1, <2>2, <2>3 DEF Told
<1>15. ExecutingIsExplained'
  <2>1. ASSUME NEW u \in Test, jira'[u] = "Executing"
        PROVE  lapse'[u] # {} \/ Running(u)' \/ Stale(u)'
    <3>1. CASE u = t
      <4>1. CASE ~opt.jira_update
        <5>1. jira[u] = before[u] /\ before'[u] = before[u]
          BY <1>3, <2>1, <4>1 DEF IInv, Fresh
        <5>2. Untold(u)'
          BY <1>3, <4>1 DEF Untold
        <5>3. jira'[u] = jira[u]
          BY <1>5, <4>1
        <5> QED BY <2>1, <5>1, <5>2, <5>3 DEF Stale
      <4>2. CASE lapse'[t] # {}
        BY <3>1, <4>2
      <4>3. jira'[t] = "Executing"
        BY <2>1, <3>1
      <4>4. jira'[t] \notin Result
        BY <4>3 DEF Result
      <4> QED BY <1>11, <4>1, <4>2, <4>4
    <3>2. CASE u # t
      <4>1. lapse[u] # {} \/ Running(u) \/ Stale(u)
        BY <1>5, <2>1, <3>2 DEF IInv, ExecutingIsExplained, Running, Stale
      <4> QED BY <1>6, <1>9, <3>2, <4>1
    <3> QED BY <3>1, <3>2
  <2> QED BY <2>1 DEF ExecutingIsExplained, Running, Stale
<1>16. DatabaseFollowsJira'
  <2>1. ASSUME NEW u \in Test, db'[u] # "none"
        PROVE  jira'[u] = db'[u] \/ lapse'[u] \cap {"refused", "late"} # {}
    <3>1. CASE u = t
      <4>1. CASE db'[t] = db[t]
        <5>1. lapse[t] \cap {"refused", "late"} # {}
          BY <1>1, <2>1, <3>1, <4>1 DEF IInv, Unrecorded, t
        <5> QED BY <1>6, <3>1, <5>1
      <4>2. CASE opt.jira_update /\ answer # "raised" /\ result # "none" /\ db'[t] = result
        <5>1. CASE answer = "done"
          BY <1>1, <1>2, <3>1, <4>2, <5>1 DEF IInv, TypeOK
        <5>2. CASE answer = "refused"
          BY <1>2, <1>6, <3>1, <5>2
        <5> QED BY <4>2, <5>1, <5>2 DEF Answer
      <4> QED BY <1>8, <4>1, <4>2
    <3>2. CASE u # t
      BY <1>5, <1>6, <1>8, <2>1, <3>2 DEF IInv, DatabaseFollowsJira
    <3> QED BY <3>1, <3>2
  <2> QED BY <2>1 DEF DatabaseFollowsJira
<1>17. RerunIsExplained'
  BY <1>3, <1>6 DEF IInv, RerunIsExplained
<1> QED BY <1>9, <1>10, <1>12, <1>13, <1>14, <1>15, <1>16, <1>17 DEF IInv

-----------------------------------------------------------------------------
(* The controller, and the ends of a session. *)

LEMMA LateReportKeeps ==
  ASSUME IInv, NEW t \in Test, NEW answer \in Answer, LateReport(t, answer)
  PROVE  IInv'
<1>1. faults' \in 0..MaxFaults /\ t \in late /\ UNCHANGED <<opt, before, db, runs>>
  BY FaultTyped DEF LateReport
<1>2. CASE answer = "raised"
  <2>1. Abort /\ UNCHANGED jira
    BY <1>2 DEF LateReport
  <2> QED BY <1>1, <2>1, AbortCutsShort, CutShortKeeps
<1>3. CASE answer # "raised"
  <2>1. /\ Post(t, "Executing", answer)
        /\ late' = late \ {t}
        /\ lapse' = IF /\ jira[t] \in Result /\ jira'[t] = "Executing"
                       /\ \A w \in Process : cur[w] # t
                    THEN [lapse EXCEPT ![t] = @ \union {"late"}] ELSE lapse
        /\ UNCHANGED <<opt, before, phase, left, cur, stage, rep, poll, failed, db, runs>>
    BY <1>3 DEF LateReport
  <2>2. /\ t \notin left /\ runs[t] > 0 /\ opt.jira_update
        /\ t \in SessionTests => phase # "start"
        /\ phase = "parallel"
        /\ jira[t] \in Result \/ lapse[t] # {} \/ Running(t)
    BY <1>1 DEF IInv, Awaited, Distributed, SessionTests
  <2>3. /\ \A u \in Test : u # t => jira'[u] = jira[u]
        /\ jira'[t] = jira[t] \/ jira'[t] = "Executing"
        /\ jira' \in [Test -> Status]
    BY <2>1 DEF Post, IInv, TypeOK, Status
  <2>4. /\ lapse' \in [Test -> SUBSET Lapse]
        /\ \A u \in Test : lapse[u] \subseteq lapse'[u]
        /\ jira[t] \in Result /\ jira'[t] = "Executing"
               => "late" \in lapse'[t] \/ \E w \in Process : cur[w] = t
    BY <2>1 DEF IInv, TypeOK, Lapse
  <2>18. /\ (\E w \in Process : cur[w] = t) => Running(t)
         /\ \A u \in Test : Untold(u) <=> Untold(u)'
    BY <1>1, <2>1 DEF IInv, Awaited, Running, Untold
  <2>5. /\ Processes' = Processes /\ Distributed' = Distributed
        /\ SessionTests' = SessionTests
    BY <2>1, SessionUnchanged
  <2>6. t \in Parallel
    <3>1. \A u \in Test \ Parallel : runs[u] = 0
      BY <2>2 DEF IInv, Fresh
    <3> QED BY <2>2, <3>1
  <2>7. TypeOK'
    BY <1>1, <2>1, <2>3, <2>4 DEF IInv, TypeOK
  <2>8. Control'
    BY <2>1, <2>5 DEF IInv, Control
  <2>9. Fresh'
    <3>1. \A v \in Process : stage[v] = "setup" => cur[v] # t
      BY <1>1 DEF IInv, Awaited
    <3>2. \A v \in Process : stage[v] = "setup" => jira'[cur[v]] = before[cur[v]]
      BY <2>3, <3>1, OwnTest DEF IInv, Fresh
    <3>3. \A u \in left : jira'[u] = before[u]
      BY <2>2, <2>3 DEF IInv, Fresh, TypeOK
    <3>4. \A u \in Test : jira'[u] = "TODO" => before[u] = "TODO"
      BY <2>3 DEF IInv, Fresh
    <3> QED BY <2>1, <2>2, <2>3, <2>6, <3>2, <3>3, <3>4 DEF IInv, Fresh
  <2>10. \A u \in Test : Running(u) <=> Running(u)'
    BY <2>1 DEF Running
  <2>11. Awaited'
    <3>1. \A u \in late' : u \in Test /\ u # t /\ u \in late
      BY <2>1 DEF IInv, TypeOK
    <3>2. \A u \in late' : jira'[u] \in Result \/ lapse'[u] # {} \/ Running(u)'
      BY <2>3, <2>4, <2>10, <3>1 DEF IInv, Awaited
    <3> QED BY <2>1, <2>5, <3>1, <3>2 DEF IInv, Awaited
  <2>12. Unrecorded'
    <3> SUFFICES ASSUME NEW v \in Process, cur[v] # NoTest
                 PROVE  \/ db[cur[v]] = "none"
                        \/ lapse'[cur[v]] \cap {"refused", "late"} # {}
      BY <2>1 DEF IInv, Unrecorded
    <3>1. cur[v] \in Test
      BY DEF IInv, TypeOK
    <3> QED BY <2>4, <3>1 DEF IInv, Unrecorded
  <2>13. Told'
    <3>1. ASSUME NEW u \in Test, runs[u] > 0, jira'[u] = "TODO"
          PROVE  (\E v \in Process : cur[v] = u) \/ lapse'[u] \ {"late"} # {}
      <4>1. jira[u] = "TODO"
        BY <2>3, <3>1
      <4> QED BY <2>2, <2>4, <3>1, <4>1 DEF IInv, Told
    <3>2. \A u \in Test : jira'[u] # before[u] => runs[u] > 0
      BY <2>2, <2>3 DEF IInv, Told
    <3> QED BY <2>1, <3>1, <3>2 DEF IInv, Told
  <2>14. Counted' /\ Covered' /\ EveryTestStarts'
    BY <2>1 DEF IInv, Counted, Covered, EveryTestStarts
  <2>15. ExecutingIsExplained'
    <3>1. ASSUME NEW u \in Test, jira'[u] = "Executing"
          PROVE  lapse'[u] # {} \/ Running(u)' \/ Stale(u)'
      <4>1. CASE u = t
        BY <2>2, <2>4, <2>10, <2>18, <3>1, <4>1
      <4>2. CASE u # t
        <5>1. lapse[u] # {} \/ Running(u) \/ Stale(u)
          BY <2>3, <3>1, <4>2 DEF IInv, ExecutingIsExplained, Running, Stale
        <5> QED BY <2>1, <2>4, <2>10, <2>18, <5>1 DEF Stale
      <4> QED BY <4>1, <4>2
    <3> QED BY <3>1 DEF ExecutingIsExplained, Running, Stale
  <2>16. DatabaseFollowsJira'
    <3>1. ASSUME NEW u \in Test, db[u] # "none"
          PROVE  jira'[u] = db[u] \/ lapse'[u] \cap {"refused", "late"} # {}
      <4>1. CASE jira[u] = db[u]
        <5>1. db[u] \in Result
          BY <3>1 DEF IInv, TypeOK
        <5>2. CASE u # t \/ jira'[t] = jira[t]
          BY <2>3, <4>1, <5>2
        <5>3. CASE u = t /\ jira'[t] = "Executing" /\ \E v \in Process : cur[v] = t
          <6>1. PICK v \in Process : cur[v] = t
            BY <5>3
          <6>2. cur[v] # NoTest
            BY <6>1, SessionAssumption
          <6>3. lapse[t] \cap {"refused", "late"} # {}
            BY <3>1, <5>3, <6>1, <6>2 DEF IInv, Unrecorded
          <6> QED BY <2>4, <5>3, <6>3
        <5>4. CASE u = t /\ "late" \in lapse'[t]
          BY <5>4
        <5> QED BY <2>3, <2>4, <4>1, <5>1, <5>2, <5>3, <5>4
      <4>2. CASE lapse[u] \cap {"refused", "late"} # {}
        BY <2>4, <4>2
      <4> QED BY <3>1, <4>1, <4>2 DEF IInv, DatabaseFollowsJira
    <3> QED BY <2>1, <3>1 DEF DatabaseFollowsJira
  <2>17. RerunIsExplained'
    BY <2>1, <2>4 DEF IInv, RerunIsExplained
  <2> QED BY <2>7, <2>8, <2>9, <2>11, <2>12, <2>13, <2>14, <2>15, <2>16, <2>17
          DEF IInv
<1> QED BY <1>2, <1>3

LEMMA CrashKeeps ==
  ASSUME IInv, NEW w \in Process, Crash(w)
  PROVE  IInv'
<1> DEFINE t == cur[w]
<1>1. /\ t \in Test /\ t # NoTest /\ stage[w] # "idle"
      /\ \A v \in Process : v # w => cur[v] # t
  <2>1. stage[w] # "idle"
    BY DEF Crash, IInv, Control
  <2> QED BY <2>1, OwnTest
<1>2. /\ UNCHANGED <<opt, before, phase, left, late, jira, db, runs>>
      /\ \A v \in Process : v # w => cur'[v] = cur[v] /\ stage'[v] = stage[v]
      /\ cur'[w] = NoTest
  BY DEF Crash, IInv, TypeOK
<1>3. Done(w)
  <2>1. failed' \in [Process -> BOOLEAN]
    BY DEF Crash, IInv, TypeOK
  <2>2. faults' \in 0..MaxFaults
    BY SessionAssumption DEF Crash, IInv, TypeOK
  <2> QED BY <2>1, <2>2 DEF Crash, Done
<1>4. /\ lapse' \in [Test -> SUBSET Lapse]
      /\ \A u \in Test : lapse[u] \subseteq lapse'[u]
      /\ "cut" \in lapse'[t]
  BY <1>1 DEF Crash, Cut, IInv, TypeOK, Lapse
<1>5. jira' \in [Test -> Status]
  BY <1>2 DEF IInv, TypeOK
<1>6. /\ cur' \in [Process -> Test \union {NoTest}]
      /\ stage' \in [Process -> {"idle", "setup", "call", "teardown"}]
      /\ rep' \in [Process -> [setup : Outcome, call : Outcome]]
      /\ poll' \in [Process -> {"off", "on", "ended"}]
      /\ failed' \in [Process -> BOOLEAN]
      /\ faults' \in 0..MaxFaults
      /\ \A v \in Process : poll'[v] = "on" => stage'[v] \in {"call", "teardown"}
      /\ \A u, v \in Process : cur'[u] = cur'[v] /\ cur'[u] # NoTest => u = v
      /\ Control' /\ Fresh' /\ Counted' /\ Covered' /\ EveryTestStarts'
      /\ \A u \in Test : u # t => (Running(u) => Running(u)') /\ (Stale(u) => Stale(u)')
  BY <1>1, <1>2, <1>3, <1>5, DoneKeeps
<1> HIDE DEF t
<1>7. TypeOK'
  BY <1>2, <1>4, <1>6 DEF IInv, TypeOK
<1>8. Processes' = Processes /\ Distributed' = Distributed
  BY <1>2, SessionUnchanged
<1>9. Awaited'
  <2>1. \A v \in Process : cur'[v] \in late => stage'[v] \in {"call", "teardown"}
    <3> SUFFICES ASSUME NEW v \in Process, cur'[v] \in late
                 PROVE  stage'[v] \in {"call", "teardown"}
      OBVIOUS
    <3>1. late \subseteq Test
      BY DEF IInv, TypeOK
    <3>2. v # w
      BY <1>2, <3>1, SessionAssumption
    <3> QED BY <1>2, <3>2 DEF IInv, Awaited
  <2>2. ASSUME NEW u \in late
        PROVE  jira[u] \in Result \/ lapse'[u] # {} \/ Running(u)'
    <3>1. u \in Test /\ (jira[u] \in Result \/ lapse[u] # {} \/ Running(u))
      BY DEF IInv, TypeOK, Awaited
    <3> QED BY <1>4, <1>6, <3>1
  <2> QED BY <1>2, <1>8, <2>1, <2>2 DEF IInv, Awaited
<1>10. Unrecorded'
  <2> SUFFICES ASSUME NEW v \in Process, cur'[v] # NoTest
               PROVE  \/ db'[cur'[v]] = "none"
                      \/ lapse'[cur'[v]] \cap {"refused", "late"} # {}
    BY <1>2 DEF IInv, Unrecorded
  <2>1. v # w /\ cur'[v] = cur[v] /\ cur[v] \in Test
    BY <1>2 DEF IInv, TypeOK
  <2> QED BY <1>2, <1>4, <2>1 DEF IInv, Unrecorded
<1>11. Told'
  <2>1. ASSUME NEW u \in Test, runs[u] > 0, jira[u] = "TODO", opt.jira_update
        PROVE  (\E v \in Process : cur'[v] = u) \/ lapse'[u] \ {"late"} # {}
    <3>1. CASE u = t
      BY <1>4, <3>1
    <3>2. CASE u # t
      <4>1. (\E v \in Process : cur[v] = u) \/ lapse[u] \ {"late"} # {}
        BY <2>1 DEF IInv, Told
      <4> QED BY <1>2, <1>4, <3>2, <4>1 DEF t
    <3> QED BY <3>1, <3>2
  <2>2. \A v \in Process : cur'[v] # NoTest => runs[cur'[v]] > 0
    BY <1>2 DEF IInv, Told
  <2> QED BY <1>2, <2>1, <2>2 DEF IInv, Told
<1>12. ExecutingIsExplained'
  <2>1. ASSUME NEW u \in Test, jira[u] = "Executing"
        PROVE  lapse'[u] # {} \/ Running(u)' \/ Stale(u)'
    <3>1. lapse[u] # {} \/ Running(u) \/ Stale(u)
      BY <2>1 DEF IInv, ExecutingIsExplained, Running, Stale
    <3> QED BY <1>4, <1>6, <3>1
  <2> QED BY <1>2, <2>1 DEF ExecutingIsExplained, Running, Stale
<1>13. DatabaseFollowsJira' /\ RerunIsExplained'
  BY <1>2, <1>4 DEF IInv, DatabaseFollowsJira, RerunIsExplained
<1> QED BY <1>6, <1>7, <1>9, <1>10, <1>11, <1>12, <1>13 DEF IInv

LEMMA UnhealthyKeeps ==
  ASSUME IInv, NEW w \in Process, NEW t \in Test, Unhealthy(w, t)
  PROVE  IInv'
<1>1. faults' \in 0..MaxFaults
  BY SessionAssumption DEF Unhealthy, IInv, TypeOK
<1> QED BY <1>1, AbortCutsShort, CutShortKeeps DEF Unhealthy

LEMMA StopEarlyKeeps == ASSUME IInv, StopEarly PROVE IInv'
<1>1. opt.stop_on_first_error /\ faults' \in 0..MaxFaults
  BY DEF StopEarly, Halted, IInv, TypeOK
<1>2. CutShort
  BY <1>1 DEF StopEarly, CutShort
<1> QED BY <1>2, CutShortKeeps

-----------------------------------------------------------------------------
(* The theorems. *)

LEMMA InitHolds == ASSUME Init PROVE IInv
<1>1. \A w \in Process : cur[w] = NoTest /\ stage[w] = "idle" /\ poll[w] = "off"
  BY DEF Init
<1>2. \A t \in Test : /\ jira[t] = before[t] /\ db[t] = "none"
                      /\ runs[t] = 0 /\ lapse[t] = {}
  BY DEF Init
<1>3. TypeOK
  <2>1. NoReport \in [setup : Outcome, call : Outcome]
    BY DEF NoReport, Outcome
  <2>2. rep \in [Process -> [setup : Outcome, call : Outcome]]
    BY <2>1 DEF Init
  <2>3. /\ cur \in [Process -> Test \union {NoTest}]
        /\ stage \in [Process -> {"idle", "setup", "call", "teardown"}]
        /\ poll \in [Process -> {"off", "on", "ended"}]
        /\ failed \in [Process -> BOOLEAN]
    BY DEF Init
  <2>4. /\ jira \in [Test -> Status]
        /\ db \in [Test -> Result \union {"none"}]
        /\ runs \in [Test -> 0..2]
        /\ lapse \in [Test -> SUBSET Lapse]
    BY SessionAssumption DEF Init
  <2>5. /\ opt \in Options /\ before \in Earlier /\ phase \in Sessions \union {"start", "done", "stopped"}
        /\ left \subseteq Test /\ late \subseteq Test /\ faults \in 0..MaxFaults
    BY SessionAssumption DEF Init
  <2> QED BY <1>1, <2>2, <2>3, <2>4, <2>5 DEF TypeOK
<1>4. Control /\ Unrecorded
  BY <1>1, <1>2 DEF Control, Unrecorded, Init
<1>5. Fresh /\ Told /\ Counted
  BY <1>1, <1>2, SessionAssumption DEF Fresh, Told, Counted, Init
<1>6. Awaited /\ Covered
  BY DEF Awaited, Covered, Init
<1>7. ExecutingIsExplained /\ DatabaseFollowsJira /\ RerunIsExplained
  BY <1>2 DEF ExecutingIsExplained, Untold, DatabaseFollowsJira, RerunIsExplained
<1>8. EveryTestStarts
  BY DEF EveryTestStarts, Init
<1> QED BY <1>3, <1>4, <1>5, <1>6, <1>7, <1>8 DEF IInv

LEMMA StutterKeeps == ASSUME IInv, UNCHANGED vars PROVE IInv'
<1>1. TypeOK'
  BY DEF vars, IInv, TypeOK
<1>2. /\ Processes' = Processes /\ Distributed' = Distributed
      /\ SessionTests' = SessionTests
  BY SessionUnchanged DEF vars
<1>3. Control' /\ Fresh' /\ Counted' /\ Covered'
  BY <1>2 DEF vars, IInv, Control, Fresh, Counted, Covered
<1>4. Awaited' /\ Unrecorded' /\ Told'
  BY <1>2 DEF vars, IInv, Awaited, Unrecorded, Told, Running
<1>5. /\ ExecutingIsExplained' /\ DatabaseFollowsJira' /\ RerunIsExplained'
      /\ EveryTestStarts'
  BY DEF vars, IInv, ExecutingIsExplained, Untold, DatabaseFollowsJira,
         RerunIsExplained, EveryTestStarts
<1> QED BY <1>1, <1>3, <1>4, <1>5 DEF IInv

LEMMA NextKeeps == ASSUME IInv, Next PROVE IInv'
<1>1. CASE OpenParallel BY <1>1, OpenParallelKeeps
<1>2. CASE OpenRedo BY <1>2, OpenRedoKeeps
<1>3. CASE OpenSerial BY <1>3, OpenSerialKeeps
<1>4. CASE Finish BY <1>4, FinishKeeps
<1>5. CASE StopEarly BY <1>5, StopEarlyKeeps
<1>6. ASSUME NEW w \in Process, NEW t \in Test, Start(w, t) PROVE IInv'
  BY <1>6, StartKeeps
<1>7. ASSUME NEW w \in Process, NEW t \in Test, Unhealthy(w, t) PROVE IInv'
  BY <1>7, UnhealthyKeeps
<1>8. ASSUME NEW w \in Process, NEW outcome \in Outcome, Call(w, outcome) PROVE IInv'
  BY <1>8, CallKeeps
<1>9. ASSUME NEW w \in Process, NEW outcome \in Outcome, NEW io \in BOOLEAN,
             NEW answer \in Answer, Setup(w, outcome, io, answer)
      PROVE  IInv'
  BY <1>9, SetupCases, SetupKeeps, CutShortKeeps
<1>10. ASSUME NEW w \in Process, NEW outcome \in {"passed", "failed"},
              NEW answer \in Answer, NEW entry \in BOOLEAN,
              Teardown(w, outcome, answer, entry)
       PROVE  IInv'
  BY <1>10, TeardownCases, TeardownKeeps
<1>11. ASSUME NEW w \in Process, Poll(w) \/ PollTimesOut(w) PROVE IInv'
  BY <1>11, PollKeeps DEF Poll, PollTimesOut
<1>12. ASSUME NEW w \in Process, Crash(w) PROVE IInv'
  BY <1>12, CrashKeeps
<1>13. ASSUME NEW t \in Test, NEW answer \in Answer, LateReport(t, answer) PROVE IInv'
  BY <1>13, LateReportKeeps
<1> QED BY <1>1, <1>2, <1>3, <1>4, <1>5, <1>6, <1>7, <1>8, <1>9, <1>10, <1>11,
           <1>12, <1>13 DEF Next

\* What the hooks of conftest.py and the sessions of testrunner.py keep to, for
\* any number of tests, workers and faults.
THEOREM SessionInvariant == Spec => []IInv
<1>1. Init => IInv
  BY InitHolds
<1>2. IInv /\ [Next]_vars => IInv'
  BY NextKeeps, StutterKeeps
<1> QED BY <1>1, <1>2, PTL DEF Spec

\* The state of a session keeps its type, and no test is run by two processes.
THEOREM SessionTypes == Spec => []TypeOK
<1>1. IInv => TypeOK
  BY DEF IInv
<1> QED BY <1>1, SessionInvariant, PTL

\* A test is listed as Executing only while it runs or after its last status
\* was kept from Jira.
THEOREM ExecutingHasACause == Spec => []ExecutingIsExplained
<1>1. IInv => ExecutingIsExplained
  BY DEF IInv
<1> QED BY <1>1, SessionInvariant, PTL

\* The report database and Jira disagree about a test only if a request was
\* refused or the controller was late.
THEOREM DatabaseAgrees == Spec => []DatabaseFollowsJira
<1>1. IInv => DatabaseFollowsJira
  BY DEF IInv
<1> QED BY <1>1, SessionInvariant, PTL

\* A test is run again only if its first run was kept from Jira.
THEOREM RerunHasACause == Spec => []RerunIsExplained
<1>1. IInv => RerunIsExplained
  BY DEF IInv
<1> QED BY <1>1, SessionInvariant, PTL

\* No test is passed over, unless the options ask for it.
THEOREM NoTestIsPassedOver == Spec => []EveryTestStarts
<1>1. IInv => EveryTestStarts
  BY DEF IInv
<1> QED BY <1>1, SessionInvariant, PTL

\* A step that posts Executing over a result is a late report, or the first of
\* the run about that test.
LEMMA OnlyLate ==
  ASSUME IInv, Next, NEW t \in Test, jira[t] \in Result, jira'[t] = "Executing"
  PROVE  \/ Untold(t) /\ jira[t] = before[t]
         \/ Distributed /\ t \in late
<1>1. jira[t] # "Executing" /\ jira[t] # "TODO" /\ jira' # jira
  BY DEF Result
<1>2. CASE OpenParallel \/ OpenRedo \/ OpenSerial \/ Finish \/ StopEarly
  BY <1>1, <1>2 DEF OpenParallel, OpenRedo, OpenSerial, Finish, StopEarly, RunPytest
<1>3. ASSUME NEW w \in Process, NEW u \in Test, Start(w, u) \/ Unhealthy(w, u)
      PROVE  FALSE
  BY <1>1, <1>3 DEF Start, Unhealthy
<1>4. ASSUME NEW w \in Process, NEW outcome \in Outcome, NEW io \in BOOLEAN,
             NEW answer \in Answer, Setup(w, outcome, io, answer)
      PROVE  Untold(t) /\ jira[t] = before[t]
  <2>1. SetupPosted(w)
    BY <1>1, <1>4, SetupCases DEF CutShort
  <2>2. cur[w] = t /\ stage[w] = "setup"
    BY <1>1, <2>1 DEF SetupPosted, IInv, TypeOK
  <2>3. jira[t] = before[t] /\ before[t] # "TODO"
    BY <1>1, <2>2 DEF IInv, Fresh
  <2>4. runs[t] = 1
    <3>1. runs[t] \in 0..2 /\ runs[t] <= 1
      BY <2>3 DEF IInv, TypeOK, Counted
    <3>2. runs[t] > 0
      BY <2>2, SessionAssumption DEF IInv, Told
    <3> QED BY <3>1, <3>2
  <2> QED BY <2>2, <2>3, <2>4 DEF Untold
<1>5. ASSUME NEW w \in Process, NEW outcome \in {"passed", "failed"},
             NEW answer \in Answer, NEW entry \in BOOLEAN,
             Teardown(w, outcome, answer, entry)
      PROVE  FALSE
  <2>1. TeardownPosted(w)
    BY <1>5, TeardownCases
  <2>2. jira'[t] = jira[t] \/ jira'[t] \in Result
    BY <2>1 DEF TeardownPosted, IInv, TypeOK
  <2> QED BY <1>1, <2>2 DEF Result
<1>6. ASSUME NEW w \in Process, NEW outcome \in Outcome,
             Call(w, outcome) \/ Poll(w) \/ PollTimesOut(w) \/ Crash(w)
      PROVE  FALSE
  BY <1>1, <1>6 DEF Call, Poll, PollTimesOut, Crash
<1>7. ASSUME NEW u \in Test, NEW answer \in Answer, LateReport(u, answer)
      PROVE  Distributed /\ t \in late
  <2>1. u \in late /\ Distributed
    BY <1>7 DEF LateReport, IInv, Awaited
  <2>2. u = t
    BY <1>1, <1>7 DEF LateReport, Post, IInv, TypeOK
  <2> QED BY <2>1, <2>2
<1>8. "passed" \in Outcome
  BY DEF Outcome
<1> QED BY <1>2, <1>3, <1>4, <1>5, <1>6, <1>7, <1>8 DEF Next

\* A result of the run is replaced by Executing by the controller of a parallel
\* session only, and one of an earlier run when the test has got past its first
\* setup.
THEOREM ResultsStand == Spec => ResultStands
<1> DEFINE Stands == \A t \in Test : jira[t] \in Result /\ jira'[t] = "Executing" =>
                         \/ Untold(t) /\ jira[t] = before[t]
                         \/ Distributed /\ t \in late
<1>1. IInv /\ [Next]_vars => [Stands]_vars
  BY OnlyLate DEF vars
<1> QED BY <1>1, SessionInvariant, PTL DEF Spec, ResultStands

=============================================================================
