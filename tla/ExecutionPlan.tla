---------------------------- MODULE ExecutionPlan ----------------------------
(***************************************************************************)
(* How the primebot (drunner.py) turns the collected tests and the Jira    *)
(* test executions into the messages it distributes: create_test_map files *)
(* every collected test under its marks, develop_execution_plan groups the *)
(* tests of the executions by mark, and run() makes one message of each    *)
(* group's parallel tests and one of each of its sequential tests.         *)
(*                                                                         *)
(* The order of the marks of a test is the order of pytest's iter_markers. *)
(***************************************************************************)
EXTENDS Integers, Sequences, FiniteSets, SequencesExt

CONSTANTS
    Test, Execution,   \* ids of tests and of test executions
    Feature,           \* marks that name a group
    Base,              \* base_components_marks
    Ignored,           \* skip_marks and internal_skip_marks, without Skip
    ParallelMark, Skip,
    Executions,        \* opts.tickets
    Collected,         \* the collected tests, in the order of collection
    MarkLists,         \* the mark lists a collected test may have
    Contents,          \* what Jira may list for the executions
    NoMark, Unknown, NoExecution

Mark == Feature \cup Base \cup Ignored \cup {ParallelMark, Skip}

ASSUME PlanAssumption ==
    /\ Feature \cap (Base \cup Ignored \cup {ParallelMark, Skip}) = {}
    /\ Base \cap (Ignored \cup {ParallelMark, Skip}) = {}
    /\ Executions \in Seq(Execution) /\ IsInjective(Executions)
    /\ Collected \in Seq(Test)
    /\ MarkLists \subseteq Seq(Mark)
    /\ Contents \subseteq [Execution -> Seq(Test)]
    /\ {NoMark, Unknown} \cap Mark = {} /\ NoMark # Unknown
    /\ NoExecution \notin Execution

VARIABLES
    marks,      \* the marks of every collected test
    content,    \* the tests of every execution
    pc,         \* the part of run() that is executing
    toCollect,  \* collected tests that are not in the test map yet
    toRun,      \* executions still to be planned
    current,    \* the execution that is being planned
    toPlan,     \* its tests that are still to be planned
    testMark,   \* test_map: the mark a test is grouped under
    executionOf,\* test_map: the execution that a planned test is for
    revTagMap,  \* the tests filed under each mark
    skipTest,   \* tests with a skip mark
    selected,   \* selected_tag_map: the tests to execute, by mark
    messages    \* what has been put into the work queue

inputs == <<marks, content>>
maps   == <<testMark, revTagMap, skipTest>>
loop   == <<toRun, current, toPlan>>
vars   == <<inputs, pc, toCollect, loop, maps, executionOf, selected, messages>>

Group == [par : SUBSET Test, seq : SUBSET Test]
NoGroup == [par |-> {}, seq |-> {}]
Members(group) == group.par \cup group.seq

Message == [tag : Mark, parallel : BOOLEAN, tests : SUBSET Test, execution : Execution]

TypeOK ==
    /\ marks \in [ToSet(Collected) -> MarkLists]
    /\ content \in Contents
    /\ toCollect \in Seq(Test)
    /\ toRun \in Seq(Execution)
    /\ current \in Execution \cup {NoExecution}
    /\ toPlan \in Seq(Test)
    /\ pc \in {"collect", "plan", "emit", "done", "failed"}
    /\ testMark \in [Test -> Feature \cup Base \cup {NoMark, Unknown}]
    /\ executionOf \in [Test -> Execution \cup {NoExecution}]
    /\ revTagMap \in [Mark -> Group]
    /\ skipTest \subseteq Test
    /\ selected \in [Mark -> Group]
    /\ messages \subseteq Message

Init ==
    /\ marks \in [ToSet(Collected) -> MarkLists]
    /\ content \in Contents
    /\ pc = "collect"
    /\ toCollect = Collected
    /\ toRun = Executions
    /\ current = NoExecution
    /\ toPlan = <<>>
    /\ testMark = [t \in Test |-> Unknown]
    /\ executionOf = [t \in Test |-> NoExecution]
    /\ revTagMap = [m \in Mark |-> NoGroup]
    /\ skipTest = {}
    /\ selected = [m \in Mark |-> NoGroup]
    /\ messages = {}

-----------------------------------------------------------------------------
(* create_test_map *)

IsParallel(t) == ParallelMark \in ToSet(marks[t])

MarksIn(t, class) == ToSet(marks[t]) \cap class

At(t, class) == {i \in DOMAIN marks[t] : marks[t][i] \in class}

\* Mutant of FiledUnder: a test is filed under its first feature mark only.
FiledUnderFirst(t) ==
    IF MarksIn(t, Feature) # {} THEN {marks[t][Min(At(t, Feature))]}
    ELSE IF MarksIn(t, Base) # {} THEN {Last(marks[t])}
    ELSE {}

\* A test is filed under all its feature marks.  One that has base marks only
\* is filed under what the loop variable was left with: its last mark.
FiledUnder(t) ==
    IF MarksIn(t, Feature) # {} THEN MarksIn(t, Feature)
    ELSE IF MarksIn(t, Base) # {} THEN {Last(marks[t])}
    ELSE {}

\* The mark a test is grouped under: its last feature mark, or its first base
\* mark.
TestMark(t) ==
    IF MarksIn(t, Feature) # {} THEN marks[t][Max(At(t, Feature))]
    ELSE IF MarksIn(t, Base) # {} THEN marks[t][Min(At(t, Base))]
    ELSE NoMark

\* update_rev_tag_map, and the same on the groups of selected_tag_map.
Add(group, t, parallel) ==
    IF parallel THEN [group EXCEPT !.par = @ \cup {t}]
                ELSE [group EXCEPT !.seq = @ \cup {t}]

CollectTest ==
    LET t == Head(toCollect) IN
    /\ pc = "collect"
    /\ toCollect # <<>>
    /\ toCollect' = Tail(toCollect)
    /\ testMark' = [testMark EXCEPT ![t] = TestMark(t)]
    /\ skipTest' = IF Skip \in ToSet(marks[t]) THEN skipTest \cup {t} ELSE skipTest
    /\ revTagMap' = [m \in Mark |-> IF m \in FiledUnder(t)
                                    THEN Add(revTagMap[m], t, IsParallel(t))
                                    ELSE revTagMap[m]]
    /\ UNCHANGED <<inputs, pc, loop, executionOf, selected, messages>>

EndCollection ==
    /\ pc = "collect"
    /\ toCollect = <<>>
    /\ pc' = "plan"
    /\ UNCHANGED <<inputs, toCollect, loop, maps, executionOf, selected, messages>>

-----------------------------------------------------------------------------
(* develop_execution_plan *)

\* get_te_tickets_data of the next execution, and the loop over its tests.
NextExecution ==
    /\ pc = "plan"
    /\ toPlan = <<>>
    /\ toRun # <<>>
    /\ content[Head(toRun)] # <<>>
    /\ toRun' = Tail(toRun)
    /\ current' = Head(toRun)
    /\ toPlan' = content[Head(toRun)]
    /\ UNCHANGED <<inputs, pc, toCollect, maps, executionOf, selected, messages>>

\* Jira lists no test of an execution without a tag, and get_te_tickets_data
\* raises if there are none.
NoTests ==
    /\ pc = "plan"
    /\ toPlan = <<>>
    /\ toRun # <<>>
    /\ content[Head(toRun)] = <<>>
    /\ pc' = "failed"
    /\ UNCHANGED <<inputs, toCollect, loop, maps, executionOf, selected, messages>>

\* Tests that are skipped, were not collected or have no mark are passed over.
Plannable(t) == t \notin skipTest /\ testMark[t] \notin {Unknown, NoMark}

PassOver ==
    /\ pc = "plan"
    /\ toPlan # <<>>
    /\ ~Plannable(Head(toPlan))
    /\ toPlan' = Tail(toPlan)
    /\ UNCHANGED <<inputs, pc, toCollect, toRun, current, maps, executionOf, selected, messages>>

Select(t) ==
    LET m == testMark[t] IN
    selected' = IF revTagMap[m] = NoGroup
                THEN selected
                ELSE [selected EXCEPT ![m] = Add(@, t, t \in revTagMap[m].par)]

\* Mutants of PlanTest: the loop does not move on, or the execution is not kept.
PlanTestAgain ==
    LET t == Head(toPlan) IN
    /\ pc = "plan"
    /\ toPlan # <<>>
    /\ Plannable(t)
    /\ executionOf[t] = NoExecution
    /\ executionOf' = [executionOf EXCEPT ![t] = current]
    /\ UNCHANGED <<inputs, pc, toCollect, loop, maps, selected, messages>>
PlanTestForFirst ==
    LET t == Head(toPlan) IN
    /\ pc = "plan"
    /\ toPlan # <<>>
    /\ Plannable(t)
    /\ executionOf[t] = NoExecution
    /\ toPlan' = Tail(toPlan)
    /\ executionOf' = [executionOf EXCEPT ![t] = Executions[1]]
    /\ Select(t)
    /\ UNCHANGED <<inputs, pc, toCollect, toRun, current, maps, messages>>

PlanTest ==
    LET t == Head(toPlan) IN
    /\ pc = "plan"
    /\ toPlan # <<>>
    /\ Plannable(t)
    /\ executionOf[t] = NoExecution
    /\ toPlan' = Tail(toPlan)
    /\ executionOf' = [executionOf EXCEPT ![t] = current]
    /\ Select(t)
    /\ UNCHANGED <<inputs, pc, toCollect, toRun, current, maps, messages>>

\* The entry of a test that was planned before has one field more, and cannot
\* be unpacked: run() ends with a ValueError.
PlanFails ==
    /\ pc = "plan"
    /\ toPlan # <<>>
    /\ Plannable(Head(toPlan))
    /\ executionOf[Head(toPlan)] # NoExecution
    /\ pc' = "failed"
    /\ UNCHANGED <<inputs, toCollect, loop, maps, executionOf, selected, messages>>

EndPlan ==
    /\ pc = "plan"
    /\ toPlan = <<>> /\ toRun = <<>>
    /\ pc' = "emit"
    /\ UNCHANGED <<inputs, toCollect, loop, maps, executionOf, selected, messages>>

-----------------------------------------------------------------------------
(* run(): the loop over selected_tag_map. *)

Emitted(m) == \E message \in messages : message.tag = m

\* Mutant of EmitTag: the loop over the sequential tests takes the whole group.
EmitTagTwice(m) ==
    LET group == selected[m] IN
    /\ pc = "emit"
    /\ group # NoGroup
    /\ ~Emitted(m)
    /\ \E t \in Members(group) :
         messages' = messages
             \cup {[tag |-> m, parallel |-> TRUE, tests |-> group.par,
                    execution |-> executionOf[t]]}
             \cup {[tag |-> m, parallel |-> FALSE, tests |-> {s},
                    execution |-> executionOf[s]] : s \in Members(group)}
    /\ UNCHANGED <<inputs, pc, toCollect, loop, maps, executionOf, selected>>

\* One message of the parallel tests, even if there are none, for the execution
\* of any one of the tests it takes into account, and one of each other test.
EmitTag(m) ==
    LET group == selected[m] IN
    /\ pc = "emit"
    /\ group # NoGroup
    /\ ~Emitted(m)
    /\ \E t \in IF group.par # {} THEN group.par ELSE group.seq :
         messages' = messages
             \cup {[tag |-> m, parallel |-> TRUE, tests |-> group.par,
                    execution |-> executionOf[t]]}
             \cup {[tag |-> m, parallel |-> FALSE, tests |-> {s},
                    execution |-> executionOf[s]] : s \in group.seq}
    /\ UNCHANGED <<inputs, pc, toCollect, loop, maps, executionOf, selected>>

EndEmission ==
    /\ pc = "emit"
    /\ \A m \in Mark : selected[m] # NoGroup => Emitted(m)
    /\ pc' = "done"
    /\ UNCHANGED <<inputs, toCollect, loop, maps, executionOf, selected, messages>>

Over == pc \in {"done", "failed"} /\ UNCHANGED vars

Next ==
    \/ CollectTest \/ EndCollection
    \/ NextExecution \/ NoTests \/ PassOver \/ PlanTest \/ PlanFails \/ EndPlan
    \/ \E m \in Mark : EmitTag(m)
    \/ EndEmission
    \/ Over

Spec == Init /\ [][Next]_vars

-----------------------------------------------------------------------------
(* Properties. *)

Requested == {t \in Test : \E i \in DOMAIN Executions : Contains(content[Executions[i]], t)}

\* A test is never sent out twice: not by two of its marks, nor by two
\* executions that name it.
PlannedOnce ==
    \A m, n \in messages : m # n => m.tests \cap n.tests = {}

\* A requested test with a feature mark is sent out when the plan is complete,
\* unless it is skipped, in the group of one of its feature marks, and for
\* parallel execution exactly when it is marked so: the maps of
\* create_test_map agree with each other on such a test.
FeatureTestsPlanned ==
    pc = "done" => \A t \in Requested \cap ToSet(Collected) :
        MarksIn(t, Feature) # {} /\ Skip \notin ToSet(marks[t]) =>
            \E m \in messages : /\ t \in m.tests
                                /\ m.tag \in MarksIn(t, Feature)
                                /\ m.parallel <=> IsParallel(t)

\* A test that is sent out on its own goes out for an execution that names it:
\* the corbot looks the test up in that execution.
SequentialTestsMatchExecution ==
    \A m \in messages : ~m.parallel => \A t \in m.tests : Contains(content[m.execution], t)

\* Two places of the executions, or of one of them, name the test.
NamedTwice(t) ==
    \E i, j \in DOMAIN Executions :
        \E k \in DOMAIN content[Executions[i]], l \in DOMAIN content[Executions[j]] :
            /\ content[Executions[i]][k] = t /\ content[Executions[j]][l] = t
            /\ i # j \/ k # l

\* Planning breaks off only at an execution without tests, or for a test that
\* is named twice, was collected and is not skipped.
PlanFailsForCause ==
    pc = "failed" =>
        \/ \E i \in DOMAIN Executions : content[Executions[i]] = <<>>
        \/ \E t \in ToSet(Collected) : Skip \notin ToSet(marks[t]) /\ NamedTwice(t)

-----------------------------------------------------------------------------
(* What the documents say of the code, and the code does not do. *)

\* "to run either test with a parallel tag in parallel or other tests in serial
\* order"
RunsAsMarked ==
    \A m \in messages : \A t \in m.tests : m.parallel <=> IsParallel(t)

=============================================================================
