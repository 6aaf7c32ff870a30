------------------------ MODULE ExecutionPlanProofs ------------------------
(***************************************************************************)
(* What is proved of ExecutionPlan, for any tests, marks and executions:   *)
(* that no test is sent out twice, that the requested tests with a feature *)
(* mark are sent out as marked, that a test sent out on its own is sent    *)
(* for an execution that names it, and what planning can fail for.         *)
(*                                                                         *)
(* The inductive invariant says what every map holds at a place in the     *)
(* three loops: the maps of create_test_map by the tests filed so far, the *)
(* groups by the places of the executions passed so far, the messages by   *)
(* the groups.                                                             *)
(***************************************************************************)
EXTENDS ExecutionPlan, WellFoundedInduction, TLAPS

\* How far the loops are: tests filed, executions begun, and tests of the
\* current one that are planned or passed over.
Filed == Len(Collected) - Len(toCollect)
Begun == Len(Executions) - Len(toRun)
Past  == Len(content[current]) - Len(toPlan)

IsFiled(t) == \E i \in 1..Filed : Collected[i] = t

\* The test in the k-th place of the i-th execution, and whether the loops
\* have passed that place.
Named(i, k) == content[Executions[i]][k]
Places(i) == DOMAIN content[Executions[i]]
Passed(i, k) == i < Begun \/ k <= Past

Position ==
    /\ Len(toCollect) <= Len(Collected)
    /\ \A i \in DOMAIN toCollect : toCollect[i] = Collected[Filed + i]
    /\ Len(toRun) <= Len(Executions)
    /\ \A i \in DOMAIN toRun : toRun[i] = Executions[Begun + i]
    /\ IF Begun = 0
       THEN current = NoExecution /\ toPlan = <<>>
       ELSE /\ current = Executions[Begun]
            /\ Len(toPlan) <= Len(content[current])
            /\ \A i \in DOMAIN toPlan : toPlan[i] = content[current][Past + i]
    /\ pc = "collect" => Begun = 0
    /\ pc # "collect" => toCollect = <<>>
    /\ pc \in {"emit", "done"} => toRun = <<>> /\ toPlan = <<>>

Filing ==
    /\ \A t \in Test : testMark[t] = IF IsFiled(t) THEN TestMark(t) ELSE Unknown
    /\ \A t \in Test : t \in skipTest <=> IsFiled(t) /\ Skip \in ToSet(marks[t])
    /\ \A m \in Mark, t \in Test :
          /\ t \in revTagMap[m].par <=> IsFiled(t) /\ m \in FiledUnder(t) /\ IsParallel(t)
          /\ t \in revTagMap[m].seq <=> IsFiled(t) /\ m \in FiledUnder(t) /\ ~IsParallel(t)

Planning ==
    /\ \A t \in Test : executionOf[t] # NoExecution =>
          /\ Plannable(t)
          /\ \E i \in 1..Begun : \E k \in Places(i) :
                Passed(i, k) /\ Named(i, k) = t /\ executionOf[t] = Executions[i]
    /\ \A i \in 1..Begun : \A k \in Places(i) :
          Passed(i, k) /\ Plannable(Named(i, k)) => executionOf[Named(i, k)] # NoExecution

Grouping ==
    \A m \in Mark, t \in Test :
        LET planned == executionOf[t] # NoExecution /\ testMark[t] = m /\ revTagMap[m] # NoGroup
        IN  /\ t \in selected[m].par <=> planned /\ t \in revTagMap[m].par
            /\ t \in selected[m].seq <=> planned /\ t \notin revTagMap[m].par

Emission ==
    /\ pc \in {"collect", "plan", "failed"} => messages = {}
    /\ \A a \in messages :
          IF a.parallel THEN a.tests = selected[a.tag].par
          ELSE \E s \in selected[a.tag].seq : a.tests = {s} /\ a.execution = executionOf[s]
    /\ \A a, b \in messages : a.parallel /\ b.parallel /\ a.tag = b.tag => a = b
    /\ \A m \in Mark : Emitted(m) =>
          /\ \E a \in messages : a.tag = m /\ a.parallel
          /\ \A s \in selected[m].seq : \E a \in messages :
                a.tag = m /\ ~a.parallel /\ a.tests = {s}
    /\ pc = "done" => \A m \in Mark : selected[m] # NoGroup => Emitted(m)

IInv == TypeOK /\ Position /\ Filing /\ Planning /\ Grouping /\ Emission

-----------------------------------------------------------------------------
(* Sequences, and the first and the last mark of a kind. *)

LEMMA HeadAndTail ==
    ASSUME NEW S, NEW s \in Seq(S), s # <<>>
    PROVE  /\ Len(s) \in Nat /\ Len(s) > 0
           /\ Head(s) = s[1] /\ Head(s) \in S
           /\ Tail(s) \in Seq(S) /\ Len(Tail(s)) = Len(s) - 1
           /\ DOMAIN Tail(s) = 1..(Len(s) - 1)
           /\ \A i \in 1..(Len(s) - 1) : i + 1 \in DOMAIN s /\ Tail(s)[i] = s[i + 1]
<1>1. Len(s) \in Nat /\ Len(s) > 0
  OBVIOUS
<1>2. Head(s) = s[1] /\ Head(s) \in S
  OBVIOUS
<1>3. Tail(s) \in Seq(S) /\ Len(Tail(s)) = Len(s) - 1
  OBVIOUS
<1>4. DOMAIN Tail(s) = 1..(Len(s) - 1)
  BY <1>3
<1>5. \A i \in 1..(Len(s) - 1) : i + 1 \in DOMAIN s /\ Tail(s)[i] = s[i + 1]
  OBVIOUS
<1> QED BY <1>1, <1>2, <1>3, <1>4, <1>5

LEMMA LeastOf ==
    ASSUME NEW S \in SUBSET Nat, S # {}
    PROVE  \E x \in S : \A y \in S : x <= y
<1>1. PICK x \in S : \A y \in S : ~ (<<y, x>> \in OpToRel(<, Nat))
  BY NatLessThanWellFounded, WFMin
<1>2. \A y \in S : ~ (y < x)
  BY <1>1 DEF OpToRel
<1> QED BY <1>2

LEMMA FirstAndLast ==
    ASSUME NEW n \in Nat, NEW S \in SUBSET (1..n), S # {}
    PROVE  Min(S) \in S /\ Max(S) \in S
<1>1. S \in SUBSET Nat
  OBVIOUS
<1>2. Min(S) \in S
  BY <1>1, LeastOf DEF Min
<1> DEFINE T == {d \in Nat : n - d \in S}
<1>3. PICK x \in T : \A y \in T : x <= y
  <2>1. T \in SUBSET Nat /\ T # {}
    <3>1. PICK y \in S : TRUE
      OBVIOUS
    <3>2. n - y \in Nat /\ n - (n - y) = y
      OBVIOUS
    <3> QED BY <3>1, <3>2
  <2> HIDE DEF T
  <2> QED BY <2>1, LeastOf
<1>4. ASSUME NEW y \in S PROVE n - x >= y
  <2>1. n - y \in Nat /\ n - (n - y) = y
    OBVIOUS
  <2>2. n - y \in T
    BY <2>1
  <2>3. x \in Nat /\ x <= n - y
    BY <1>3, <2>2
  <2> QED BY <2>3
<1>5. n - x \in S
  BY <1>3
<1>6. Max(S) \in S
  BY <1>4, <1>5 DEF Max
<1> QED BY <1>2, <1>6

\* What TestMark and FiledUnder return for a collected test.
LEMMA MarkTypes ==
    ASSUME TypeOK, NEW t \in ToSet(Collected)
    PROVE  /\ marks[t] \in Seq(Mark)
           /\ FiledUnder(t) \subseteq Mark
           /\ TestMark(t) \in Feature \cup Base \cup {NoMark}
           /\ MarksIn(t, Feature) # {} => TestMark(t) \in FiledUnder(t) \cap Feature
<1>1. marks[t] \in Seq(Mark)
  BY PlanAssumption DEF TypeOK
<1> DEFINE n == Len(marks[t])
<1>2. n \in Nat /\ DOMAIN marks[t] = 1..n /\ \A i \in 1..n : marks[t][i] \in Mark
  BY <1>1
<1>3. ASSUME NEW class, MarksIn(t, class) # {}
      PROVE  /\ n # 0
             /\ marks[t][Min(At(t, class))] \in MarksIn(t, class)
             /\ marks[t][Max(At(t, class))] \in MarksIn(t, class)
  <2>1. At(t, class) \subseteq 1..n /\ At(t, class) # {}
    BY <1>2, <1>3 DEF MarksIn, At, ToSet
  <2>2. Min(At(t, class)) \in At(t, class) /\ Max(At(t, class)) \in At(t, class)
    BY <1>2, <2>1, FirstAndLast
  <2>3. \A i \in At(t, class) : marks[t][i] \in MarksIn(t, class)
    BY DEF MarksIn, At, ToSet
  <2> QED BY <1>2, <2>1, <2>2, <2>3
<1>4. \A class : MarksIn(t, class) \subseteq class
  BY DEF MarksIn
<1>5. CASE MarksIn(t, Feature) # {}
  <2>1. TestMark(t) \in MarksIn(t, Feature) /\ FiledUnder(t) = MarksIn(t, Feature)
    BY <1>3, <1>5 DEF TestMark, FiledUnder
  <2> QED BY <1>1, <1>4, <2>1 DEF Mark
<1>6. CASE MarksIn(t, Feature) = {} /\ MarksIn(t, Base) # {}
  <2>1. TestMark(t) \in Base
    BY <1>3, <1>4, <1>6 DEF TestMark
  <2>2. FiledUnder(t) = {marks[t][n]} /\ n \in 1..n
    BY <1>2, <1>3, <1>6 DEF FiledUnder, Last
  <2> QED BY <1>1, <1>2, <1>6, <2>1, <2>2
<1>7. CASE MarksIn(t, Feature) = {} /\ MarksIn(t, Base) = {}
  BY <1>1, <1>7 DEF TestMark, FiledUnder
<1> QED BY <1>5, <1>6, <1>7

-----------------------------------------------------------------------------
(* Where the loops are. *)

LEMMA ListTypes ==
    ASSUME TypeOK
    PROVE  /\ Executions \in Seq(Execution) /\ Len(Executions) \in Nat
           /\ Collected \in Seq(Test) /\ Len(Collected) \in Nat
           /\ \A e \in Execution : content[e] \in Seq(Test)
           /\ Len(toCollect) \in Nat /\ Len(toRun) \in Nat /\ Len(toPlan) \in Nat
           /\ Filed \in Int /\ Begun \in Int
BY PlanAssumption DEF TypeOK, Filed, Begun

\* A step that is none of the loops'.
LEMMA LoopFrame ==
    ASSUME UNCHANGED <<toCollect, loop, content>>
    PROVE  /\ Filed' = Filed /\ Begun' = Begun /\ Past' = Past
           /\ \A t : IsFiled(t)' <=> IsFiled(t)
BY DEF loop, Filed, Begun, Past, IsFiled

LEMMA CollectMoves ==
    ASSUME TypeOK, Position, CollectTest
    PROVE  /\ Filed \in Nat /\ Filed' = Filed + 1 /\ Filed' <= Len(Collected)
           /\ Head(toCollect) = Collected[Filed + 1]
           /\ Head(toCollect) \in Test /\ Head(toCollect) \in ToSet(Collected)
           /\ \A t : IsFiled(t)' <=> IsFiled(t) \/ t = Head(toCollect)
           /\ toCollect' \in Seq(Test)
           /\ \A i \in DOMAIN toCollect' : toCollect'[i] = Collected[Filed' + i]
<1>1. toCollect \in Seq(Test) /\ toCollect # <<>> /\ toCollect' = Tail(toCollect)
  BY DEF CollectTest, TypeOK
<1>2. /\ Len(toCollect) \in Nat /\ Len(toCollect) > 0 /\ Head(toCollect) = toCollect[1]
      /\ Head(toCollect) \in Test /\ toCollect' \in Seq(Test)
      /\ Len(toCollect') = Len(toCollect) - 1 /\ DOMAIN toCollect' = 1..(Len(toCollect) - 1)
      /\ \A i \in 1..(Len(toCollect) - 1) :
            i + 1 \in DOMAIN toCollect /\ toCollect'[i] = toCollect[i + 1]
  BY <1>1, HeadAndTail
<1>3. Filed \in Nat /\ Filed' = Filed + 1 /\ Filed' <= Len(Collected) /\ Len(Collected) \in Nat
  BY <1>2, ListTypes DEF Position, Filed
<1>4. 1 \in DOMAIN toCollect
  BY <1>1
<1>5. Head(toCollect) = Collected[Filed + 1]
  BY <1>2, <1>4 DEF Position
<1>6. Filed + 1 \in DOMAIN Collected
  BY <1>3, ListTypes
<1>7. ASSUME NEW t PROVE IsFiled(t)' <=> IsFiled(t) \/ t = Head(toCollect)
  <2>1. 1..Filed' = (1..Filed) \cup {Filed + 1}
    BY <1>3
  <2> QED BY <1>5, <2>1 DEF IsFiled
<1>8. ASSUME NEW i \in DOMAIN toCollect' PROVE toCollect'[i] = Collected[Filed' + i]
  <2>1. i \in 1..(Len(toCollect) - 1) /\ i \in Nat
    BY <1>2
  <2>2. toCollect'[i] = Collected[Filed + (i + 1)]
    BY <1>2, <2>1 DEF Position
  <2>3. Filed + (i + 1) = Filed' + i
    BY <1>3, <2>1
  <2> QED BY <2>2, <2>3
<1> QED BY <1>2, <1>3, <1>5, <1>6, <1>7, <1>8 DEF ToSet

\* PassOver and PlanTest move the place that is planned on by one.
LEMMA PlanMoves ==
    ASSUME TypeOK, Position, pc = "plan", toPlan # <<>>, toPlan' = Tail(toPlan),
           UNCHANGED <<content, toRun, current>>
    PROVE  /\ Begun \in 1..Len(Executions) /\ Begun' = Begun /\ current = Executions[Begun]
           /\ current \in Execution
           /\ Past \in Nat /\ Past' = Past + 1
           /\ Past + 1 \in Places(Begun) /\ Named(Begun, Past + 1) = Head(toPlan)
           /\ Head(toPlan) \in Test
           /\ toPlan' \in Seq(Test) /\ Len(toPlan') <= Len(content[current])
           /\ \A i \in DOMAIN toPlan' : toPlan'[i] = content[current][Past' + i]
           /\ \A i \in 1..Begun : \A k \in Places(i) :
                 Passed(i, k)' <=> Passed(i, k) \/ (i = Begun /\ k = Past + 1)
<1>1. /\ Len(toPlan) \in Nat /\ Len(toPlan) > 0 /\ Head(toPlan) = toPlan[1]
      /\ Head(toPlan) \in Test /\ toPlan' \in Seq(Test)
      /\ Len(toPlan') = Len(toPlan) - 1 /\ DOMAIN toPlan' = 1..(Len(toPlan) - 1)
      /\ \A i \in 1..(Len(toPlan) - 1) : i + 1 \in DOMAIN toPlan /\ toPlan'[i] = toPlan[i + 1]
  <2>1. toPlan \in Seq(Test)
    BY DEF TypeOK
  <2> QED BY <2>1, HeadAndTail
<1>2. Begun \in 1..Len(Executions) /\ Begun' = Begun
  <2>1. Begun # 0
    BY DEF Position
  <2> QED BY <2>1, ListTypes DEF Position, Begun
<1>3. /\ current = Executions[Begun] /\ current \in Execution
      /\ Len(toPlan) <= Len(content[current])
      /\ \A i \in DOMAIN toPlan : toPlan[i] = content[current][Past + i]
  BY <1>2, ListTypes DEF Position
<1>4. /\ content[current] \in Seq(Test) /\ Len(content[current]) \in Nat
      /\ DOMAIN content[current] = 1..Len(content[current])
  BY <1>3, ListTypes
<1>5. Past \in Nat /\ Past' = Past + 1 /\ Past + 1 \in 1..Len(content[current])
  BY <1>1, <1>3, <1>4 DEF Past
<1>6. Past + 1 \in Places(Begun) /\ Named(Begun, Past + 1) = Head(toPlan)
  <2>1. 1 \in DOMAIN toPlan
    BY <1>1
  <2>2. Head(toPlan) = content[current][Past + 1]
    BY <1>1, <1>3, <2>1
  <2> QED BY <1>3, <1>4, <1>5, <2>2 DEF Places, Named
<1>7. ASSUME NEW i \in DOMAIN toPlan' PROVE toPlan'[i] = content[current][Past' + i]
  <2>1. i \in 1..(Len(toPlan) - 1) /\ i \in Nat
    BY <1>1
  <2>2. toPlan'[i] = content[current][Past + (i + 1)]
    BY <1>1, <1>3, <2>1
  <2>3. Past + (i + 1) = Past' + i
    BY <1>5, <2>1
  <2> QED BY <2>2, <2>3
<1>8. ASSUME NEW i \in 1..Begun, NEW k \in Places(i)
      PROVE  Passed(i, k)' <=> Passed(i, k) \/ (i = Begun /\ k = Past + 1)
  <2>1. CASE i < Begun
    BY <1>2, <2>1 DEF Passed
  <2>2. CASE i = Begun
    <3>1. k \in Nat
      BY <1>3, <1>4, <2>2 DEF Places
    <3>2. Passed(i, k)' <=> k <= Past + 1
      BY <1>2, <1>5, <2>2 DEF Passed
    <3>3. Passed(i, k) <=> k <= Past
      BY <1>2, <2>2 DEF Passed
    <3> QED BY <1>5, <2>2, <3>1, <3>2, <3>3
  <2> QED BY <1>2, <2>1, <2>2
<1>9. Len(toPlan') <= Len(content[current])
  BY <1>1, <1>3, <1>4
<1> QED BY <1>1, <1>2, <1>3, <1>5, <1>6, <1>7, <1>8, <1>9

\* NextExecution passes no place: it begins where the execution before it ends.
LEMMA NextMoves ==
    ASSUME TypeOK, Position, NextExecution
    PROVE  /\ Begun \in Nat /\ Begun' = Begun + 1 /\ Begun' <= Len(Executions)
           /\ current' = Executions[Begun'] /\ current' \in Execution
           /\ Past' = 0 /\ toRun' \in Seq(Execution)
           /\ toPlan' = content[current'] /\ toPlan' \in Seq(Test) /\ toPlan' # <<>>
           /\ \A i \in DOMAIN toRun' : toRun'[i] = Executions[Begun' + i]
           /\ \A i \in 1..Begun' : \A k \in Places(i) :
                 Passed(i, k)' <=> i \in 1..Begun /\ Passed(i, k)
<1>1. /\ Len(toRun) \in Nat /\ Len(toRun) > 0 /\ Head(toRun) = toRun[1]
      /\ Head(toRun) \in Execution /\ toRun' \in Seq(Execution)
      /\ Len(toRun') = Len(toRun) - 1 /\ DOMAIN toRun' = 1..(Len(toRun) - 1)
      /\ \A i \in 1..(Len(toRun) - 1) : i + 1 \in DOMAIN toRun /\ toRun'[i] = toRun[i + 1]
  <2>1. toRun \in Seq(Execution) /\ toRun # <<>> /\ toRun' = Tail(toRun)
    BY DEF NextExecution, TypeOK
  <2> QED BY <2>1, HeadAndTail
<1>2. /\ Begun \in Nat /\ Begun' = Begun + 1 /\ Begun' <= Len(Executions)
      /\ Len(Executions) \in Nat
  BY <1>1, ListTypes DEF Position, Begun
<1>3. current' = Executions[Begun'] /\ current' \in Execution
  <2>1. 1 \in DOMAIN toRun
    BY <1>1
  <2>2. Head(toRun) = Executions[Begun + 1]
    BY <1>1, <2>1 DEF Position
  <2> QED BY <1>1, <1>2, <2>2 DEF NextExecution
<1>4. toPlan' = content[current'] /\ toPlan' # <<>> /\ content' = content
  BY DEF NextExecution, inputs
<1>5. toPlan' \in Seq(Test) /\ Past' = 0
  BY <1>3, <1>4, ListTypes DEF Past
<1>6. ASSUME NEW i \in DOMAIN toRun' PROVE toRun'[i] = Executions[Begun' + i]
  <2>1. i \in 1..(Len(toRun) - 1) /\ i \in Nat
    BY <1>1
  <2>2. toRun'[i] = Executions[Begun + (i + 1)]
    BY <1>1, <2>1 DEF Position
  <2>3. Begun + (i + 1) = Begun' + i
    BY <1>2, <2>1
  <2> QED BY <2>2, <2>3
<1>7. ASSUME NEW i \in 1..Begun', NEW k \in Places(i)
      PROVE  Passed(i, k)' <=> i \in 1..Begun /\ Passed(i, k)
  <2>1. k \in Nat /\ k > 0 /\ k <= Len(content[Executions[i]])
    <3>1. i \in 1..Len(Executions)
      BY <1>2
    <3>2. content[Executions[i]] \in Seq(Test)
      BY <3>1, ListTypes
    <3> QED BY <3>2 DEF Places
  <2>2. CASE i = Begun'
    BY <1>2, <1>5, <2>1, <2>2 DEF Passed
  <2>3. CASE i # Begun'
    <3>1. i \in 1..Begun /\ Passed(i, k)'
      BY <1>2, <2>3 DEF Passed
    <3>2. i = Begun => Past = Len(content[Executions[i]])
      <4>1. SUFFICES ASSUME i = Begun PROVE Past = Len(content[current]) /\ current = Executions[i]
        OBVIOUS
      <4>2. current = Executions[Begun]
        BY <3>1, <4>1 DEF Position
      <4>3. Len(toPlan) = 0
        BY DEF NextExecution
      <4>4. Len(content[current]) \in Nat
        BY <1>2, <3>1, <4>1, <4>2, ListTypes
      <4> QED BY <4>1, <4>2, <4>3, <4>4 DEF Past
    <3>3. Passed(i, k)
      BY <1>2, <2>1, <3>1, <3>2 DEF Passed
    <3> QED BY <3>1, <3>3
  <2> QED BY <2>2, <2>3
<1> QED BY <1>1, <1>2, <1>3, <1>4, <1>5, <1>6, <1>7

-----------------------------------------------------------------------------
(* The steps that touch neither the lists nor the maps. *)

QuietStep == EndCollection \/ NoTests \/ PlanFails \/ EndPlan \/ EndEmission \/ Over

PlanLoopStep == PassOver \/ PlanTest

LEMMA StepKinds ==
    ASSUME [Next]_vars
    PROVE  \/ CollectTest \/ NextExecution \/ PassOver \/ PlanTest \/ QuietStep
           \/ UNCHANGED vars \/ \E m \in Mark : EmitTag(m)
BY DEF Next, QuietStep

LEMMA QuietFrame ==
    ASSUME QuietStep \/ UNCHANGED vars
    PROVE  UNCHANGED <<inputs, toCollect, loop, maps, executionOf, selected, messages>>
BY DEF QuietStep, EndCollection, NoTests, PlanFails, EndPlan, EndEmission, Over, vars

LEMMA StepPosition == ASSUME TypeOK, Position, [Next]_vars PROVE Position'
<1>1. CASE CollectTest
  <2>1. UNCHANGED <<pc, loop, content>> /\ pc = "collect"
    BY <1>1 DEF CollectTest, inputs
  <2>2. /\ Len(toCollect') <= Len(Collected)
        /\ \A i \in DOMAIN toCollect' : toCollect'[i] = Collected[Filed' + i]
    <3>1. Filed \in Nat /\ Filed' = Filed + 1 /\ toCollect' \in Seq(Test)
      BY <1>1, CollectMoves
    <3>2. Len(toCollect') \in Nat
      BY <3>1
    <3>3. Len(toCollect') <= Len(Collected)
      BY <3>1, <3>2, ListTypes DEF Filed
    <3> QED BY <1>1, <3>3, CollectMoves
  <2>3. Begun' = Begun /\ Past' = Past
    BY <2>1 DEF loop, Begun, Past
  <2> QED BY <2>1, <2>2, <2>3 DEF Position, loop
<1>2. CASE NextExecution
  <2>1. UNCHANGED <<pc, toCollect, content>> /\ pc = "plan"
    BY <1>2 DEF NextExecution, inputs
  <2>2. Filed' = Filed
    BY <2>1 DEF Filed
  <2>3. /\ Begun' = Begun + 1 /\ Begun' # 0 /\ Begun' <= Len(Executions) /\ Past' = 0
        /\ current' = Executions[Begun'] /\ current' \in Execution
        /\ toPlan' = content[current'] /\ toRun' \in Seq(Execution)
        /\ \A i \in DOMAIN toRun' : toRun'[i] = Executions[Begun' + i]
    BY <1>2, NextMoves
  <2>4. Len(toRun') <= Len(Executions)
    <3>1. Begun \in Nat /\ Len(toRun') \in Nat
      BY <1>2, <2>3, NextMoves
    <3> QED BY <2>3, <3>1, ListTypes DEF Begun
  <2>5. toPlan' \in Seq(Test) /\ Len(toPlan') = Len(content'[current'])
    BY <1>2, <2>1, <2>3, NextMoves
  <2>6. Len(toPlan') <= Len(content'[current'])
    BY <2>5
  <2>7. \A i \in DOMAIN toPlan' : toPlan'[i] = content'[current'][Past' + i]
    <3>1. \A i \in DOMAIN toPlan' : i \in Nat /\ 0 + i = i
      BY <2>5
    <3> QED BY <2>1, <2>3, <3>1
  <2> QED BY <2>1, <2>2, <2>3, <2>4, <2>6, <2>7 DEF Position
<1>3. CASE PassOver \/ PlanTest
  <2>1. /\ pc = "plan" /\ toPlan # <<>> /\ toPlan' = Tail(toPlan)
        /\ UNCHANGED <<pc, toCollect, content, toRun, current>>
    BY <1>3 DEF PassOver, PlanTest, inputs
  <2>2. /\ Begun \in 1..Len(Executions) /\ Begun' = Begun /\ current = Executions[Begun]
        /\ Len(toPlan') <= Len(content[current])
        /\ \A i \in DOMAIN toPlan' : toPlan'[i] = content[current][Past' + i]
    BY <2>1, PlanMoves
  <2>3. Filed' = Filed /\ Begun # 0
    BY <2>1, <2>2 DEF Filed
  <2> QED BY <2>1, <2>2, <2>3 DEF Position
<1>4. CASE QuietStep \/ UNCHANGED vars
  <2>1. UNCHANGED <<content, toCollect, toRun, current, toPlan>>
    BY <1>4, QuietFrame DEF inputs, loop
  <2>2. Filed' = Filed /\ Begun' = Begun /\ Past' = Past
    BY <2>1 DEF Filed, Begun, Past
  <2>3. /\ pc' = "collect" => pc = "collect"
        /\ pc' # "collect" => toCollect = <<>>
        /\ pc' \in {"emit", "done"} => toRun = <<>> /\ toPlan = <<>>
    BY <1>4 DEF QuietStep, EndCollection, NoTests, PlanFails, EndPlan, EndEmission,
                Over, vars, Position
  <2> QED BY <2>1, <2>2, <2>3 DEF Position
<1>5. ASSUME NEW m \in Mark, EmitTag(m) PROVE Position'
  <2>1. UNCHANGED <<pc, content, toCollect, toRun, current, toPlan>>
    BY <1>5 DEF EmitTag, inputs, loop
  <2>2. Filed' = Filed /\ Begun' = Begun /\ Past' = Past
    BY <2>1 DEF Filed, Begun, Past
  <2> QED BY <2>1, <2>2 DEF Position
<1> QED BY <1>1, <1>2, <1>3, <1>4, <1>5, StepKinds

-----------------------------------------------------------------------------
(* Types: of the lists, the maps, the groups and the messages. *)

ListsOK ==
    /\ marks \in [ToSet(Collected) -> MarkLists]
    /\ content \in Contents
    /\ toCollect \in Seq(Test)
    /\ toRun \in Seq(Execution)
    /\ current \in Execution \cup {NoExecution}
    /\ toPlan \in Seq(Test)
    /\ pc \in {"collect", "plan", "emit", "done", "failed"}

MapsOK ==
    /\ testMark \in [Test -> Feature \cup Base \cup {NoMark, Unknown}]
    /\ revTagMap \in [Mark -> Group]
    /\ skipTest \subseteq Test

GroupsOK ==
    /\ executionOf \in [Test -> Execution \cup {NoExecution}]
    /\ selected \in [Mark -> Group]

MessagesOK == messages \subseteq Message

LEMMA TypesInParts == TypeOK <=> ListsOK /\ MapsOK /\ GroupsOK /\ MessagesOK
BY DEF TypeOK, ListsOK, MapsOK, GroupsOK, MessagesOK

LEMMA AddTypes ==
    ASSUME NEW g \in Group, NEW t \in Test, NEW parallel \in BOOLEAN
    PROVE  /\ Add(g, t, parallel) \in Group
           /\ \A u : u \in Add(g, t, parallel).par <=> u \in g.par \/ (u = t /\ parallel)
           /\ \A u : u \in Add(g, t, parallel).seq <=> u \in g.seq \/ (u = t /\ ~parallel)
<1>1. CASE parallel
  BY <1>1 DEF Add, Group
<1>2. CASE ~parallel
  BY <1>2 DEF Add, Group
<1> QED BY <1>1, <1>2

LEMMA StepLists == ASSUME TypeOK, Position, [Next]_vars PROVE ListsOK'
<1> USE DEF ListsOK
<1>0. ListsOK
  BY TypesInParts
<1>1. CASE CollectTest
  <2>1. UNCHANGED <<inputs, pc, loop>> /\ toCollect' \in Seq(Test)
    BY <1>1, CollectMoves DEF CollectTest
  <2> QED BY <1>0, <2>1 DEF inputs, loop
<1>2. CASE NextExecution
  <2>1. UNCHANGED <<inputs, pc, toCollect>>
    BY <1>2 DEF NextExecution
  <2>2. current' \in Execution /\ toRun' \in Seq(Execution) /\ toPlan' \in Seq(Test)
    BY <1>2, NextMoves
  <2> QED BY <1>0, <2>1, <2>2 DEF inputs
<1>3. CASE PassOver \/ PlanTest
  <2>1. /\ pc = "plan" /\ toPlan # <<>> /\ toPlan' = Tail(toPlan)
        /\ UNCHANGED <<inputs, pc, toCollect, content, toRun, current>>
    BY <1>3 DEF PassOver, PlanTest, inputs
  <2>2. toPlan' \in Seq(Test)
    BY <2>1, PlanMoves
  <2> QED BY <1>0, <2>1, <2>2 DEF inputs
<1>4. CASE QuietStep \/ UNCHANGED vars
  <2>1. UNCHANGED <<inputs, toCollect, loop>>
    BY <1>4, QuietFrame
  <2>2. pc' \in {"collect", "plan", "emit", "done", "failed"}
    BY <1>0, <1>4 DEF QuietStep, EndCollection, NoTests, PlanFails, EndPlan, EndEmission,
                      Over, vars
  <2> QED BY <1>0, <2>1, <2>2 DEF inputs, loop
<1>5. ASSUME NEW m \in Mark, EmitTag(m) PROVE ListsOK'
  BY <1>0, <1>5 DEF EmitTag, inputs, loop
<1> QED BY <1>1, <1>2, <1>3, <1>4, <1>5, StepKinds

\* What CollectTest does to the maps, place by place.
LEMMA Files ==
    ASSUME TypeOK, Position, CollectTest
    PROVE  LET t == Head(toCollect) IN
           /\ testMark' = [testMark EXCEPT ![t] = TestMark(t)]
           /\ \A u : u \in skipTest' <=> u \in skipTest \/ (u = t /\ Skip \in ToSet(marks[t]))
           /\ revTagMap' \in [Mark -> Group]
           /\ \A m \in Mark : \A u :
                 /\ u \in revTagMap'[m].par <=>
                      u \in revTagMap[m].par \/ (u = t /\ m \in FiledUnder(t) /\ IsParallel(t))
                 /\ u \in revTagMap'[m].seq <=>
                      u \in revTagMap[m].seq \/ (u = t /\ m \in FiledUnder(t) /\ ~IsParallel(t))
<1> DEFINE t == Head(toCollect)
<1>1. t \in Test
  BY CollectMoves
<1>2. revTagMap' = [m \in Mark |-> IF m \in FiledUnder(t)
                                   THEN Add(revTagMap[m], t, IsParallel(t))
                                   ELSE revTagMap[m]]
  BY DEF CollectTest
<1>3. testMark' = [testMark EXCEPT ![t] = TestMark(t)]
  BY DEF CollectTest
<1>4. \A u : u \in skipTest' <=> u \in skipTest \/ (u = t /\ Skip \in ToSet(marks[t]))
  BY DEF CollectTest
<1>5. revTagMap \in [Mark -> Group] /\ IsParallel(t) \in BOOLEAN
  BY DEF TypeOK, IsParallel
<1> HIDE DEF t
<1>6. ASSUME NEW m \in Mark
      PROVE  /\ revTagMap'[m] \in Group
             /\ \A u :
                 /\ u \in revTagMap'[m].par <=>
                      u \in revTagMap[m].par \/ (u = t /\ m \in FiledUnder(t) /\ IsParallel(t))
                 /\ u \in revTagMap'[m].seq <=>
                      u \in revTagMap[m].seq \/ (u = t /\ m \in FiledUnder(t) /\ ~IsParallel(t))
  <2>1. revTagMap[m] \in Group
    BY <1>5
  <2>2. CASE m \in FiledUnder(t)
    <3>1. revTagMap'[m] = Add(revTagMap[m], t, IsParallel(t))
      BY <1>2, <2>2
    <3> DEFINE g == revTagMap[m]
               b == IsParallel(t)
    <3>2. g \in Group /\ b \in BOOLEAN /\ revTagMap'[m] = Add(g, t, b)
      BY <1>5, <2>1, <3>1
    <3> HIDE DEF g, b
    <3>3. /\ revTagMap'[m] \in Group
          /\ \A u : u \in revTagMap'[m].par <=> u \in g.par \/ (u = t /\ b)
          /\ \A u : u \in revTagMap'[m].seq <=> u \in g.seq \/ (u = t /\ ~b)
      BY <1>1, <3>2, AddTypes
    <3> QED BY <2>2, <3>3 DEF g, b
  <2>3. CASE m \notin FiledUnder(t)
    BY <1>2, <2>1, <2>3
  <2> QED BY <2>2, <2>3
<1>7. revTagMap' \in [Mark -> Group]
  BY <1>2, <1>6
<1> QED BY <1>3, <1>4, <1>6, <1>7 DEF t

LEMMA StepMaps == ASSUME TypeOK, Position, [Next]_vars PROVE MapsOK'
<1>0. MapsOK
  BY TypesInParts
<1>1. CASE CollectTest
  <2> DEFINE t == Head(toCollect)
  <2>1. t \in Test /\ t \in ToSet(Collected)
    BY <1>1, CollectMoves
  <2>2. TestMark(t) \in Feature \cup Base \cup {NoMark}
    BY <2>1, MarkTypes
  <2>3. testMark' = [testMark EXCEPT ![t] = TestMark(t)] /\ revTagMap' \in [Mark -> Group]
    BY <1>1, Files
  <2>4. \A u \in skipTest' : u \in Test
    BY <1>0, <1>1, <2>1, Files DEF MapsOK
  <2> HIDE DEF t
  <2>5. testMark' \in [Test -> Feature \cup Base \cup {NoMark, Unknown}]
    BY <1>0, <2>1, <2>2, <2>3 DEF MapsOK
  <2> QED BY <2>3, <2>4, <2>5 DEF MapsOK
<1>2. CASE NextExecution \/ PassOver \/ PlanTest
  BY <1>0, <1>2 DEF NextExecution, PassOver, PlanTest, maps, MapsOK
<1>3. CASE QuietStep \/ UNCHANGED vars
  BY <1>0, <1>3, QuietFrame DEF maps, MapsOK
<1>4. ASSUME NEW m \in Mark, EmitTag(m) PROVE MapsOK'
  BY <1>0, <1>4 DEF EmitTag, maps, MapsOK
<1> QED BY <1>1, <1>2, <1>3, <1>4, StepKinds

\* What PlanTest does to the groups, place by place.
LEMMA Selects ==
    ASSUME TypeOK, Position, PlanTest
    PROVE  LET t == Head(toPlan)
               m == testMark[t]
           IN
           /\ t \in Test /\ current \in Execution
           /\ executionOf' = [executionOf EXCEPT ![t] = current]
           /\ selected' \in [Mark -> Group]
           /\ \A n \in Mark : \A u :
                 LET new == u = t /\ n = m /\ revTagMap[n] # NoGroup IN
                 /\ u \in selected'[n].par <=>
                      u \in selected[n].par \/ (new /\ u \in revTagMap[n].par)
                 /\ u \in selected'[n].seq <=>
                      u \in selected[n].seq \/ (new /\ u \notin revTagMap[n].par)
<1> DEFINE t == Head(toPlan)
           m == testMark[t]
           isPar == t \in revTagMap[m].par
<1>1. /\ t \in Test /\ current \in Execution
  <2>1. /\ pc = "plan" /\ toPlan # <<>> /\ toPlan' = Tail(toPlan)
        /\ UNCHANGED <<content, toRun, current>>
    BY DEF PlanTest, inputs
  <2> QED BY <2>1, PlanMoves
<1>2. /\ executionOf' = [executionOf EXCEPT ![t] = current]
      /\ selected' = IF revTagMap[m] = NoGroup THEN selected
                     ELSE [selected EXCEPT ![m] = Add(@, t, isPar)]
  BY DEF PlanTest, Select
<1>3. selected \in [Mark -> Group] /\ isPar \in BOOLEAN
  BY DEF TypeOK
<1>4. m \in Mark
  <2>1. m \in Feature \cup Base
    BY <1>1 DEF TypeOK, PlanTest, Plannable
  <2> HIDE DEF m
  <2> QED BY <2>1 DEF Mark
<1>5. \A u : (u = t => (isPar <=> u \in revTagMap[m].par))
  OBVIOUS
<1> HIDE DEF t, m, isPar
<1>6. ASSUME NEW n \in Mark
      PROVE  /\ selected'[n] \in Group
             /\ \A u :
                 LET new == u = t /\ n = m /\ revTagMap[n] # NoGroup IN
                 /\ u \in selected'[n].par <=>
                      u \in selected[n].par \/ (new /\ u \in revTagMap[n].par)
                 /\ u \in selected'[n].seq <=>
                      u \in selected[n].seq \/ (new /\ u \notin revTagMap[n].par)
  <2>1. selected[n] \in Group
    BY <1>3
  <2>2. CASE n = m /\ revTagMap[n] # NoGroup
    <3>1. selected'[n] = Add(selected[n], t, isPar)
      BY <1>2, <1>3, <1>4, <2>2
    <3> DEFINE g == selected[n]
    <3>2. g \in Group /\ selected'[n] = Add(g, t, isPar)
      BY <2>1, <3>1
    <3> HIDE DEF g
    <3>3. /\ selected'[n] \in Group
          /\ \A u : u \in selected'[n].par <=> u \in g.par \/ (u = t /\ isPar)
          /\ \A u : u \in selected'[n].seq <=> u \in g.seq \/ (u = t /\ ~isPar)
      BY <1>1, <1>3, <3>2, AddTypes
    <3> QED BY <1>5, <2>2, <3>3 DEF g
  <2>3. CASE ~(n = m /\ revTagMap[n] # NoGroup)
    <3>1. selected'[n] = selected[n]
      BY <1>2, <1>3, <2>3
    <3> QED BY <2>1, <2>3, <3>1
  <2> QED BY <2>2, <2>3
<1>7. selected' \in [Mark -> Group]
  <2>1. selected' = selected \/ selected' = [selected EXCEPT ![m] = Add(@, t, isPar)]
    BY <1>2
  <2> QED BY <1>3, <1>6, <2>1
<1> QED BY <1>1, <1>2, <1>6, <1>7 DEF t, m

LEMMA StepGroups == ASSUME TypeOK, Position, [Next]_vars PROVE GroupsOK'
<1>0. GroupsOK
  BY TypesInParts
<1>1. CASE PlanTest
  <2> DEFINE t == Head(toPlan)
  <2>1. /\ t \in Test /\ current \in Execution /\ selected' \in [Mark -> Group]
        /\ executionOf' = [executionOf EXCEPT ![t] = current]
    BY <1>1, Selects
  <2> HIDE DEF t
  <2> QED BY <1>0, <2>1 DEF GroupsOK
<1>2. CASE CollectTest \/ NextExecution \/ PassOver
  BY <1>0, <1>2 DEF CollectTest, NextExecution, PassOver, GroupsOK
<1>3. CASE QuietStep \/ UNCHANGED vars
  BY <1>0, <1>3, QuietFrame DEF GroupsOK
<1>4. ASSUME NEW m \in Mark, EmitTag(m) PROVE GroupsOK'
  BY <1>0, <1>4 DEF EmitTag, GroupsOK
<1> QED BY <1>1, <1>2, <1>3, <1>4, StepKinds

\* What EmitTag puts into the queue.
LEMMA Emits ==
    ASSUME TypeOK, Grouping, NEW m \in Mark, EmitTag(m)
    PROVE  \E a \in Message :
              /\ a.tag = m /\ a.parallel /\ a.tests = selected[m].par
              /\ messages' \subseteq Message
              /\ \A b : b \in messages' <=>
                    \/ b \in messages \/ b = a
                    \/ \E s \in selected[m].seq :
                          b = [tag |-> m, parallel |-> FALSE, tests |-> {s},
                               execution |-> executionOf[s]]
<1> DEFINE group == selected[m]
<1>1. group \in Group /\ group.par \subseteq Test /\ group.seq \subseteq Test
  BY DEF TypeOK, Group
<1>2. \A t \in Members(group) : t \in Test /\ executionOf[t] \in Execution
  BY <1>1 DEF Grouping, Members, TypeOK
<1>3. PICK t \in IF group.par # {} THEN group.par ELSE group.seq :
         messages' = messages
             \cup {[tag |-> m, parallel |-> TRUE, tests |-> group.par,
                    execution |-> executionOf[t]]}
             \cup {[tag |-> m, parallel |-> FALSE, tests |-> {s},
                    execution |-> executionOf[s]] : s \in group.seq}
  BY DEF EmitTag
<1> DEFINE a == [tag |-> m, parallel |-> TRUE, tests |-> group.par,
                 execution |-> executionOf[t]]
<1>4. a \in Message
  <2>1. t \in Members(group)
    BY <1>3 DEF Members
  <2> QED BY <1>1, <1>2, <2>1 DEF Message
<1>5. \A s \in group.seq :
         [tag |-> m, parallel |-> FALSE, tests |-> {s}, execution |-> executionOf[s]]
            \in Message
  BY <1>1, <1>2 DEF Message, Members
<1>6. \A b : b \in messages' <=>
         \/ b \in messages \/ b = a
         \/ \E s \in group.seq :
               b = [tag |-> m, parallel |-> FALSE, tests |-> {s},
                    execution |-> executionOf[s]]
  BY <1>3
<1>7. ASSUME NEW b \in messages' PROVE b \in Message
  <2>1. CASE b \in messages
    BY <2>1 DEF TypeOK
  <2>2. CASE b = a
    BY <1>4, <2>2
  <2>3. CASE \E s \in group.seq :
               b = [tag |-> m, parallel |-> FALSE, tests |-> {s},
                    execution |-> executionOf[s]]
    BY <1>5, <2>3
  <2> QED BY <1>6, <2>1, <2>2, <2>3
<1>8. messages' \subseteq Message
  BY <1>7
<1>9. a.tag = m /\ a.parallel /\ a.tests = selected[m].par
  OBVIOUS
<1> QED BY <1>4, <1>6, <1>8, <1>9

LEMMA StepMessages == ASSUME TypeOK, Grouping, [Next]_vars PROVE MessagesOK'
<1>1. ASSUME NEW m \in Mark, EmitTag(m) PROVE MessagesOK'
  BY <1>1, Emits DEF MessagesOK
<1>2. CASE CollectTest \/ NextExecution \/ PassOver \/ PlanTest
  BY <1>2 DEF CollectTest, NextExecution, PassOver, PlanTest, TypeOK, MessagesOK
<1>3. CASE QuietStep \/ UNCHANGED vars
  BY <1>3, QuietFrame DEF TypeOK, MessagesOK
<1> QED BY <1>1, <1>2, <1>3, StepKinds

-----------------------------------------------------------------------------
(* The maps follow the collected tests. *)

LEMMA MarksKept ==
    ASSUME marks' = marks
    PROVE  \A t : /\ TestMark(t)' = TestMark(t) /\ FiledUnder(t)' = FiledUnder(t)
                  /\ IsParallel(t)' <=> IsParallel(t)
BY DEF TestMark, FiledUnder, IsParallel, MarksIn, At

LEMMA StepFiling == ASSUME TypeOK, Position, Filing, [Next]_vars PROVE Filing'
<1>1. CASE CollectTest
  <2> DEFINE t == Head(toCollect)
  <2>1. marks' = marks
    BY <1>1 DEF CollectTest, inputs
  <2>2. t \in Test /\ \A u : IsFiled(u)' <=> IsFiled(u) \/ u = t
    BY <1>1, CollectMoves
  <2>3. /\ testMark' = [testMark EXCEPT ![t] = TestMark(t)]
        /\ \A u : u \in skipTest' <=> u \in skipTest \/ (u = t /\ Skip \in ToSet(marks[t]))
        /\ \A m \in Mark : \A u :
             /\ u \in revTagMap'[m].par <=>
                  u \in revTagMap[m].par \/ (u = t /\ m \in FiledUnder(t) /\ IsParallel(t))
             /\ u \in revTagMap'[m].seq <=>
                  u \in revTagMap[m].seq \/ (u = t /\ m \in FiledUnder(t) /\ ~IsParallel(t))
    BY <1>1, Files
  <2> HIDE DEF t
  <2>4. ASSUME NEW u \in Test
        PROVE  /\ testMark'[u] = IF IsFiled(u)' THEN TestMark(u)' ELSE Unknown
               /\ u \in skipTest' <=> IsFiled(u)' /\ Skip \in ToSet(marks'[u])
    <3>1. testMark'[u] = IF u = t THEN TestMark(t) ELSE testMark[u]
      BY <2>3 DEF TypeOK
    <3>2. /\ testMark[u] = IF IsFiled(u) THEN TestMark(u) ELSE Unknown
          /\ u \in skipTest <=> IsFiled(u) /\ Skip \in ToSet(marks[u])
      BY DEF Filing
    <3>3. TestMark(u)' = TestMark(u)
      BY <2>1, MarksKept
    <3>4. testMark'[u] = IF IsFiled(u)' THEN TestMark(u)' ELSE Unknown
      BY <2>2, <3>1, <3>2, <3>3
    <3>5. u \in skipTest' <=> IsFiled(u)' /\ Skip \in ToSet(marks'[u])
      BY <2>1, <2>2, <2>3, <3>2
    <3> QED BY <3>4, <3>5
  <2>5. ASSUME NEW m \in Mark, NEW u \in Test
        PROVE  /\ u \in revTagMap'[m].par <=> IsFiled(u)' /\ m \in FiledUnder(u)' /\ IsParallel(u)'
               /\ u \in revTagMap'[m].seq <=> IsFiled(u)' /\ m \in FiledUnder(u)' /\ ~IsParallel(u)'
    <3>1. /\ u \in revTagMap[m].par <=> IsFiled(u) /\ m \in FiledUnder(u) /\ IsParallel(u)
          /\ u \in revTagMap[m].seq <=> IsFiled(u) /\ m \in FiledUnder(u) /\ ~IsParallel(u)
      BY DEF Filing
    <3>2. FiledUnder(u)' = FiledUnder(u) /\ (IsParallel(u)' <=> IsParallel(u))
      BY <2>1, MarksKept
    <3> QED BY <2>2, <2>3, <3>1, <3>2
  <2> QED BY <2>4, <2>5 DEF Filing
<1>2. ASSUME UNCHANGED <<marks, toCollect, maps>> PROVE Filing'
  <2>1. \A t : IsFiled(t)' <=> IsFiled(t)
    BY <1>2 DEF IsFiled, Filed
  <2>2. \A t : /\ TestMark(t)' = TestMark(t) /\ FiledUnder(t)' = FiledUnder(t)
               /\ IsParallel(t)' <=> IsParallel(t)
    BY <1>2, MarksKept
  <2>3. UNCHANGED <<marks, testMark, skipTest, revTagMap>>
    BY <1>2 DEF maps
  <2> QED BY <2>1, <2>2, <2>3 DEF Filing
<1>3. CASE NextExecution \/ PassOver \/ PlanTest
  BY <1>2, <1>3 DEF NextExecution, PassOver, PlanTest, inputs
<1>4. CASE QuietStep \/ UNCHANGED vars
  BY <1>2, <1>4, QuietFrame DEF inputs
<1>5. ASSUME NEW m \in Mark, EmitTag(m) PROVE Filing'
  BY <1>2, <1>5 DEF EmitTag, inputs
<1> QED BY <1>1, <1>3, <1>4, <1>5, StepKinds

-----------------------------------------------------------------------------
(* The groups follow the places that the loops have passed. *)

\* Before the first execution nothing is planned, and during the collection
\* none has begun.
LEMMA NothingPlanned ==
    ASSUME TypeOK, Position, Planning, pc = "collect"
    PROVE  Begun = 0 /\ \A t \in Test : executionOf[t] = NoExecution
BY DEF Position, Planning

LEMMA StepPlanning == ASSUME TypeOK, Position, Planning, [Next]_vars PROVE Planning'
<1>1. ASSUME content' = content
      PROVE  \A i, k : Named(i, k)' = Named(i, k) /\ Places(i)' = Places(i)
  BY <1>1 DEF Named, Places
<1>2. ASSUME UNCHANGED maps PROVE \A t : Plannable(t)' <=> Plannable(t)
  BY <1>2 DEF maps, Plannable
<1>3. CASE CollectTest
  <2>1. Begun' = 0 /\ Begun \in Int
    BY <1>3, NothingPlanned, ListTypes DEF CollectTest, loop, Begun
  <2>2. \A t \in Test : executionOf'[t] = NoExecution
    BY <1>3, NothingPlanned DEF CollectTest
  <2> QED BY <2>1, <2>2 DEF Planning
\* A step that plans nothing, and passes only places of tests to pass over.
<1>4. ASSUME UNCHANGED <<content, maps, executionOf>>,
             \A i \in 1..Begun' : \A k \in Places(i) :
                Passed(i, k)' /\ Plannable(Named(i, k)) => i \in 1..Begun /\ Passed(i, k),
             \A i \in 1..Begun : \A k \in Places(i) :
                Passed(i, k) => i \in 1..Begun' /\ Passed(i, k)'
      PROVE  Planning'
  <2>1. ASSUME NEW t \in Test, executionOf'[t] # NoExecution
        PROVE  /\ Plannable(t)'
               /\ \E i \in 1..Begun' : \E k \in Places(i)' :
                     Passed(i, k)' /\ Named(i, k)' = t /\ executionOf'[t] = Executions[i]
    <3>1. executionOf[t] # NoExecution /\ executionOf'[t] = executionOf[t]
      BY <1>4, <2>1
    <3>2. Plannable(t)
      BY <3>1 DEF Planning
    <3>3. PICK i \in 1..Begun : \E k \in Places(i) :
             Passed(i, k) /\ Named(i, k) = t /\ executionOf[t] = Executions[i]
      BY <3>1 DEF Planning
    <3>4. PICK k \in Places(i) :
             Passed(i, k) /\ Named(i, k) = t /\ executionOf[t] = Executions[i]
      BY <3>3
    <3>5. i \in 1..Begun' /\ Passed(i, k)'
      BY <1>4, <3>4
    <3>6. Named(i, k)' = Named(i, k) /\ Places(i)' = Places(i)
      BY <1>1, <1>4
    <3>7. k \in Places(i)' /\ Named(i, k)' = t /\ executionOf'[t] = Executions[i]
      BY <3>1, <3>4, <3>6
    <3>8. Plannable(t)'
      BY <1>2, <1>4, <3>2
    <3>9. \E l \in Places(i)' :
             Passed(i, l)' /\ Named(i, l)' = t /\ executionOf'[t] = Executions[i]
      BY <3>5, <3>7
    <3> QED BY <3>5, <3>8, <3>9
  <2>2. ASSUME NEW i \in 1..Begun', NEW k \in Places(i)', Passed(i, k)', Plannable(Named(i, k))'
        PROVE  executionOf'[Named(i, k)'] # NoExecution
    <3>1. Named(i, k)' = Named(i, k) /\ Places(i)' = Places(i)
      BY <1>1, <1>4
    <3>2. Plannable(Named(i, k))
      BY <1>2, <1>4, <2>2, <3>1
    <3>3. i \in 1..Begun /\ Passed(i, k)
      BY <1>4, <2>2, <3>1, <3>2
    <3>4. executionOf[Named(i, k)] # NoExecution
      BY <3>1, <3>2, <3>3 DEF Planning
    <3> QED BY <1>4, <3>1, <3>4
  <2> QED BY <2>1, <2>2 DEF Planning
<1>5. CASE NextExecution
  <2>1. UNCHANGED <<content, maps, executionOf>>
    BY <1>5 DEF NextExecution, inputs
  <2>2. Begun \in Nat /\ Begun' = Begun + 1
    BY <1>5, NextMoves
  <2>3. \A i \in 1..Begun' : \A k \in Places(i) :
           Passed(i, k)' <=> i \in 1..Begun /\ Passed(i, k)
    BY <1>5, NextMoves
  <2>4. \A i \in 1..Begun : i \in 1..Begun'
    BY <2>2
  <2> QED BY <1>4, <2>1, <2>3, <2>4
<1>6. CASE PassOver
  <2>1. /\ pc = "plan" /\ toPlan # <<>> /\ toPlan' = Tail(toPlan)
        /\ UNCHANGED <<content, toRun, current, maps, executionOf>>
    BY <1>6 DEF PassOver, inputs
  <2>2. /\ Begun' = Begun /\ Named(Begun, Past + 1) = Head(toPlan)
        /\ \A i \in 1..Begun : \A k \in Places(i) :
              Passed(i, k)' <=> Passed(i, k) \/ (i = Begun /\ k = Past + 1)
    BY <2>1, PlanMoves
  <2>3. ~Plannable(Named(Begun, Past + 1))
    BY <1>6, <2>2 DEF PassOver
  <2> QED BY <1>4, <2>1, <2>2, <2>3
<1>7. CASE PlanTest
  <2> DEFINE t == Head(toPlan)
  <2>1. /\ pc = "plan" /\ toPlan # <<>> /\ toPlan' = Tail(toPlan)
        /\ UNCHANGED <<content, toRun, current, maps>>
        /\ Plannable(t) /\ executionOf[t] = NoExecution
    BY <1>7 DEF PlanTest, inputs
  <2>2. t \in Test /\ current \in Execution /\ executionOf' = [executionOf EXCEPT ![t] = current]
    BY <1>7, Selects
  <2>3. /\ Begun \in 1..Len(Executions) /\ Begun' = Begun /\ current = Executions[Begun]
        /\ Past + 1 \in Places(Begun) /\ Named(Begun, Past + 1) = t
        /\ \A i \in 1..Begun : \A k \in Places(i) :
              Passed(i, k)' <=> Passed(i, k) \/ (i = Begun /\ k = Past + 1)
    BY <2>1, PlanMoves
  <2>4. \A i, k : Named(i, k)' = Named(i, k) /\ Places(i)' = Places(i)
    BY <1>1, <2>1
  <2>5. \A u : Plannable(u)' <=> Plannable(u)
    BY <1>2, <2>1
  <2>6. Begun \in 1..Begun /\ 1..Begun' = 1..Begun
    BY <2>3, ListTypes
  <2> HIDE DEF t
  <2>7. /\ executionOf'[t] = current /\ current # NoExecution
        /\ \A u \in Test \ {t} : executionOf'[u] = executionOf[u]
    BY <2>2, PlanAssumption DEF TypeOK
  <2>8. ASSUME NEW u \in Test, executionOf'[u] # NoExecution
        PROVE  /\ Plannable(u)'
               /\ \E i \in 1..Begun' : \E k \in Places(i)' :
                     Passed(i, k)' /\ Named(i, k)' = u /\ executionOf'[u] = Executions[i]
    <3>1. CASE u = t
      <4> PICK i \in 1..Begun : i = Begun
        BY <2>6
      <4> PICK k \in Places(i) : k = Past + 1
        BY <2>3
      <4>1. Passed(i, k)'
        BY <2>3
      <4>2. Named(i, k)' = u /\ executionOf'[u] = Executions[i]
        BY <2>3, <2>4, <2>7, <3>1
      <4>3. Plannable(u)' /\ k \in Places(i)'
        BY <2>1, <2>4, <2>5, <3>1
      <4> QED BY <2>6, <4>1, <4>2, <4>3
    <3>2. CASE u # t
      <4>1. executionOf'[u] = executionOf[u]
        BY <2>7, <3>2
      <4>2. Plannable(u)
        BY <2>8, <4>1 DEF Planning
      <4>3. PICK i \in 1..Begun : \E k \in Places(i) :
               Passed(i, k) /\ Named(i, k) = u /\ executionOf[u] = Executions[i]
        BY <2>8, <4>1 DEF Planning
      <4>4. PICK k \in Places(i) :
               Passed(i, k) /\ Named(i, k) = u /\ executionOf[u] = Executions[i]
        BY <4>3
      <4>5. Passed(i, k)'
        BY <2>3, <4>4
      <4>6. k \in Places(i)' /\ Named(i, k)' = u /\ executionOf'[u] = Executions[i]
        BY <2>4, <4>1, <4>4
      <4>7. Plannable(u)'
        BY <2>5, <4>2
      <4> QED BY <2>6, <4>5, <4>6, <4>7
    <3> QED BY <3>1, <3>2
  <2>9. ASSUME NEW i \in 1..Begun', NEW k \in Places(i)', Passed(i, k)', Plannable(Named(i, k))'
        PROVE  executionOf'[Named(i, k)'] # NoExecution
    <3>1. i \in 1..Begun /\ k \in Places(i) /\ Named(i, k)' = Named(i, k)
      BY <2>4, <2>6
    <3>2. Plannable(Named(i, k))
      BY <2>5, <2>9, <3>1
    <3>3. CASE Named(i, k) = t
      BY <2>7, <3>1, <3>3
    <3>4. CASE Named(i, k) # t
      <4>1. Passed(i, k)
        BY <2>3, <2>9, <3>1, <3>4
      <4>2. executionOf[Named(i, k)] # NoExecution
        BY <3>1, <3>2, <4>1 DEF Planning
      <4>3. Named(i, k) \in Test
        <5>1. i \in 1..Len(Executions)
          BY <2>3, <3>1, ListTypes
        <5>2. content[Executions[i]] \in Seq(Test)
          BY <5>1, ListTypes
        <5> QED BY <3>1, <5>2 DEF Named, Places
      <4> QED BY <2>7, <3>1, <3>4, <4>2, <4>3
    <3> QED BY <3>3, <3>4
  <2> QED BY <2>8, <2>9 DEF Planning
<1>8. ASSUME UNCHANGED <<content, toCollect, loop, maps, executionOf>> PROVE Planning'
  <2>1. Begun' = Begun /\ Past' = Past
    BY <1>8, LoopFrame
  <2>2. \A i, k : Passed(i, k)' <=> Passed(i, k)
    BY <2>1 DEF Passed
  <2> QED BY <1>4, <1>8, <2>1, <2>2
<1>9. CASE QuietStep \/ UNCHANGED vars
  BY <1>8, <1>9, QuietFrame DEF inputs
<1>10. ASSUME NEW m \in Mark, EmitTag(m) PROVE Planning'
  BY <1>8, <1>10 DEF EmitTag, inputs
<1> QED BY <1>3, <1>5, <1>6, <1>7, <1>9, <1>10, StepKinds

\* A group has the planned tests of its mark, each where it was filed.
LEMMA StepGrouping ==
    ASSUME TypeOK, Position, Planning, Grouping, [Next]_vars PROVE Grouping'
<1>1. CASE CollectTest
  <2>1. /\ \A t \in Test : executionOf[t] = NoExecution
        /\ UNCHANGED <<executionOf, selected>>
    BY <1>1, NothingPlanned DEF CollectTest
  <2>2. \A m \in Mark, t \in Test : t \notin selected[m].par /\ t \notin selected[m].seq
    BY <2>1 DEF Grouping
  <2> QED BY <2>1, <2>2 DEF Grouping
<1>2. CASE PlanTest
  <2> DEFINE t == Head(toPlan)
             m == testMark[t]
  <2>1. UNCHANGED <<testMark, revTagMap>> /\ executionOf[t] = NoExecution
    BY <1>2 DEF PlanTest, maps
  <2>2. /\ t \in Test /\ current \in Execution
        /\ executionOf' = [executionOf EXCEPT ![t] = current]
        /\ \A n \in Mark : \A u :
              LET new == u = t /\ n = m /\ revTagMap[n] # NoGroup IN
              /\ u \in selected'[n].par <=>
                   u \in selected[n].par \/ (new /\ u \in revTagMap[n].par)
              /\ u \in selected'[n].seq <=>
                   u \in selected[n].seq \/ (new /\ u \notin revTagMap[n].par)
    BY <1>2, Selects
  <2> HIDE DEF t
  <2>3. /\ executionOf'[t] = current /\ current # NoExecution
        /\ \A u \in Test \ {t} : executionOf'[u] = executionOf[u]
    BY <2>2, PlanAssumption DEF TypeOK
  <2>4. ASSUME NEW n \in Mark, NEW u \in Test
        PROVE  LET planned == executionOf'[u] # NoExecution /\ testMark'[u] = n
                                  /\ revTagMap'[n] # NoGroup
               IN  /\ u \in selected'[n].par <=> planned /\ u \in revTagMap'[n].par
                   /\ u \in selected'[n].seq <=> planned /\ u \notin revTagMap'[n].par
    <3>1. LET planned == executionOf[u] # NoExecution /\ testMark[u] = n
                             /\ revTagMap[n] # NoGroup
          IN  /\ u \in selected[n].par <=> planned /\ u \in revTagMap[n].par
              /\ u \in selected[n].seq <=> planned /\ u \notin revTagMap[n].par
      BY DEF Grouping
    <3>2. CASE u = t
      BY <2>1, <2>2, <2>3, <3>1, <3>2
    <3>3. CASE u # t
      BY <2>1, <2>2, <2>3, <3>1, <3>3
    <3> QED BY <3>2, <3>3
  <2> QED BY <2>4 DEF Grouping
<1>3. CASE NextExecution \/ PassOver
  BY <1>3 DEF NextExecution, PassOver, maps, Grouping
<1>4. CASE QuietStep \/ UNCHANGED vars
  BY <1>4, QuietFrame DEF maps, Grouping
<1>5. ASSUME NEW m \in Mark, EmitTag(m) PROVE Grouping'
  BY <1>5 DEF EmitTag, maps, Grouping
<1> QED BY <1>1, <1>2, <1>3, <1>4, <1>5, StepKinds

-----------------------------------------------------------------------------
(* The messages follow the groups. *)

LEMMA StepEmission ==
    ASSUME TypeOK, Grouping, Emission, [Next]_vars PROVE Emission'
<1>1. CASE CollectTest \/ NextExecution \/ PassOver \/ PlanTest
  <2>1. pc' = pc /\ pc \in {"collect", "plan"} /\ messages' = messages
    BY <1>1 DEF CollectTest, NextExecution, PassOver, PlanTest
  <2>2. messages' = {}
    BY <2>1 DEF Emission
  <2> QED BY <2>1, <2>2 DEF Emission, Emitted
<1>2. CASE QuietStep \/ UNCHANGED vars
  <2>1. UNCHANGED <<executionOf, selected, messages>>
    BY <1>2, QuietFrame
  <2>2. /\ pc' \in {"collect", "plan", "failed"} => pc \in {"collect", "plan", "failed"}
        /\ pc' = "done" => pc = "done" \/ \A m \in Mark : selected[m] # NoGroup => Emitted(m)
    BY <1>2 DEF QuietStep, EndCollection, NoTests, PlanFails, EndPlan, EndEmission, Over, vars
  <2>3. \A m : Emitted(m)' <=> Emitted(m)
    BY <2>1 DEF Emitted
  <2>4. pc' \in {"collect", "plan", "failed"} => messages' = {}
    BY <2>1, <2>2 DEF Emission
  <2>5. pc' = "done" => \A m \in Mark : selected'[m] # NoGroup => Emitted(m)'
    BY <2>1, <2>2, <2>3 DEF Emission
  <2>6. \A a \in messages' :
           IF a.parallel THEN a.tests = selected'[a.tag].par
           ELSE \E s \in selected'[a.tag].seq :
                   a.tests = {s} /\ a.execution = executionOf'[s]
    BY <2>1 DEF Emission
  <2>7. \A a, b \in messages' : a.parallel /\ b.parallel /\ a.tag = b.tag => a = b
    BY <2>1 DEF Emission
  <2>8. \A m \in Mark : Emitted(m)' =>
           /\ \E a \in messages' : a.tag = m /\ a.parallel
           /\ \A s \in selected'[m].seq : \E a \in messages' :
                 a.tag = m /\ ~a.parallel /\ a.tests = {s}
    <3> SUFFICES ASSUME NEW m \in Mark, Emitted(m)
                 PROVE  /\ \E a \in messages : a.tag = m /\ a.parallel
                        /\ \A s \in selected[m].seq : \E a \in messages :
                              a.tag = m /\ ~a.parallel /\ a.tests = {s}
      BY <2>1, <2>3
    <3> QED BY DEF Emission
  <2> QED BY <2>4, <2>5, <2>6, <2>7, <2>8 DEF Emission
<1>3. ASSUME NEW m \in Mark, EmitTag(m) PROVE Emission'
  <2>1. UNCHANGED <<pc, executionOf, selected>> /\ pc = "emit" /\ ~Emitted(m)
    BY <1>3 DEF EmitTag
  <2>2. PICK a \in Message :
           /\ a.tag = m /\ a.parallel /\ a.tests = selected[m].par
           /\ \A b : b \in messages' <=>
                 \/ b \in messages \/ b = a
                 \/ \E s \in selected[m].seq :
                       b = [tag |-> m, parallel |-> FALSE, tests |-> {s},
                            execution |-> executionOf[s]]
    BY <1>3, Emits
  <2>3. \A b \in messages : b.tag # m
    BY <2>1 DEF Emitted
  <2>4. ASSUME NEW b \in messages'
        PROVE  \/ b \in messages \/ b = a
               \/ \E s \in selected[m].seq :
                     /\ b.tag = m /\ ~b.parallel /\ b.tests = {s}
                     /\ b.execution = executionOf[s]
    <3>1. CASE \E s \in selected[m].seq :
                  b = [tag |-> m, parallel |-> FALSE, tests |-> {s},
                       execution |-> executionOf[s]]
      BY <3>1
    <3> QED BY <2>2, <3>1
  <2>5. ASSUME NEW b \in messages'
        PROVE  IF b.parallel THEN b.tests = selected[b.tag].par
               ELSE \E s \in selected[b.tag].seq :
                       b.tests = {s} /\ b.execution = executionOf[s]
    <3>1. CASE b \in messages
      BY <3>1 DEF Emission
    <3>2. CASE b = a
      BY <2>2, <3>2
    <3>3. CASE \E s \in selected[m].seq :
                  /\ b.tag = m /\ ~b.parallel /\ b.tests = {s}
                  /\ b.execution = executionOf[s]
      BY <3>3
    <3> QED BY <2>4, <3>1, <3>2, <3>3
  <2>6. ASSUME NEW b \in messages', NEW c \in messages',
               b.parallel, c.parallel, b.tag = c.tag
        PROVE  b = c
    <3>1. b \in messages \/ b = a
      BY <2>4, <2>6
    <3>2. c \in messages \/ c = a
      BY <2>4, <2>6
    <3> QED BY <2>2, <2>3, <2>6, <3>1, <3>2 DEF Emission
  <2>7. ASSUME NEW n \in Mark, Emitted(n)'
        PROVE  /\ \E b \in messages' : b.tag = n /\ b.parallel
               /\ \A s \in selected[n].seq : \E b \in messages' :
                     b.tag = n /\ ~b.parallel /\ b.tests = {s}
    <3>1. CASE n = m
      <4>1. a \in messages' /\ a.tag = n /\ a.parallel
        BY <2>2, <3>1
      <4>2. ASSUME NEW s \in selected[n].seq
            PROVE  \E b \in messages' : b.tag = n /\ ~b.parallel /\ b.tests = {s}
        <5> DEFINE b == [tag |-> m, parallel |-> FALSE, tests |-> {s},
                         execution |-> executionOf[s]]
        <5>1. b \in messages'
          BY <2>2, <3>1
        <5>2. b.tag = n /\ ~b.parallel /\ b.tests = {s}
          BY <3>1
        <5> QED BY <5>1, <5>2
      <4> QED BY <4>1, <4>2
    <3>2. CASE n # m
      <4>1. PICK b \in messages' : b.tag = n
        BY <2>7 DEF Emitted
      <4>2. b \in messages
        BY <2>2, <2>4, <3>2, <4>1
      <4>3. /\ \E c \in messages : c.tag = n /\ c.parallel
            /\ \A s \in selected[n].seq : \E c \in messages :
                  c.tag = n /\ ~c.parallel /\ c.tests = {s}
        BY <4>1, <4>2 DEF Emission, Emitted
      <4>4. \A c \in messages : c \in messages'
        BY <2>2
      <4> QED BY <4>3, <4>4
    <3> QED BY <3>1, <3>2
  <2> QED BY <2>1, <2>5, <2>6, <2>7 DEF Emission
<1> QED BY <1>1, <1>2, <1>3, StepKinds

-----------------------------------------------------------------------------
(* The invariant. *)

LEMMA InitIInv == Init => IInv
<1> SUFFICES ASSUME Init PROVE IInv
  OBVIOUS
<1> USE PlanAssumption
<1>1. NoGroup \in Group /\ NoGroup.par = {} /\ NoGroup.seq = {}
  BY DEF NoGroup, Group
<1>2. /\ \A m \in Mark : revTagMap[m] = NoGroup /\ selected[m] = NoGroup
      /\ \A t \in Test : testMark[t] = Unknown /\ executionOf[t] = NoExecution
      /\ messages = {} /\ pc = "collect" /\ skipTest = {}
  BY DEF Init
<1>3. TypeOK
  <2>1. ListsOK
    BY DEF Init, ListsOK
  <2>2. MapsOK
    BY <1>1 DEF Init, MapsOK
  <2>3. GroupsOK
    BY <1>1 DEF Init, GroupsOK
  <2> QED BY <1>2, <2>1, <2>2, <2>3, TypesInParts DEF MessagesOK
<1>4. /\ Filed = 0 /\ Begun = 0 /\ toCollect = Collected /\ toRun = Executions
      /\ current = NoExecution /\ toPlan = <<>>
  BY DEF Init, Filed, Begun
<1>5. Position
  <2>1. \A i \in DOMAIN toCollect : toCollect[i] = Collected[Filed + i]
    BY <1>4
  <2>2. \A i \in DOMAIN toRun : toRun[i] = Executions[Begun + i]
    BY <1>4
  <2> QED BY <1>2, <1>4, <2>1, <2>2 DEF Position
<1>6. Filing
  <2>1. \A t : ~IsFiled(t)
    BY <1>4 DEF IsFiled
  <2> QED BY <1>1, <1>2, <2>1 DEF Filing
<1>7. Planning
  BY <1>2, <1>4 DEF Planning
<1>8. Grouping
  BY <1>1, <1>2 DEF Grouping
<1>9. Emission
  BY <1>2 DEF Emission, Emitted
<1> QED BY <1>3, <1>5, <1>6, <1>7, <1>8, <1>9 DEF IInv

LEMMA StepIInv == IInv /\ [Next]_vars => IInv'
<1> SUFFICES ASSUME IInv, [Next]_vars PROVE IInv'
  OBVIOUS
<1> USE DEF IInv
<1>1. TypeOK'
  <2>1. ListsOK' /\ MapsOK' /\ GroupsOK' /\ MessagesOK'
    BY StepLists, StepMaps, StepGroups, StepMessages
  <2> QED BY <2>1 DEF TypeOK, ListsOK, MapsOK, GroupsOK, MessagesOK
<1>2. Position' /\ Filing'
  BY StepPosition, StepFiling
<1>3. Planning' /\ Grouping'
  BY StepPlanning, StepGrouping
<1>4. Emission'
  BY StepEmission
<1> QED BY <1>1, <1>2, <1>3, <1>4

LEMMA PlanInvariant == Spec => []IInv
<1> QED BY InitIInv, StepIInv, PTL DEF Spec

\* The types of the variables.
THEOREM PlanTypes == Spec => []TypeOK
<1>1. IInv => TypeOK
  BY DEF IInv
<1> QED BY <1>1, PlanInvariant, PTL

-----------------------------------------------------------------------------
(* What run() sends out. *)

\* The group that a message's tests are from.
LEMMA MessageGroup ==
    ASSUME IInv, NEW a \in messages, NEW t \in a.tests
    PROVE  /\ a.tag \in Mark /\ t \in Test
           /\ executionOf[t] # NoExecution /\ testMark[t] = a.tag
           /\ a.parallel <=> t \in revTagMap[a.tag].par
           /\ a.parallel \in BOOLEAN
           /\ ~a.parallel => a.tests = {t} /\ a.execution = executionOf[t]
<1>1. a \in Message
  BY DEF IInv, TypeOK
<1>2. a.tag \in Mark /\ t \in Test /\ a.parallel \in BOOLEAN
  BY <1>1 DEF Message
<1>3. CASE a.parallel
  <2>1. t \in selected[a.tag].par
    BY <1>3 DEF IInv, Emission
  <2> QED BY <1>2, <1>3, <2>1 DEF IInv, Grouping
<1>4. CASE ~a.parallel
  <2>1. PICK s \in selected[a.tag].seq : a.tests = {s} /\ a.execution = executionOf[s]
    BY <1>4 DEF IInv, Emission
  <2>2. s = t
    BY <2>1
  <2> QED BY <1>2, <1>4, <2>1, <2>2 DEF IInv, Grouping
<1> QED BY <1>2, <1>3, <1>4

\* No test is sent out twice: a test has one group, and is on one side of it.
THEOREM TestsAreSentOnce == Spec => []PlannedOnce
<1>1. ASSUME IInv PROVE PlannedOnce
  <2> SUFFICES ASSUME NEW a \in messages, NEW b \in messages,
                      NEW t \in a.tests \cap b.tests
               PROVE  a = b
    BY DEF PlannedOnce
  <2>1. a.tag = b.tag /\ (a.parallel <=> b.parallel)
    BY <1>1, MessageGroup
  <2>2. a \in Message /\ b \in Message
    BY <1>1 DEF IInv, TypeOK
  <2>3. a.parallel \in BOOLEAN /\ b.parallel \in BOOLEAN /\ a.parallel = b.parallel
    BY <1>1, <2>1, MessageGroup
  <2>4. CASE a.parallel
    BY <1>1, <2>1, <2>4 DEF IInv, Emission
  <2>5. CASE ~a.parallel
    <3>1. a.tests = {t} /\ a.execution = executionOf[t]
      BY <1>1, <2>5, MessageGroup
    <3>2. b.tests = {t} /\ b.execution = executionOf[t]
      BY <1>1, <2>1, <2>5, MessageGroup
    <3> QED BY <2>1, <2>2, <2>3, <3>1, <3>2 DEF Message
  <2> QED BY <2>4, <2>5
<1> QED BY <1>1, PlanInvariant, PTL

\* A test that is sent out on its own is sent for an execution that names it.
THEOREM SequentialTestsAreNamed == Spec => []SequentialTestsMatchExecution
<1>1. ASSUME IInv PROVE SequentialTestsMatchExecution
  <2> SUFFICES ASSUME NEW a \in messages, ~a.parallel, NEW t \in a.tests
               PROVE  Contains(content[a.execution], t)
    BY DEF SequentialTestsMatchExecution
  <2>1. a.execution = executionOf[t] /\ executionOf[t] # NoExecution /\ t \in Test
    BY <1>1, MessageGroup
  <2>2. PICK i \in 1..Begun : \E k \in Places(i) :
           Passed(i, k) /\ Named(i, k) = t /\ executionOf[t] = Executions[i]
    BY <1>1, <2>1 DEF IInv, Planning
  <2>3. PICK k \in Places(i) : Named(i, k) = t /\ executionOf[t] = Executions[i]
    BY <2>2
  <2>4. content[Executions[i]] \in Seq(Test)
    <3>1. i \in 1..Len(Executions)
      BY <1>1, <2>3, ListTypes DEF IInv, Begun
    <3> QED BY <1>1, <3>1, ListTypes DEF IInv
  <2>5. k \in 1..Len(content[Executions[i]]) /\ content[Executions[i]][k] = t
    BY <2>3, <2>4 DEF Places, Named
  <2> QED BY <2>1, <2>3, <2>5 DEF Contains
<1> QED BY <1>1, PlanInvariant, PTL

\* Planning breaks off at an execution without tests, or for a test that was
\* planned already: then another place of the executions named it.
THEOREM PlanningFailsForCause == Spec => []PlanFailsForCause
<1> DEFINE Blocked == pc = "failed" =>
              \/ toPlan = <<>> /\ toRun # <<>> /\ content[Head(toRun)] = <<>>
              \/ /\ toPlan # <<>> /\ Plannable(Head(toPlan))
                 /\ executionOf[Head(toPlan)] # NoExecution
<1>1. Init => Blocked
  BY DEF Init
<1>2. ASSUME Blocked, [Next]_vars PROVE Blocked'
  <2>1. CASE pc = "failed"
    <3>1. UNCHANGED vars
      BY <1>2, <2>1 DEF Next, CollectTest, EndCollection, NextExecution, NoTests, PassOver,
                        PlanTest, PlanFails, EndPlan, EmitTag, EndEmission, Over
    <3> QED BY <1>2, <3>1 DEF vars, inputs, loop, maps, Plannable
  <2>2. CASE pc # "failed"
    <3> SUFFICES ASSUME pc' = "failed" PROVE Blocked'
      OBVIOUS
    <3>1. NoTests \/ PlanFails
      BY <1>2, <2>2 DEF Next, CollectTest, EndCollection, NextExecution, NoTests, PassOver,
                        PlanTest, PlanFails, EndPlan, EmitTag, EndEmission, Over, vars
    <3> QED BY <3>1 DEF NoTests, PlanFails, inputs, loop, maps, Plannable
  <2> QED BY <2>1, <2>2
<1>3. ASSUME IInv, Blocked PROVE PlanFailsForCause
  <2> SUFFICES ASSUME pc = "failed"
               PROVE  \/ \E i \in DOMAIN Executions : content[Executions[i]] = <<>>
                      \/ \E t \in ToSet(Collected) :
                            Skip \notin ToSet(marks[t]) /\ NamedTwice(t)
    BY DEF PlanFailsForCause
  <2> USE <1>3 DEF IInv
  <2>1. CASE toRun # <<>> /\ content[Head(toRun)] = <<>>
    <3>1. Len(toRun) \in Nat /\ Len(toRun) > 0 /\ Head(toRun) = toRun[1] /\ 1 \in DOMAIN toRun
      BY <2>1, HeadAndTail DEF TypeOK
    <3>2. Head(toRun) = Executions[Begun + 1]
      BY <3>1 DEF Position
    <3>3. Begun + 1 \in DOMAIN Executions
      BY <3>1, ListTypes DEF Position, Begun
    <3> QED BY <2>1, <3>2, <3>3
  <2>2. CASE /\ toPlan # <<>> /\ Plannable(Head(toPlan))
             /\ executionOf[Head(toPlan)] # NoExecution
    <3> DEFINE t == Head(toPlan)
               n == Begun
               l == Past + 1
    <3>1. /\ Len(toPlan) \in Nat /\ Len(toPlan) > 0 /\ t = toPlan[1] /\ t \in Test
          /\ 1 \in DOMAIN toPlan
      BY <2>2, HeadAndTail DEF TypeOK
    <3>2. /\ n \in 1..Len(Executions) /\ current = Executions[n] /\ current \in Execution
          /\ Len(toPlan) <= Len(content[current]) /\ t = content[current][l]
      <4>1. Begun # 0
        BY <2>2 DEF Position
      <4>2. /\ current = Executions[Begun] /\ Len(toPlan) <= Len(content[current])
            /\ \A i \in DOMAIN toPlan : toPlan[i] = content[current][Past + i]
        BY <4>1 DEF Position
      <4>3. Begun \in 1..Len(Executions)
        BY <4>1, ListTypes DEF Position, Begun
      <4> QED BY <3>1, <4>2, <4>3, ListTypes
    <3>3. content[current] \in Seq(Test) /\ l \in Nat /\ l \in DOMAIN content[Executions[n]]
      BY <3>1, <3>2, ListTypes DEF Past
    <3>4. PICK i \in 1..Begun : \E k \in Places(i) :
             Passed(i, k) /\ Named(i, k) = t /\ executionOf[t] = Executions[i]
      BY <2>2, <3>1 DEF Planning
    <3>5. PICK k \in Places(i) : Passed(i, k) /\ Named(i, k) = t
      BY <3>4
    <3>6. i \in DOMAIN Executions /\ n \in DOMAIN Executions
      BY <3>2, ListTypes
    <3>7. i # n \/ k # l
      <4>1. SUFFICES ASSUME i = n, k = l PROVE FALSE
        OBVIOUS
      <4>2. k <= Past /\ Past \in Int
        BY <3>2, <3>3, <3>5, <4>1 DEF Passed, Past
      <4> QED BY <4>1, <4>2
    <3>8. k \in DOMAIN content[Executions[i]] /\ content[Executions[i]][k] = t
      BY <3>5 DEF Places, Named
    <3> HIDE DEF t, n, l
    <3>9. NamedTwice(t)
      BY <3>2, <3>3, <3>6, <3>7, <3>8 DEF NamedTwice
    <3>10. IsFiled(t) /\ Skip \notin ToSet(marks[t])
      <4>1. t \notin skipTest /\ testMark[t] # Unknown
        BY <2>2 DEF t, Plannable
      <4>2. IsFiled(t)
        BY <3>1, <4>1 DEF Filing
      <4> QED BY <3>1, <4>1, <4>2 DEF Filing
    <3>11. t \in ToSet(Collected)
      <4>1. PICK j \in 1..Filed : Collected[j] = t
        BY <3>10 DEF IsFiled
      <4>2. j \in DOMAIN Collected
        BY <4>1, ListTypes DEF Position, Filed
      <4> QED BY <4>1, <4>2 DEF ToSet
    <3> QED BY <3>9, <3>10, <3>11
  <2> QED BY <1>3, <2>1, <2>2
<1> HIDE DEF Blocked
<1> QED BY <1>1, <1>2, <1>3, PlanInvariant, PTL DEF Spec

\* A requested test with a feature mark is sent out when the plan is complete,
\* unless it is skipped, by one of its feature marks, and as it is marked.
THEOREM FeatureTestsAreSent == Spec => []FeatureTestsPlanned
<1>1. ASSUME IInv PROVE FeatureTestsPlanned
  <2> SUFFICES ASSUME pc = "done", NEW t \in Requested \cap ToSet(Collected),
                      MarksIn(t, Feature) # {}, Skip \notin ToSet(marks[t])
               PROVE  \E a \in messages : /\ t \in a.tests
                                          /\ a.tag \in MarksIn(t, Feature)
                                          /\ a.parallel <=> IsParallel(t)
    BY DEF FeatureTestsPlanned
  <2> USE <1>1 DEF IInv
  <2> DEFINE m == testMark[t]
  <2>1. /\ toCollect = <<>> /\ toRun = <<>> /\ toPlan = <<>> /\ t \in Test
        /\ Filed = Len(Collected) /\ Begun = Len(Executions)
    BY ListTypes DEF Position, Filed, Begun, Requested
  <2>2. IsFiled(t)
    BY <2>1, ListTypes DEF ToSet, IsFiled
  <2>3. /\ m \in MarksIn(t, Feature) /\ m \in Feature /\ m \in Mark
        /\ t \notin skipTest
        /\ \A n \in Mark : t \in revTagMap[n].par <=> n \in FiledUnder(t) /\ IsParallel(t)
        /\ m \in FiledUnder(t)
    <3>1. m = TestMark(t) /\ t \notin skipTest
      BY <2>1, <2>2 DEF Filing
    <3>2. m \in FiledUnder(t) \cap Feature
      BY <3>1, MarkTypes
    <3>3. FiledUnder(t) = MarksIn(t, Feature)
      BY DEF FiledUnder
    <3>4. \A n \in Mark : t \in revTagMap[n].par <=> n \in FiledUnder(t) /\ IsParallel(t)
      BY <2>1, <2>2 DEF Filing
    <3> QED BY <3>1, <3>2, <3>3, <3>4 DEF Mark
  <2>4. revTagMap[m] # NoGroup
    <3>1. t \in revTagMap[m].par \/ t \in revTagMap[m].seq
      BY <2>1, <2>2, <2>3 DEF Filing
    <3>2. NoGroup.par = {} /\ NoGroup.seq = {}
      BY DEF NoGroup
    <3> QED BY <3>1, <3>2
  <2>5. Plannable(t)
    <3>1. m # Unknown /\ m # NoMark
      BY <2>3, PlanAssumption
    <3> QED BY <2>3, <3>1 DEF Plannable
  <2>6. executionOf[t] # NoExecution
    <3>1. PICK i \in DOMAIN Executions : Contains(content[Executions[i]], t)
      BY DEF Requested
    <3>2. i \in 1..Begun /\ content[Executions[i]] \in Seq(Test)
      BY <2>1, ListTypes
    <3>3. PICK k \in Places(i) : Named(i, k) = t
      BY <3>1, <3>2 DEF Contains, Places, Named
    <3>4. Passed(i, k)
      <4>1. CASE i < Begun
        BY <4>1 DEF Passed
      <4>2. CASE i = Begun
        <5>1. current = Executions[i]
          BY <3>2, <4>2 DEF Position
        <5>2. Past = Len(content[Executions[i]])
          BY <2>1, <3>2, <5>1 DEF Past
        <5> QED BY <3>2, <5>2 DEF Passed, Places
      <4> QED BY <2>1, <3>2, <4>1, <4>2, ListTypes
    <3> QED BY <2>5, <3>2, <3>3, <3>4 DEF Planning
  <2>7. /\ t \in selected[m].par <=> t \in revTagMap[m].par
        /\ t \in selected[m].seq <=> t \notin revTagMap[m].par
    BY <2>1, <2>3, <2>4, <2>6 DEF Grouping
  <2>8. Emitted(m)
    <3>1. selected[m] # NoGroup
      <4>1. NoGroup.par = {} /\ NoGroup.seq = {}
        BY DEF NoGroup
      <4> QED BY <2>7, <4>1
    <3> QED BY <2>3, <3>1 DEF Emission
  <2> HIDE DEF m
  <2>9. /\ \E a \in messages : a.tag = m /\ a.parallel
        /\ \A s \in selected[m].seq : \E a \in messages :
              a.tag = m /\ ~a.parallel /\ a.tests = {s}
    BY <2>3, <2>8 DEF Emission
  <2>10. CASE IsParallel(t)
    <3>1. PICK a \in messages : a.tag = m /\ a.parallel
      BY <2>9
    <3>2. a.tests = selected[m].par
      BY <3>1 DEF Emission
    <3>3. t \in a.tests
      BY <2>3, <2>7, <2>10, <3>2
    <3> QED BY <2>3, <2>10, <3>1, <3>3
  <2>11. CASE ~IsParallel(t)
    <3>1. t \in selected[m].seq
      BY <2>3, <2>7, <2>11
    <3>2. PICK a \in messages : a.tag = m /\ ~a.parallel /\ a.tests = {t}
      BY <2>9, <3>1
    <3> QED BY <2>3, <2>11, <3>2
  <2> QED BY <2>10, <2>11
<1> QED BY <1>1, PlanInvariant, PTL

=============================================================================
