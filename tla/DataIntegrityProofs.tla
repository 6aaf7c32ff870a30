------------------------- MODULE DataIntegrityProofs -------------------------
(***************************************************************************)
(* Proofs about DataIntegrity: how many failures a verdict may pass over,  *)
(* and that later verdicts report them.  Both rest on the pool: an object  *)
(* whose download has not ended when the failures are counted is pending,  *)
(* and no more than NWORKERS are.                                          *)
(***************************************************************************)
EXTENDS DataIntegrity, FiniteSetTheorems, TLAPS

\* The objects of the running check, and what earlier checks have said.
CheckInv ==
    /\ check \in Nat /\ check <= MaxChecks
    /\ main # "idle" => check >= 1
    /\ main \in {"enqueue", "ending"} => pending \subseteq {o \in Object : o[1] = check}
    /\ failed \subseteq {o \in Object : o[1] <= check}
    /\ verdict \in [1..MaxChecks -> {"none", "passed", "failed", "raised"}]
    /\ \A c \in 1..MaxChecks :
          /\ c > check => verdict[c] = "none"
          /\ c = check /\ main # "idle" => verdict[c] = "none"
          /\ verdict[c] = "failed" => failed # {}

\* The pool never has more objects than threads.
PoolInv ==
    /\ IsFiniteSet(failed) /\ IsFiniteSet(pending)
    /\ main \in {"enqueue", "ending"} => Cardinality(pending) <= NWORKERS

\* Between the count and the verdict: after a count of 0 only what was pending
\* may have failed.
CountInv ==
    main = "ending" =>
        IF summary = 0
        THEN /\ Cardinality(failed \cup pending) <= NWORKERS
             /\ \A o \in failed : o[1] = check
             /\ \A c \in 1..MaxChecks : verdict[c] # "failed"
        ELSE failed # {}

\* A check that passes has few failures in the lists.
FewFailures ==
    \A c \in 1..MaxChecks : verdict[c] = "passed" => Cardinality(Failures(c)) <= NWORKERS

IInv == CheckInv /\ PoolInv /\ CountInv /\ FewFailures /\ LaterChecksReport

\* BoundedPool counts as this module does.
LEMMA SameCount == ASSUME NEW S PROVE Pool!Cardinality(S) = Cardinality(S)
BY DEF Cardinality, Pool!Cardinality

\* A part of a finite set is finite, and no larger.
LEMMA PartOf ==
    ASSUME NEW S, NEW T, IsFiniteSet(S), T \subseteq S
    PROVE  IsFiniteSet(T) /\ Cardinality(T) <= Cardinality(S) /\ Cardinality(T) \in Nat
           /\ Cardinality(S) \in Nat
<1>1. T \in SUBSET S
  OBVIOUS
<1> QED BY <1>1, FS_Subset, FS_CardinalityType

\* Failures are finitely many.
LEMMA FailuresFinite ==
    ASSUME IsFiniteSet(failed), NEW c
    PROVE  IsFiniteSet(Failures(c)) /\ Cardinality(Failures(c)) <= Cardinality(failed)
           /\ Cardinality(Failures(c)) \in Nat
<1>1. Failures(c) \subseteq failed
  BY DEF Failures
<1> QED BY <1>1, PartOf

\* A step that leaves the failures and the verdicts as they are keeps what the
\* verdicts are worth.
LEMMA VerdictsKept ==
    ASSUME FewFailures, LaterChecksReport, failed' = failed, verdict' = verdict
    PROVE  FewFailures' /\ LaterChecksReport'
BY DEF FewFailures, LaterChecksReport, Failures

\* The steps before the verification touch neither the lists nor the pool.
LEMMA UploadStep ==
    ASSUME IInv, UNCHANGED <<check, main, queued, poolVars, failed, summary, verdict>>
    PROVE  IInv'
<1>1. FewFailures' /\ LaterChecksReport'
  BY VerdictsKept DEF IInv
<1> QED BY <1>1 DEF IInv, CheckInv, PoolInv, CountInv, poolVars

\* A new check: nothing has been said about it.
LEMMA StartStep ==
    ASSUME IInv, StartIO \/ StopIO(TRUE) \/ StopIO(FALSE)
    PROVE  IInv'
<1>1. /\ failed' = failed /\ verdict' = verdict /\ pending' = pending /\ summary' = summary
      /\ main' \notin {"enqueue", "ending"}
      /\ \/ check' = check + 1 /\ check < MaxChecks /\ main' = "test"
         \/ check' = check /\ main = "test"
  BY DEF StartIO, StopIO, poolVars
<1>2. FewFailures' /\ LaterChecksReport'
  BY <1>1, VerdictsKept DEF IInv
<1>3. CheckInv'
  BY <1>1, IntegrityAssumption DEF IInv, CheckInv, Object
<1> QED BY <1>1, <1>2, <1>3 DEF IInv, PoolInv, CountInv

\* Empty pools.
LEMMA VerifyStep ==
    ASSUME IInv, Verify
    PROVE  IInv'
<1>1. /\ failed' = failed /\ verdict' = verdict /\ pending' = {} /\ check' = check
      /\ main' = "enqueue" /\ main = "stopping"
  BY DEF Verify, Joined
<1>2. FewFailures' /\ LaterChecksReport'
  BY <1>1, VerdictsKept DEF IInv
<1>3. CheckInv'
  BY <1>1 DEF IInv, CheckInv
<1>4. PoolInv'
  BY <1>1, FS_EmptySet, IntegrityAssumption DEF IInv, PoolInv
<1>5. CountInv'
  BY <1>1 DEF CountInv
<1> QED BY <1>2, <1>3, <1>4, <1>5 DEF IInv

\* wenque() takes an object when the pool has room for it.
LEMMA EnqueueStep ==
    ASSUME IInv, NEW o \in Object, Enqueue(o)
    PROVE  IInv'
<1>1. /\ failed' = failed /\ verdict' = verdict /\ pending' = pending \cup {o} /\ check' = check
      /\ main' = main /\ main = "enqueue" /\ o[1] = check
      /\ Cardinality(pending') <= NWORKERS
  BY SameCount DEF Enqueue, Pool!Enqueue, Rows
<1>2. FewFailures' /\ LaterChecksReport'
  BY <1>1, VerdictsKept DEF IInv
<1>3. CheckInv'
  BY <1>1 DEF IInv, CheckInv
<1>4. PoolInv'
  BY <1>1, FS_AddElement DEF IInv, PoolInv
<1>5. CountInv'
  BY <1>1 DEF CountInv
<1> QED BY <1>2, <1>3, <1>4, <1>5 DEF IInv

\* The count of the failures so far.
LEMMA CountStep ==
    ASSUME IInv, Count
    PROVE  IInv'
<1>1. /\ failed' = failed /\ verdict' = verdict /\ pending' = pending /\ check' = check
      /\ main' = "ending" /\ main = "enqueue" /\ summary' = Cardinality(failed)
  BY DEF Count, poolVars
<1>2. FewFailures' /\ LaterChecksReport'
  BY <1>1, VerdictsKept DEF IInv
<1>3. CheckInv' /\ PoolInv'
  BY <1>1 DEF IInv, CheckInv, PoolInv
<1>4. CountInv'
  <2>1. CASE failed = {}
    <3>1. failed \cup pending = pending /\ summary' = 0
      BY <1>1, <2>1, FS_EmptySet
    <3>2. \A c \in 1..MaxChecks : verdict[c] # "failed"
      BY <2>1 DEF IInv, CheckInv
    <3> QED BY <1>1, <2>1, <3>1, <3>2 DEF IInv, PoolInv, CountInv
  <2>2. CASE failed # {}
    <3>1. summary' # 0
      BY <1>1, <2>2, FS_EmptySet DEF IInv, PoolInv
    <3> QED BY <1>1, <2>2, <3>1 DEF CountInv
  <2> QED BY <2>1, <2>2
<1> QED BY <1>2, <1>3, <1>4 DEF IInv

\* A download that ends: its object leaves the pool, for the lists if it failed.
LEMMA DownloadStep ==
    ASSUME IInv, NEW o \in Object, Download(o)
    PROVE  IInv'
<1>1. /\ verdict' = verdict /\ check' = check /\ main' = main /\ summary' = summary
      /\ main \in {"enqueue", "ending"} /\ o \in pending /\ pending' = pending \ {o}
      /\ failed' = failed \/ failed' = failed \cup {o}
  BY DEF Download, Pool!Process, Fault
<1>2. o[1] = check
  BY <1>1 DEF IInv, CheckInv
<1>3. CheckInv'
  BY <1>1, <1>2, IntegrityAssumption DEF IInv, CheckInv
<1>4. IsFiniteSet(pending') /\ IsFiniteSet(failed')
      /\ Cardinality(pending') <= Cardinality(pending)
      /\ Cardinality(pending) \in Nat /\ Cardinality(pending') \in Nat
  <2>1. IsFiniteSet(failed')
    BY <1>1, FS_AddElement DEF IInv, PoolInv
  <2>2. pending' \subseteq pending
    BY <1>1
  <2> QED BY <2>1, <2>2, PartOf DEF IInv, PoolInv
<1>5. PoolInv'
  BY <1>1, <1>4, IntegrityAssumption DEF IInv, PoolInv
<1>6. CountInv'
  <2> SUFFICES ASSUME main = "ending" PROVE CountInv'
    BY <1>1 DEF CountInv
  <2>1. CASE summary = 0
    <3>1. /\ Cardinality(failed \cup pending) <= NWORKERS
          /\ \A p \in failed : p[1] = check
          /\ \A c \in 1..MaxChecks : verdict[c] # "failed"
      BY <2>1 DEF IInv, CountInv
    <3>2. /\ failed' \cup pending' \subseteq failed \cup pending
          /\ IsFiniteSet(failed \cup pending)
      BY <1>1, FS_Union DEF IInv, PoolInv
    <3> DEFINE before == failed \cup pending
               after == failed' \cup pending'
    <3>3. /\ Cardinality(after) <= Cardinality(before)
          /\ Cardinality(after) \in Nat /\ Cardinality(before) \in Nat
      <4> HIDE DEF before, after
      <4>1. after \subseteq before /\ IsFiniteSet(before)
        BY <3>2 DEF before, after
      <4> QED BY <4>1, PartOf
    <3>4. Cardinality(after) <= NWORKERS
      BY <3>1, <3>3, IntegrityAssumption
    <3> QED BY <1>1, <1>2, <2>1, <3>1, <3>4 DEF CountInv
  <2>2. CASE summary # 0
    BY <1>1, <2>2 DEF IInv, CountInv
  <2> QED BY <2>1, <2>2
<1>7. \A c \in 1..MaxChecks : c # check => Failures(c)' = Failures(c)
  BY <1>1, <1>2 DEF Failures
<1>8. \A c \in 1..MaxChecks : verdict[c] = "passed" => c < check
  BY <1>1 DEF IInv, CheckInv
<1>9. FewFailures'
  BY <1>1, <1>7, <1>8 DEF IInv, FewFailures
<1>10. LaterChecksReport'
  <2> SUFFICES ASSUME NEW c \in 1..MaxChecks, verdict[c] = "passed", NEW e \in 1..(c - 1)
               PROVE  Failures(e)' = {} /\ verdict[e] # "failed"
    BY <1>1 DEF LaterChecksReport
  <2>1. e \in 1..MaxChecks /\ e # check
    BY <1>8, IntegrityAssumption DEF IInv, CheckInv
  <2> QED BY <2>1, <1>7 DEF IInv, LaterChecksReport
<1> QED BY <1>3, <1>5, <1>6, <1>9, <1>10 DEF IInv

\* A check raises: nothing is said.
LEMMA RaiseStep ==
    ASSUME IInv, NoFile \/ NothingUploaded
    PROVE  IInv'
<1>1. /\ failed' = failed /\ check' = check /\ check \in 1..MaxChecks
      /\ verdict' = [verdict EXCEPT ![check] = "raised"]
      /\ main' = "idle" /\ pending' = {} /\ verdict[check] = "none"
  BY IntegrityAssumption DEF NoFile, NothingUploaded, Answer, Joined, IInv, CheckInv
<1>2. CheckInv'
  BY <1>1 DEF IInv, CheckInv
<1>3. PoolInv' /\ CountInv'
  BY <1>1, FS_EmptySet DEF IInv, PoolInv, CountInv
<1>4. \A c \in 1..MaxChecks : /\ verdict'[c] = "passed" => verdict[c] = "passed"
                              /\ verdict'[c] = "failed" => verdict[c] = "failed"
  BY <1>1 DEF IInv, CheckInv
<1>5. FewFailures'
  BY <1>1, <1>4 DEF IInv, FewFailures, Failures
<1>6. LaterChecksReport'
  BY <1>1, <1>4, IntegrityAssumption DEF IInv, LaterChecksReport, Failures
<1> QED BY <1>2, <1>3, <1>5, <1>6 DEF IInv

\* The verdict, once the pool is empty.
LEMMA EndStep ==
    ASSUME IInv, End
    PROVE  IInv'
<1> DEFINE v == IF summary = 0 THEN "passed" ELSE "failed"
<1>1. /\ failed' = failed /\ check' = check /\ check \in 1..MaxChecks
      /\ verdict' = [verdict EXCEPT ![check] = v]
      /\ main' = "idle" /\ pending' = {} /\ pending = {} /\ main = "ending"
      /\ verdict[check] = "none"
  BY IntegrityAssumption DEF End, Pool!Shutdown, Answer, IInv, CheckInv
<1>2. v \in {"none", "passed", "failed", "raised"} /\ (v = "failed" => failed # {})
  BY <1>1 DEF IInv, CountInv
<1>3. CheckInv'
  BY <1>1, <1>2 DEF IInv, CheckInv
<1>4. PoolInv' /\ CountInv'
  BY <1>1, FS_EmptySet DEF IInv, PoolInv, CountInv
<1>5. /\ verdict'[check] = v
      /\ \A c \in 1..MaxChecks : c # check => verdict'[c] = verdict[c]
      /\ \A c \in 1..MaxChecks : c > check => verdict'[c] = "none"
  BY <1>1 DEF IInv, CheckInv
<1>6. v = "passed" => /\ Cardinality(failed) <= NWORKERS
                      /\ \A o \in failed : o[1] = check
                      /\ \A c \in 1..MaxChecks : verdict[c] # "failed"
  <2>1. failed \cup pending = failed
    BY <1>1
  <2> QED BY <1>1, <2>1 DEF IInv, CountInv
<1>7. FewFailures'
  <2> SUFFICES ASSUME NEW c \in 1..MaxChecks, verdict'[c] = "passed"
               PROVE  Cardinality(Failures(c)) <= NWORKERS
    BY <1>1 DEF FewFailures, Failures
  <2>1. CASE c = check
    <3>1. Cardinality(failed) <= NWORKERS
      BY <1>5, <1>6, <2>1
    <3>2. Cardinality(Failures(c)) <= Cardinality(failed) /\ Cardinality(Failures(c)) \in Nat
          /\ Cardinality(failed) \in Nat
      BY FailuresFinite, FS_CardinalityType DEF IInv, PoolInv
    <3> QED BY <3>1, <3>2, IntegrityAssumption
  <2>2. CASE c # check
    BY <1>5, <2>2 DEF IInv, FewFailures
  <2> QED BY <2>1, <2>2
<1>8. LaterChecksReport'
  <2> SUFFICES ASSUME NEW c \in 1..MaxChecks, verdict'[c] = "passed", NEW e \in 1..(c - 1)
               PROVE  Failures(e) = {} /\ verdict'[e] # "failed"
    BY <1>1 DEF LaterChecksReport, Failures
  <2>1. e \in 1..MaxChecks /\ e # c /\ c <= check
    BY <1>5, IntegrityAssumption DEF IInv, CheckInv
  <2>2. CASE c = check
    BY <1>5, <1>6, <2>1, <2>2 DEF Failures
  <2>3. CASE c # check
    <3>1. verdict[c] = "passed" /\ e # check
      BY <1>5, <2>1, <2>3, IntegrityAssumption DEF IInv, CheckInv
    <3> QED BY <1>5, <2>1, <3>1 DEF IInv, LaterChecksReport
  <2> QED BY <2>2, <2>3
<1> QED BY <1>3, <1>4, <1>7, <1>8 DEF IInv

\* The invariant holds in every test run.
THEOREM IntegrityInvariant == Spec => []IInv
<1>1. Init => IInv
  <2> SUFFICES ASSUME Init PROVE IInv
    OBVIOUS
  <2>1. CheckInv
    BY IntegrityAssumption DEF Init, CheckInv
  <2>2. PoolInv /\ CountInv
    BY FS_EmptySet DEF Init, PoolInv, CountInv
  <2>3. FewFailures /\ LaterChecksReport
    BY IntegrityAssumption DEF Init, FewFailures, LaterChecksReport
  <2> QED BY <2>1, <2>2, <2>3 DEF IInv
<1>2. IInv /\ [Next]_vars => IInv'
  <2> SUFFICES ASSUME IInv, [Next]_vars PROVE IInv'
    OBVIOUS
  <2>1. CASE Main
    BY <2>1, StartStep, RaiseStep, VerifyStep, CountStep, EndStep, EnqueueStep DEF Main
  <2>2. ASSUME NEW u \in User, Process(u) PROVE IInv'
    BY <2>2, UploadStep DEF Process, StartProcess, EndProcess, Upload
  <2>3. ASSUME NEW o \in Object, Download(o) PROVE IInv'
    BY <2>3, DownloadStep
  <2>4. CASE UNCHANGED vars
    BY <2>4, UploadStep DEF vars
  <2> QED BY <2>1, <2>2, <2>3, <2>4 DEF Next
<1> QED BY <1>1, <1>2, PTL DEF Spec

\* A check passes only when no earlier one of the test run has had a failure.
THEOREM FailuresAreReported == Spec => []LaterChecksReport
<1>1. IInv => LaterChecksReport
  BY DEF IInv
<1> QED BY <1>1, IntegrityInvariant, PTL

-----------------------------------------------------------------------------
(* What a verdict is about: the rows of the processes, and the pool.       *)

\* A process lists what it has uploaded when it ends, and nobody else does.
RowsInv ==
    /\ check \in Nat /\ check <= MaxChecks
    /\ main # "idle" => check >= 1
    /\ proc \in [User -> {"new", "skipped", "alive", "ended"}]
    /\ uploaded \in [User -> SUBSET Object]
    /\ csv \subseteq Object
    /\ \A o \in csv : o[1] <= check
    /\ \A u \in User : \A o \in uploaded[u] : o[1] = check
    /\ \A u \in User : proc[u] \in {"new", "skipped"} => uploaded[u] = {}
    /\ \A u \in User : proc[u] = "ended" => uploaded[u] \subseteq csv
    /\ \A u \in User : proc[u] \in {"new", "alive"} => check >= 1
    /\ \A o \in csv : o[1] = check => \E u \in User : proc[u] = "ended" /\ o \in uploaded[u]

Verifying == main \in {"enqueue", "ending"}
AllJoined == \A u \in User : proc[u] \in {"skipped", "ended"}

\* The rows enqueued are those in the pool and those processed.
LedgerInv ==
    /\ Verifying => /\ AllJoined /\ Rows # {}
                    /\ queued = pending \cup done /\ queued \subseteq Rows \ deleted
                    /\ done \subseteq verified \cup failed \cup unjudged
    /\ main = "ending" => queued = Rows \ deleted
    /\ verdict \in [1..MaxChecks -> {"none", "passed", "failed", "raised"}]
    /\ \A c \in 1..MaxChecks : c > check \/ (c = check /\ main # "idle") => verdict[c] = "none"

CompleteInv == RowsInv /\ LedgerInv /\ VerdictIsComplete /\ RowsAccountedFor

\* Steps of the main thread and of the downloads leave the processes alone,
\* unless a new check begins.
LEMMA RowsStep ==
    ASSUME RowsInv, [Next]_vars PROVE RowsInv'
<1> USE IntegrityAssumption
<1>1. CASE StartIO
  <2>1. /\ check' = check + 1 /\ check < MaxChecks /\ csv' = csv
        /\ proc' = [u \in User |-> "new"] /\ uploaded' = [u \in User |-> {}]
    BY <1>1 DEF StartIO
  <2>2. \A o \in csv : o[1] \in Nat /\ o[1] <= check
    BY DEF RowsInv, Object
  <2> QED BY <2>1, <2>2 DEF RowsInv
<1>2. ASSUME NEW u \in User, StartProcess(u) PROVE RowsInv'
  <2>1. /\ UNCHANGED <<check, csv, uploaded, main>> /\ proc[u] = "new"
        /\ \/ proc' = [proc EXCEPT ![u] = "skipped"]
           \/ proc' = [proc EXCEPT ![u] = "alive"]
    BY <1>2 DEF StartProcess
  <2> QED BY <2>1 DEF RowsInv
<1>3. ASSUME NEW u \in User, NEW f \in File, Upload(u, f) PROVE RowsInv'
  <2>1. /\ UNCHANGED <<check, csv, proc, main>> /\ proc[u] = "alive"
        /\ \/ uploaded' = uploaded
           \/ uploaded' = [uploaded EXCEPT ![u] = @ \cup {<<check, u, f>>}]
    BY <1>3 DEF Upload
  <2>2. <<check, u, f>> \in Object
    BY <2>1 DEF RowsInv, Object
  <2> QED BY <2>1, <2>2 DEF RowsInv
<1>4. ASSUME NEW u \in User, EndProcess(u) PROVE RowsInv'
  <2>1. /\ UNCHANGED <<check, uploaded, main>> /\ proc[u] = "alive"
        /\ csv' = csv \cup uploaded[u] /\ proc' = [proc EXCEPT ![u] = "ended"]
    BY <1>4 DEF EndProcess
  <2> QED BY <2>1 DEF RowsInv
<1>5. CASE UNCHANGED <<check, proc, uploaded, csv>> /\ (main = "idle" => main' = "idle")
  BY <1>5 DEF RowsInv
<1> QED BY <1>1, <1>2, <1>3, <1>4, <1>5
        DEF Next, Main, Process, StopIO, NoFile, NothingUploaded, Verify, Joined, Answer,
            Enqueue, Download, Count, End, vars, uploadVars

\* What a check's rows have come to does not change once it has its verdict.
LEMMA FatesKept ==
    ASSUME RowsAccountedFor,
           verified \subseteq verified', failed \subseteq failed',
           unjudged \subseteq unjudged', deleted \subseteq deleted',
           \A c \in 1..MaxChecks : verdict'[c] \in {"passed", "failed"} =>
               verdict'[c] = verdict[c] /\ Listed(c)' = Listed(c)
    PROVE  RowsAccountedFor'
<1> SUFFICES ASSUME NEW c \in 1..MaxChecks, verdict'[c] \in {"passed", "failed"}
             PROVE  /\ Listed(c)' # {}
                    /\ Listed(c)' \subseteq verified' \cup failed' \cup unjudged' \cup deleted'
  BY DEF RowsAccountedFor
<1>1. verdict[c] \in {"passed", "failed"} /\ Listed(c)' = Listed(c)
  OBVIOUS
<1>2. /\ Listed(c) # {}
      /\ Listed(c) \subseteq verified \cup failed \cup unjudged \cup deleted
  BY <1>1 DEF RowsAccountedFor
<1> QED BY <1>1, <1>2

LEMMA CompleteStep ==
    ASSUME CompleteInv, [Next]_vars PROVE CompleteInv'
<1> USE IntegrityAssumption
<1>0. RowsInv /\ RowsInv' /\ LedgerInv /\ VerdictIsComplete /\ RowsAccountedFor
  BY RowsStep DEF CompleteInv
<1> SUFFICES LedgerInv' /\ VerdictIsComplete' /\ RowsAccountedFor'
  BY <1>0 DEF CompleteInv
<1>1. CASE StartIO
  <2>1. /\ check' = check + 1 /\ check < MaxChecks /\ csv' = csv /\ main' = "test"
        /\ UNCHANGED <<verdict, deleted, failed, fateVars>> /\ check \in Nat
    BY <1>0, <1>1 DEF StartIO, RowsInv
  <2>2. RowsAccountedFor'
    BY <1>0, <2>1, FatesKept DEF Listed, fateVars
  <2> QED BY <1>0, <2>1, <2>2 DEF LedgerInv, VerdictIsComplete, Verifying
<1>2. ASSUME NEW u \in User, Process(u) PROVE LedgerInv' /\ VerdictIsComplete' /\ RowsAccountedFor'
  <2>1. /\ UNCHANGED <<check, main, queued, pending, done, verdict, deleted, failed, fateVars>>
        /\ csv' = csv \/ csv' = csv \cup uploaded[u]
        /\ proc[u] \in {"new", "alive"}
    BY <1>2 DEF Process, StartProcess, Upload, EndProcess, poolVars
  <2>2. ~AllJoined
    BY <2>1 DEF AllJoined
  <2>3. ~Verifying /\ ~(main = "idle" /\ check > 0 /\ verdict[check] \in {"passed", "failed"})
    BY <1>0, <2>2 DEF LedgerInv, VerdictIsComplete, AllJoined
  <2>4. ASSUME NEW c \in 1..MaxChecks, verdict[c] \in {"passed", "failed"}
        PROVE  Listed(c)' = Listed(c)
    <3>1. c # check
      BY <1>0, <2>3, <2>4 DEF LedgerInv, RowsInv
    <3>2. \A o \in uploaded[u] : o[1] = check
      BY <1>0 DEF RowsInv
    <3> QED BY <2>1, <3>1, <3>2 DEF Listed
  <2>5. RowsAccountedFor'
    BY <1>0, <2>1, <2>4, FatesKept DEF fateVars
  <2> QED BY <1>0, <2>1, <2>3, <2>5 DEF LedgerInv, VerdictIsComplete, Verifying
<1>3. ASSUME NEW b \in BOOLEAN, StopIO(b) PROVE LedgerInv' /\ VerdictIsComplete' /\ RowsAccountedFor'
  <2>1. /\ UNCHANGED <<check, csv, verdict, deleted, failed, fateVars>>
        /\ main = "test" /\ main' = "stopping"
    BY <1>3 DEF StopIO
  <2>2. RowsAccountedFor'
    BY <1>0, <2>1, FatesKept DEF Listed, fateVars
  <2> QED BY <1>0, <2>1, <2>2 DEF LedgerInv, VerdictIsComplete, Verifying
<1>4. CASE NoFile \/ NothingUploaded
  <2>1. /\ verdict' = [verdict EXCEPT ![check] = "raised"] /\ main' = "idle"
        /\ check' = check /\ csv' = csv /\ check \in 1..MaxChecks /\ main # "idle"
        /\ UNCHANGED <<deleted, failed, fateVars>>
    BY <1>0, <1>4 DEF NoFile, NothingUploaded, Answer, Joined, RowsInv
  <2>2. /\ verdict' \in [1..MaxChecks -> {"none", "passed", "failed", "raised"}]
        /\ verdict'[check] = "raised"
        /\ \A c \in 1..MaxChecks : c # check => verdict'[c] = verdict[c]
    BY <1>0, <2>1 DEF LedgerInv
  <2>3. RowsAccountedFor'
    BY <1>0, <2>1, <2>2, FatesKept DEF Listed, fateVars
  <2> QED BY <1>0, <2>1, <2>2, <2>3 DEF LedgerInv, VerdictIsComplete, Verifying
<1>5. CASE Verify
  <2>1. /\ main' = "enqueue" /\ main = "stopping" /\ pending' = {} /\ done' = {} /\ queued' = {}
        /\ Rows # {} /\ Rows' = Rows /\ UNCHANGED <<check, csv, verdict, proc, failed, fateVars>>
        /\ AllJoined
    BY <1>5 DEF Verify, Joined, AllJoined, Rows, uploadVars
  <2>2. deleted \subseteq deleted'
    BY <1>5 DEF Verify, PassOver
  <2>3. RowsAccountedFor'
    BY <1>0, <2>1, <2>2, FatesKept DEF Listed, fateVars
  <2> QED BY <1>0, <2>1, <2>3 DEF LedgerInv, VerdictIsComplete, Verifying, AllJoined
<1>6. ASSUME NEW o \in Object, Enqueue(o) PROVE LedgerInv' /\ VerdictIsComplete' /\ RowsAccountedFor'
  <2>1. /\ main = "enqueue" /\ main' = main /\ o \in Rows \ deleted /\ queued' = queued \cup {o}
        /\ pending' = pending \cup {o} /\ done' = done /\ Rows' = Rows
        /\ UNCHANGED <<check, csv, verdict, proc, deleted, failed, fateVars>>
    BY <1>6 DEF Enqueue, Pool!Enqueue, Rows, uploadVars
  <2>2. RowsAccountedFor'
    BY <1>0, <2>1, FatesKept DEF Listed, fateVars
  <2> QED BY <1>0, <2>1, <2>2 DEF LedgerInv, VerdictIsComplete, Verifying, AllJoined, fateVars
<1>7. ASSUME NEW o \in Object, Download(o) PROVE LedgerInv' /\ VerdictIsComplete' /\ RowsAccountedFor'
  <2>1. /\ Verifying /\ main' = main /\ queued' = queued /\ o \in pending
        /\ pending' = pending \ {o} /\ done' = done \cup {o} /\ Rows' = Rows
        /\ UNCHANGED <<check, csv, verdict, proc, deleted>>
    BY <1>7 DEF Download, Pool!Process, Rows, uploadVars, Verifying
  <2>2. /\ verified \subseteq verified' /\ failed \subseteq failed' /\ unjudged \subseteq unjudged'
        /\ o \in verified' \cup failed' \cup unjudged'
    BY <1>7 DEF Download, fateVars
  <2>3. /\ queued' = pending' \cup done'
        /\ done' \subseteq verified' \cup failed' \cup unjudged'
    BY <1>0, <2>1, <2>2 DEF LedgerInv
  <2>4. RowsAccountedFor'
    BY <1>0, <2>1, <2>2, FatesKept DEF Listed
  <2> QED BY <1>0, <2>1, <2>3, <2>4 DEF LedgerInv, VerdictIsComplete, Verifying, AllJoined
<1>8. CASE Count
  <2>1. /\ main = "enqueue" /\ main' = "ending" /\ queued = Rows \ deleted /\ Rows' = Rows
        /\ UNCHANGED <<check, csv, verdict, proc, queued, pending, done, deleted, failed, fateVars>>
    BY <1>8 DEF Count, Rows, uploadVars, poolVars
  <2>2. RowsAccountedFor'
    BY <1>0, <2>1, FatesKept DEF Listed, fateVars
  <2> QED BY <1>0, <2>1, <2>2 DEF LedgerInv, VerdictIsComplete, Verifying, AllJoined, fateVars
<1>9. CASE End
  <2>1. PICK v \in {"passed", "failed"} : verdict' = [verdict EXCEPT ![check] = v]
    BY <1>9 DEF End, Answer
  <2>2. /\ main = "ending" /\ main' = "idle" /\ pending = {} /\ done' = done
        /\ UNCHANGED <<check, csv, proc, uploaded, deleted, failed, fateVars>>
        /\ check \in 1..MaxChecks
    BY <1>0, <1>9 DEF End, Pool!Shutdown, Answer, RowsInv, uploadVars
  <2>3. /\ verdict' \in [1..MaxChecks -> {"none", "passed", "failed", "raised"}]
        /\ \A c \in 1..MaxChecks : c # check => verdict'[c] = verdict[c]
    BY <1>0, <2>1, <2>2 DEF LedgerInv
  <2>4. AllJoined /\ done = Rows \ deleted /\ Rows # {}
    BY <1>0, <2>2 DEF LedgerInv, Verifying
  <2>5. Rows = UNION {uploaded[u] : u \in User}
    <3>1. ASSUME NEW o \in Rows PROVE o \in UNION {uploaded[u] : u \in User}
      BY <1>0 DEF RowsInv, Rows
    <3>2. ASSUME NEW u \in User, NEW o \in uploaded[u] PROVE o \in Rows
      BY <1>0, <2>4 DEF RowsInv, Rows, AllJoined
    <3> QED BY <3>1, <3>2
  <2>6. VerdictIsComplete'
    BY <2>2, <2>4, <2>5 DEF VerdictIsComplete, AllJoined
  <2>7. RowsAccountedFor'
    <3>1. Rows \subseteq verified \cup failed \cup unjudged \cup deleted
      BY <1>0, <2>2, <2>4 DEF LedgerInv, Verifying
    <3> SUFFICES ASSUME NEW c \in 1..MaxChecks, verdict'[c] \in {"passed", "failed"}
                 PROVE  /\ Listed(c) # {}
                        /\ Listed(c) \subseteq verified \cup failed \cup unjudged \cup deleted
      BY <2>2 DEF RowsAccountedFor, Listed, fateVars
    <3>2. CASE c = check
      BY <2>4, <3>1, <3>2 DEF Listed, Rows
    <3>3. CASE c # check
      BY <1>0, <2>3, <3>3 DEF RowsAccountedFor
    <3> QED BY <3>2, <3>3
  <2>8. LedgerInv'
    BY <1>0, <2>2, <2>3 DEF LedgerInv, Verifying
  <2> QED BY <2>6, <2>7, <2>8
<1>10. CASE UNCHANGED vars
  <2>1. /\ UNCHANGED <<check, main, proc, uploaded, csv, deleted, queued, pending, done>>
        /\ UNCHANGED <<failed, verdict, verified, unjudged>>
    BY <1>10 DEF vars, uploadVars, poolVars, fateVars
  <2>2. RowsAccountedFor'
    BY <1>0, <2>1, FatesKept DEF Listed
  <2> QED BY <1>0, <2>1, <2>2 DEF LedgerInv, VerdictIsComplete, Verifying, AllJoined, Rows
<1> QED BY <1>1, <1>2, <1>3, <1>4, <1>5, <1>6, <1>7, <1>8, <1>9, <1>10 DEF Next, Main

\* What is known of the rows, the pool and the verdicts at every moment.
THEOREM CompletenessInvariant == Spec => []CompleteInv
<1>1. Init => CompleteInv
  BY IntegrityAssumption
  DEF Init, CompleteInv, RowsInv, LedgerInv, VerdictIsComplete, RowsAccountedFor, Verifying
<1> QED BY <1>1, CompleteStep, PTL DEF Spec

\* A verdict is given when no upload process is running, after the download of
\* every object uploaded for it that is not listed as deleted has ended.
THEOREM VerdictsAreComplete == Spec => []VerdictIsComplete
<1>1. CompleteInv => VerdictIsComplete
  BY DEF CompleteInv
<1> QED BY <1>1, CompletenessInvariant, PTL

\* A verdict has rows to be about, and each of them was found intact, is in a
\* list of failures, was logged or is listed as deleted.
THEOREM VerdictsAccountForRows == Spec => []RowsAccountedFor
<1>1. CompleteInv => RowsAccountedFor
  BY DEF CompleteInv
<1> QED BY <1>1, CompletenessInvariant, PTL

\* However many objects fail, those of a check that passes which were neither
\* found intact, nor listed as deleted, nor told of by the log alone, are no more
\* than the pool has threads.
THEOREM PassesMissFew == Spec => []PassMissesFewFailures
<1>1. IInv /\ CompleteInv => PassMissesFewFailures
  <2> SUFFICES ASSUME IInv, CompleteInv, NEW c \in 1..MaxChecks, verdict[c] = "passed"
               PROVE  Cardinality(Listed(c) \ (verified \cup deleted \cup unjudged)) <= NWORKERS
    BY DEF PassMissesFewFailures
  <2> DEFINE left == Listed(c) \ (verified \cup deleted \cup unjudged)
  <2>1. Listed(c) \subseteq verified \cup failed \cup unjudged \cup deleted
    BY DEF CompleteInv, RowsAccountedFor
  <2>2. left \subseteq Failures(c)
    BY <2>1 DEF Listed, Failures
  <2>3. Cardinality(Failures(c)) <= NWORKERS /\ IsFiniteSet(Failures(c))
    BY FailuresFinite DEF IInv, PoolInv, FewFailures
  <2>4. /\ Cardinality(left) <= Cardinality(Failures(c))
        /\ Cardinality(left) \in Nat /\ Cardinality(Failures(c)) \in Nat
    BY <2>2, <2>3, PartOf
  <2> QED BY <2>3, <2>4, IntegrityAssumption
<1> QED BY <1>1, IntegrityInvariant, CompletenessInvariant, PTL

=============================================================================
