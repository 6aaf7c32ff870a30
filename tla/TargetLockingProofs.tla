------------------------- MODULE TargetLockingProofs -------------------------
(***************************************************************************)
(* Target locking keeps exclusive targets exclusive for every number of    *)
(* clients, targets, failed calls and aborted runs, as long as no update   *)
(* is written over lock fields that changed after they were read.          *)
(***************************************************************************)
EXTENDS TargetLocking, FiniteSetTheorems, SequenceTheorems, TLAPS

(* What the proof needs of the types.  setup_in_useby is left out: its     *)
(* values are only ever compared.                                          *)

IsLockRecord(r) == r.free \in BOOLEAN /\ r.par \in BOOLEAN /\ r.cnt \in Int

UsesTarget == {"store", "lock", "lockfind", "patch"} \cup Claimed \cup Holding

Records ==
    /\ DOMAIN lock = Target
    /\ \A t \in Target : IsLockRecord(lock[t])
    /\ DOMAIN seen = Client
    /\ \A c \in Client : IsLockRecord(seen[c])
    /\ clobbered \in BOOLEAN

Control ==
    /\ pc \in [Client -> States]
    /\ pos \in [Client -> 1..Len(TargetList)]
    /\ scan \in [Client -> {"shared", "exclusive"}]
    /\ tgt \in [Client -> Target \cup {NoTarget}]
    /\ \A c \in Client : pc[c] \in UsesTarget => tgt[c] \in Target

\* Every position of the list names a target.
LEMMA ListedTargets ==
    /\ Len(TargetList) \in Nat \ {0}
    /\ DOMAIN TargetList = 1..Len(TargetList)
    /\ \A i \in 1..Len(TargetList) : TargetList[i] \in Target
  BY TargetAssumption DEF TargetAssumption

-----------------------------------------------------------------------------
(* How the building blocks of the actions keep the types. *)

\* The record of a free target has the types of a record.
LEMMA UnlockedIsRecord == IsLockRecord(Unlocked)
  BY DEF IsLockRecord, Unlocked

\* A client that moves on with the target it has.
LEMMA GotoControl ==
    ASSUME Control, NEW c \in Client, NEW label \in States, Goto(c, label),
           UNCHANGED <<pos, scan, tgt>>,
           label \in UsesTarget => tgt[c] \in Target
    PROVE  Control'
<1>1. pc' \in [Client -> States]
  BY DEF Control, Goto
<1>2. \A d \in Client : pc'[d] \in UsesTarget => tgt[d] \in Target
  BY DEF Control, Goto
<1>3. UsesTarget' = UsesTarget /\ States' = States
  BY DEF UsesTarget, States, Claimed, Holding, Waiting, Over
<1>4. QED
  BY <1>1, <1>2, <1>3 DEF Control

\* The search of find_free_target stays inside the list.
LEMMA FindNextPos ==
    ASSUME Control, NEW c \in Client, FindNext(c)
    PROVE  /\ pos' \in [Client -> 1..Len(TargetList)]
           /\ scan' \in [Client -> {"shared", "exclusive"}]
<1>1. CASE pos[c] < Len(TargetList)
  <2>1. pos[c] + 1 \in 1..Len(TargetList)
    BY <1>1, ListedTargets DEF Control
  <2>2. QED
    BY <1>1, <2>1 DEF Control, FindNext
<1>2. CASE ~(pos[c] < Len(TargetList))
  <2>1. 1 \in 1..Len(TargetList)
    BY ListedTargets
  <2>2. QED
    BY <1>2, <2>1 DEF Control, FindNext, FirstScan
<1>3. QED
  BY <1>1, <1>2

\* A client that starts over with no target.
LEMMA RetryControl ==
    ASSUME Control, NEW c \in Client, Retry(c)
    PROVE  Control'
<1>1. pc' = [pc EXCEPT ![c] = "find"] /\ "find" \in States /\ "find" \notin UsesTarget
  BY DEF Retry, Goto, States, Waiting, UsesTarget, Claimed, Holding
<1>2. pos' \in [Client -> 1..Len(TargetList)]
  BY ListedTargets DEF Control, Retry
<1>3. scan' \in [Client -> {"shared", "exclusive"}]
  BY DEF Control, Retry, FirstScan
<1>4. tgt' \in [Client -> Target \cup {NoTarget}]
  BY DEF Control, Retry
<1>5. \A d \in Client : pc'[d] \in UsesTarget => tgt'[d] \in Target
  BY <1>1 DEF Control, Retry
<1>6. QED
  BY <1>1, <1>2, <1>3, <1>4, <1>5 DEF Control, UsesTarget, States, Claimed,
     Holding, Waiting, Over

\* A client that moves on and drops its target.
LEMMA LeaveControl ==
    ASSUME Control, NEW c \in Client, NEW label \in {"fetch", "done", "gone"},
           Goto(c, label), tgt' = [tgt EXCEPT ![c] = NoTarget],
           UNCHANGED <<pos, scan>>
    PROVE  Control'
<1>1. label \in States /\ label \notin UsesTarget
  BY DEF States, Over, UsesTarget, Claimed, Holding
<1>2. pc' \in [Client -> States] /\ tgt' \in [Client -> Target \cup {NoTarget}]
  BY <1>1 DEF Control, Goto
<1>3. \A d \in Client : pc'[d] \in UsesTarget => tgt'[d] \in Target
  BY <1>1 DEF Control, Goto
<1>4. QED
  BY <1>2, <1>3 DEF Control, UsesTarget, States, Claimed, Holding, Waiting, Over

\* A client that takes up a target of the list.
LEMMA TakeControl ==
    ASSUME Control, NEW c \in Client, NEW t \in Target,
           NEW label \in {"store", "lock"}, Goto(c, label),
           tgt' = [tgt EXCEPT ![c] = t], UNCHANGED <<pos, scan>>
    PROVE  Control'
<1>1. label \in States
  BY DEF States, Waiting
<1>2. pc' \in [Client -> States] /\ tgt' \in [Client -> Target \cup {NoTarget}]
  BY <1>1 DEF Control, Goto
<1>3. \A d \in Client : pc'[d] \in UsesTarget => tgt'[d] \in Target
  BY <1>1 DEF Control, Goto
<1>4. QED
  BY <1>2, <1>3 DEF Control, UsesTarget, States, Claimed, Holding, Waiting, Over

\* A client whose unlock_target has returned.
LEMMA EndControl ==
    ASSUME Control, NEW c \in Client, End(c)
    PROVE  Control'
  BY LeaveControl DEF End

\* Every step keeps the control state typed.
LEMMA StepControl == Control /\ [Next]_vars => Control'
<1> SUFFICES ASSUME Control, [Next]_vars PROVE Control'
  OBVIOUS
<1> DEFINE L == {"fetch", "find", "lockfind", "patch", "confirm", "confirmfind",
                 "run", "unlock", "unlockfind", "release"}
<1>1. CASE UNCHANGED vars
  BY <1>1 DEF vars, clientVars, Control, UsesTarget, States, Claimed, Holding,
              Waiting, Over
<1>2. ASSUME NEW c \in Client, Step(c) \/ Failure(c) PROVE Control'
  <2>0. L \subseteq States
    BY DEF States, Waiting, Claimed, Holding
  <2>0a. pc[c] \in UsesTarget => tgt[c] \in Target
    BY DEF Control
  <2> HIDE DEF L
  <2>1. CASE HealthSnapshot(c)
    <3>1. CASE pos[c] < Len(TargetList)
      <4>1. pos[c] + 1 \in 1..Len(TargetList)
        BY <3>1, ListedTargets DEF Control
      <4>2. pos' \in [Client -> 1..Len(TargetList)]
        BY <2>1, <3>1, <4>1 DEF Control, HealthSnapshot
      <4>3. QED
        BY <2>1, <3>1, <4>2 DEF Control, HealthSnapshot, UsesTarget, States,
           Claimed, Holding, Waiting, Over
    <3>2. CASE ~(pos[c] < Len(TargetList))
      <4>1. pos' \in [Client -> 1..Len(TargetList)]
        BY <2>1, <3>2, ListedTargets DEF Control, HealthSnapshot
      <4>2. pc' = [pc EXCEPT ![c] = "fetch"] /\ UNCHANGED <<scan, tgt>>
        BY <2>1, <3>2 DEF HealthSnapshot, Goto
      <4>3. "fetch" \in States /\ "fetch" \notin UsesTarget
        BY DEF States, UsesTarget, Claimed, Holding
      <4>4. pc' \in [Client -> States]
        BY <4>2, <4>3 DEF Control
      <4>5. \A d \in Client : pc'[d] \in UsesTarget => tgt'[d] \in Target
        BY <4>2, <4>3 DEF Control
      <4>6. QED
        BY <4>1, <4>2, <4>4, <4>5 DEF Control, UsesTarget, States, Claimed,
           Holding, Waiting, Over
    <3>3. QED
      BY <3>1, <3>2
  <2>2. CASE HealthFetch(c)
    BY <2>2, ListedTargets, TakeControl DEF HealthFetch
  <2>3. CASE HealthStore(c)
    BY <2>3, LeaveControl DEF HealthStore
  <2>4. CASE HealthDone(c)
    BY <2>4, GotoControl, <2>0 DEF HealthDone, L, UsesTarget, Claimed, Holding
  <2>5. CASE FindTarget(c)
    <3>1. TargetList[pos[c]] \in Target
      BY ListedTargets DEF Control
    <3>2. CASE IsFreeTarget(c, TargetList[pos[c]])
      BY <2>5, <3>1, <3>2, TakeControl DEF FindTarget
    <3>3. CASE ~IsFreeTarget(c, TargetList[pos[c]])
      BY <2>5, <3>3, FindNextPos DEF FindTarget, Control, UsesTarget, States,
         Claimed, Holding, Waiting, Over
    <3>4. QED
      BY <3>2, <3>3
  <2>6. CASE LockSearch(c)
    BY <2>6, <2>0, <2>0a, GotoControl, RetryControl DEF LockSearch, L, UsesTarget
  <2>7. CASE LockFind(c)
    BY <2>7, <2>0, <2>0a, GotoControl, RetryControl DEF LockFind, L, UsesTarget
  <2>8. CASE LockPatch(c)
    BY <2>8, <2>0, <2>0a, GotoControl DEF LockPatch, L, UsesTarget
  <2>9. CASE Confirm(c)
    BY <2>9, <2>0, <2>0a, GotoControl, RetryControl
    DEF Confirm, L, UsesTarget, Claimed
  <2>10. CASE ConfirmFind(c)
    BY <2>10, <2>0, <2>0a, GotoControl, RetryControl
    DEF ConfirmFind, L, UsesTarget, Claimed
  <2>11. CASE FinishTests(c)
    BY <2>11, <2>0, <2>0a, GotoControl DEF FinishTests, L, UsesTarget, Holding
  <2>12. CASE UnlockSearch(c)
    BY <2>12, <2>0, <2>0a, GotoControl, EndControl
    DEF UnlockSearch, L, UsesTarget, Holding
  <2>13. CASE UnlockFind(c)
    BY <2>13, <2>0, <2>0a, GotoControl, EndControl
    DEF UnlockFind, L, UsesTarget, Holding
  <2>14. CASE Release(c)
    BY <2>14, EndControl DEF Release
  <2>15. CASE SearchFails(c)
    <3>1. CASE pc[c] = "find" /\ FindNext(c) /\ UNCHANGED <<pc, tgt, seen>>
      BY <3>1, FindNextPos DEF Control, UsesTarget, States, Claimed, Holding,
         Waiting, Over
    <3>2. QED
      BY <2>15, <3>1, RetryControl, EndControl DEF SearchFails
  <2>16. CASE UpdateFails(c)
    BY <2>16, RetryControl, EndControl DEF UpdateFails
  <2>17. CASE AnswerLost(c)
    BY <2>17, RetryControl, EndControl DEF AnswerLost
  <2>18. CASE Abort(c)
    BY <2>18, LeaveControl DEF Abort
  <2>19. QED
    BY <1>2, <2>1, <2>2, <2>3, <2>4, <2>5, <2>6, <2>7, <2>8, <2>9, <2>10, <2>11,
       <2>12, <2>13, <2>14, <2>15, <2>16, <2>17, <2>18 DEF Step, Failure
<1>3. QED
  BY <1>1, <1>2 DEF Next, AllOver

-----------------------------------------------------------------------------
(* The records stay records. *)

LockRecords == DOMAIN lock = Target /\ \A t \in Target : IsLockRecord(lock[t])

\* A write of a well-typed record keeps the records typed.
LEMMA BlindRecords ==
    ASSUME Records, NEW c, NEW t \in Target, NEW r, IsLockRecord(r),
           BlindUpdate(c, t, r)
    PROVE  LockRecords' /\ clobbered' \in BOOLEAN
  BY DEF Records, BlindUpdate, LockRecords

\* Reading a record, or forgetting it, keeps what was read typed.
LEMMA SeenRecords ==
    ASSUME Records, NEW c \in Client, NEW r, IsLockRecord(r),
           seen' = [seen EXCEPT ![c] = r]
    PROVE  DOMAIN seen' = Client /\ \A d \in Client : IsLockRecord(seen'[d])
  BY DEF Records

\* lock_target writes a well-typed record.
LEMMA LockedByRecord ==
    ASSUME Records, NEW c \in Client, NEW t \in Target
    PROVE  IsLockRecord(LockedBy(c, lock[t]))
<1>1. IsLockRecord(JoinShared(lock[t], seen[c], c))
  BY DEF Records, IsLockRecord, JoinShared
<1>2. IsLockRecord(ConvertToShared(lock[t], c))
  BY DEF IsLockRecord, ConvertToShared
<1>3. IsLockRecord(TakeExclusive(lock[t], c))
  BY DEF Records, IsLockRecord, TakeExclusive
<1>4. LockedBy(c, lock[t]) \in {JoinShared(lock[t], seen[c], c),
          ConvertToShared(lock[t], c), TakeExclusive(lock[t], c)}
  BY DEF LockedBy
<1>5. QED
  BY <1>1, <1>2, <1>3, <1>4

\* unlock_target writes a well-typed record.
LEMMA ReleaseRecords ==
    ASSUME Records, NEW c \in Client, tgt[c] \in Target, ReleaseUpdate(c)
    PROVE  LockRecords' /\ clobbered' \in BOOLEAN
<1> DEFINE t == tgt[c]
<1>1. IsLockRecord(LeaveShared(lock[t], seen[c], c))
  BY DEF Records, IsLockRecord, LeaveShared
<1>2. IsLockRecord(ReleaseExclusive(lock[t], c))
  BY DEF Records, IsLockRecord, ReleaseExclusive
<1>3. CASE seen[c].par /\ seen[c].cnt = 1
  BY <1>3, BlindRecords, UnlockedIsRecord DEF ReleaseUpdate
<1>4. CASE seen[c].par /\ seen[c].cnt # 1
  BY <1>1, <1>4, BlindRecords DEF ReleaseUpdate
<1>5. CASE ~seen[c].par
  BY <1>2, <1>5 DEF ReleaseUpdate, Records, LockRecords
<1>6. QED
  BY <1>3, <1>4, <1>5

\* Every step keeps the records typed.
LEMMA StepRecords == Control /\ Records /\ [Next]_vars => Records'
<1> SUFFICES ASSUME Control, Records, [Next]_vars PROVE Records'
  OBVIOUS
<1>1. CASE UNCHANGED vars
  BY <1>1 DEF vars, dbVars, clientVars, Records, IsLockRecord
<1>2. ASSUME NEW c \in Client, Step(c) \/ Failure(c) PROVE Records'
  <2> DEFINE SeenOK == DOMAIN seen' = Client /\ \A d \in Client : IsLockRecord(seen'[d])
  <2>1. pc[c] \in UsesTarget => tgt[c] \in Target
    BY DEF Control
  <2>2. LockRecords /\ clobbered \in BOOLEAN /\ \A d \in Client : IsLockRecord(seen[d])
    BY DEF Records, LockRecords
  <2>3. UNCHANGED seen \/ seen' = [seen EXCEPT ![c] = Unlocked] => SeenOK
    BY <2>2, SeenRecords, UnlockedIsRecord DEF Records
  <2>4. ASSUME NEW t \in Target, Remember(c, t) PROVE SeenOK
    BY <2>2, <2>4, SeenRecords DEF Remember, LockRecords
  <2>5. SeenOK
    <3>1. HealthFetch(c) \/ LockSearch(c) \/ LockFind(c) \/ UnlockFind(c)
             => \/ UNCHANGED seen
                \/ seen' = [seen EXCEPT ![c] = Unlocked]
                \/ \E t \in Target : Remember(c, t)
      BY <2>1, ListedTargets DEF HealthFetch, LockSearch, LockFind, UnlockFind,
         Retry, End, UsesTarget, Holding
    <3>2. Step(c) \/ Failure(c)
             => \/ HealthFetch(c) \/ LockSearch(c) \/ LockFind(c) \/ UnlockFind(c)
                \/ UNCHANGED seen
                \/ seen' = [seen EXCEPT ![c] = Unlocked]
      BY DEF Step, Failure, HealthSnapshot, HealthStore, HealthDone, FindTarget,
         LockPatch, Confirm, ConfirmFind, FinishTests, UnlockSearch, Release,
         SearchFails, UpdateFails, AnswerLost, Abort, Retry, End
    <3>3. QED
      BY <1>2, <2>3, <2>4, <3>1, <3>2
  <2>6. LockRecords' /\ clobbered' \in BOOLEAN
    <3>1. CASE UNCHANGED dbVars
      BY <2>2, <3>1 DEF dbVars, LockRecords, IsLockRecord
    <3>2. CASE HealthStore(c)
      BY <2>1, <2>2, <3>2, BlindRecords DEF HealthStore, UsesTarget
    <3>3. CASE LockPatch(c)
      BY <2>1, <3>3, BlindRecords, LockedByRecord DEF LockPatch, UsesTarget
    <3>4. CASE Release(c)
      BY <2>1, <3>4, ReleaseRecords DEF Release, UsesTarget, Holding
    <3>5. CASE AnswerLost(c)
      BY <2>1, <3>5, BlindRecords, LockedByRecord, ReleaseRecords
      DEF AnswerLost, UsesTarget, Holding
    <3>6. QED
      BY <1>2, <3>1, <3>2, <3>3, <3>4, <3>5
      DEF Step, Failure, HealthSnapshot, HealthFetch, HealthDone, FindTarget,
          LockSearch, LockFind, Confirm, ConfirmFind, FinishTests, UnlockSearch,
          UnlockFind, SearchFails, UpdateFails, Abort
  <2>7. QED
    BY <2>5, <2>6 DEF Records, LockRecords
<1>3. QED
  BY <1>1, <1>2 DEF Next, AllOver

\* The initial states are typed.
LEMMA InitTypes == Init => Control /\ Records
<1> SUFFICES ASSUME Init PROVE Control /\ Records
  OBVIOUS
<1>1. Records
  BY UnlockedIsRecord DEF Init, Records
<1>2. pos \in [Client -> 1..Len(TargetList)]
  BY ListedTargets DEF Init
<1>3. Control
  BY <1>2 DEF Init, Control, States, UsesTarget, Claimed, Holding, FirstScan
<1>4. QED
  BY <1>1, <1>3

-----------------------------------------------------------------------------
(* The names in setup_in_useby, when one is added or taken out. *)

\* A set of numbers has a least one.
LEMMA LeastExists ==
    ASSUME NEW S \in SUBSET Nat, S # {}
    PROVE  \E x \in S : \A y \in S : x <= y
<1>1. PICK x \in S : \A y \in S : ~ (<<y, x>> \in OpToRel(<, Nat))
  BY NatLessThanWellFounded, WFMin
<1>2. \A y \in S : ~ (y < x)
  BY <1>1 DEF OpToRel
<1>3. QED
  BY <1>2

LEMMA MinIsLeast ==
    ASSUME NEW S \in SUBSET Nat, S # {}
    PROVE  Min(S) \in S /\ \A y \in S : Min(S) <= y
  BY LeastExists DEF Min

LEMMA MaxIsGreatest ==
    ASSUME NEW S \in SUBSET Nat, S # {}, NEW n \in Nat, \A y \in S : y <= n
    PROVE  Max(S) \in S /\ \A y \in S : y <= Max(S)
<1> DEFINE T == {d \in Nat : n - d \in S}
<1>1. T \in SUBSET Nat /\ T # {}
  <2>1. PICK y \in S : TRUE
    OBVIOUS
  <2>2. n - y \in Nat /\ n - (n - y) = y
    OBVIOUS
  <2>3. QED
    BY <2>1, <2>2
<1>2. PICK x \in T : \A y \in T : x <= y
  BY <1>1, LeastExists
<1>3. ASSUME NEW y \in S PROVE y <= n - x
  <2>1. n - y \in T
    OBVIOUS
  <2>2. QED
    BY <1>2, <2>1
<1>4. QED
  BY <1>2, <1>3 DEF Max

\* Nth lists the members of a finite set of numbers.
LEMMA NthLists ==
    ASSUME NEW S \in SUBSET Nat, IsFiniteSet(S)
    PROVE  /\ Cardinality(S) \in Nat
           /\ \A k \in 1..Cardinality(S) : Nth(S, k) \in S
           /\ \A i \in S : \E k \in 1..Cardinality(S) : Nth(S, k) = i
<1> DEFINE Upto(i) == {j \in S : j <= i}
           rank == [i \in S |-> Cardinality(Upto(i))]
           n == Cardinality(S)
<1>1. n \in Nat
  BY FS_CardinalityType
<1>2. ASSUME NEW i \in S PROVE IsFiniteSet(Upto(i)) /\ Cardinality(Upto(i)) \in 1..n
  <2>1. Upto(i) \in SUBSET S /\ i \in Upto(i)
    OBVIOUS
  <2>2. IsFiniteSet(Upto(i)) /\ Cardinality(Upto(i)) <= n
    BY <2>1, FS_Subset
  <2>3. Cardinality(Upto(i)) \in Nat /\ Cardinality(Upto(i)) # 0
    BY <2>1, <2>2, FS_CardinalityType, FS_EmptySet
  <2>4. QED
    BY <1>1, <2>2, <2>3
<1>3. ASSUME NEW i \in S, NEW j \in S, i < j, Cardinality(Upto(i)) = Cardinality(Upto(j))
      PROVE FALSE
  <2>1. Upto(i) \in SUBSET Upto(j) /\ j \in Upto(j) /\ j \notin Upto(i)
    <3>1. i \in Nat /\ j \in Nat /\ i < j /\ ~(j <= i) /\ \A x \in S : x \in Nat
      BY <1>3
    <3>2. \A x \in S : x <= i => x <= j
      BY <3>1
    <3>3. \A x \in Upto(i) : x \in Upto(j)
      BY <3>2
    <3>4. i <= j /\ j <= j
      BY <3>1
    <3>5. j \in Upto(j) /\ j \notin Upto(i)
      BY <3>1, <3>4
    <3>6. QED
      BY <3>3, <3>5
  <2>2. Upto(i) = Upto(j)
    BY <1>2, <1>3, <2>1, FS_Subset
  <2>3. QED
    BY <2>1, <2>2
<1>4. \A i, j \in S : Cardinality(Upto(i)) = Cardinality(Upto(j)) => i = j
  <2> SUFFICES ASSUME NEW i \in S, NEW j \in S, i # j,
                      Cardinality(Upto(i)) = Cardinality(Upto(j))
               PROVE FALSE
    OBVIOUS
  <2>1. i < j \/ j < i
    OBVIOUS
  <2>2. QED
    BY <1>3, <2>1
<1> HIDE DEF Upto
<1>5. rank \in Injection(S, 1..n)
  BY <1>2, <1>4 DEF Injection, IsInjective
<1>6. IsFiniteSet(1..n) /\ Cardinality(1..n) = n
  BY <1>1, FS_Interval
<1>7. rank \in Surjection(S, 1..n)
  BY <1>5, <1>6, FS_Injection
<1>8. \A k \in 1..n : \E i \in S : Cardinality(Upto(i)) = k
  BY <1>7 DEF Surjection
<1>9. ASSUME NEW k \in 1..n PROVE Nth(S, k) \in S
  BY <1>8 DEF Nth, Upto
<1>10. ASSUME NEW i \in S PROVE \E k \in 1..n : Nth(S, k) = i
  <2> DEFINE k == Cardinality(Upto(i))
  <2>1. k \in 1..n
    BY <1>2
  <2>2. Nth(S, k) = i
    BY <1>4, <2>1 DEF Nth, Upto
  <2>3. QED
    BY <2>1, <2>2
<1>11. QED
  BY <1>1, <1>9, <1>10

Token == Client \cup {Blank}

\* str.strip() keeps the names.
LEMMA StripKeepsNames ==
    ASSUME NEW u \in Seq(Token)
    PROVE  Strip(u) \in Seq(Token) /\ Names(Strip(u)) = Names(u)
<1> DEFINE named == {i \in DOMAIN u : u[i] # Blank}
           a == Min(named)
           b == Max(named)
<1>1. DOMAIN u = 1..Len(u) /\ Len(u) \in Nat /\ \A i \in 1..Len(u) : u[i] \in Token
  OBVIOUS
<1>2. CASE named = {}
  <2>1. Strip(u) = <<>> /\ Names(u) = {} /\ Names(<<>>) = {}
    BY <1>2 DEF Strip, Names
  <2>2. QED
    BY <2>1
<1>3. CASE named # {}
  <2>1. named \in SUBSET Nat /\ \A y \in named : y <= Len(u)
    BY <1>1
  <2>2. a \in named /\ b \in named /\ \A i \in named : a <= i /\ i <= b
    BY <1>1, <1>3, <2>1, MinIsLeast, MaxIsGreatest
  <2> HIDE DEF a, b
  <2>3. a \in 1..Len(u) /\ b \in 1..Len(u) /\ a <= b
    BY <1>1, <2>2
  <2>4. Strip(u) = SubSeq(u, a, b)
    BY <1>3 DEF Strip, a, b
  <2>5. /\ SubSeq(u, a, b) \in Seq(Token)
        /\ Len(SubSeq(u, a, b)) = b - a + 1
        /\ \A i \in 1..(b - a + 1) : SubSeq(u, a, b)[i] = u[a + i - 1]
    BY <1>1, <2>3, SubSeqProperties
  <2>6. DOMAIN SubSeq(u, a, b) = 1..(b - a + 1)
    BY <2>5
  <2>7. Names(SubSeq(u, a, b)) \subseteq Names(u)
    BY <1>1, <2>3, <2>5, <2>6 DEF Names
  <2>8. ASSUME NEW n \in Names(u) PROVE n \in Names(SubSeq(u, a, b))
    <3>1. PICK i \in DOMAIN u : u[i] = n /\ n # Blank
      BY DEF Names
    <3>2. i - a + 1 \in 1..(b - a + 1) /\ a + (i - a + 1) - 1 = i
      BY <1>1, <2>2, <2>3, <3>1
    <3>3. SubSeq(u, a, b)[i - a + 1] = n
      BY <2>5, <3>1, <3>2
    <3>4. QED
      BY <2>6, <3>1, <3>2, <3>3 DEF Names
  <2>9. QED
    BY <2>4, <2>5, <2>7, <2>8
<1>4. QED
  BY <1>2, <1>3

\* clients.replace(client, "") takes out one name.
LEMMA WithoutTakesOut ==
    ASSUME NEW u \in Seq(Token), NEW c \in Client
    PROVE  Without(u, c) \in Seq(Token) /\ Names(Without(u, c)) = Names(u) \ {c}
<1> DEFINE kept == {i \in DOMAIN u : u[i] # c}
           n == Cardinality(kept)
           s == [k \in 1..n |-> u[Nth(kept, k)]]
<1>1. DOMAIN u = 1..Len(u) /\ Len(u) \in Nat /\ \A i \in 1..Len(u) : u[i] \in Token
  OBVIOUS
<1>2. kept \in SUBSET Nat /\ IsFiniteSet(kept)
  <2>1. IsFiniteSet(1..Len(u))
    BY <1>1, FS_Interval
  <2>2. QED
    BY <1>1, <2>1, FS_Subset
<1>3. /\ n \in Nat
      /\ \A k \in 1..n : Nth(kept, k) \in kept
      /\ \A i \in kept : \E k \in 1..n : Nth(kept, k) = i
  BY <1>2, NthLists
<1> HIDE DEF n
<1>4. s \in Seq(Token) /\ DOMAIN s = 1..n
  BY <1>1, <1>3
<1>5. Names(s) = Names(u) \ {c}
  <2>1. ASSUME NEW x \in Names(s) PROVE x \in Names(u) \ {c}
    <3>1. PICK k \in 1..n : s[k] = x /\ x # Blank
      BY <1>4 DEF Names
    <3>2. Nth(kept, k) \in kept /\ x = u[Nth(kept, k)]
      BY <1>3, <3>1
    <3>3. QED
      BY <3>1, <3>2 DEF Names
  <2>2. ASSUME NEW x \in Names(u) \ {c} PROVE x \in Names(s)
    <3>1. PICK i \in kept : u[i] = x /\ x # Blank
      BY DEF Names
    <3>2. PICK k \in 1..n : Nth(kept, k) = i
      BY <1>3
    <3>3. QED
      BY <1>4, <3>1, <3>2 DEF Names
  <2>3. QED
    BY <2>1, <2>2
<1>6. Without(u, c) = Strip(s)
  BY DEF Without, n
<1>7. QED
  BY <1>4, <1>5, <1>6, StripKeepsNames

\* str + " " + client adds one name.
LEMMA JoinAddsName ==
    ASSUME NEW u \in Seq(Token), NEW c \in Client
    PROVE  /\ u \o <<Blank, c>> \in Seq(Token)
           /\ Names(u \o <<Blank, c>>) = Names(u) \cup {c}
<1> DEFINE s == u \o <<Blank, c>>
<1>1. <<Blank, c>> \in Seq(Token) /\ Len(<<Blank, c>>) = 2 /\ Blank # c
  BY ClientAssumption DEF ClientAssumption, Token
<1>2. /\ s \in Seq(Token) /\ Len(s) = Len(u) + 2 /\ Len(u) \in Nat
      /\ \A i \in 1..(Len(u) + 2) :
            s[i] = IF i <= Len(u) THEN u[i] ELSE <<Blank, c>>[i - Len(u)]
  BY <1>1, ConcatProperties
<1> HIDE DEF s
<1>3. DOMAIN s = 1..(Len(u) + 2) /\ DOMAIN u = 1..Len(u)
  BY <1>2
<1>4. /\ \A i \in 1..Len(u) : s[i] = u[i]
      /\ s[Len(u) + 1] = Blank /\ s[Len(u) + 2] = c
  BY <1>2
<1>5. \A i \in DOMAIN s : i \in DOMAIN u \/ s[i] \in {Blank, c}
  BY <1>2, <1>3, <1>4
<1>6. Names(s) \subseteq Names(u) \cup {c}
  BY <1>3, <1>4, <1>5 DEF Names
<1>7. Names(u) \subseteq Names(s)
  BY <1>2, <1>3, <1>4 DEF Names
<1>8. c \in Names(s)
  BY <1>1, <1>2, <1>3, <1>4 DEF Names
<1>9. QED
  BY <1>2, <1>6, <1>7, <1>8 DEF s

\* A string that is one name, and one that is none.
LEMMA ShortNames ==
    /\ <<>> \in Seq(Token) /\ Names(<<>>) = {}
    /\ \A c \in Client : <<c>> \in Seq(Token) /\ Names(<<c>>) = {c}
<1>1. Names(<<>>) = {}
  BY DEF Names
<1>2. ASSUME NEW c \in Client PROVE <<c>> \in Seq(Token) /\ Names(<<c>>) = {c}
  BY ClientAssumption DEF ClientAssumption, Names, Token
<1>3. QED
  BY <1>1, <1>2

-----------------------------------------------------------------------------
(* The whole documents: what is written is a lock record again. *)

Typed ==
    /\ lock \in [Target -> LockRecord]
    /\ seen \in [Client -> LockRecord]

Counts ==
    /\ healthy \in [Target -> BOOLEAN]
    /\ checked \in [Client -> SUBSET Target]
    /\ faults \in 0..MaxFaults
    /\ aborts \in 0..MaxAborts

\* What a step may write into the document of the client's target.
Written(c) ==
    {seen[c], LockedBy(c, lock[tgt[c]]), Unlocked,
     LeaveShared(lock[tgt[c]], seen[c], c), ReleaseExclusive(lock[tgt[c]], c)}

LEMMA LockChange ==
    ASSUME NEW c \in Client, Step(c) \/ Failure(c)
    PROVE  \/ UNCHANGED lock
           \/ /\ pc[c] \in UsesTarget
              /\ \E r \in Written(c) : lock' = [lock EXCEPT ![tgt[c]] = r]
<1>1. CASE HealthStore(c)
  BY <1>1 DEF HealthStore, BlindUpdate, Written, UsesTarget
<1>2. CASE LockPatch(c)
  BY <1>2 DEF LockPatch, BlindUpdate, Written, UsesTarget
<1>3. ReleaseUpdate(c) => \E r \in Written(c) : lock' = [lock EXCEPT ![tgt[c]] = r]
  BY DEF ReleaseUpdate, BlindUpdate, Written
<1>4. CASE Release(c)
  BY <1>3, <1>4 DEF Release, UsesTarget, Holding
<1>5. CASE AnswerLost(c)
  BY <1>3, <1>5 DEF AnswerLost, BlindUpdate, Written, UsesTarget, Holding
<1>6. QED
  BY <1>1, <1>2, <1>4, <1>5
  DEF Step, Failure, HealthSnapshot, HealthFetch, HealthDone, FindTarget,
      LockSearch, LockFind, Confirm, ConfirmFind, FinishTests, UnlockSearch,
      UnlockFind, SearchFails, UpdateFails, Abort, dbVars

LEMMA SeenChange ==
    ASSUME Control, NEW c \in Client, Step(c) \/ Failure(c)
    PROVE  \/ UNCHANGED seen
           \/ seen' = [seen EXCEPT ![c] = Unlocked]
           \/ \E t \in Target : Remember(c, t)
<1>1. pc[c] \in UsesTarget => tgt[c] \in Target
  BY DEF Control
<1>2. CASE HealthFetch(c) \/ LockSearch(c) \/ LockFind(c) \/ UnlockFind(c)
  BY <1>1, <1>2, ListedTargets DEF HealthFetch, LockSearch, LockFind, UnlockFind,
     Retry, End, UsesTarget, Holding
<1>3. QED
  BY <1>2 DEF Step, Failure, HealthSnapshot, HealthStore, HealthDone, FindTarget,
     LockPatch, Confirm, ConfirmFind, FinishTests, UnlockSearch, Release,
     SearchFails, UpdateFails, AnswerLost, Abort, Retry, End

LEMMA WrittenRecords ==
    ASSUME Typed, NEW c \in Client, tgt[c] \in Target
    PROVE  Written(c) \subseteq LockRecord
<1> DEFINE r == lock[tgt[c]]
           s == seen[c]
<1>1. r \in LockRecord /\ s \in LockRecord
  BY DEF Typed
<1>2. /\ r.free \in BOOLEAN /\ r.par \in BOOLEAN /\ r.cnt \in Int
      /\ s.cnt \in Int /\ s.useby \in Seq(Token)
  BY <1>1 DEF LockRecord, Token
<1> HIDE DEF r, s
<1>3. /\ s.useby \o <<Blank, c>> \in Seq(Token)
      /\ Without(s.useby, c) \in Seq(Token)
      /\ <<c>> \in Seq(Token) /\ <<>> \in Seq(Token)
  BY <1>2, JoinAddsName, WithoutTakesOut, ShortNames
<1>4. JoinShared(r, s, c) \in LockRecord
  BY <1>2, <1>3 DEF JoinShared, LockRecord, Token
<1>5. ConvertToShared(r, c) \in LockRecord
  BY <1>3 DEF ConvertToShared, LockRecord, Token
<1>6. TakeExclusive(r, c) \in LockRecord
  BY <1>2, <1>3 DEF TakeExclusive, LockRecord, Token
<1>7. LeaveShared(r, s, c) \in LockRecord
  BY <1>2, <1>3 DEF LeaveShared, LockRecord, Token
<1>8. ReleaseExclusive(r, c) \in LockRecord
  BY <1>1, <1>2, <1>3 DEF ReleaseExclusive, LockRecord, Token
<1>9. Unlocked \in LockRecord
  BY <1>3 DEF Unlocked, LockRecord, Token
<1>10. LockedBy(c, r) \in {JoinShared(r, s, c), ConvertToShared(r, c), TakeExclusive(r, c)}
  BY DEF LockedBy, s
<1>11. QED
  BY <1>1, <1>4, <1>5, <1>6, <1>7, <1>8, <1>9, <1>10 DEF Written, r, s

LEMMA StepTyped ==
    ASSUME Control, Typed, [Next]_vars
    PROVE  Typed'
<1>1. CASE UNCHANGED vars
  BY <1>1 DEF vars, dbVars, clientVars, Typed
<1>2. ASSUME NEW c \in Client, Step(c) \/ Failure(c) PROVE Typed'
  <2>1. lock' \in [Target -> LockRecord]
    <3>1. ASSUME pc[c] \in UsesTarget, NEW r \in Written(c),
                 lock' = [lock EXCEPT ![tgt[c]] = r]
          PROVE  lock' \in [Target -> LockRecord]
      <4>1. r \in LockRecord
        BY <3>1, WrittenRecords DEF Control
      <4>2. QED
        BY <3>1, <4>1 DEF Typed
    <3>2. QED
      BY <1>2, <3>1, LockChange DEF Typed
  <2>2. seen' \in [Client -> LockRecord]
    <3>1. Unlocked \in LockRecord
      BY ShortNames DEF Unlocked, LockRecord, Token
    <3>2. CASE \E t \in Target : Remember(c, t)
      BY <3>2 DEF Remember, Typed
    <3>3. QED
      BY <1>2, <3>1, <3>2, SeenChange DEF Typed
  <2>3. QED
    BY <2>1, <2>2 DEF Typed
<1>3. QED
  BY <1>1, <1>2 DEF Next, AllOver

LEMMA StepCounts ==
    ASSUME Control, Counts, [Next]_vars
    PROVE  Counts'
<1>1. CASE UNCHANGED vars
  BY <1>1 DEF vars, dbVars, clientVars, Counts
<1>2. ASSUME NEW c \in Client, Step(c) \/ Failure(c) PROVE Counts'
  <2>1. healthy' \in [Target -> BOOLEAN]
    BY <1>2 DEF Counts, Step, Failure, HealthSnapshot, HealthFetch, HealthStore,
       HealthDone, FindTarget, LockSearch, LockFind, LockPatch, Confirm, ConfirmFind,
       FinishTests, UnlockSearch, UnlockFind, Release, SearchFails, UpdateFails,
       AnswerLost, Abort, dbVars
  <2>2. checked' \in [Client -> SUBSET Target]
    <3>1. CASE HealthSnapshot(c)
      <4>1. TargetList[pos[c]] \in Target
        BY ListedTargets DEF Control
      <4>2. QED
        BY <3>1, <4>1 DEF HealthSnapshot, Counts
    <3>2. QED
      BY <1>2, <3>1 DEF Counts, Step, Failure, HealthFetch, HealthStore,
         HealthDone, FindTarget, LockSearch, LockFind, LockPatch, Confirm, ConfirmFind,
         FinishTests, UnlockSearch, UnlockFind, Release, SearchFails, UpdateFails,
         AnswerLost, Abort
  <2>3. /\ faults' = faults \/ Fault
        /\ aborts' = aborts \/ (aborts < MaxAborts /\ aborts' = aborts + 1)
    BY <1>2 DEF Step, Failure, HealthSnapshot, HealthFetch, HealthStore,
       HealthDone, FindTarget, LockSearch, LockFind, LockPatch, Confirm, ConfirmFind,
       FinishTests, UnlockSearch, UnlockFind, Release, SearchFails, UpdateFails,
       AnswerLost, Abort
  <2>4. faults' \in 0..MaxFaults /\ aborts' \in 0..MaxAborts
    BY <2>3, TargetAssumption DEF Counts, Fault, TargetAssumption
  <2>5. QED
    BY <2>1, <2>2, <2>4 DEF Counts
<1>3. QED
  BY <1>1, <1>2 DEF Next, AllOver

LEMMA InitTyped == Init => Typed /\ Counts
  BY ShortNames, TargetAssumption
  DEF Init, Typed, Counts, Unlocked, LockRecord, Token, TargetAssumption

\* Every variable keeps its type: above all, setup_in_useby stays a string of
\* names and blanks and the counter a number, whatever is written over it.
THEOREM LockingTypes == Spec => []TypeOK
<1>1. Init => Control /\ Records /\ Typed /\ Counts
  BY InitTypes, InitTyped
<1>2. Control /\ Records /\ Typed /\ Counts /\ [Next]_vars
        => (Control /\ Records /\ Typed /\ Counts)'
  BY StepControl, StepRecords, StepTyped, StepCounts
<1>3. Control /\ Records /\ Typed /\ Counts => TypeOK
  BY DEF TypeOK, Control, Records, Typed, Counts
<1>4. QED
  BY <1>1, <1>2, <1>3, PTL DEF Spec

-----------------------------------------------------------------------------
(* The inductive invariant. *)

\* What the record of t says of its users.
RecordFits(t) ==
    /\ lock[t].free => ~lock[t].par /\ Users(t) = {}
    /\ \A c \in Users(t) : IF c \in Parallel THEN lock[t].par
                           ELSE ~lock[t].par /\ lock[t].useby = <<c>>
    /\ lock[t].par => Cardinality(Users(t)) <= lock[t].cnt

\* What a client that is about to write has read.
ReadsFit ==
    \A c \in Client :
        /\ pc[c] = "lockfind" => Joins(c)
        /\ pc[c] = "patch" => MayLock(c, seen[c])
        /\ pc[c] = "release" => (seen[c].par <=> c \in Parallel)

LockInv == (\A t \in Target : RecordFits(t)) /\ ReadsFit

IInv == ~clobbered => LockInv

\* A target has finitely many users.
LEMMA FiniteUsers ==
    \A t : /\ IsFiniteSet(Users(t))
           /\ Cardinality(Users(t)) \in Nat
<1> TAKE t
<1>1. Users(t) \in SUBSET Client
  BY DEF Users
<1>2. IsFiniteSet(Client)
  BY ClientAssumption DEF ClientAssumption
<1>3. IsFiniteSet(Users(t))
  BY <1>1, <1>2, FS_Subset
<1>4. QED
  BY <1>3, FS_CardinalityType

\* A record that stays as it is keeps fitting when users leave.
LEMMA FewerUsers ==
    ASSUME Records, Records', NEW t \in Target, RecordFits(t),
           lock'[t] = lock[t], Users(t)' \subseteq Users(t)
    PROVE  RecordFits(t)'
<1>1. Cardinality(Users(t)') <= Cardinality(Users(t))
  BY FiniteUsers, FS_Subset
<1>2. Cardinality(Users(t)') \in Nat /\ Cardinality(Users(t)) \in Nat
  BY FiniteUsers, FS_Subset, FS_CardinalityType
<1>3. lock[t].cnt \in Int
  BY DEF Records, IsLockRecord
<1>4. QED
  BY <1>1, <1>2, <1>3 DEF RecordFits

\* The record after the update of lock_target, for a client that becomes a
\* user or does not hear of it.
LEMMA LockedFits ==
    ASSUME Records, Records', Control, NEW c \in Client, NEW t \in Target,
           RecordFits(t), MayLock(c, lock[t]), seen[c] = lock[t],
           lock'[t] = LockedBy(c, lock[t]), Users(t)' \subseteq Users(t) \cup {c}
    PROVE  RecordFits(t)'
<1> DEFINE n  == Cardinality(Users(t))
           n1 == Cardinality(Users(t)')
<1>1. n \in Nat /\ n1 \in Nat /\ n1 <= n + 1
  <2>1. IsFiniteSet(Users(t) \cup {c}) /\ Cardinality(Users(t) \cup {c}) \in {n, n + 1}
    BY FiniteUsers, FS_AddElement
  <2>2. IsFiniteSet(Users(t)') /\ n1 <= Cardinality(Users(t) \cup {c})
    BY <2>1, FS_Subset
  <2>3. n \in Nat /\ n1 \in Nat
    BY <2>2, FiniteUsers, FS_CardinalityType
  <2>4. QED
    BY <2>1, <2>2, <2>3
<1>2. IsLockRecord(lock[t])
  BY DEF Records
<1> HIDE DEF n, n1
<1>3. CASE Joins(c)
  <2>1. lock[t].par /\ ~lock[t].free
    BY <1>3 DEF MayLock, InSharedUse, Joins, Converts
  <2>2. lock'[t] = JoinShared(lock[t], lock[t], c)
    BY <1>3 DEF LockedBy, Joins, Converts
  <2>3. lock'[t].free = FALSE /\ lock'[t].par = lock[t].par /\ lock'[t].cnt = lock[t].cnt + 1
    BY <2>2 DEF JoinShared
  <2>4. \A d \in Users(t)' : d \in Parallel
    BY <1>3, <2>1 DEF RecordFits, Joins
  <2>5. n1 <= lock'[t].cnt
    BY <1>1, <1>2, <2>1, <2>3 DEF RecordFits, IsLockRecord, n
  <2>6. QED
    BY <2>1, <2>3, <2>4, <2>5 DEF RecordFits, n1
<1>4. CASE Converts(c)
  <2>1. lock[t].free
    BY <1>4 DEF MayLock, MayConvert, Converts, Joins
  <2>2. Users(t)' \subseteq {c} /\ n = 0
    BY <2>1, FS_EmptySet DEF RecordFits, n
  <2>3. lock'[t] = ConvertToShared(lock[t], c)
    BY <1>4 DEF LockedBy, Converts, Joins
  <2>4. lock'[t].free = FALSE /\ lock'[t].par = TRUE /\ lock'[t].cnt = 1
    BY <2>3 DEF ConvertToShared
  <2>5. n1 <= lock'[t].cnt
    BY <1>1, <2>2, <2>4
  <2>6. QED
    BY <1>4, <2>2, <2>4, <2>5 DEF RecordFits, n1, Converts
<1>5. CASE c \notin Parallel
  <2>1. lock[t].free
    BY <1>5 DEF MayLock, MayTakeExclusive, Converts, Joins
  <2>2. Users(t)' \subseteq {c} /\ ~lock[t].par
    BY <2>1 DEF RecordFits
  <2>3. lock'[t] = TakeExclusive(lock[t], c)
    BY <1>5 DEF LockedBy, Converts, Joins
  <2>4. lock'[t].free = FALSE /\ ~lock'[t].par /\ lock'[t].useby = <<c>>
    BY <2>2, <2>3 DEF TakeExclusive
  <2>5. QED
    BY <1>5, <2>2, <2>4 DEF RecordFits
<1>6. QED
  BY <1>3, <1>4, <1>5 DEF Control, Joins, Converts

\* The record after the update of unlock_target by one of its users.
LEMMA ReleasedFits ==
    ASSUME Records, Records', Control, NEW c \in Client, pc[c] = "release",
           NEW t \in Target, tgt[c] = t, RecordFits(t), ReadsFit,
           ReleaseUpdate(c), ~clobbered', Users(t)' \subseteq Users(t) \ {c}
    PROVE  RecordFits(t)'
<1> DEFINE U  == Users(t)
           n  == Cardinality(U)
           U1 == Users(t)'
           n1 == Cardinality(U1)
<1> SUFFICES
      /\ lock'[t].free => ~lock'[t].par /\ U1 = {}
      /\ \A d \in U1 : IF d \in Parallel THEN lock'[t].par
                       ELSE ~lock'[t].par /\ lock'[t].useby = <<d>>
      /\ lock'[t].par => n1 <= lock'[t].cnt
  BY DEF RecordFits
<1>1. c \in U
  BY DEF Users, Holding
<1>2. n \in Nat /\ n1 \in Nat /\ n1 <= n - 1
  <2>1. IsFiniteSet(U \ {c}) /\ Cardinality(U \ {c}) = n - 1
    BY <1>1, FiniteUsers, FS_RemoveElement
  <2>2. IsFiniteSet(U1) /\ n1 <= Cardinality(U \ {c})
    BY <2>1, FS_Subset
  <2>3. n \in Nat /\ n1 \in Nat
    BY <2>2, FiniteUsers, FS_CardinalityType
  <2>4. QED
    BY <2>1, <2>2, <2>3
<1>3. IsLockRecord(lock[t]) /\ t \in DOMAIN lock
  BY DEF Records
<1>4. U1 \subseteq U \ {c}
  OBVIOUS
<1>5. /\ lock[t].free => U = {}
      /\ \A d \in U : IF d \in Parallel THEN lock[t].par
                      ELSE ~lock[t].par /\ lock[t].useby = <<d>>
      /\ lock[t].par => n <= lock[t].cnt
  BY DEF RecordFits
<1>6. seen[c].par <=> c \in Parallel
  BY DEF ReadsFit
<1>7. IsFiniteSet(U1)
  BY <1>4, FiniteUsers, FS_Subset
<1>8. CASE c \in Parallel /\ seen[c].cnt = 1
  <2>1. lock[t] = seen[c] /\ lock'[t] = Unlocked
    BY <1>3, <1>6, <1>8 DEF ReleaseUpdate, BlindUpdate
  <2>2. n1 = 0
    BY <1>2, <1>5, <1>6, <1>8, <2>1
  <2>3. U1 = {}
    BY <1>7, <2>2, FS_EmptySet
  <2>4. QED
    BY <2>1, <2>3 DEF Unlocked
<1>9. CASE c \in Parallel /\ seen[c].cnt # 1
  <2>1. lock[t] = seen[c] /\ lock'[t] = LeaveShared(lock[t], lock[t], c)
    BY <1>3, <1>6, <1>9 DEF ReleaseUpdate, BlindUpdate
  <2>2. /\ lock'[t].free = lock[t].free /\ lock'[t].par = lock[t].par
        /\ lock'[t].cnt = lock[t].cnt - 1
    BY <2>1 DEF LeaveShared
  <2>3. ~lock[t].free /\ lock[t].par
    BY <1>1, <1>5, <1>9
  <2>4. n1 <= lock'[t].cnt
    BY <1>2, <1>3, <1>5, <2>2, <2>3 DEF IsLockRecord
  <2>5. QED
    BY <1>4, <1>5, <2>2, <2>3, <2>4
<1>10. CASE c \notin Parallel
  <2>1. lock'[t] = ReleaseExclusive(lock[t], c)
    BY <1>3, <1>6, <1>10 DEF ReleaseUpdate
  <2>2. ~lock[t].par /\ lock[t].useby = <<c>>
    BY <1>1, <1>5, <1>10
  <2>3. ~lock'[t].par
    BY <2>1, <2>2 DEF ReleaseExclusive
  <2>4. ASSUME NEW d \in U1 PROVE FALSE
    <3>1. d \in U /\ d # c
      BY <1>4
    <3>2. <<c>> = <<d>>
      BY <1>5, <2>2, <3>1
    <3>3. QED
      BY <3>1, <3>2
  <2>5. QED
    BY <2>3, <2>4
<1>11. QED
  BY <1>8, <1>9, <1>10

\* A client's step concerns that client alone.
LEMMA OwnStep ==
    ASSUME Control, Records, NEW c \in Client, Step(c) \/ Failure(c),
           NEW d \in Client, d # c
    PROVE  /\ pc'[d] = pc[d] /\ tgt'[d] = tgt[d]
           /\ seen'[d] = seen[d] /\ scan'[d] = scan[d]
<1> USE DEF Control, Records, Goto, Retry, End, Remember
<1>1. CASE HealthSnapshot(c) \/ HealthFetch(c) \/ HealthStore(c) \/ HealthDone(c)
  BY <1>1 DEF HealthSnapshot, HealthFetch, HealthStore, HealthDone
<1>2. CASE FindTarget(c) \/ LockSearch(c) \/ LockFind(c) \/ LockPatch(c)
  BY <1>2 DEF FindTarget, FindNext, LockSearch, LockFind, LockPatch
<1>3. CASE Confirm(c) \/ ConfirmFind(c) \/ FinishTests(c)
  BY <1>3 DEF Confirm, ConfirmFind, FinishTests
<1>4. CASE UnlockSearch(c) \/ UnlockFind(c) \/ Release(c)
  BY <1>4 DEF UnlockSearch, UnlockFind, Release
<1>5. CASE SearchFails(c) \/ UpdateFails(c) \/ AnswerLost(c) \/ Abort(c)
  BY <1>5 DEF SearchFails, FindNext, UpdateFails, AnswerLost, Abort
<1>6. QED
  BY <1>1, <1>2, <1>3, <1>4, <1>5 DEF Step, Failure

\* How a client becomes and stops being a user.
LEMMA OwnUse ==
    ASSUME Control, Records, NEW c \in Client, Step(c) \/ Failure(c)
    PROVE  /\ pc'[c] \in Claimed \cup Holding
                => /\ tgt'[c] = tgt[c]
                   /\ pc[c] \in Claimed \cup Holding \/ LockPatch(c)
           /\ pc[c] = "release" => pc'[c] \in Over
<1> USE DEF Control, Records, Goto, Retry, End, Remember, Claimed, Holding, Over
<1>1. CASE HealthSnapshot(c) \/ HealthFetch(c) \/ HealthStore(c) \/ HealthDone(c)
  BY <1>1 DEF HealthSnapshot, HealthFetch, HealthStore, HealthDone
<1>2. CASE FindTarget(c) \/ LockSearch(c) \/ LockFind(c)
  BY <1>2 DEF FindTarget, FindNext, LockSearch, LockFind
<1>3. CASE LockPatch(c)
  BY <1>3 DEF LockPatch
<1>4. CASE Confirm(c) \/ ConfirmFind(c) \/ FinishTests(c)
  BY <1>4 DEF Confirm, ConfirmFind, FinishTests
<1>5. CASE UnlockSearch(c) \/ UnlockFind(c) \/ Release(c)
  BY <1>5 DEF UnlockSearch, UnlockFind, Release
<1>6. CASE SearchFails(c) \/ UpdateFails(c) \/ AnswerLost(c) \/ Abort(c)
  BY <1>6 DEF SearchFails, FindNext, UpdateFails, AnswerLost, Abort
<1>7. QED
  BY <1>1, <1>2, <1>3, <1>4, <1>5, <1>6 DEF Step, Failure

\* A step adds a user only by lock_target's write, and only to its target.
LEMMA UsersChange ==
    ASSUME Control, Records, NEW c \in Client, Step(c) \/ Failure(c),
           NEW t \in Target
    PROVE  /\ Users(t)' \subseteq Users(t) \cup {c}
           /\ ~LockPatch(c) \/ t # tgt[c] => Users(t)' \subseteq Users(t)
           /\ pc[c] = "release" => Users(t)' \subseteq Users(t) \ {c}
  BY OwnStep, OwnUse DEF Users, Claimed, Holding, Over

\* What is read for the next update fits what the update assumes.
LEMMA ReadsKept ==
    ASSUME Control, Records, ReadsFit, \A t \in Target : RecordFits(t),
           NEW c \in Client, Step(c) \/ Failure(c)
    PROVE  ReadsFit'
<1>1. ASSUME NEW d \in Client, d # c
      PROVE  /\ pc'[d] = "lockfind" => Joins(d)'
             /\ pc'[d] = "patch" => MayLock(d, seen[d])'
             /\ pc'[d] = "release" => (seen'[d].par <=> d \in Parallel)
  BY <1>1, OwnStep DEF ReadsFit, MayLock, Joins, Converts
<1>2. pc'[c] = "patch" => MayLock(c, seen[c])'
  <2>1. SUFFICES ASSUME pc'[c] = "patch" PROVE MayLock(c, seen[c])'
    OBVIOUS
  <2>2. CASE LockSearch(c)
    <3>1. /\ MayLock(c, lock[tgt[c]]) /\ seen' = [seen EXCEPT ![c] = lock[tgt[c]]]
          /\ scan' = scan
      BY <2>1, <2>2 DEF LockSearch, Goto, Retry, Remember, Control
    <3>2. seen'[c] = lock[tgt[c]]
      BY <3>1 DEF Records
    <3>3. QED
      BY <3>1, <3>2 DEF MayLock, Joins, Converts
  <2>3. CASE LockFind(c)
    <3>1. /\ InSharedUse(lock[tgt[c]]) /\ seen' = [seen EXCEPT ![c] = lock[tgt[c]]]
          /\ scan' = scan
      BY <2>1, <2>3 DEF LockFind, Goto, Retry, Remember, Control
    <3>2. seen'[c] = lock[tgt[c]] /\ Joins(c)
      BY <2>3, <3>1 DEF LockFind, Records, ReadsFit
    <3>3. QED
      BY <3>1, <3>2 DEF MayLock, Joins, Converts
  <2>4. LockSearch(c) \/ LockFind(c)
    BY <2>1 DEF Step, Failure, HealthSnapshot, HealthFetch, HealthStore, HealthDone,
       FindTarget, FindNext, LockPatch, Confirm, ConfirmFind, FinishTests,
       UnlockSearch, UnlockFind, Release, SearchFails, UpdateFails, AnswerLost,
       Abort, Goto, Retry, End, Control
  <2>5. QED
    BY <2>2, <2>3, <2>4
<1>3. pc'[c] = "release" => (seen'[c].par <=> c \in Parallel)
  <2>1. SUFFICES ASSUME pc'[c] = "release" PROVE seen'[c].par <=> c \in Parallel
    OBVIOUS
  <2>2. UnlockFind(c)
    BY <2>1 DEF Step, Failure, HealthSnapshot, HealthFetch, HealthStore, HealthDone,
       FindTarget, FindNext, LockSearch, LockFind, LockPatch, Confirm, ConfirmFind,
       FinishTests, UnlockSearch, Release, SearchFails, UpdateFails, AnswerLost,
       Abort, Goto, Retry, End, Control
  <2>3. seen'[c] = lock[tgt[c]] /\ c \in Users(tgt[c]) /\ tgt[c] \in Target
    BY <2>1, <2>2 DEF UnlockFind, End, Goto, Remember, Control, Records, Users,
       Holding, UsesTarget
  <2>4. QED
    BY <2>3 DEF RecordFits
<1>4. pc'[c] = "lockfind" => Joins(c)'
  <2>1. SUFFICES ASSUME pc'[c] = "lockfind" PROVE Joins(c)'
    OBVIOUS
  <2>2. LockSearch(c)
    BY <2>1 DEF Step, Failure, HealthSnapshot, HealthFetch, HealthStore, HealthDone,
       FindTarget, FindNext, LockFind, LockPatch, Confirm, ConfirmFind, FinishTests,
       UnlockSearch, UnlockFind, Release, SearchFails, UpdateFails, AnswerLost,
       Abort, Goto, Retry, End, Control
  <2>3. QED
    BY <2>1, <2>2 DEF LockSearch, Goto, Retry, Control, Joins
<1>5. QED
  BY <1>1, <1>2, <1>3, <1>4 DEF ReadsFit

\* The invariant is inductive relative to the types.
LEMMA StepInv ==
    ASSUME Control, Records, Records', IInv, [Next]_vars
    PROVE  IInv'
<1> SUFFICES ASSUME ~clobbered' PROVE LockInv'
  BY DEF IInv
<1>1. CASE UNCHANGED vars
  <2>1. UNCHANGED <<lock, pc, tgt, seen, scan, clobbered>>
    BY <1>1 DEF vars, dbVars, clientVars
  <2>2. LockInv
    BY <2>1 DEF IInv
  <2>3. \A t \in Target : RecordFits(t)'
    BY <2>1, <2>2 DEF LockInv, RecordFits, Users
  <2>4. ReadsFit'
    BY <2>1, <2>2 DEF LockInv, ReadsFit, MayLock, Joins, Converts
  <2>5. QED
    BY <2>3, <2>4 DEF LockInv
<1>2. ASSUME NEW c \in Client, Step(c) \/ Failure(c) PROVE LockInv'
  <2> USE <1>2
  <2> DEFINE u == tgt[c]
  <2>1. ~clobbered
    BY DEF Step, Failure, HealthSnapshot, HealthFetch, HealthStore, HealthDone,
       FindTarget, LockSearch, LockFind, LockPatch, Confirm, ConfirmFind,
       FinishTests, UnlockSearch, UnlockFind, Release, SearchFails, UpdateFails,
       AnswerLost, Abort, dbVars, BlindUpdate, ReleaseUpdate
  <2>2. ReadsFit /\ \A t \in Target : RecordFits(t)
    BY <2>1 DEF IInv, LockInv
  <2>3. ReadsFit'
    BY <2>2, ReadsKept
  <2>4. pc[c] \in UsesTarget => u \in Target
    BY DEF Control
  <2>5. CASE UNCHANGED lock /\ ~LockPatch(c)
    BY <2>2, <2>3, <2>5, UsersChange, FewerUsers DEF LockInv
  <2>6. CASE HealthStore(c)
    <3>1. lock' = [lock EXCEPT ![u] = lock[u]] /\ u \in Target /\ ~LockPatch(c)
      BY <2>4, <2>6 DEF HealthStore, BlindUpdate, UsesTarget, LockPatch
    <3>2. \A t \in Target : lock'[t] = lock[t]
      BY <3>1 DEF Records
    <3>3. QED
      BY <2>2, <2>3, <3>1, <3>2, UsersChange, FewerUsers DEF LockInv
  <2>7. CASE pc[c] = "patch" /\ BlindUpdate(c, u, LockedBy(c, lock[u]))
    <3>1. u \in Target
      BY <2>4, <2>7 DEF UsesTarget
    <3>2. seen[c] = lock[u] /\ lock'[u] = LockedBy(c, lock[u])
      BY <2>7, <3>1 DEF BlindUpdate, Records
    <3>3. MayLock(c, lock[u])
      BY <2>2, <2>7, <3>2 DEF ReadsFit
    <3>4. ASSUME NEW t \in Target PROVE RecordFits(t)'
      <4>1. CASE t = u
        BY <2>2, <3>2, <3>3, <4>1, UsersChange, LockedFits
      <4>2. CASE t # u
        <5>1. lock'[t] = lock[t]
          BY <2>7, <4>2 DEF BlindUpdate, Records
        <5>2. QED
          BY <2>2, <4>2, <5>1, UsersChange, FewerUsers
      <4>3. QED
        BY <4>1, <4>2
    <3>5. QED
      BY <2>3, <3>4 DEF LockInv
  <2>8. CASE pc[c] = "release" /\ ReleaseUpdate(c)
    <3>1. u \in Target
      BY <2>4, <2>8 DEF UsesTarget, Holding
    <3>2. ASSUME NEW t \in Target PROVE RecordFits(t)'
      <4>1. CASE t = u
        BY <2>2, <2>8, <4>1, UsersChange, ReleasedFits
      <4>2. CASE t # u
        <5>1. lock'[t] = lock[t]
          BY <2>8, <4>2 DEF ReleaseUpdate, BlindUpdate, Records
        <5>2. Users(t)' \subseteq Users(t)
          BY <4>2, UsersChange
        <5>3. QED
          BY <2>2, <5>1, <5>2, FewerUsers
      <4>3. QED
        BY <4>1, <4>2
    <3>3. QED
      BY <2>3, <3>2 DEF LockInv
  <2>9. \/ UNCHANGED lock /\ ~LockPatch(c)
        \/ HealthStore(c)
        \/ pc[c] = "patch" /\ BlindUpdate(c, u, LockedBy(c, lock[u]))
        \/ pc[c] = "release" /\ ReleaseUpdate(c)
    BY DEF Step, Failure, HealthSnapshot, HealthFetch, HealthDone,
       FindTarget, LockSearch, LockFind, LockPatch, Confirm, ConfirmFind,
       FinishTests, UnlockSearch, UnlockFind, Release, SearchFails, UpdateFails,
       AnswerLost, Abort, dbVars, Claimed
  <2>10. QED
    BY <2>5, <2>6, <2>7, <2>8, <2>9
<1>3. QED
  BY <1>1, <1>2 DEF Next, AllOver

\* No target has a user at first, and every record is blank.
LEMMA InitInv == Init => IInv
<1> SUFFICES ASSUME Init PROVE LockInv
  BY DEF IInv
<1>1. \A t \in Target : Users(t) = {} /\ lock[t] = Unlocked
  BY DEF Init, Users, Claimed, Holding
<1>2. \A t \in Target : RecordFits(t)
  BY <1>1 DEF RecordFits, Unlocked
<1>3. ReadsFit
  BY DEF Init, ReadsFit
<1>4. QED
  BY <1>2, <1>3 DEF LockInv

\* What a record says fits its users, whatever the number of clients, failed
\* calls and aborted runs, until an update is clobbered.
THEOREM RecordsFitUsers == Spec => []IInv
<1>1. Init => Control /\ Records /\ IInv
  BY InitTypes, InitInv
<1>2. Control /\ Records /\ IInv /\ [Next]_vars => (Control /\ Records /\ IInv)'
  BY StepControl, StepRecords, StepInv
<1>3. QED
  BY <1>1, <1>2, PTL DEF Spec

\* The control state of the clients keeps its type: no client writes, confirms
\* or releases a lock without a target in hand, and no search leaves the list.
THEOREM ControlTypes == Spec => []Control
<1>1. QED
  BY InitTypes, StepControl, PTL DEF Spec

\* A target locked for a sequential execution is used by no other client,
\* unless some update was written over fields that changed after they were read.
THEOREM ExclusiveUseWhileSerialized == Spec => []SerializedExclusiveUse
<1>1. Control /\ IInv => SerializedExclusiveUse
  <2> SUFFICES ASSUME Control, IInv, ~clobbered,
                      NEW c \in Client, NEW d \in Client, c # d,
                      {pc[c], pc[d]} \subseteq Holding, tgt[c] = tgt[d]
               PROVE  {c, d} \subseteq Parallel
    BY DEF SerializedExclusiveUse, ExclusiveUse
  <2>1. tgt[c] \in Target /\ c \in Users(tgt[c]) /\ d \in Users(tgt[c])
    BY DEF Control, UsesTarget, Users
  <2>2. RecordFits(tgt[c])
    BY <2>1 DEF IInv, LockInv
  <2>3. QED
    BY <2>1, <2>2 DEF RecordFits
<1>2. QED
  BY <1>1, RecordsFitUsers, ControlTypes, PTL
-----------------------------------------------------------------------------
(* Records of free targets are blank. *)

BlankRecord(t) ==
    /\ lock[t].free => lock[t] = Unlocked
    /\ ~lock[t].par => lock[t].cnt = 0

BlankInv == ~clobbered => \A t \in Target : BlankRecord(t)

\* The updates of lock_target and unlock_target write no record that says free
\* and is not blank: a client that takes a target alone found it blank, and one
\* that releases it alone finds its own name in a record that counts nobody.
LEMMA StepBlank ==
    ASSUME Control, Records, IInv, BlankInv, [Next]_vars
    PROVE  BlankInv'
<1> SUFFICES ASSUME ~clobbered', NEW t \in Target PROVE BlankRecord(t)'
  BY DEF BlankInv
<1>1. CASE UNCHANGED vars
  BY <1>1 DEF vars, dbVars, BlankInv, BlankRecord
<1>2. ASSUME NEW c \in Client, Step(c) \/ Failure(c) PROVE BlankRecord(t)'
  <2> USE <1>2
  <2> DEFINE u == tgt[c]
  <2>1. ~clobbered
    BY DEF Step, Failure, HealthSnapshot, HealthFetch, HealthStore, HealthDone,
       FindTarget, LockSearch, LockFind, LockPatch, Confirm, ConfirmFind,
       FinishTests, UnlockSearch, UnlockFind, Release, SearchFails, UpdateFails,
       AnswerLost, Abort, dbVars, BlindUpdate, ReleaseUpdate
  <2>2. BlankRecord(t) /\ RecordFits(t) /\ ReadsFit
    BY <2>1 DEF BlankInv, IInv, LockInv
  <2>3. CASE lock'[t] = lock[t]
    BY <2>2, <2>3 DEF BlankRecord
  <2>4. CASE HealthStore(c) /\ t = u
    <3>1. lock'[t] = lock[t]
      BY <2>4 DEF HealthStore, BlindUpdate, Records
    <3>2. QED
      BY <2>3, <3>1
  <2>5. CASE pc[c] = "patch" /\ BlindUpdate(c, u, LockedBy(c, lock[u])) /\ t = u
    <3>1. seen[c] = lock[t] /\ lock'[t] = LockedBy(c, lock[t])
      BY <2>5 DEF BlindUpdate, Records
    <3>2. MayLock(c, lock[t])
      BY <2>2, <2>5, <3>1 DEF ReadsFit
    <3>3. CASE Joins(c)
      <4>1. lock'[t] = JoinShared(lock[t], lock[t], c) /\ lock[t].par
        BY <3>1, <3>2, <3>3 DEF LockedBy, MayLock, InSharedUse, Joins, Converts
      <4>2. QED
        BY <4>1 DEF JoinShared, BlankRecord
    <3>4. CASE Converts(c)
      <4>1. lock'[t] = ConvertToShared(lock[t], c)
        BY <3>1, <3>4 DEF LockedBy, Joins, Converts
      <4>2. QED
        BY <4>1 DEF ConvertToShared, BlankRecord
    <3>5. CASE c \notin Parallel
      <4>1. lock'[t] = TakeExclusive(lock[t], c) /\ lock[t].free
        BY <3>1, <3>2, <3>5 DEF LockedBy, MayLock, MayTakeExclusive, Joins, Converts
      <4>2. lock[t].cnt = 0
        BY <2>2, <4>1 DEF BlankRecord, Unlocked
      <4>3. QED
        BY <4>1, <4>2 DEF TakeExclusive, BlankRecord
    <3>6. QED
      BY <3>3, <3>4, <3>5 DEF Control, Joins, Converts
  <2>6. CASE pc[c] = "release" /\ ReleaseUpdate(c) /\ t = u
    <3>1. c \in Users(t) /\ (seen[c].par <=> c \in Parallel)
      BY <2>2, <2>6 DEF Users, Holding, ReadsFit
    <3>2. CASE seen[c].par /\ seen[c].cnt = 1
      <4>1. lock'[t] = Unlocked
        BY <2>6, <3>2 DEF ReleaseUpdate, BlindUpdate, Records
      <4>2. QED
        BY <4>1 DEF Unlocked, BlankRecord
    <3>3. CASE seen[c].par /\ seen[c].cnt # 1
      <4>1. lock'[t] = LeaveShared(lock[t], seen[c], c)
        BY <2>6, <3>3 DEF ReleaseUpdate, BlindUpdate, Records
      <4>2. lock[t].par /\ ~lock[t].free
        BY <2>2, <3>1, <3>3 DEF RecordFits
      <4>3. QED
        BY <4>1, <4>2 DEF LeaveShared, BlankRecord
    <3>4. CASE ~seen[c].par
      <4>1. lock'[t] = ReleaseExclusive(lock[t], c)
        BY <2>6, <3>4 DEF ReleaseUpdate, Records
      <4>2. lock[t].par = FALSE /\ lock[t].cnt = 0
        BY <2>2, <3>1, <3>4 DEF RecordFits, BlankRecord, Records, IsLockRecord
      <4>3. lock'[t] = Unlocked \/ lock'[t] = lock[t]
        BY <4>1, <4>2 DEF ReleaseExclusive, Unlocked
      <4>4. QED
        BY <2>2, <4>3 DEF BlankRecord, Unlocked
    <3>5. QED
      BY <3>2, <3>3, <3>4
  <2>7. \/ UNCHANGED lock
        \/ HealthStore(c)
        \/ pc[c] = "patch" /\ BlindUpdate(c, u, LockedBy(c, lock[u]))
        \/ pc[c] = "release" /\ ReleaseUpdate(c)
    BY DEF Step, Failure, HealthSnapshot, HealthFetch, HealthDone,
       FindTarget, LockSearch, LockFind, LockPatch, Confirm, ConfirmFind,
       FinishTests, UnlockSearch, UnlockFind, Release, SearchFails, UpdateFails,
       AnswerLost, Abort, dbVars, Claimed
  <2>8. t # u /\ ~UNCHANGED lock => lock'[t] = lock[t]
    BY <2>7 DEF HealthStore, BlindUpdate, ReleaseUpdate, Records
  <2>9. QED
    BY <2>3, <2>4, <2>5, <2>6, <2>7, <2>8
<1>3. QED
  BY <1>1, <1>2 DEF Next, AllOver

\* While no update is clobbered, a record that says free is blank and its target
\* is used by nobody: lock_target never starts from what another client left.
THEOREM FreeTargetsAreUnused == Spec => []FreeMeansUnused
<1>1. Init => Control /\ Records /\ IInv /\ BlankInv
  <2>1. Init => BlankInv
    BY DEF Init, BlankInv, BlankRecord, Unlocked
  <2>2. QED
    BY <2>1, InitTypes, InitInv
<1>2. Control /\ Records /\ IInv /\ BlankInv /\ [Next]_vars
        => (Control /\ Records /\ IInv /\ BlankInv)'
  BY StepControl, StepRecords, StepInv, StepBlank
<1>3. IInv /\ BlankInv => FreeMeansUnused
  BY DEF IInv, LockInv, RecordFits, BlankInv, BlankRecord, FreeMeansUnused
<1>4. QED
  BY <1>1, <1>2, <1>3, PTL DEF Spec

-----------------------------------------------------------------------------
(* The names in the records. *)

Named(t) == Users(t) \subseteq Names(lock[t].useby)

NameInv == ~clobbered => \A t \in Target : Named(t)

\* What a step without a clobbered update does to the record and the users of
\* one target: it leaves the record alone, writes a lock or takes one back.
UnchangedRecord(c, t) == lock'[t] = lock[t] /\ (LockPatch(c) => t # tgt[c])

WritesLock(c, t) ==
    /\ pc[c] = "patch" /\ t = tgt[c]
    /\ seen[c] = lock[t] /\ MayLock(c, lock[t])
    /\ lock'[t] = LockedBy(c, lock[t])

TakesBack(c, t) ==
    /\ pc[c] = "release" /\ t = tgt[c] /\ c \in Users(t)
    /\ IF c \in Parallel
       THEN /\ seen[c] = lock[t] /\ lock[t].par
            /\ lock'[t] = IF lock[t].cnt = 1 THEN Unlocked
                                             ELSE LeaveShared(lock[t], lock[t], c)
       ELSE /\ Users(t) = {c} /\ lock[t].useby = <<c>> /\ ~lock[t].par
            /\ lock'[t] = ReleaseExclusive(lock[t], c)

LEMMA SerializedStep ==
    ASSUME Control, Records, IInv, NEW c \in Client, Step(c) \/ Failure(c),
           ~clobbered', NEW t \in Target
    PROVE  /\ ~clobbered /\ RecordFits(t)
           /\ UnchangedRecord(c, t) \/ WritesLock(c, t) \/ TakesBack(c, t)
           /\ Step(c) /\ pc[c] = "release" /\ tgt[c] = t => TakesBack(c, t)
<1> DEFINE u == tgt[c]
<1>1. ~clobbered
  BY DEF Step, Failure, HealthSnapshot, HealthFetch, HealthStore, HealthDone,
     FindTarget, LockSearch, LockFind, LockPatch, Confirm, ConfirmFind,
     FinishTests, UnlockSearch, UnlockFind, Release, SearchFails, UpdateFails,
     AnswerLost, Abort, dbVars, BlindUpdate, ReleaseUpdate
<1>2. RecordFits(t) /\ ReadsFit
  BY <1>1 DEF IInv, LockInv
<1>3. UNCHANGED lock /\ ~LockPatch(c) => UnchangedRecord(c, t)
  BY DEF UnchangedRecord
<1>4. ASSUME HealthStore(c) PROVE UnchangedRecord(c, t)
  <2>1. lock'[t] = lock[t]
    BY <1>4 DEF HealthStore, BlindUpdate, Records
  <2>2. QED
    BY <1>4, <2>1 DEF UnchangedRecord, HealthStore, LockPatch
<1>5. ASSUME pc[c] = "patch", BlindUpdate(c, u, LockedBy(c, lock[u]))
      PROVE  UnchangedRecord(c, t) \/ WritesLock(c, t)
  <2>1. CASE t = u
    <3>1. seen[c] = lock[t] /\ lock'[t] = LockedBy(c, lock[t])
      BY <1>5, <2>1 DEF BlindUpdate, Records
    <3>2. MayLock(c, lock[t])
      BY <1>2, <1>5, <3>1 DEF ReadsFit
    <3>3. QED
      BY <1>5, <2>1, <3>1, <3>2 DEF WritesLock
  <2>2. CASE t # u
    BY <1>5, <2>2 DEF BlindUpdate, Records, UnchangedRecord
  <2>3. QED
    BY <2>1, <2>2
<1>6. ASSUME pc[c] = "release", ReleaseUpdate(c), t = u PROVE TakesBack(c, t)
  <2>1. c \in Users(t) /\ (seen[c].par <=> c \in Parallel)
    BY <1>2, <1>6 DEF Users, Holding, ReadsFit
  <2>2. CASE c \in Parallel
    <3>1. /\ seen[c] = lock[t]
          /\ lock'[t] = IF seen[c].cnt = 1 THEN Unlocked ELSE LeaveShared(lock[t], seen[c], c)
      BY <1>6, <2>1, <2>2 DEF ReleaseUpdate, BlindUpdate, Records
    <3>2. lock[t].par
      BY <2>1, <2>2, <3>1
    <3>3. QED
      BY <1>6, <2>1, <2>2, <3>1, <3>2 DEF TakesBack
  <2>3. CASE c \notin Parallel
    <3>1. lock'[t] = ReleaseExclusive(lock[t], c)
      BY <1>6, <2>1, <2>3 DEF ReleaseUpdate, Records
    <3>2. ~lock[t].par /\ lock[t].useby = <<c>>
      BY <1>2, <2>1, <2>3 DEF RecordFits
    <3>3. ASSUME NEW d \in Users(t) PROVE d = c
      <4>1. lock[t].useby = <<d>>
        BY <1>2, <3>2 DEF RecordFits
      <4>2. QED
        BY <3>2, <4>1
    <3>4. QED
      BY <1>6, <2>1, <2>3, <3>1, <3>2, <3>3 DEF TakesBack
  <2>4. QED
    BY <2>2, <2>3
<1>7. pc[c] = "release" /\ ReleaseUpdate(c) /\ t # u => UnchangedRecord(c, t)
  BY DEF ReleaseUpdate, BlindUpdate, Records, UnchangedRecord, LockPatch
<1>8. \/ UNCHANGED lock /\ ~LockPatch(c)
      \/ HealthStore(c)
      \/ pc[c] = "patch" /\ BlindUpdate(c, u, LockedBy(c, lock[u]))
      \/ pc[c] = "release" /\ ReleaseUpdate(c)
  BY DEF Step, Failure, HealthSnapshot, HealthFetch, HealthDone,
     FindTarget, LockSearch, LockFind, LockPatch, Confirm, ConfirmFind,
     FinishTests, UnlockSearch, UnlockFind, Release, SearchFails, UpdateFails,
     AnswerLost, Abort, dbVars, Claimed
<1>9. Step(c) /\ pc[c] = "release" => ReleaseUpdate(c)
  BY DEF Step, HealthSnapshot, HealthFetch, HealthStore, HealthDone, FindTarget,
     LockSearch, LockFind, LockPatch, Confirm, ConfirmFind, FinishTests,
     UnlockSearch, UnlockFind, Release
<1>10. QED
  BY <1>1, <1>2, <1>3, <1>4, <1>5, <1>6, <1>7, <1>8, <1>9

\* The names in the document that a lock is written into.
LEMMA LockedNames ==
    ASSUME Control, Typed, NEW c \in Client, NEW t \in Target, RecordFits(t),
           WritesLock(c, t)
    PROVE  /\ Names(lock'[t].useby) = {c} \cup (IF Joins(c) THEN Names(lock[t].useby) ELSE {})
           /\ ~Joins(c) => Users(t) = {}
<1>1. lock[t].useby \in Seq(Token)
  BY DEF Typed, LockRecord, Token
<1>2. CASE Joins(c)
  <2>1. lock'[t].useby = lock[t].useby \o <<Blank, c>>
    <3>1. lock'[t] = JoinShared(lock[t], lock[t], c)
      BY <1>2 DEF WritesLock, LockedBy, Joins, Converts
    <3>2. QED
      BY <3>1 DEF JoinShared
  <2>2. QED
    BY <1>1, <1>2, <2>1, JoinAddsName
<1>3. CASE ~Joins(c)
  <2>1. lock'[t].useby = <<c>>
    BY <1>3 DEF WritesLock, LockedBy, ConvertToShared, TakeExclusive
  <2>2. lock[t].free
    BY <1>3 DEF WritesLock, MayLock, MayConvert, MayTakeExclusive
  <2>3. QED
    BY <1>3, <2>1, <2>2, ShortNames DEF RecordFits
<1>4. QED
  BY <1>2, <1>3

\* One parallel user alone holds a target whose counter is one.
LEMMA LastShared ==
    ASSUME Records, NEW t \in Target, RecordFits(t), lock[t].par, lock[t].cnt = 1,
           NEW c \in Users(t)
    PROVE  Users(t) = {c}
<1>1. IsFiniteSet(Users(t)) /\ Cardinality(Users(t)) \in Nat
  BY FiniteUsers
<1>2. Cardinality(Users(t)) <= 1
  BY DEF RecordFits
<1>3. Cardinality(Users(t)) = 1
  BY <1>1, <1>2, FS_EmptySet
<1>4. PICK x : Users(t) = {x}
  BY <1>1, <1>3, FS_Singleton
<1>5. QED
  BY <1>4

\* A step leaves every user of a target named in its record.
LEMMA StepNames ==
    ASSUME Control, Records, Typed, IInv, NameInv, [Next]_vars
    PROVE  NameInv'
<1> SUFFICES ASSUME ~clobbered', NEW t \in Target PROVE Named(t)'
  BY DEF NameInv
<1>1. CASE UNCHANGED vars
  BY <1>1 DEF vars, dbVars, clientVars, NameInv, Named, Users
<1>2. ASSUME NEW c \in Client, Step(c) \/ Failure(c) PROVE Named(t)'
  <2> USE <1>2
  <2>1. ~clobbered /\ RecordFits(t)
    BY SerializedStep
  <2>2. Named(t)
    BY <2>1 DEF NameInv
  <2>3. CASE UnchangedRecord(c, t)
    BY <2>2, <2>3, UsersChange DEF UnchangedRecord, Named
  <2>4. CASE WritesLock(c, t)
    BY <2>1, <2>2, <2>4, LockedNames, UsersChange DEF Named
  <2>5. CASE TakesBack(c, t)
    <3>1. Users(t)' \subseteq Users(t) \ {c}
      BY <2>5, UsersChange DEF TakesBack
    <3>2. CASE Users(t) = {c}
      BY <3>1, <3>2 DEF Named
    <3>3. CASE Users(t) # {c}
      <4>1. lock'[t].useby = Without(lock[t].useby, c)
        BY <2>1, <2>5, <3>3, LastShared DEF TakesBack, LeaveShared
      <4>2. Names(lock'[t].useby) = Names(lock[t].useby) \ {c}
        BY <4>1, WithoutTakesOut DEF Typed, LockRecord, Token
      <4>3. QED
        BY <2>2, <3>1, <4>2 DEF Named
    <3>4. QED
      BY <3>2, <3>3
  <2>6. QED
    BY <2>3, <2>4, <2>5, SerializedStep
<1>3. QED
  BY <1>1, <1>2 DEF Next, AllOver

\* While no update is clobbered, a client that runs tests finds its name in the
\* record of its target, whoever else joined or left it.
THEOREM HoldersStayRecorded == Spec => []HoldersAreRecorded
<1>1. Init => Control /\ Records /\ Typed /\ IInv /\ NameInv
  <2>1. Init => NameInv
    BY DEF Init, NameInv, Named, Users, Claimed, Holding
  <2>2. QED
    BY <2>1, InitTypes, InitTyped, InitInv
<1>2. Control /\ Records /\ Typed /\ IInv /\ NameInv /\ [Next]_vars
        => (Control /\ Records /\ Typed /\ IInv /\ NameInv)'
  BY StepControl, StepRecords, StepTyped, StepInv, StepNames
<1>3. Control /\ NameInv => HoldersAreRecorded
  BY DEF Control, UsesTarget, NameInv, Named, Users, HoldersAreRecorded
<1>4. QED
  BY <1>1, <1>2, <1>3, PTL DEF Spec

-----------------------------------------------------------------------------
(* The users in the records, when every call succeeds. *)

Matches(t) ==
    /\ Names(lock[t].useby) = Users(t)
    /\ lock[t].free <=> Users(t) = {}
    /\ lock[t].cnt = Cardinality(Users(t) \cap Parallel)

MatchInv ==
    ~clobbered /\ faults = 0 /\ aborts = 0 => \A t \in Target : Matches(t)

\* Only a parallel client reads the document again to confirm its lock.
SharedConfirms == \A c \in Client : pc[c] = "confirmfind" => c \in Parallel

LEMMA StepConfirms ==
    ASSUME Control, SharedConfirms, [Next]_vars
    PROVE  SharedConfirms'
<1>1. CASE UNCHANGED vars
  BY <1>1 DEF vars, clientVars, SharedConfirms
<1>2. ASSUME NEW c \in Client, Step(c) \/ Failure(c) PROVE SharedConfirms'
  <2> USE DEF Control, Goto, Retry, End
  <2>1. ASSUME NEW d \in Client, d # c PROVE pc'[d] = pc[d]
    BY <1>2, <2>1 DEF Step, Failure, HealthSnapshot, HealthFetch, HealthStore,
       HealthDone, FindTarget, LockSearch, LockFind, LockPatch, Confirm, ConfirmFind,
       FinishTests, UnlockSearch, UnlockFind, Release, SearchFails, UpdateFails,
       AnswerLost, Abort
  <2>2. CASE Confirm(c)
    BY <2>1, <2>2 DEF Confirm, SharedConfirms
  <2>3. CASE ~Confirm(c)
    <3>1. pc'[c] # "confirmfind" \/ pc'[c] = pc[c]
      BY <1>2, <2>3 DEF Step, Failure, HealthSnapshot, HealthFetch, HealthStore,
         HealthDone, FindTarget, LockSearch, LockFind, LockPatch, ConfirmFind,
         FinishTests, UnlockSearch, UnlockFind, Release, SearchFails, UpdateFails,
         AnswerLost, Abort
    <3>2. QED
      BY <2>1, <3>1 DEF SharedConfirms
  <2>4. QED
    BY <2>2, <2>3
<1>3. QED
  BY <1>1, <1>2 DEF Next, AllOver

\* A user that finds itself in the record confirms its lock, and goes on until
\* it releases it.
LEMMA UsersGoOn ==
    ASSUME Control, SharedConfirms, NEW c \in Client, Step(c), NEW t \in Target,
           RecordFits(t), Matches(t), c \in Users(t), pc[c] # "release"
    PROVE  pc'[c] \in Claimed \cup Holding /\ tgt'[c] = t
<1>1. tgt[c] = t /\ pc[c] \in Claimed \cup Holding
  BY DEF Users
<1>2. ~lock[t].free /\ c \in Names(lock[t].useby)
  BY DEF Matches
<1>3. c \in Parallel => lock[t].par /\ lock[t].cnt > 0
  <2>1. ASSUME c \in Parallel PROVE lock[t].cnt > 0
    <3>1. IsFiniteSet(Users(t) \cap Parallel) /\ c \in Users(t) \cap Parallel
      BY <2>1, FiniteUsers, FS_Intersection
    <3>2. Cardinality(Users(t) \cap Parallel) \in Nat
      BY <3>1, FS_CardinalityType
    <3>3. Cardinality(Users(t) \cap Parallel) # 0
      BY <3>1, FS_EmptySet
    <3>4. QED
      BY <3>2, <3>3 DEF Matches
  <2>2. QED
    BY <2>1 DEF RecordFits
<1>4. c \notin Parallel => lock[t].useby = <<c>>
  BY DEF RecordFits
<1> USE DEF Control, Goto, Claimed, Holding
<1>5. CASE Confirm(c)
  BY <1>1, <1>2, <1>3, <1>4, <1>5 DEF Confirm, InSharedUse, ExclusiveConfirmed
<1>6. CASE ConfirmFind(c)
  <2>1. CASE c \in Parallel
    <3>1. InSharedUse(lock[t]) /\ SharedConfirmed(lock[t], c)
      BY <1>2, <1>3, <2>1 DEF InSharedUse, SharedConfirmed
    <3>2. QED
      BY <1>1, <1>6, <3>1 DEF ConfirmFind
  <2>2. QED
    BY <1>6, <2>1 DEF ConfirmFind, SharedConfirms
<1>7. CASE FinishTests(c)
  BY <1>1, <1>7 DEF FinishTests
<1>8. CASE UnlockSearch(c)
  BY <1>1, <1>2, <1>8 DEF UnlockSearch
<1>9. CASE UnlockFind(c)
  BY <1>1, <1>2, <1>9 DEF UnlockFind
<1>10. QED
  BY <1>1, <1>5, <1>6, <1>7, <1>8, <1>9
  DEF Step, HealthSnapshot, HealthFetch, HealthStore, HealthDone, FindTarget,
      LockSearch, LockFind, LockPatch, Release

\* How the users of a target change when every call succeeds.
LEMMA UsersExactly ==
    ASSUME Control, Records, SharedConfirms, IInv, NEW c \in Client, Step(c), ~clobbered',
           NEW t \in Target, Matches(t)
    PROVE  \/ WritesLock(c, t) /\ Users(t)' = Users(t) \cup {c} /\ c \notin Users(t)
           \/ TakesBack(c, t) /\ Users(t)' = Users(t) \ {c}
           \/ UnchangedRecord(c, t) /\ Users(t)' = Users(t)
<1>1. \A d \in Client : d # c => (d \in Users(t)' <=> d \in Users(t))
  BY OwnStep DEF Users, Claimed, Holding
<1>2. Users(t) \subseteq Client /\ Users(t)' \subseteq Client
  BY DEF Users
<1>3. RecordFits(t)
  BY SerializedStep
<1>4. CASE WritesLock(c, t)
  <2>1. pc[c] = "patch" /\ tgt[c] = t
    BY <1>4 DEF WritesLock
  <2>2. LockPatch(c)
    BY <2>1 DEF Step, HealthSnapshot, HealthFetch, HealthStore, HealthDone, FindTarget,
       LockSearch, LockFind, Confirm, ConfirmFind, FinishTests, UnlockSearch,
       UnlockFind, Release, Claimed
  <2>3. c \in Users(t)' /\ c \notin Users(t)
    BY <2>1, <2>2 DEF LockPatch, Goto, Users, Control, Claimed, Holding
  <2>4. QED
    BY <1>1, <1>2, <1>4, <2>3
<1>5. CASE TakesBack(c, t)
  <2>1. c \notin Users(t)'
    BY <1>5, UsersChange DEF TakesBack
  <2>2. QED
    BY <1>1, <1>2, <1>5, <2>1
<1>6. CASE UnchangedRecord(c, t) /\ ~TakesBack(c, t)
  <2>1. Users(t)' \subseteq Users(t)
    BY <1>6, UsersChange DEF UnchangedRecord
  <2>2. ASSUME c \in Users(t) PROVE c \in Users(t)'
    <3>1. pc[c] # "release"
      BY <1>6, <2>2, SerializedStep DEF Users
    <3>2. QED
      BY <1>3, <2>2, <3>1, UsersGoOn DEF Users
  <2>3. QED
    BY <1>1, <1>2, <1>6, <2>1, <2>2
<1>7. QED
  BY <1>4, <1>5, <1>6, SerializedStep

\* One parallel client more, or less, among the users.
LEMMA ParallelCount ==
    ASSUME NEW t \in Target, NEW c \in Parallel
    PROVE  LET n == Cardinality(Users(t) \cap Parallel)
               more == (Users(t) \cup {c}) \cap Parallel
               less == (Users(t) \ {c}) \cap Parallel
           IN  /\ n \in Nat
               /\ c \notin Users(t) => Cardinality(more) = n + 1
               /\ c \in Users(t) => Cardinality(less) = n - 1
<1> DEFINE U == Users(t) \cap Parallel
<1>1. IsFiniteSet(U)
  BY FiniteUsers, FS_Intersection
<1>2. /\ (Users(t) \cup {c}) \cap Parallel = U \cup {c}
      /\ (Users(t) \ {c}) \cap Parallel = U \ {c}
      /\ c \in U <=> c \in Users(t)
  OBVIOUS
<1>3. Cardinality(U) \in Nat
  BY <1>1, FS_CardinalityType
<1>4. c \notin U => Cardinality(U \cup {c}) = Cardinality(U) + 1
  BY <1>1, FS_AddElement
<1>5. c \in U => Cardinality(U \ {c}) = Cardinality(U) - 1
  BY <1>1, FS_RemoveElement
<1> HIDE DEF U
<1>6. QED
  BY <1>2, <1>3, <1>4, <1>5 DEF U

\* The lock of one more user is counted and named.
LEMMA WriteMatches ==
    ASSUME Control, Typed, NEW c \in Client, NEW t \in Target, RecordFits(t),
           Matches(t), WritesLock(c, t), c \notin Users(t),
           Users(t)' = Users(t) \cup {c}
    PROVE  Matches(t)'
<1>1. Names(lock'[t].useby) = Users(t)'
  BY LockedNames DEF Matches
<1>2. lock[t].cnt \in Int
  BY DEF Typed, LockRecord
<1>3. CASE Joins(c)
  <2>1. lock'[t] = JoinShared(lock[t], lock[t], c)
    BY <1>3 DEF WritesLock, LockedBy, Joins, Converts
  <2>2. lock'[t].cnt = lock[t].cnt + 1 /\ ~lock'[t].free
    BY <2>1 DEF JoinShared
  <2>3. Cardinality(Users(t)' \cap Parallel) = lock[t].cnt + 1
    BY <1>3, ParallelCount DEF Matches, Joins
  <2>4. QED
    BY <1>1, <2>2, <2>3 DEF Matches
<1>4. CASE Converts(c)
  <2>1. lock'[t] = ConvertToShared(lock[t], c)
    BY <1>4 DEF WritesLock, LockedBy, Joins, Converts
  <2>2. lock'[t].cnt = 1 /\ ~lock'[t].free
    BY <2>1 DEF ConvertToShared
  <2>3. Users(t)' \cap Parallel = {c}
    BY <1>4, LockedNames DEF Joins, Converts
  <2>4. Cardinality({c}) = 1
    BY FS_Singleton
  <2>5. QED
    BY <1>1, <2>2, <2>3, <2>4 DEF Matches
<1>5. CASE c \notin Parallel
  <2>1. lock'[t] = TakeExclusive(lock[t], c)
    BY <1>5 DEF WritesLock, LockedBy, Joins, Converts
  <2>2. lock'[t].cnt = lock[t].cnt /\ ~lock'[t].free
    BY <2>1 DEF TakeExclusive
  <2>3. Users(t)' \cap Parallel = Users(t) \cap Parallel
    BY <1>5
  <2>4. QED
    BY <1>1, <2>2, <2>3 DEF Matches
<1>6. QED
  BY <1>3, <1>4, <1>5 DEF Control, Joins, Converts

\* The release of a user takes its name and its count out of the record.
LEMMA ReleaseMatches ==
    ASSUME Control, Records, Typed, NEW c \in Client, NEW t \in Target,
           RecordFits(t), Matches(t), TakesBack(c, t), Users(t)' = Users(t) \ {c}
    PROVE  Matches(t)'
<1>1. c \in Users(t) /\ ~lock[t].free /\ lock[t].free \in BOOLEAN
  BY DEF TakesBack, Matches, Records, IsLockRecord
<1>2. CASE c \in Parallel /\ lock[t].cnt = 1
  <2>1. Users(t)' = {}
    BY <1>1, <1>2, LastShared DEF TakesBack
  <2>2. lock'[t] = Unlocked
    BY <1>2 DEF TakesBack
  <2>3. Cardinality(Users(t)' \cap Parallel) = 0
    BY <2>1, FS_EmptySet
  <2>4. QED
    BY <2>1, <2>2, <2>3, ShortNames DEF Matches, Unlocked
<1>3. CASE c \in Parallel /\ lock[t].cnt # 1
  <2>1. lock'[t] = LeaveShared(lock[t], lock[t], c)
    BY <1>3 DEF TakesBack
  <2>2. /\ lock'[t].useby = Without(lock[t].useby, c)
        /\ lock'[t].cnt = lock[t].cnt - 1 /\ lock'[t].free = lock[t].free
    BY <2>1 DEF LeaveShared
  <2>3. Names(lock'[t].useby) = Users(t)'
    BY <2>2, WithoutTakesOut DEF Typed, LockRecord, Token, Matches
  <2>4. Cardinality(Users(t)' \cap Parallel) = lock[t].cnt - 1
    BY <1>1, <1>3, ParallelCount DEF Matches
  <2>5. Users(t)' # {}
    <3>1. SUFFICES ASSUME Users(t) = {c} PROVE FALSE
      BY <1>1
    <3>2. Users(t) \cap Parallel = {c}
      BY <1>3, <3>1
    <3>3. Cardinality({c}) = 1
      BY FS_Singleton
    <3>4. lock[t].cnt = Cardinality(Users(t) \cap Parallel)
      BY DEF Matches
    <3>5. QED
      BY <1>3, <3>2, <3>3, <3>4
  <2>6. lock'[t].free <=> Users(t)' = {}
    BY <1>1, <2>2, <2>5
  <2>7. lock'[t].cnt = Cardinality(Users(t)' \cap Parallel)
    BY <2>2, <2>4
  <2>8. QED
    BY <2>3, <2>6, <2>7 DEF Matches
<1>4. CASE c \notin Parallel
  <2>1. Users(t)' = {} /\ lock[t].useby = <<c>> /\ lock'[t] = ReleaseExclusive(lock[t], c)
    BY <1>4 DEF TakesBack
  <2>2. lock'[t].useby = <<>> /\ lock'[t].free /\ lock'[t].cnt = lock[t].cnt
    BY <2>1 DEF ReleaseExclusive
  <2>3. Users(t)' \cap Parallel = Users(t) \cap Parallel
    BY <1>4
  <2>4. QED
    BY <2>1, <2>2, <2>3, ShortNames DEF Matches
<1>5. QED
  BY <1>2, <1>3, <1>4

LEMMA StepMatches ==
    ASSUME Control, Records, Typed, Counts, SharedConfirms, IInv, MatchInv, [Next]_vars
    PROVE  MatchInv'
<1> SUFFICES ASSUME ~clobbered', faults' = 0, aborts' = 0, NEW t \in Target
             PROVE  Matches(t)'
  BY DEF MatchInv
<1>1. CASE UNCHANGED vars
  BY <1>1 DEF vars, dbVars, clientVars, MatchInv, Matches, Users
<1>2. ASSUME NEW c \in Client, Failure(c) PROVE FALSE
  <2>1. faults \in Nat /\ aborts \in Nat
    BY TargetAssumption DEF Counts, TargetAssumption
  <2>2. faults' = faults + 1 \/ aborts' = aborts + 1
    BY <1>2 DEF Failure, SearchFails, UpdateFails, AnswerLost, Abort, Fault
  <2>3. QED
    BY <2>1, <2>2
<1>3. ASSUME NEW c \in Client, Step(c) PROVE Matches(t)'
  <2> USE <1>3
  <2>1. ~clobbered /\ RecordFits(t)
    BY SerializedStep
  <2>2. faults = 0 /\ aborts = 0
    BY DEF Step, HealthSnapshot, HealthFetch, HealthStore, HealthDone, FindTarget,
       LockSearch, LockFind, LockPatch, Confirm, ConfirmFind, FinishTests,
       UnlockSearch, UnlockFind, Release
  <2>3. Matches(t)
    BY <2>1, <2>2 DEF MatchInv
  <2>4. CASE UnchangedRecord(c, t) /\ Users(t)' = Users(t)
    BY <2>3, <2>4 DEF UnchangedRecord, Matches
  <2>5. QED
    BY <2>1, <2>3, <2>4, UsersExactly, WriteMatches, ReleaseMatches
<1>4. QED
  BY <1>1, <1>2, <1>3 DEF Next, AllOver

\* While every call succeeds and no update is clobbered, each record names
\* exactly the clients that use its target and counts the parallel ones, for
\* any number of clients and targets.
THEOREM RecordsAreExact == Spec => []RecordsMatchUsers
<1> DEFINE Inv == /\ Control /\ Records /\ Typed /\ Counts
                  /\ SharedConfirms /\ IInv /\ MatchInv
<1>1. Init => Inv
  <2>1. Init => MatchInv
    <3>1. SUFFICES ASSUME Init, NEW t \in Target PROVE Matches(t)
      BY DEF MatchInv
    <3>2. Users(t) = {} /\ lock[t] = Unlocked
      BY <3>1 DEF Init, Users, Claimed, Holding
    <3>3. QED
      BY <3>2, ShortNames, FS_EmptySet DEF Matches, Unlocked
  <2>2. Init => SharedConfirms
    BY DEF Init, SharedConfirms
  <2>3. QED
    BY <2>1, <2>2, InitTypes, InitTyped, InitInv
<1>2. Inv /\ [Next]_vars => Inv'
  BY StepControl, StepRecords, StepTyped, StepCounts, StepConfirms, StepInv, StepMatches
<1>3. Inv => RecordsMatchUsers
  BY DEF MatchInv, Matches, RecordsMatchUsers
<1>4. QED
  BY <1>1, <1>2, <1>3, PTL DEF Spec

-----------------------------------------------------------------------------
(* The lease. *)

\* What a client does to the users of the targets: the write of lock_target is
\* a grant, and any other step at most the return of the client's own target.
LEMMA LeaseStep ==
    ASSUME Control, Records, LockInv, ~clobbered', NEW c \in Client,
           Step(c) \/ Failure(c)
    PROVE  Lease!Next \/ UNCHANGED [t \in Target |-> Users(t)]
<1> DEFINE Using == Claimed \cup Holding
           U     == [t \in Target |-> Users(t)]
           V     == [t \in Target |-> Users(t)']
<1>1. \A d \in Client, t \in Target : d # c => (d \in Users(t)' <=> d \in Users(t))
  BY OwnStep DEF Users, Claimed, Holding
<1>2. \A t \in Target : Users(t) \subseteq Client /\ Users(t)' \subseteq Client
  BY DEF Users
<1>3. \A t \in Target : c \in Users(t) <=> pc[c] \in Using /\ tgt[c] = t
  BY DEF Users
<1>4. \A t \in Target : c \in Users(t)' <=> pc'[c] \in Using /\ tgt'[c] = t
  BY DEF Users, Claimed, Holding
<1> SUFFICES Lease!Next \/ V = U
  OBVIOUS
<1>5. CASE LockPatch(c)
  <2>1. PICK u \in Target : u = tgt[c]
    BY <1>5 DEF Control, UsesTarget, LockPatch
  <2>2. pc[c] \notin Using /\ pc'[c] \in Using /\ tgt'[c] = u
    BY <1>5, <2>1 DEF Control, LockPatch, Goto, Claimed, Holding
  <2>3. seen[c] = lock[u] /\ MayLock(c, lock[u])
    BY <1>5, <2>1 DEF LockPatch, BlindUpdate, LockInv, ReadsFit
  <2>4. IF c \in Parallel THEN Users(u) \subseteq Parallel ELSE Users(u) = {}
    <3>1. RecordFits(u)
      BY <2>1 DEF LockInv
    <3>2. CASE Joins(c)
      <4>1. lock[u].par
        BY <2>3, <3>2 DEF MayLock, InSharedUse, Joins, Converts
      <4> QED BY <3>1, <3>2, <4>1 DEF RecordFits, Joins
    <3>3. CASE ~Joins(c)
      <4>1. lock[u].free
        BY <2>3, <3>3 DEF MayLock, MayConvert, MayTakeExclusive, Joins, Converts
      <4> QED BY <3>1, <4>1 DEF RecordFits
    <3> QED BY <3>2, <3>3
  <2>5. \A t \in Target : c \notin Users(t)
    BY <1>3, <2>2
  <2>6. Users(u)' = Users(u) \cup {c}
    BY <1>1, <1>2, <1>4, <2>1, <2>2
  <2>7. ASSUME NEW t \in Target, t # u PROVE Users(t)' = Users(t)
    <3>1. c \notin Users(t) /\ c \notin Users(t)'
      BY <1>4, <2>2, <2>5, <2>7
    <3> QED BY <1>1, <1>2, <3>1
  <2>8. V = [U EXCEPT ![u] = @ \cup {c}]
    BY <2>1, <2>6, <2>7
  <2>9. Lease!Grant(c, u)
    BY <2>1, <2>4, <2>5, <2>8 DEF Lease!Grant, Lease!Using
  <2> QED BY <2>1, <2>9 DEF Lease!Next
<1>6. CASE ~LockPatch(c)
  <2>1. pc'[c] \in Using => pc[c] \in Using /\ tgt'[c] = tgt[c]
    BY <1>6, OwnUse
  <2>2. CASE pc[c] \in Using /\ pc'[c] \notin Using
    <3>0. PICK u \in Target : u = tgt[c]
      BY <2>2 DEF Control, UsesTarget
    <3>1. c \in Users(u)
      BY <2>2, <3>0, <1>3
    <3>2. Users(u)' = Users(u) \ {c}
      BY <1>1, <1>2, <1>4, <2>2, <3>1
    <3>3. ASSUME NEW t \in Target, t # u PROVE Users(t)' = Users(t)
      <4>1. c \notin Users(t) /\ c \notin Users(t)'
        BY <1>3, <1>4, <2>2, <3>0, <3>3
      <4> QED BY <1>1, <1>2, <4>1
    <3>4. V = [U EXCEPT ![u] = @ \ {c}]
      BY <3>1, <3>2, <3>3
    <3>5. Lease!Return(c, u)
      BY <3>1, <3>4 DEF Lease!Return
    <3> QED BY <3>1, <3>5 DEF Lease!Next
  <2>3. CASE pc[c] \notin Using \/ pc'[c] \in Using
    <3>1. \A t \in Target : c \in Users(t)' <=> c \in Users(t)
      BY <1>3, <1>4, <2>1, <2>3
    <3>2. \A t \in Target : Users(t)' = Users(t)
      BY <1>1, <1>2, <3>1
    <3> QED BY <3>2
  <2> QED BY <2>2, <2>3
<1> QED BY <1>5, <1>6

\* As long as no update is written over fields that changed after they were
\* read, the lock records implement the lease, for every set of clients and
\* targets, failed calls and aborted runs included.
THEOREM LocksImplementLease == SerializedSpec => ImplementsLease
<1>1. Init => Lease!Init
  BY DEF Init, Lease!Init, Users, Claimed, Holding
<1>2. ASSUME Control, Records, IInv, ~clobbered, [Next /\ ~clobbered']_vars
      PROVE  [Lease!Next]_([t \in Target |-> Users(t)])
  <2>1. CASE UNCHANGED vars
    <3>1. \A t \in Target : Users(t)' = Users(t)
      BY <2>1 DEF vars, clientVars, Users, Claimed, Holding
    <3> QED BY <3>1
  <2>2. CASE Next /\ ~clobbered'
    <3>1. CASE AllOver
      BY <2>1, <3>1 DEF AllOver
    <3>2. ASSUME NEW c \in Client, Step(c) \/ Failure(c)
          PROVE  Lease!Next \/ UNCHANGED [t \in Target |-> Users(t)]
      BY <1>2, <2>2, <3>2, LeaseStep DEF IInv
    <3> QED BY <2>2, <3>1, <3>2 DEF Next
  <2> QED BY <1>2, <2>1, <2>2
<1>3. SerializedSpec => Spec
  <2>1. [Next /\ ~clobbered']_vars => [Next]_vars
    OBVIOUS
  <2> QED BY <2>1, PTL DEF SerializedSpec, Spec
<1>4. SerializedSpec => []~clobbered
  <2>1. Init => ~clobbered
    BY DEF Init
  <2>2. ~clobbered /\ [Next /\ ~clobbered']_vars => ~clobbered'
    BY DEF vars, dbVars
  <2> QED BY <2>1, <2>2, PTL DEF SerializedSpec
<1>5. SerializedSpec => [](Control /\ Records /\ IInv)
  <2>1. Init => Control /\ Records /\ IInv
    BY InitTypes, InitInv
  <2>2. Control /\ Records /\ IInv /\ [Next]_vars => (Control /\ Records /\ IInv)'
    BY StepControl, StepRecords, StepInv
  <2> QED BY <1>3, <2>1, <2>2, PTL DEF Spec
<1> QED
  BY <1>1, <1>2, <1>4, <1>5, PTL DEF SerializedSpec, ImplementsLease, Lease!Spec

=============================================================================
