---------------------------- MODULE TargetLocking ----------------------------
(***************************************************************************)
(* Test runners (corbots) that share target setups through lock records in *)
(* a database.  A client is one Kafka message being handled by a runner:   *)
(* testrunner.check_kafka_msg_trigger_test checks the health of the        *)
(* targets, spins in get_available_target until a lock is written and      *)
(* confirmed, runs the tests in a child process and releases the lock.     *)
(*                                                                         *)
(* Every REST call and every database operation is a step of its own.  A   *)
(* search is two database operations (a count, then a find); they are one  *)
(* step where the code looks at the status of the answer only.             *)
(***************************************************************************)
EXTENDS SystemDB

CONSTANTS
    Target,      \* setupnames, all present in the collection
    TargetList,  \* the target_list every message of a run carries
    NoTarget,    \* the empty name
    MaxFaults,   \* bound: REST calls that fail or whose answer is lost
    MaxAborts    \* bound: runs that end without releasing their lock

ASSUME TargetAssumption ==
    /\ TargetList \in Seq(Target)
    /\ TargetList # <<>>
    /\ NoTarget \notin Target
    /\ MaxFaults \in Nat
    /\ MaxAborts \in Nat

VARIABLES
    lock,       \* the lock fields of every target's document
    healthy,    \* is_setup_healthy of every target's document
    pc,         \* where the handling of a client's message stands
    pos,        \* position in TargetList of the loop a client is in
    scan,       \* lock type that find_free_target is looking for
    tgt,        \* target a client is trying to lock, or holds
    seen,       \* lock fields as a client last read them
    checked,    \* targets whose health a client still has to store
    faults,     \* REST calls that have failed so far
    aborts,     \* runs that have ended without releasing
    clobbered   \* auxiliary: an update keyed by the setupname alone has been
                \* applied to lock fields that changed after they were read

dbVars     == <<lock, healthy, clobbered>>
clientVars == <<pc, pos, scan, tgt, seen, checked>>
vars       == <<dbVars, clientVars, faults, aborts>>

Waiting == {"find", "lock", "lockfind", "patch"}
Claimed == {"confirm", "confirmfind"}
Holding == {"run", "unlock", "unlockfind", "release"}
Over    == {"done", "gone"}
States  == {"snapshot", "fetch", "store"} \cup Waiting \cup Claimed
              \cup Holding \cup Over

\* A parallel message looks for a target in shared use first.
FirstScan(c) == IF c \in Parallel THEN "shared" ELSE "exclusive"

Joins(c)    == c \in Parallel /\ scan[c] = "shared"
Converts(c) == c \in Parallel /\ scan[c] = "exclusive"

TypeOK ==
    /\ lock \in [Target -> LockRecord]
    /\ healthy \in [Target -> BOOLEAN]
    /\ pc \in [Client -> States]
    /\ pos \in [Client -> 1..Len(TargetList)]
    /\ scan \in [Client -> {"shared", "exclusive"}]
    /\ tgt \in [Client -> Target \cup {NoTarget}]
    /\ seen \in [Client -> LockRecord]
    /\ checked \in [Client -> SUBSET Target]
    /\ faults \in 0..MaxFaults
    /\ aborts \in 0..MaxAborts
    /\ clobbered \in BOOLEAN

Init ==
    /\ lock = [t \in Target |-> Unlocked]
    /\ healthy \in [Target -> BOOLEAN]
    /\ pc = [c \in Client |-> "snapshot"]
    /\ pos = [c \in Client |-> 1]
    /\ scan = [c \in Client |-> FirstScan(c)]
    /\ tgt = [c \in Client |-> NoTarget]
    /\ seen = [c \in Client |-> Unlocked]
    /\ checked = [c \in Client |-> {}]
    /\ faults = 0
    /\ aborts = 0
    /\ clobbered = FALSE

-----------------------------------------------------------------------------
(* Steps of a client. *)

Goto(c, label) == pc' = [pc EXCEPT ![c] = label]

\* lock_target or is_target_locked failed: acquire_target returns "" and
\* get_available_target starts over.
Retry(c) ==
    /\ Goto(c, "find")
    /\ pos' = [pos EXCEPT ![c] = 1]
    /\ scan' = [scan EXCEPT ![c] = FirstScan(c)]
    /\ tgt' = [tgt EXCEPT ![c] = NoTarget]
    /\ seen' = [seen EXCEPT ![c] = Unlocked]

\* unlock_target returned, with or without having released the lock.
End(c) ==
    /\ Goto(c, "done")
    /\ tgt' = [tgt EXCEPT ![c] = NoTarget]
    /\ seen' = [seen EXCEPT ![c] = Unlocked]
    /\ UNCHANGED <<pos, scan>>

Remember(c, t) == seen' = [seen EXCEPT ![c] = lock[t]]

\* An update whose filter is the setupname alone.
BlindUpdate(c, t, record) ==
    /\ lock' = [lock EXCEPT ![t] = record]
    /\ clobbered' = (clobbered \/ seen[c] # lock[t])

-----------------------------------------------------------------------------
(* HealthCheck.health_check. *)

\* get_setup_details reads the documents one by one; a target in use is
\* left out of the check, a shared one with no client in it is not.
Skipped(r) == ~r.free /\ (r.par => r.useby # <<>>)

HealthSnapshot(c) ==
    LET t == TargetList[pos[c]] IN
    /\ pc[c] = "snapshot"
    /\ checked' = [checked EXCEPT ![c] = IF Skipped(lock[t]) THEN @ \ {t}
                                                             ELSE @ \cup {t}]
    /\ IF pos[c] < Len(TargetList)
       THEN pos' = [pos EXCEPT ![c] = @ + 1] /\ UNCHANGED pc
       ELSE pos' = [pos EXCEPT ![c] = 1] /\ Goto(c, "fetch")
    /\ UNCHANGED <<dbVars, scan, tgt, seen, faults, aborts>>

\* update_health_status takes the checked targets in the order of the list,
\* reads the whole document of each again ...
HealthFetch(c) ==
    /\ pc[c] = "fetch"
    /\ \E i \in DOMAIN TargetList :
         LET t == TargetList[i] IN
         /\ t \in checked[c]
         /\ \A j \in 1..(i - 1) : TargetList[j] \notin checked[c]
         /\ tgt' = [tgt EXCEPT ![c] = t]
         /\ checked' = [checked EXCEPT ![c] = @ \ {t}]
         /\ Remember(c, t)
    /\ Goto(c, "store")
    /\ UNCHANGED <<dbVars, pos, scan, faults, aborts>>

\* ... and writes the whole document back with the new health flag.
HealthStore(c) ==
    /\ pc[c] = "store"
    /\ BlindUpdate(c, tgt[c], seen[c])
    /\ \E verdict \in BOOLEAN : healthy' = [healthy EXCEPT ![tgt[c]] = verdict]
    /\ Goto(c, "fetch")
    /\ tgt' = [tgt EXCEPT ![c] = NoTarget]
    /\ seen' = [seen EXCEPT ![c] = Unlocked]
    /\ UNCHANGED <<pos, scan, checked, faults, aborts>>

HealthDone(c) ==
    /\ pc[c] = "fetch"
    /\ checked[c] = {}
    /\ Goto(c, "find")
    /\ UNCHANGED <<dbVars, pos, scan, tgt, seen, checked, faults, aborts>>

-----------------------------------------------------------------------------
(* LockingServer.find_free_target, as get_available_target calls it. *)

\* Mutant of FindNext: a parallel message never looks for a free target.
FindNextShared(c) ==
    /\ pos' = [pos EXCEPT ![c] = IF @ < Len(TargetList) THEN @ + 1 ELSE 1]
    /\ UNCHANGED scan

\* The next target of the list; a parallel message that has found no target
\* in shared use looks for a free one; then the search starts over.
FindNext(c) ==
    IF pos[c] < Len(TargetList)
    THEN pos' = [pos EXCEPT ![c] = @ + 1] /\ UNCHANGED scan
    ELSE /\ pos' = [pos EXCEPT ![c] = 1]
         /\ scan' = [scan EXCEPT ![c] = IF Joins(c) THEN "exclusive"
                                                    ELSE FirstScan(c)]

IsFreeTarget(c, t) ==
    /\ healthy[t]
    /\ IF scan[c] = "shared" THEN InSharedUse(lock[t]) ELSE lock[t].free

FindTarget(c) ==
    LET t == TargetList[pos[c]] IN
    /\ pc[c] = "find"
    /\ IF IsFreeTarget(c, t)
       THEN /\ tgt' = [tgt EXCEPT ![c] = t]
            /\ Goto(c, "lock")
            /\ UNCHANGED <<pos, scan>>
       ELSE FindNext(c) /\ UNCHANGED <<tgt, pc>>
    /\ UNCHANGED <<dbVars, seen, checked, faults, aborts>>

-----------------------------------------------------------------------------
(* LockingServer.lock_target. *)

MayLock(c, r) == CASE Joins(c)    -> InSharedUse(r)
                   [] Converts(c) -> MayConvert(r)
                   [] OTHER       -> MayTakeExclusive(r)

\* The search.  A join also uses the document that the find returns.
LockSearch(c) ==
    /\ pc[c] = "lock"
    /\ IF ~MayLock(c, lock[tgt[c]])
       THEN Retry(c)
       ELSE /\ Goto(c, IF Joins(c) THEN "lockfind" ELSE "patch")
            /\ IF Joins(c) THEN UNCHANGED seen ELSE Remember(c, tgt[c])
            /\ UNCHANGED <<pos, scan, tgt>>
    /\ UNCHANGED <<dbVars, checked, faults, aborts>>

\* When the find returns nothing after all, the PATCH goes out with the body
\* of the search, which the server refuses.
LockFind(c) ==
    /\ pc[c] = "lockfind"
    /\ IF InSharedUse(lock[tgt[c]])
       THEN Goto(c, "patch") /\ Remember(c, tgt[c]) /\ UNCHANGED <<pos, scan, tgt>>
       ELSE Retry(c)
    /\ UNCHANGED <<dbVars, checked, faults, aborts>>

LockedBy(c, r) == CASE Joins(c)    -> JoinShared(r, seen[c], c)
                    [] Converts(c) -> ConvertToShared(r, c)
                    [] OTHER       -> TakeExclusive(r, c)

LockPatch(c) ==
    /\ pc[c] = "patch"
    /\ BlindUpdate(c, tgt[c], LockedBy(c, lock[tgt[c]]))
    /\ Goto(c, "confirm")
    /\ seen' = [seen EXCEPT ![c] = Unlocked]
    /\ UNCHANGED <<healthy, pos, scan, tgt, checked, faults, aborts>>

-----------------------------------------------------------------------------
(* LockingServer.is_target_locked. *)

Confirm(c) ==
    LET r == lock[tgt[c]] IN
    /\ pc[c] = "confirm"
    /\ IF c \in Parallel
       THEN IF InSharedUse(r)
            THEN Goto(c, "confirmfind") /\ UNCHANGED <<pos, scan, tgt, seen>>
            ELSE Retry(c)
       ELSE IF ExclusiveConfirmed(r, c)
            THEN Goto(c, "run") /\ UNCHANGED <<pos, scan, tgt, seen>>
            ELSE Retry(c)
    /\ UNCHANGED <<dbVars, checked, faults, aborts>>

ConfirmFind(c) ==
    LET r == lock[tgt[c]] IN
    /\ pc[c] = "confirmfind"
    /\ IF InSharedUse(r) /\ SharedConfirmed(r, c)
       THEN Goto(c, "run") /\ UNCHANGED <<pos, scan, tgt, seen>>
       ELSE Retry(c)
    /\ UNCHANGED <<dbVars, checked, faults, aborts>>

-----------------------------------------------------------------------------
(* trigger_runner_process and LockingServer.unlock_target. *)

FinishTests(c) ==
    /\ pc[c] = "run"
    /\ Goto(c, "unlock")
    /\ UNCHANGED <<dbVars, pos, scan, tgt, seen, checked, faults, aborts>>

\* Nothing found: unlock_target returns None and the lock stays.
UnlockSearch(c) ==
    /\ pc[c] = "unlock"
    /\ IF lock[tgt[c]].free
       THEN End(c)
       ELSE Goto(c, "unlockfind") /\ UNCHANGED <<pos, scan, tgt, seen>>
    /\ UNCHANGED <<dbVars, checked, faults, aborts>>

UnlockFind(c) ==
    /\ pc[c] = "unlockfind"
    /\ IF lock[tgt[c]].free
       THEN End(c)
       ELSE Goto(c, "release") /\ Remember(c, tgt[c]) /\ UNCHANGED <<pos, scan, tgt>>
    /\ UNCHANGED <<dbVars, checked, faults, aborts>>

\* The last shared client frees the target, another one takes itself out of
\* the record, an exclusive client frees the record that carries its name.
ReleaseUpdate(c) ==
    LET t == tgt[c] IN
    CASE seen[c].par /\ seen[c].cnt = 1 -> BlindUpdate(c, t, Unlocked)
      [] seen[c].par /\ seen[c].cnt # 1 ->
            BlindUpdate(c, t, LeaveShared(lock[t], seen[c], c))
      [] OTHER -> /\ lock' = [lock EXCEPT ![t] = ReleaseExclusive(@, c)]
                  /\ UNCHANGED clobbered

Release(c) ==
    /\ pc[c] = "release"
    /\ ReleaseUpdate(c)
    /\ End(c)
    /\ UNCHANGED <<healthy, checked, faults, aborts>>

-----------------------------------------------------------------------------
(* Failures. *)

Fault == faults < MaxFaults /\ faults' = faults + 1

\* requests raises, or the server answers 5xx, on a search.
SearchFails(c) ==
    /\ Fault
    /\ \/ pc[c] = "find" /\ FindNext(c) /\ UNCHANGED <<pc, tgt, seen>>
       \/ pc[c] \in {"lock", "lockfind"} \cup Claimed /\ Retry(c)
       \/ pc[c] \in {"unlock", "unlockfind"} /\ End(c)
    /\ UNCHANGED <<dbVars, checked, aborts>>

\* A PATCH that does not reach the server.
UpdateFails(c) ==
    /\ Fault
    /\ \/ pc[c] = "patch" /\ Retry(c)
       \/ pc[c] = "release" /\ End(c)
    /\ UNCHANGED <<dbVars, checked, aborts>>

\* A PATCH that is applied and whose answer is lost.
AnswerLost(c) ==
    /\ Fault
    /\ \/ /\ pc[c] = "patch"
          /\ BlindUpdate(c, tgt[c], LockedBy(c, lock[tgt[c]]))
          /\ Retry(c)
       \/ pc[c] = "release" /\ ReleaseUpdate(c) /\ End(c)
    /\ UNCHANGED <<healthy, checked, aborts>>

\* The child exits before unlock_target (pytest returned 3 or 4, or anything
\* raised), or the parent leaves its loop on an exception or ^C.
Abort(c) ==
    /\ pc[c] \notin Over
    /\ aborts < MaxAborts
    /\ aborts' = aborts + 1
    /\ Goto(c, "gone")
    /\ tgt' = [tgt EXCEPT ![c] = NoTarget]
    /\ seen' = [seen EXCEPT ![c] = Unlocked]
    /\ checked' = [checked EXCEPT ![c] = {}]
    /\ UNCHANGED <<dbVars, pos, scan, faults>>

-----------------------------------------------------------------------------

Step(c) ==
    \/ HealthSnapshot(c) \/ HealthFetch(c) \/ HealthStore(c) \/ HealthDone(c)
    \/ FindTarget(c)
    \/ LockSearch(c) \/ LockFind(c) \/ LockPatch(c)
    \/ Confirm(c) \/ ConfirmFind(c)
    \/ FinishTests(c)
    \/ UnlockSearch(c) \/ UnlockFind(c) \/ Release(c)

Failure(c) == SearchFails(c) \/ UpdateFails(c) \/ AnswerLost(c) \/ Abort(c)

\* Every message has been handled.
AllOver == (\A c \in Client : pc[c] \in Over) /\ UNCHANGED vars

Next == (\E c \in Client : Step(c) \/ Failure(c)) \/ AllOver

Spec == Init /\ [][Next]_vars

\* Runners are processes of their own: each keeps taking steps, and pytest ends.
Fairness == \A c \in Client : WF_vars(Step(c))

FairSpec == Spec /\ Fairness

-----------------------------------------------------------------------------
(* Properties. *)

\* The clients that use target t, or are about to be told that they may.
Users(t) == {c \in Client : tgt[c] = t /\ pc[c] \in Claimed \cup Holding}

\* A target held for a sequential execution is held by nobody else: "exclusive
\* lock, which will be dedicated system for that execution".
ExclusiveUse ==
    \A c, d \in Client :
        c # d /\ {pc[c], pc[d]} \subseteq Holding /\ tgt[c] = tgt[d]
            => {c, d} \subseteq Parallel

\* Exclusive use holds whatever the interleaving, the lost answers and the
\* aborted runs, as long as lock_target, unlock_target and
\* update_health_status never write over lock fields that changed after they
\* read them: the missing compare-and-set is all that can break the lock.
SerializedExclusiveUse == ~clobbered => ExclusiveUse

\* Without such a write, a target in use is never offered as free, and a
\* record that says free is blank, so that the next lock starts from nothing.
FreeMeansUnused ==
    ~clobbered => \A t \in Target :
        lock[t].free => Users(t) = {} /\ lock[t] = Unlocked

\* Without such a write a client that runs tests finds its name in the record
\* until it releases: unlock_target will recognise it.
HoldersAreRecorded ==
    ~clobbered => \A c \in Client :
        pc[c] \in Holding => c \in Names(lock[tgt[c]].useby)

\* Without such a write, a failed call or an aborted run, the record names
\* exactly the clients that use the target and counts the parallel ones: in
\* particular every target is free once all clients are done.
RecordsMatchUsers ==
    ~clobbered /\ faults = 0 /\ aborts = 0 => \A t \in Target :
        /\ Names(lock[t].useby) = Users(t)
        /\ lock[t].free <=> Users(t) = {}
        /\ lock[t].cnt = Cardinality(Users(t) \cap Parallel)

\* The spin of get_available_target ends: every message is executed, if the
\* targets end up healthy and no update is clobbered.
EveryMessageRuns ==
    [](~clobbered) /\ <>[](\A t \in Target : healthy[t])
        => \A c \in Client : <>(pc[c] = "done")

-----------------------------------------------------------------------------
(* The lease that the lock records implement. *)

\* The executions in which the updates of lock_target, unlock_target and
\* update_health_status find the lock fields as they were read.
SerializedSpec == Init /\ [][Next /\ ~clobbered']_vars

\* The fair ones among them: these are the executions of FairSpec in which
\* clobbered stays FALSE.
FairSerializedSpec == SerializedSpec /\ Fairness

Lease == INSTANCE TargetLease WITH users <- [t \in Target |-> Users(t)]

\* In such an execution targets are granted and returned as TargetLease says:
\* the write of lock_target is the grant, whatever the confirmation finds.
ImplementsLease == Lease!Spec

=============================================================================
