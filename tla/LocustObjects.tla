---------------------------- MODULE LocustObjects ----------------------------
(***************************************************************************)
(* scripts/locust: a load test of S3.  The users of a locustfile share one *)
(* InMemoryDB of the objects uploaded so far.  A user pops an object to    *)
(* head, download or delete it and stores it back when it is still there:  *)
(* while it holds the object nobody else can reach it.  The object store   *)
(* is external: a request takes effect or not, and fails or not.           *)
(***************************************************************************)
EXTENDS LRUCache, FiniteSets

CONSTANTS
    User,     \* greenlets of the load test
    Bucket,   \* buckets create_buckets asks for
    MaxErrors \* bound: requests that fail

\* An object is named by its bucket and a name made from the time.
ASSUME ObjectAssumption == \A k \in Key : k[1] \in Bucket

VARIABLES
    phase,       \* of the test: "setup", "running", "cleanup"
    asked,       \* buckets create_buckets or delete_buckets has gone through
    bucket_list, \* LocustUtils.bucket_list
    buckets,     \* buckets in the store
    stored,      \* objects in the store
    task,        \* task of a user: "idle", "put", "head", "download", "delete"
    hand,        \* object the task is about, as a set
    named,       \* objects whose name has been used
    errors,      \* requests that failed
    forgotten,   \* auxiliary: popped for a head or a download that failed
    unanswered,  \* auxiliary: the failed request took effect all the same
    evicted      \* auxiliary: evicted by a store

s3Vars == <<buckets, stored>>
whyVars == <<forgotten, unanswered, evicted>>
vars == <<cacheVars, phase, asked, bucket_list, s3Vars, task, hand, named,
          errors, whyVars>>

Tasks == {"idle", "put", "head", "download", "delete"}

TypeOK ==
    /\ CacheTypeOK
    /\ phase \in {"setup", "running", "cleanup"}
    /\ asked \subseteq Bucket /\ bucket_list \subseteq Bucket /\ buckets \subseteq Bucket
    /\ stored \subseteq Key /\ named \subseteq Key
    /\ task \in [User -> Tasks]
    /\ hand \in [User -> SUBSET Key]
    /\ errors \in 0..MaxErrors
    /\ forgotten \subseteq Key /\ unanswered \subseteq Key /\ evicted \subseteq Key

Init ==
    /\ CacheInit
    /\ phase = "setup"
    /\ asked = {} /\ bucket_list = {} /\ buckets = {}
    /\ stored = {} /\ named = {}
    /\ task = [u \in User |-> "idle"]
    /\ hand = [u \in User |-> {}]
    /\ errors = 0
    /\ forgotten = {} /\ unanswered = {} /\ evicted = {}

-----------------------------------------------------------------------------
(* on_test_start and on_test_stop. *)

\* One turn of create_buckets: the bucket is listed when the answer arrives.
CreateBucket(b) ==
    /\ phase = "setup" /\ b \notin asked
    /\ asked' = asked \cup {b}
    /\ \/ /\ buckets' = buckets \cup {b}
          /\ bucket_list' = bucket_list \cup {b}
          /\ UNCHANGED errors
       \/ /\ errors < MaxErrors /\ errors' = errors + 1
          /\ buckets' \in {buckets, buckets \cup {b}}
          /\ UNCHANGED bucket_list
    /\ UNCHANGED <<cacheVars, phase, stored, task, hand, named, whyVars>>

SpawnUsers ==
    /\ phase = "setup" /\ asked = Bucket
    /\ phase' = "running"
    /\ UNCHANGED <<cacheVars, asked, bucket_list, s3Vars, task, hand, named,
                   errors, whyVars>>

\* The run time is over: locust kills the users where they are, then calls
\* on_test_stop.  An upload or a deletion under way may still take effect.
Held(tasks) == UNION {hand[u] : u \in {v \in User : task[v] \in tasks}}

StopUsers ==
    /\ phase = "running"
    /\ phase' = "cleanup"
    /\ asked' = {}
    /\ \E arrived \in SUBSET Held({"put"}), gone \in SUBSET Held({"delete"}) :
          stored' = (stored \cup arrived) \ gone
    /\ task' = [u \in User |-> "idle"]
    /\ hand' = [u \in User |-> {}]
    /\ UNCHANGED <<cacheVars, bucket_list, buckets, named, errors, whyVars>>

Inside(b) == {k \in stored : k[1] = b}

\* One turn of delete_buckets: the objects go before the bucket does.  The list
\* keeps its names: it is searched for the bucket's resource, which is not in it.
DeleteBucket(b) ==
    /\ phase = "cleanup" /\ b \in bucket_list \ asked
    /\ asked' = asked \cup {b}
    /\ \/ /\ stored' = stored \ Inside(b)
          /\ buckets' = buckets \ {b}
          /\ UNCHANGED errors
       \/ /\ errors < MaxErrors /\ errors' = errors + 1
          /\ \E deleted \in SUBSET Inside(b) : stored' = stored \ deleted
          /\ UNCHANGED buckets
    /\ UNCHANGED <<cacheVars, phase, bucket_list, task, hand, named, whyVars>>

-----------------------------------------------------------------------------
(* The tasks of a user: what it does before its request, and after it. *)

\* put_object begins to upload a new object.
BeginPut(u, k) ==
    /\ phase = "running" /\ task[u] = "idle"
    /\ k \notin named /\ k[1] \in bucket_list
    /\ named' = named \cup {k}
    /\ task' = [task EXCEPT ![u] = "put"]
    /\ hand' = [hand EXCEPT ![u] = {k}]
    /\ UNCHANGED <<cacheVars, phase, asked, bucket_list, s3Vars, errors, whyVars>>

\* head_object, download_object and delete_object begin with pop_one.
BeginPopped(u, t, k) ==
    /\ phase = "running" /\ task[u] = "idle"
    /\ PopOne(k)
    /\ task' = [task EXCEPT ![u] = t]
    /\ hand' = [hand EXCEPT ![u] = {k}]
    /\ UNCHANGED <<phase, asked, bucket_list, s3Vars, named, errors, whyVars>>

\* The task of u, which is about k, comes to its end.
End(u, t, k) ==
    /\ phase = "running" /\ task[u] = t /\ k \in hand[u]
    /\ task' = [task EXCEPT ![u] = "idle"]
    /\ hand' = [hand EXCEPT ![u] = {}]
    /\ UNCHANGED <<phase, asked, bucket_list, buckets, named>>

\* store_checksum.  The fifo still lists what was popped, twice once it is
\* stored back: an old entry may evict an object that came in anew, even k.
StoreChecksum(k) ==
    /\ Store(k)
    /\ evicted' = evicted \cup (Evicted(k) \cap (table \cup {k}))

Fails == errors < MaxErrors /\ errors' = errors + 1

Uploaded(u, k) ==
    /\ End(u, "put", k)
    /\ stored' = stored \cup {k}
    /\ StoreChecksum(k)
    /\ UNCHANGED <<errors, forgotten, unanswered>>

\* Mutant of UploadFails: the checksum is stored without waiting for the answer.
UploadFailsStoring(u, k) ==
    /\ End(u, "put", k)
    /\ Fails
    /\ \/ stored' = stored \cup {k} /\ unanswered' = unanswered \cup {k}
       \/ UNCHANGED <<stored, unanswered>>
    /\ StoreChecksum(k)
    /\ UNCHANGED forgotten

\* Without an answer the object is not stored in the cache, whatever became of it.
UploadFails(u, k) ==
    /\ End(u, "put", k)
    /\ Fails
    /\ \/ stored' = stored \cup {k} /\ unanswered' = unanswered \cup {k}
       \/ UNCHANGED <<stored, unanswered>>
    /\ UNCHANGED <<cacheVars, forgotten, evicted>>

\* head_object or download_object succeeds, and stores the object back.
Read(u, t, k) ==
    /\ End(u, t, k) /\ k \in stored
    /\ StoreChecksum(k)
    /\ UNCHANGED <<stored, errors, forgotten, unanswered>>

\* It fails, and the object is not stored back.
ReadFails(u, t, k) ==
    /\ End(u, t, k)
    /\ IF k \in stored THEN Fails ELSE UNCHANGED errors
    /\ forgotten' = forgotten \cup {k}
    /\ UNCHANGED <<cacheVars, stored, unanswered, evicted>>

\* delete_object succeeds, also when the object is gone already.
Deleted(u, k) ==
    /\ End(u, "delete", k)
    /\ stored' = stored \ {k}
    /\ Delete(k)
    /\ UNCHANGED <<errors, whyVars>>

\* Mutant of DeleteFails: the object is not stored back.
DeleteFailsForgetting(u, k) ==
    /\ End(u, "delete", k)
    /\ Fails
    /\ \/ stored' = stored \ {k} /\ unanswered' = unanswered \cup {k}
       \/ UNCHANGED <<stored, unanswered>>
    /\ UNCHANGED <<cacheVars, forgotten, evicted>>

\* It fails, and the object is stored back, whatever became of it.
DeleteFails(u, k) ==
    /\ End(u, "delete", k)
    /\ Fails
    /\ \/ stored' = stored \ {k} /\ unanswered' = unanswered \cup {k}
       \/ UNCHANGED <<stored, unanswered>>
    /\ StoreChecksum(k)
    /\ UNCHANGED forgotten

Next ==
    \/ SpawnUsers \/ StopUsers
    \/ \E b \in Bucket : CreateBucket(b) \/ DeleteBucket(b)
    \/ \E u \in User, k \in Key :
          \/ BeginPut(u, k) \/ Uploaded(u, k) \/ UploadFails(u, k)
          \/ \E t \in {"head", "download", "delete"} : BeginPopped(u, t, k)
          \/ \E t \in {"head", "download"} : Read(u, t, k) \/ ReadFails(u, t, k)
          \/ Deleted(u, k) \/ DeleteFails(u, k)

Spec == Init /\ [][Next]_vars

-----------------------------------------------------------------------------
(* Properties. *)

\* pop_one gives an object to one user: no two users work on the same object,
\* and none can pop an object another one is uploading, reading or deleting.
OneUserPerObject ==
    \A u \in User :
        /\ hand[u] \cap table = {}
        /\ \A v \in User \ {u} : hand[u] \cap hand[v] = {}

\* A head or a download asks for an object that is in the store, unless the
\* answer to its deletion was lost: an object is stored in the cache only once
\* it has arrived, and leaves it before it is deleted.
ReadsFindTheirObject ==
    phase = "running" =>
        table \cup Held({"head", "download"}) \subseteq stored \cup unanswered

\* An object in the store is within the reach of the users, who would download
\* it again or delete it, unless a request for it failed or it was evicted.
NothingStranded ==
    phase = "running" =>
        stored \subseteq table \cup Held(Tasks) \cup forgotten \cup unanswered \cup evicted

=============================================================================
