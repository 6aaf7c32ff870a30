----------------------------- MODULE TargetLease -----------------------------
(***************************************************************************)
(* What target locking promises (docs/Architectural-Overview.md, "Target   *)
(* Locking"): a target is used by one sequential client, or by any number  *)
(* of parallel ones, and a client uses one target at a time.               *)
(***************************************************************************)
CONSTANTS Client, Parallel, Target

VARIABLE users  \* the clients that use each target

Init == users = [t \in Target |-> {}]

Using(c) == \E t \in Target : c \in users[t]

\* A client that uses nothing is given target t.
Grant(c, t) ==
    /\ ~Using(c)
    /\ IF c \in Parallel THEN users[t] \subseteq Parallel ELSE users[t] = {}
    /\ users' = [users EXCEPT ![t] = @ \cup {c}]

\* A client stops using target t, or is refused after all.
Return(c, t) ==
    /\ c \in users[t]
    /\ users' = [users EXCEPT ![t] = @ \ {c}]

Next == \E c \in Client, t \in Target : Grant(c, t) \/ Return(c, t)

Spec == Init /\ [][Next]_users

=============================================================================
