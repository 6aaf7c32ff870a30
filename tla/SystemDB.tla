------------------------------ MODULE SystemDB ------------------------------
(***************************************************************************)
(* The documents of the r2_systems collection, one per target setup, as    *)
(* far as target locking reads and writes them, and the queries and        *)
(* updates that core/locking_server.py sends to the REST server            *)
(* (tools/rest_server/rest_app/systems_api.py).                            *)
(*                                                                         *)
(* setup_in_useby is a string of client names.  It is kept as the sequence *)
(* of its tokens, the names and the Blanks between them: what the code     *)
(* does with it (==, in, +, replace, strip) is the same on the tokens.     *)
(***************************************************************************)
EXTENDS Integers, Sequences, FiniteSets, FiniteSetsExt

CONSTANTS
    Client,     \* names "<host>_<time>", one per Kafka message being handled
    Parallel,   \* the clients whose message asks for a parallel execution
    Blank       \* the space that separates two names in setup_in_useby

ASSUME ClientAssumption ==
    /\ IsFiniteSet(Client)
    /\ Parallel \subseteq Client
    /\ Blank \notin Client

\* is_setup_free, setup_in_useby, in_use_for_parallel, parallel_client_cnt.
LockRecord == [free  : BOOLEAN,
               useby : Seq(Client \cup {Blank}),
               par   : BOOLEAN,
               cnt   : Int]

Unlocked == [free |-> TRUE, useby |-> <<>>, par |-> FALSE, cnt |-> 0]

-----------------------------------------------------------------------------
(* Strings of names. *)

Names(useby) == {useby[i] : i \in DOMAIN useby} \ {Blank}

\* str.strip()
Strip(useby) ==
    LET named == {i \in DOMAIN useby : useby[i] # Blank}
    IN  IF named = {} THEN <<>> ELSE SubSeq(useby, Min(named), Max(named))

\* The k-th smallest of a set of positions.
Nth(S, k) == CHOOSE i \in S : Cardinality({j \in S : j <= i}) = k

\* clients.replace(client, "").strip()
Without(useby, client) ==
    LET kept == {i \in DOMAIN useby : useby[i] # client}
    IN  Strip([k \in 1..Cardinality(kept) |-> useby[Nth(kept, k)]])

-----------------------------------------------------------------------------
(* Queries. *)

\* A setup that runs parallel tests: the query of a join, of the shared
\* confirmation and, with the health flag, of the search for a shared target.
InSharedUse(r) == ~r.free /\ r.par

\* Mutant of MayConvert: the query does not ask for is_setup_free.
MayConvertBusy(r) == ~r.par

\* What lock_target asks of the record before it writes the lock.
MayConvert(r)      == r.free /\ ~r.par
MayTakeExclusive(r) == r.free /\ r.useby = <<>>

\* What is_target_locked asks of the record after the lock was written.
ExclusiveConfirmed(r, client) == ~r.free /\ r.useby = <<client>>
SharedConfirmed(r, client)    == client \in Names(r.useby) /\ r.cnt > 0

-----------------------------------------------------------------------------
(* Updates.  r is the document as it is when the update is applied, seen   *)
(* the document as the client read it before.                              *)

ConvertToShared(r, client) ==
    [free |-> FALSE, useby |-> <<client>>, par |-> TRUE, cnt |-> 1]

\* Mutant of JoinShared: the update stores the new client only.
JoinOverwrites(r, seen, client) ==
    [free |-> FALSE, useby |-> <<client>>, par |-> r.par, cnt |-> seen.cnt + 1]

JoinShared(r, seen, client) ==
    [free  |-> FALSE,
     useby |-> seen.useby \o <<Blank, client>>,
     par   |-> r.par,
     cnt   |-> seen.cnt + 1]

TakeExclusive(r, client) ==
    [free |-> FALSE, useby |-> <<client>>, par |-> r.par, cnt |-> r.cnt]

\* Mutant of LeaveShared: the update leaves parallel_client_cnt alone.
LeaveKeepsCount(r, seen, client) ==
    [free |-> r.free, useby |-> Without(seen.useby, client), par |-> r.par, cnt |-> seen.cnt]

LeaveShared(r, seen, client) ==
    [free  |-> r.free,
     useby |-> Without(seen.useby, client),
     par   |-> r.par,
     cnt   |-> seen.cnt - 1]

\* Mutant of ReleaseExclusive: the name stays in the freed record.
ReleaseKeepsName(r, client) ==
    [free |-> TRUE, useby |-> r.useby, par |-> r.par, cnt |-> r.cnt]

\* The filter of this update names the owner: it changes nothing (and still
\* answers 200, systems_api.py) when the record belongs to somebody else.
ReleaseExclusive(r, client) ==
    IF r.useby = <<client>>
    THEN [free |-> TRUE, useby |-> <<>>, par |-> r.par, cnt |-> r.cnt]
    ELSE r

=============================================================================
