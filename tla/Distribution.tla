---------------------------- MODULE Distribution ----------------------------
(***************************************************************************)
(* How the tickets of a distributed execution reach the test runners.      *)
(* The primebot (drunner.run) puts its tickets into a WorkQ; a thread      *)
(* (core/producer.server) takes them out and produces them to a Kafka      *)
(* topic; the corbots (testrunner.check_kafka_msg_trigger_test), all in    *)
(* one consumer group, poll the topic and run what they get.               *)
(*                                                                         *)
(* WorkQ.put and WorkQ.task_done are one step each here: WorkerPool shows  *)
(* that a permit of the semaphore is a free place of the queue.  Kafka is  *)
(* modelled from what its clients rely on: a partition is a log read by    *)
(* one member of the group at a time, the offset of a message is stored    *)
(* when poll() returns it, stored offsets are committed in the background  *)
(* and when a member leaves, and a partition that changes hands is read on *)
(* from the committed offset.                                              *)
(***************************************************************************)
EXTENDS Integers, Sequences, FiniteSets, SequencesExt

CONSTANTS
    Ticket,       \* tickets of the execution
    Plan,         \* the tickets in the order run() puts them
    EmptyTicket,  \* those whose test set is empty
    Corbot,       \* test runners
    Partition,    \* partitions of the topic
    QueueSize,    \* length of the WorkQ
    IdleLimit,    \* empty polls after which a corbot stops
    MaxRefused,   \* bound: tickets the serializer refuses
    MaxFailures,  \* bound: exceptions that end a corbot's loop
    MaxCrashes,   \* bound: corbots that are killed
    MaxUndelivered, \* bound: tickets whose delivery fails
    Pill, NoTicket, Nobody

ASSUME DistributionAssumption ==
    /\ Plan \in Seq(Ticket)
    /\ IsInjective(Plan)
    /\ EmptyTicket \subseteq Ticket
    /\ {QueueSize, IdleLimit} \subseteq Nat \ {0}
    /\ {MaxRefused, MaxFailures, MaxCrashes, MaxUndelivered} \subseteq Nat
    /\ Pill \notin Ticket /\ NoTicket \notin Ticket
    /\ Nobody \notin Corbot

VARIABLES
    primebot,    \* where drunner.run stands
    sent,        \* how many tickets it has put
    queue,       \* items in the WorkQ
    permits,     \* value of the semaphore of the WorkQ
    unfinished,  \* unfinished_tasks of the WorkQ
    server,      \* where the producer thread stands
    item,        \* the item it works on
    buffer,      \* tickets produced and not yet delivered to a partition
    log,         \* the partitions
    owner,       \* the member that reads each partition
    position,    \* offset stored for each partition by its owner
    committed,   \* offset committed for each partition
    bot,         \* where each corbot stands
    msg,         \* the ticket it has been given
    idle,        \* max_iteration of each corbot
    runs,        \* auxiliary: how many times each ticket was executed
    refused, failures, crashes,
    undelivered  \* auxiliary: tickets delivery_report was called for with an error

primebotVars == <<primebot, sent>>
queueVars    == <<queue, permits, unfinished>>
serverVars   == <<server, item, buffer>>
kafkaVars    == <<log, owner, position, committed>>
botVars      == <<bot, msg, idle, runs>>
faultVars    == <<refused, failures, crashes, undelivered>>
vars == <<primebotVars, queueVars, serverVars, kafkaVars, botVars, faultVars>>

Gone == {"stopped", "crashed"}

TypeOK ==
    /\ primebot \in {"put", "join", "joinThread", "returned"}
    /\ sent \in 0..Len(Plan)
    /\ queue \in Seq(Ticket \cup {Pill})
    /\ permits \in 0..QueueSize
    /\ unfinished \in 0..(Len(Plan) + 1)
    /\ server \in {"get", "produce", "flush", "ended", "dead"}
    /\ item \in Ticket \cup {Pill, NoTicket}
    /\ buffer \subseteq Ticket
    /\ log \in [Partition -> Seq(Ticket)]
    /\ owner \in [Partition -> Corbot \cup {Nobody}]
    /\ position \in [Partition -> Nat] /\ committed \in [Partition -> Nat]
    /\ \A p \in Partition : committed[p] <= position[p] /\ position[p] <= Len(log[p])
    /\ bot \in [Corbot -> {"poll", "got", "run"} \cup Gone]
    /\ msg \in [Corbot -> Ticket \cup {NoTicket}]
    /\ idle \in [Corbot -> 0..IdleLimit]
    /\ runs \in [Ticket -> Nat]
    /\ refused \in 0..MaxRefused
    /\ failures \in 0..MaxFailures
    /\ crashes \in 0..MaxCrashes
    /\ undelivered \subseteq Ticket

Init ==
    /\ primebot = "put"
    /\ sent = 0
    /\ queue = <<>>
    /\ permits = QueueSize
    /\ unfinished = 0
    /\ server = "get"
    /\ item = NoTicket
    /\ buffer = {}
    /\ log = [p \in Partition |-> <<>>]
    /\ owner \in [Partition -> Corbot]
    /\ position = [p \in Partition |-> 0]
    /\ committed = [p \in Partition |-> 0]
    /\ bot = [c \in Corbot |-> "poll"]
    /\ msg = [c \in Corbot |-> NoTicket]
    /\ idle = [c \in Corbot |-> 0]
    /\ runs = [t \in Ticket |-> 0]
    /\ refused = 0 /\ failures = 0 /\ crashes = 0 /\ undelivered = {}

-----------------------------------------------------------------------------
(* The primebot: the loop of drunner.run over its tickets. *)

WorkQPut(i) ==
    /\ permits > 0
    /\ permits' = permits - 1
    /\ queue' = Append(queue, i)
    /\ unfinished' = unfinished + 1

WorkQTaskDone ==
    /\ permits' = permits + 1
    /\ unfinished' = unfinished - 1

PutTicket ==
    /\ primebot = "put"
    /\ sent < Len(Plan)
    /\ WorkQPut(Plan[sent + 1])
    /\ sent' = sent + 1
    /\ UNCHANGED <<primebot, serverVars, kafkaVars, botVars, faultVars>>

PutPill ==
    /\ primebot = "put"
    /\ sent = Len(Plan)
    /\ WorkQPut(Pill)
    /\ primebot' = "join"
    /\ UNCHANGED <<sent, serverVars, kafkaVars, botVars, faultVars>>

Join ==
    /\ primebot = "join"
    /\ unfinished = 0
    /\ primebot' = "joinThread"
    /\ UNCHANGED <<sent, queueVars, serverVars, kafkaVars, botVars, faultVars>>

JoinThread ==
    /\ primebot = "joinThread"
    /\ server \in {"ended", "dead"}
    /\ primebot' = "returned"
    /\ UNCHANGED <<sent, queueVars, serverVars, kafkaVars, botVars, faultVars>>

-----------------------------------------------------------------------------
(* The thread of producer.server. *)

\* Mutant of TakeItem: the thread leaves on the pill without a task_done().
TakeItemNoTaskDone ==
    /\ server = "get"
    /\ queue # <<>>
    /\ queue' = Tail(queue)
    /\ IF Head(queue) = Pill
       THEN server' = "flush" /\ item' = NoTicket
       ELSE server' = "produce" /\ item' = Head(queue)
    /\ UNCHANGED <<permits, unfinished, buffer>>
    /\ UNCHANGED <<primebotVars, kafkaVars, botVars, faultVars>>

TakeItem ==
    /\ server = "get"
    /\ queue # <<>>
    /\ queue' = Tail(queue)
    /\ IF Head(queue) = Pill
       THEN WorkQTaskDone /\ server' = "flush" /\ item' = NoTicket
       ELSE server' = "produce" /\ item' = Head(queue) /\ UNCHANGED <<permits, unfinished>>
    /\ UNCHANGED <<buffer, primebotVars, kafkaVars, botVars, faultVars>>

\* produce() leaves the ticket with the Kafka client.
Produce ==
    /\ server = "produce"
    /\ buffer' = buffer \cup {item}
    /\ WorkQTaskDone
    /\ server' = "get"
    /\ item' = NoTicket
    /\ UNCHANGED <<queue, primebotVars, kafkaVars, botVars, faultVars>>

\* ValueSerializationError, or ValueError once a ticket has been made: the
\* record is discarded without a task_done().
Refuse ==
    /\ server = "produce"
    /\ refused < MaxRefused
    /\ refused' = refused + 1
    /\ server' = "get"
    /\ item' = NoTicket
    /\ UNCHANGED <<buffer, queueVars, primebotVars, kafkaVars, botVars, failures,
                   crashes, undelivered>>

\* Any other exception, a ValueError on the first ticket included, ends the
\* thread.
ServerDies ==
    /\ server = "produce"
    /\ refused < MaxRefused
    /\ refused' = refused + 1
    /\ server' = "dead"
    /\ item' = NoTicket
    /\ UNCHANGED <<buffer, queueVars, primebotVars, kafkaVars, botVars, failures,
                   crashes, undelivered>>

\* Mutant of Flush: the thread ends without a flush().
FlushAtOnce ==
    /\ server = "flush"
    /\ server' = "ended"
    /\ UNCHANGED <<item, buffer, queueVars, primebotVars, kafkaVars, botVars, faultVars>>

\* producer.flush() waits until every ticket was delivered or has failed to be;
\* the failures have been printed, and the thread ends all the same.
Flush ==
    /\ server = "flush"
    /\ buffer = {}
    /\ server' = "ended"
    /\ UNCHANGED <<item, buffer, queueVars, primebotVars, kafkaVars, botVars, faultVars>>

-----------------------------------------------------------------------------
(* Kafka. *)

\* The key of a ticket is a fresh uuid: any partition may get it.
Deliver(p) ==
    /\ \E t \in buffer : /\ buffer' = buffer \ {t}
                         /\ log' = [log EXCEPT ![p] = Append(@, t)]
    /\ UNCHANGED <<server, item, owner, position, committed>>
    /\ UNCHANGED <<primebotVars, queueVars, botVars, faultVars>>

\* The client gives a ticket up: delivery_report prints the error.
DeliveryFails ==
    /\ Cardinality(undelivered) < MaxUndelivered
    /\ \E t \in buffer : /\ buffer' = buffer \ {t}
                         /\ undelivered' = undelivered \cup {t}
    /\ UNCHANGED <<server, item, refused, failures, crashes>>
    /\ UNCHANGED <<primebotVars, queueVars, kafkaVars, botVars>>

\* The background commit of a member that is alive.
Commit(p) ==
    /\ owner[p] # Nobody
    /\ committed[p] # position[p]
    /\ committed' = [committed EXCEPT ![p] = position[p]]
    /\ UNCHANGED <<log, owner, position>>
    /\ UNCHANGED <<primebotVars, queueVars, serverVars, botVars, faultVars>>

\* Mutant of Assign: offsets are not committed when a partition changes hands.
AssignUncommitted(p, c) ==
    /\ bot[c] \notin Gone
    /\ owner[p] # c
    /\ owner' = [owner EXCEPT ![p] = c]
    /\ position' = [position EXCEPT ![p] = committed[p]]
    /\ UNCHANGED <<log, committed>>
    /\ UNCHANGED <<primebotVars, queueVars, serverVars, botVars, faultVars>>

\* The group hands a partition to a member; the one that gives it up commits
\* first, whatever it is doing.
Assign(p, c) ==
    /\ bot[c] \notin Gone
    /\ owner[p] # c
    /\ owner' = [owner EXCEPT ![p] = c]
    /\ committed' = [committed EXCEPT ![p] = position[p]]
    /\ UNCHANGED <<log, position>>
    /\ UNCHANGED <<primebotVars, queueVars, serverVars, botVars, faultVars>>

-----------------------------------------------------------------------------
(* The corbots: the loop of check_kafka_msg_trigger_test. *)

\* poll() returns a message of p; one with an empty test list is passed over.
Poll(c, p) ==
    /\ bot[c] = "poll"
    /\ owner[p] = c
    /\ position[p] < Len(log[p])
    /\ position' = [position EXCEPT ![p] = @ + 1]
    /\ LET t == log[p][position[p] + 1] IN
       IF t \in EmptyTicket
       THEN UNCHANGED <<bot, msg>>
       ELSE bot' = [bot EXCEPT ![c] = "got"] /\ msg' = [msg EXCEPT ![c] = t]
    /\ UNCHANGED <<log, owner, committed, idle, runs>>
    /\ UNCHANGED <<primebotVars, queueVars, serverVars, faultVars>>

\* Mutant of Close: the consumer leaves the group without a commit.
CloseUncommitted(c) ==
    /\ owner' = [p \in Partition |-> IF owner[p] = c THEN Nobody ELSE owner[p]]
    /\ position' = [p \in Partition |-> IF owner[p] = c THEN committed[p]
                                                        ELSE position[p]]
    /\ UNCHANGED <<log, committed>>

\* consumer.close() commits and leaves the group.
Close(c) ==
    /\ owner' = [p \in Partition |-> IF owner[p] = c THEN Nobody ELSE owner[p]]
    /\ committed' = [p \in Partition |-> IF owner[p] = c THEN position[p]
                                                         ELSE committed[p]]
    /\ UNCHANGED <<log, position>>

\* poll() times out: nothing there, or the group is being rebalanced.
PollNothing(c) ==
    /\ bot[c] = "poll"
    /\ idle' = [idle EXCEPT ![c] = @ + 1]
    /\ IF idle'[c] >= IdleLimit
       THEN bot' = [bot EXCEPT ![c] = "stopped"] /\ Close(c)
       ELSE UNCHANGED <<bot, kafkaVars>>
    /\ UNCHANGED <<msg, runs, primebotVars, queueVars, serverVars, faultVars>>

\* Mutant of StartRun: a corbot that finds no target drops the message.
StartRunGivesUp(c) ==
    /\ bot[c] = "got"
    /\ bot' = [bot EXCEPT ![c] = "poll"]
    /\ msg' = [msg EXCEPT ![c] = NoTicket]
    /\ UNCHANGED <<idle, runs, primebotVars, queueVars, serverVars, kafkaVars, faultVars>>

\* A target was acquired and the child process is started.
StartRun(c) ==
    /\ bot[c] = "got"
    /\ runs' = [runs EXCEPT ![msg[c]] = @ + 1]
    /\ bot' = [bot EXCEPT ![c] = "run"]
    /\ UNCHANGED <<msg, idle, primebotVars, queueVars, serverVars, kafkaVars, faultVars>>

EndRun(c) ==
    /\ bot[c] = "run"
    /\ bot' = [bot EXCEPT ![c] = "poll"]
    /\ msg' = [msg EXCEPT ![c] = NoTicket]
    /\ UNCHANGED <<idle, runs, primebotVars, queueVars, serverVars, kafkaVars, faultVars>>

\* Anything raised in the loop, ^C included, leaves it.
Fail(c) ==
    /\ bot[c] \notin Gone
    /\ failures < MaxFailures
    /\ failures' = failures + 1
    /\ bot' = [bot EXCEPT ![c] = "stopped"]
    /\ msg' = [msg EXCEPT ![c] = NoTicket]
    /\ Close(c)
    /\ UNCHANGED <<idle, runs, primebotVars, queueVars, serverVars, refused, crashes,
                   undelivered>>

\* The process or its machine dies: nothing more is committed.
Crash(c) ==
    /\ bot[c] \notin Gone
    /\ crashes < MaxCrashes
    /\ crashes' = crashes + 1
    /\ bot' = [bot EXCEPT ![c] = "crashed"]
    /\ msg' = [msg EXCEPT ![c] = NoTicket]
    /\ owner' = [p \in Partition |-> IF owner[p] = c THEN Nobody ELSE owner[p]]
    /\ position' = [p \in Partition |-> IF owner[p] = c THEN committed[p]
                                                        ELSE position[p]]
    /\ UNCHANGED <<log, committed, idle, runs>>
    /\ UNCHANGED <<primebotVars, queueVars, serverVars, refused, failures, undelivered>>

-----------------------------------------------------------------------------

PrimebotStep == PutTicket \/ PutPill \/ Join \/ JoinThread
ServerStep   == TakeItem \/ Produce \/ Flush
ServerFault  == Refuse \/ ServerDies
BotStep(c)   == (\E p \in Partition : Poll(c, p)) \/ StartRun(c) \/ EndRun(c)

Next ==
    \/ PrimebotStep
    \/ ServerStep \/ ServerFault
    \/ \E p \in Partition : Deliver(p) \/ Commit(p)
    \/ DeliveryFails
    \/ \E p \in Partition, c \in Corbot : Assign(p, c)
    \/ \E c \in Corbot : BotStep(c) \/ PollNothing(c) \/ Fail(c) \/ Crash(c)

Spec == Init /\ [][Next]_vars

\* Threads and processes are scheduled, tests end, the broker answers: what is
\* produced is delivered or given up, a partition that nobody reads finds a reader, and a
\* corbot that polls is given the messages that wait for it.
Fairness ==
    /\ WF_vars(PrimebotStep)
    /\ WF_vars(ServerStep)
    /\ WF_vars(\E p \in Partition : Deliver(p))
    /\ \A p \in Partition : WF_vars(owner[p] = Nobody /\ \E c \in Corbot : Assign(p, c))
    /\ \A c \in Corbot : WF_vars(StartRun(c) \/ EndRun(c))
    /\ \A c \in Corbot, p \in Partition : SF_vars(Poll(c, p))

FairSpec == Spec /\ Fairness

-----------------------------------------------------------------------------
(* Properties. *)

Planned == {Plan[i] : i \in DOMAIN Plan}

\* Tickets that a partition holds past the position p of its reader.
Ahead(p) == {log[p][i] : i \in (position[p] + 1)..Len(log[p])}

\* Where a ticket can be before a corbot is given it.
Unread ==
    {Plan[i] : i \in (sent + 1)..Len(Plan)} \cup ToSet(queue) \cup {item}
        \cup buffer \cup UNION {Ahead(p) : p \in Partition}

\* "It is guaranteed that a test will be executed only once by any of the test
\* runners."
ExecutedOnce == \A t \in Ticket : runs[t] <= 1

\* As long as no corbot is killed a ticket is executed at most once, and never
\* while another copy of it is still to be read or in a corbot's hands.
AtMostOnce ==
    crashes = 0 =>
        /\ ExecutedOnce
        /\ \A t \in Ticket : runs[t] = 1 => t \notin Unread
        /\ \A c, d \in Corbot : c # d /\ msg[c] = msg[d] => msg[c] = NoTicket

\* As long as nothing is refused, raised or killed, no ticket gets lost but those
\* whose delivery has failed: one with tests is still on its way, in a corbot's
\* hands, or was executed.
NothingLost ==
    refused = 0 /\ failures = 0 /\ crashes = 0 =>
        \A t \in Planned \ (EmptyTicket \cup undelivered) :
            t \in Unread \/ runs[t] = 1 \/ \E c \in Corbot : msg[c] = t

\* What the primebot, the topic and the corbots do to the tickets together.
Tickets == INSTANCE TicketQueue WITH
    waiting <- Unread \cap Ticket,
    held    <- [c \in Corbot |-> {msg[c]} \cap Ticket],
    faults  <- refused + failures + Cardinality(undelivered)

\* Unless a corbot is killed, each step is one of TicketQueue, or cannot be seen
\* there: a ticket is handed out once, executed once and by the corbot that has
\* it, given up only after that, and a fault costs at most one ticket.
ImplementsTicketQueue ==
    Tickets!Init /\ [][crashes' = 0 => [Tickets!Next]_(Tickets!vars)]_vars

\* When drunner.run returns, every ticket is in the topic except those whose
\* failed delivery was printed, of which it knows nothing: it does not return
\* after a discarded record, nor before the last delivery has been decided.
ReturnMeansDelivered ==
    primebot = "returned" =>
        /\ refused = 0 /\ buffer = {}
        /\ UNION {ToSet(log[p]) : p \in Partition} = Planned \ undelivered

\* drunner.run returns, unless producer.server has discarded a record or ended
\* early: then its join() waits for ever.
RunReturns ==
    /\ [](refused = 0) => <>(primebot = "returned")
    /\ [](refused > 0 => [](primebot # "returned"))

\* A corbot that never stops sees to it that every ticket with tests is
\* executed unless its delivery fails, if nothing is refused, raised or killed.
EveryTicketRuns ==
    [](refused = 0 /\ failures = 0 /\ crashes = 0) /\ [](\E c \in Corbot : bot[c] \notin Gone)
        => \A t \in Planned \ EmptyTicket : <>(runs[t] = 1 \/ t \in undelivered)

=============================================================================
