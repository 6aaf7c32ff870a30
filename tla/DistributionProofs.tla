------------------------- MODULE DistributionProofs -------------------------
(***************************************************************************)
(* Proofs about Distribution: what a ticket's way from drunner.run to a    *)
(* corbot keeps, for every plan, queue size, and number of corbots,        *)
(* partitions and faults.                                                  *)
(*                                                                         *)
(* The tickets leave the WorkQ in the order of the plan.  So the thread of *)
(* producer.server has been through an initial part of it, and everything  *)
(* the Kafka client and the partitions hold comes from that part, once.    *)
(***************************************************************************)
EXTENDS Distribution, TLAPS, FiniteSetTheorems

\* How many items run() has put, the pill included, and how many of them the
\* thread has taken.
Put == IF primebot = "put" THEN sent ELSE sent + 1
Taken == Put - Len(queue)
Working == IF server = "produce" THEN 1 ELSE 0

Outgoing(n) == IF n <= Len(Plan) THEN Plan[n] ELSE Pill

\* The tickets the thread is through with.
Handled(t) == \E i \in DOMAIN Plan : i <= Taken - Working /\ t = Plan[i]

InTopic(t) == \E p \in Partition : \E i \in DOMAIN log[p] : t = log[p][i]

\* The tickets a corbot was given.
Read(t) == \E p \in Partition : \E i \in 1..position[p] : t = log[p][i]

Queued ==
    /\ primebot # "put" => sent = Len(Plan)
    /\ Len(queue) <= Put
    /\ \A i \in DOMAIN queue : queue[i] = Outgoing(Taken + i)
    /\ server = "produce" => Taken \in DOMAIN Plan /\ item = Plan[Taken]
    /\ server # "produce" => item = NoTicket
    /\ server \in {"flush", "ended"} <=> Taken = Len(Plan) + 1

Counted ==
    /\ unfinished = Len(queue) + Working + refused
    /\ permits + unfinished = QueueSize
    /\ refused + Working <= Taken
    /\ server = "dead" => refused > 0
    /\ primebot \in {"joinThread", "returned"} => unfinished = 0
    /\ primebot = "returned" => server \in {"ended", "dead"}

Once ==
    /\ \A t \in buffer : Handled(t) /\ ~InTopic(t) /\ t \notin undelivered
    /\ \A t \in undelivered : Handled(t) /\ ~InTopic(t)
    /\ \A t \in Ticket : InTopic(t) => Handled(t)
    /\ \A p, q \in Partition : \A i \in DOMAIN log[p], j \in DOMAIN log[q] :
          log[p][i] = log[q][j] => p = q /\ i = j
    /\ refused = 0 => \A t \in Ticket :
                        Handled(t) => t \in buffer \/ InTopic(t) \/ t \in undelivered
    /\ server = "ended" => buffer = {}
    /\ IsFiniteSet(undelivered)

InHand ==
    /\ \A c \in Corbot : bot[c] \notin Gone => idle[c] < IdleLimit
    /\ \A c \in Corbot : bot[c] \in {"got", "run"} <=> msg[c] # NoTicket

Unrepeated ==
    crashes = 0 =>
        /\ \A c \in Corbot : msg[c] # NoTicket => Read(msg[c])
        /\ \A t \in Ticket : runs[t] > 0 => Read(t)
        /\ \A t \in Ticket : runs[t] <= 1
        /\ \A c \in Corbot : bot[c] = "got" => runs[msg[c]] = 0
        /\ \A c, d \in Corbot : c # d /\ msg[c] = msg[d] => msg[c] = NoTicket

Unlost ==
    failures = 0 /\ crashes = 0 =>
        /\ \A c \in Corbot : bot[c] = "run" => runs[msg[c]] = 1
        /\ \A t \in Ticket \ EmptyTicket :
              Read(t) => runs[t] = 1 \/ \E c \in Corbot : msg[c] = t

IInv == TypeOK /\ Queued /\ Counted /\ Once /\ InHand /\ Unrepeated /\ Unlost

-----------------------------------------------------------------------------
(* What the invariant says of the beginning. *)

LEMMA InitIInv == Init => IInv
<1> SUFFICES ASSUME Init PROVE IInv
  OBVIOUS
<1> USE DistributionAssumption DEF Init
<1>1. TypeOK
  BY DEF TypeOK, Gone
<1>2. Queued
  BY DEF Queued, Put, Taken
<1>3. Counted
  BY DEF Counted, Put, Taken, Working
<1>4. \A t : ~InTopic(t) /\ ~Read(t) /\ ~Handled(t)
  BY DEF InTopic, Read, Handled, Put, Taken, Working
<1>5. Once
  BY <1>4, FS_EmptySet DEF Once
<1>6. InHand
  BY DEF InHand, Gone
<1>7. Unrepeated /\ Unlost
  BY <1>4 DEF Unrepeated, Unlost
<1> QED BY <1>1, <1>2, <1>3, <1>5, <1>6, <1>7 DEF IInv

-----------------------------------------------------------------------------
(* Types: of the way into the topic, of the topic, and of the corbots. *)

SendTypes ==
    /\ primebot \in {"put", "join", "joinThread", "returned"}
    /\ sent \in 0..Len(Plan)
    /\ queue \in Seq(Ticket \cup {Pill})
    /\ permits \in 0..QueueSize
    /\ unfinished \in 0..(Len(Plan) + 1)
    /\ server \in {"get", "produce", "flush", "ended", "dead"}
    /\ item \in Ticket \cup {Pill, NoTicket}
    /\ buffer \subseteq Ticket
    /\ refused \in 0..MaxRefused
    /\ undelivered \subseteq Ticket

TopicTypes ==
    /\ log \in [Partition -> Seq(Ticket)]
    /\ owner \in [Partition -> Corbot \cup {Nobody}]
    /\ position \in [Partition -> Nat] /\ committed \in [Partition -> Nat]
    /\ \A p \in Partition : committed[p] <= position[p] /\ position[p] <= Len(log[p])

HandTypes ==
    /\ bot \in [Corbot -> {"poll", "got", "run"} \cup Gone]
    /\ msg \in [Corbot -> Ticket \cup {NoTicket}]
    /\ idle \in [Corbot -> 0..IdleLimit]
    /\ runs \in [Ticket -> Nat]
    /\ failures \in 0..MaxFailures
    /\ crashes \in 0..MaxCrashes

sendVars == <<primebotVars, queueVars, serverVars, refused, undelivered>>
handVars == <<botVars, failures, crashes>>

LEMMA TypesInParts == TypeOK <=> SendTypes /\ TopicTypes /\ HandTypes
BY DEF TypeOK, SendTypes, TopicTypes, HandTypes

KafkaStep ==
    \/ \E p \in Partition : Deliver(p) \/ Commit(p)
    \/ \E p \in Partition, c \in Corbot : Assign(p, c)

CorbotStep(c) == BotStep(c) \/ PollNothing(c) \/ Fail(c) \/ Crash(c)

SendStep == PrimebotStep \/ ServerStep \/ ServerFault

LEMMA SendFrame == SendStep => UNCHANGED <<kafkaVars, handVars>>
<1> USE DEF botVars, handVars, faultVars
<1>1. PrimebotStep => UNCHANGED <<kafkaVars, handVars>>
  BY DEF PrimebotStep, PutTicket, PutPill, Join, JoinThread
<1>2. ServerStep => UNCHANGED <<kafkaVars, handVars>>
  BY DEF ServerStep, TakeItem, Produce, Flush
<1>3. ServerFault => UNCHANGED <<kafkaVars, handVars>>
  BY DEF ServerFault, Refuse, ServerDies
<1> QED BY <1>1, <1>2, <1>3 DEF SendStep

LEMMA SendTypesKept ==
  ASSUME SendTypes, Counted, Queued, SendStep PROVE SendTypes'
<1> USE DistributionAssumption DEF SendTypes
<1>1. CASE PutTicket
  <2>1. Plan[sent + 1] \in Ticket
    BY <1>1 DEF PutTicket
  <2>2. queue' \in Seq(Ticket \cup {Pill})
    BY <1>1, <2>1 DEF PutTicket, WorkQPut
  <2>3. unfinished + 1 <= Len(Plan) + 1 /\ permits > 0
    BY <1>1 DEF PutTicket, WorkQPut, Counted, Queued, Taken, Put, Working
  <2> QED BY <1>1, <2>2, <2>3 DEF PutTicket, WorkQPut, serverVars, faultVars
<1>2. CASE PutPill
  <2>2. queue' \in Seq(Ticket \cup {Pill})
    BY <1>2 DEF PutPill, WorkQPut
  <2>3. unfinished + 1 <= Len(Plan) + 1 /\ permits > 0
    BY <1>2 DEF PutPill, WorkQPut, Counted, Queued, Taken, Put, Working
  <2> QED BY <1>2, <2>2, <2>3 DEF PutPill, WorkQPut, serverVars, faultVars
<1>3. CASE Join
  BY <1>3 DEF Join, queueVars, serverVars, faultVars
<1>4. CASE JoinThread
  BY <1>4 DEF JoinThread, queueVars, serverVars, faultVars
<1>5. CASE TakeItem
  <2>1. queue' \in Seq(Ticket \cup {Pill}) /\ Head(queue) \in Ticket \cup {Pill}
    BY <1>5 DEF TakeItem
  <2>2. unfinished > 0 /\ permits < QueueSize
    <3>1. Len(queue) > 0 /\ Len(queue) \in Nat
      BY <1>5 DEF TakeItem
    <3> QED BY <3>1 DEF Counted, Working
  <2>3. /\ UNCHANGED <<primebot, sent, buffer, refused, undelivered>>
        /\ IF Head(queue) = Pill
           THEN /\ permits' = permits + 1 /\ unfinished' = unfinished - 1
                /\ server' = "flush" /\ item' = NoTicket
           ELSE /\ permits' = permits /\ unfinished' = unfinished
                /\ server' = "produce" /\ item' = Head(queue)
    BY <1>5 DEF TakeItem, WorkQTaskDone, primebotVars, faultVars
  <2>4. server' \in {"flush", "produce"} /\ item' \in Ticket \cup {Pill, NoTicket}
    BY <2>1, <2>3
  <2>5. permits' \in 0..QueueSize
    BY <2>2, <2>3
  <2>6. unfinished' \in 0..(Len(Plan) + 1)
    BY <2>2, <2>3
  <2> QED BY <2>1, <2>3, <2>4, <2>5, <2>6
<1>6. CASE Produce
  <2>1. item \in Ticket
    BY <1>6 DEF Produce, Queued
  <2>2. unfinished > 0 /\ permits < QueueSize
    BY <1>6 DEF Produce, Counted, Working
  <2>3. /\ permits' = permits + 1 /\ unfinished' = unfinished - 1
        /\ server' = "get" /\ item' = NoTicket /\ buffer' = buffer \union {item}
        /\ UNCHANGED <<primebot, sent, queue, refused, undelivered>>
    BY <1>6 DEF Produce, WorkQTaskDone, primebotVars, faultVars
  <2>4. permits' \in 0..QueueSize /\ unfinished' \in 0..(Len(Plan) + 1)
    BY <2>2, <2>3
  <2> QED BY <2>1, <2>3, <2>4
<1>7. CASE Flush
  BY <1>7 DEF Flush, queueVars, primebotVars, faultVars
<1>8. CASE Refuse
  BY <1>8 DEF Refuse, queueVars, primebotVars
<1>9. CASE ServerDies
  BY <1>9 DEF ServerDies, queueVars, primebotVars
<1> QED BY <1>1, <1>2, <1>3, <1>4, <1>5, <1>6, <1>7, <1>8, <1>9
        DEF SendStep, PrimebotStep, ServerStep, ServerFault

LEMMA TopicTypesKept ==
  ASSUME TopicTypes, SendTypes,
         KafkaStep \/ \E c \in Corbot : CorbotStep(c)
  PROVE  TopicTypes'
<1> USE DistributionAssumption DEF TopicTypes
<1>1. ASSUME NEW p \in Partition, Deliver(p) PROVE TopicTypes'
  <2> PICK t \in buffer : log' = [log EXCEPT ![p] = Append(@, t)]
    BY <1>1 DEF Deliver
  <2>1. log' \in [Partition -> Seq(Ticket)]
    BY DEF SendTypes
  <2>2. \A q \in Partition : Len(log'[q]) >= Len(log[q])
    OBVIOUS
  <2> QED BY <1>1, <2>1, <2>2 DEF Deliver
<1>2. ASSUME NEW p \in Partition, Commit(p) PROVE TopicTypes'
  <2>1. committed' \in [Partition -> Nat]
    BY <1>2 DEF Commit
  <2>2. \A q \in Partition : committed'[q] <= position[q]
    BY <1>2 DEF Commit
  <2> QED BY <1>2, <2>1, <2>2 DEF Commit
<1>3. ASSUME NEW p \in Partition, NEW c \in Corbot, Assign(p, c) PROVE TopicTypes'
  <2>1. committed' \in [Partition -> Nat] /\ owner' \in [Partition -> Corbot \cup {Nobody}]
    BY <1>3 DEF Assign
  <2>2. \A q \in Partition : committed'[q] <= position[q]
    BY <1>3 DEF Assign
  <2> QED BY <1>3, <2>1, <2>2 DEF Assign
<1>4. ASSUME NEW p \in Partition, NEW c \in Corbot, Poll(c, p) PROVE TopicTypes'
  <2>1. position' \in [Partition -> Nat]
    BY <1>4 DEF Poll
  <2>2. \A q \in Partition : position[q] <= position'[q] /\ position'[q] <= Len(log[q])
    BY <1>4 DEF Poll
  <2> QED BY <1>4, <2>1, <2>2 DEF Poll
<1>5. ASSUME NEW c \in Corbot, Close(c) PROVE TopicTypes'
  <2>1. committed' \in [Partition -> Nat] /\ owner' \in [Partition -> Corbot \cup {Nobody}]
    BY <1>5 DEF Close
  <2>2. \A q \in Partition : committed'[q] <= position[q]
    BY <1>5 DEF Close
  <2> QED BY <1>5, <2>1, <2>2 DEF Close
<1>6. ASSUME NEW c \in Corbot, Crash(c) PROVE TopicTypes'
  <2>1. position' \in [Partition -> Nat] /\ owner' \in [Partition -> Corbot \cup {Nobody}]
    BY <1>6 DEF Crash
  <2>2. \A q \in Partition : committed[q] <= position'[q] /\ position'[q] <= Len(log[q])
    BY <1>6 DEF Crash
  <2> QED BY <1>6, <2>1, <2>2 DEF Crash
<1>7. ASSUME NEW c \in Corbot, PollNothing(c) PROVE TopicTypes'
  BY <1>5, <1>7 DEF PollNothing, kafkaVars
<1>8. ASSUME NEW c \in Corbot, StartRun(c) \/ EndRun(c) PROVE TopicTypes'
  BY <1>8 DEF StartRun, EndRun, kafkaVars
<1> QED BY <1>1, <1>2, <1>3, <1>4, <1>5, <1>6, <1>7, <1>8
        DEF KafkaStep, CorbotStep, BotStep, Fail

LEMMA HandTypesKept ==
  ASSUME HandTypes, TopicTypes, InHand, NEW c \in Corbot, CorbotStep(c)
  PROVE  HandTypes'
<1> USE DistributionAssumption DEF HandTypes, Gone
<1>1. ASSUME NEW p \in Partition, Poll(c, p) PROVE HandTypes'
  <2>1. log[p][position[p] + 1] \in Ticket
    BY <1>1 DEF Poll, TopicTypes
  <2> QED BY <1>1, <2>1 DEF Poll, faultVars
<1>2. CASE StartRun(c)
  <2>1. msg[c] \in Ticket
    BY <1>2 DEF StartRun, InHand
  <2>2. runs' \in [Ticket -> Nat]
    BY <1>2, <2>1 DEF StartRun
  <2> QED BY <1>2, <2>2 DEF StartRun, faultVars
<1>3. CASE EndRun(c)
  BY <1>3 DEF EndRun, faultVars
<1>4. CASE PollNothing(c)
  <2>1. idle[c] < IdleLimit /\ idle[c] \in Nat
    BY <1>4 DEF PollNothing, InHand
  <2>2. idle' \in [Corbot -> 0..IdleLimit]
    BY <1>4, <2>1 DEF PollNothing
  <2>3. bot' \in [Corbot -> {"poll", "got", "run"} \cup Gone]
    BY <1>4 DEF PollNothing
  <2> QED BY <1>4, <2>2, <2>3 DEF PollNothing, faultVars
<1>5. CASE Fail(c)
  BY <1>5 DEF Fail
<1>6. CASE Crash(c)
  BY <1>6 DEF Crash
<1> QED BY <1>1, <1>2, <1>3, <1>4, <1>5, <1>6 DEF CorbotStep, BotStep

-----------------------------------------------------------------------------
(* The WorkQ and its counters. *)

LEMMA QueuedKept ==
  ASSUME SendTypes, Queued, SendStep PROVE Queued'
<1> USE DistributionAssumption DEF SendTypes
<1>0. Put \in Nat /\ Len(queue) \in Nat /\ Taken \in Int
  BY DEF Put, Taken
<1>1. CASE PutTicket
  <2>1. Put' = Put + 1 /\ Len(queue') = Len(queue) + 1 /\ Taken' = Taken
    BY <1>1 DEF PutTicket, WorkQPut, Put, Taken
  <2>2. ASSUME NEW i \in DOMAIN queue' PROVE queue'[i] = Outgoing(Taken + i)
    <3>1. CASE i = Len(queue) + 1
      BY <1>1, <3>1 DEF PutTicket, WorkQPut, Put, Taken, Outgoing
    <3>2. CASE i \in DOMAIN queue
      BY <1>1, <3>2 DEF PutTicket, WorkQPut, Queued
    <3>3. DOMAIN queue' = 1..(Len(queue) + 1) /\ DOMAIN queue = 1..Len(queue)
      BY <1>1 DEF PutTicket, WorkQPut
    <3>4. i = Len(queue) + 1 \/ i \in DOMAIN queue
      BY <1>0, <3>3
    <3> QED BY <3>1, <3>2, <3>4
  <2>3. /\ server' = server /\ item' = item /\ primebot = "put"
        /\ primebot' # "put" => sent' = Len(Plan)
    BY <1>1 DEF PutTicket, serverVars
  <2>4. \A i \in DOMAIN queue' : queue'[i] = Outgoing(Taken + i)'
    BY <2>1, <2>2 DEF Outgoing
  <2> QED BY <1>0, <2>1, <2>3, <2>4 DEF Queued
<1>2. CASE PutPill
  <2>1. Put' = Put + 1 /\ Len(queue') = Len(queue) + 1 /\ Taken' = Taken
    BY <1>2 DEF PutPill, WorkQPut, Put, Taken
  <2>2. ASSUME NEW i \in DOMAIN queue' PROVE queue'[i] = Outgoing(Taken + i)
    <3>1. CASE i = Len(queue) + 1
      BY <1>2, <3>1 DEF PutPill, WorkQPut, Put, Taken, Outgoing
    <3>2. CASE i \in DOMAIN queue
      BY <1>2, <3>2 DEF PutPill, WorkQPut, Queued
    <3> QED BY <1>2, <3>1, <3>2 DEF PutPill, WorkQPut
  <2>3. /\ server' = server /\ item' = item /\ primebot = "put"
        /\ primebot' # "put" => sent' = Len(Plan)
    BY <1>2 DEF PutPill, serverVars
  <2>4. \A i \in DOMAIN queue' : queue'[i] = Outgoing(Taken + i)'
    BY <2>1, <2>2 DEF Outgoing
  <2> QED BY <1>0, <2>1, <2>3, <2>4 DEF Queued
<1>3. CASE Join \/ JoinThread
  <2>1. Put' = Put /\ Taken' = Taken
    BY <1>3 DEF Join, JoinThread, queueVars, Put, Taken
  <2> QED BY <1>3, <2>1 DEF Join, JoinThread, Queued, Outgoing, queueVars, serverVars
<1>5. CASE TakeItem
  <2>1. /\ Put' = Put /\ Len(queue') = Len(queue) - 1 /\ Taken' = Taken + 1
        /\ Len(queue) > 0
    BY <1>5 DEF TakeItem, Put, Taken, primebotVars
  <2>2. Put <= Len(Plan) + 1 /\ Put \in Nat /\ Len(queue) \in Nat
    BY DEF Put
  <2>3. ASSUME NEW i \in DOMAIN queue' PROVE queue'[i] = Outgoing(Taken' + i)
    <3>1. queue'[i] = queue[i + 1] /\ i + 1 \in DOMAIN queue
      BY <1>5 DEF TakeItem
    <3>2. Taken + (i + 1) = Taken' + i
      <4>1. queue' \in Seq(Ticket \cup {Pill})
        BY <1>5 DEF TakeItem
      <4>2. i \in Nat
        BY <4>1
      <4> QED BY <1>0, <2>1, <4>2
    <3> QED BY <3>1, <3>2 DEF Queued
  <2>4. Head(queue) = Outgoing(Taken + 1)
    BY <2>1 DEF Queued
  <2>5. Taken \in Nat /\ Taken + 1 <= Len(Plan) + 1
    BY <2>1, <2>2 DEF Queued, Taken
  <2>6. Head(queue) = Pill <=> Taken + 1 = Len(Plan) + 1
    BY <2>4, <2>5 DEF Outgoing
  <2>7. Taken # Len(Plan) + 1 /\ item = NoTicket
    BY <1>5 DEF Queued, TakeItem
  <2>8. CASE Head(queue) = Pill
    BY <1>5, <2>1, <2>2, <2>3, <2>6, <2>7, <2>8 DEF Queued, TakeItem, Outgoing, primebotVars
  <2>9. CASE Head(queue) # Pill
    <3>1. Taken' \in DOMAIN Plan /\ item' = Plan[Taken'] /\ server' = "produce"
      BY <1>5, <2>1, <2>4, <2>5, <2>6, <2>9 DEF Outgoing, TakeItem
    <3> QED BY <1>5, <3>1, <2>1, <2>2, <2>3, <2>5 DEF Queued, TakeItem, Outgoing, primebotVars
  <2> QED BY <2>8, <2>9
<1>6. CASE Produce \/ ServerFault
  <2>1. /\ Put' = Put /\ Taken' = Taken /\ queue' = queue
        /\ server = "produce" /\ server' \in {"get", "dead"} /\ item' = NoTicket
        /\ UNCHANGED primebotVars
    BY <1>6 DEF Produce, ServerFault, Refuse, ServerDies, Put, Taken, primebotVars, queueVars
  <2> QED BY <2>1 DEF Queued, Outgoing, primebotVars
<1>7. CASE Flush
  <2>1. Put' = Put /\ Taken' = Taken
    BY <1>7 DEF Flush, Put, Taken, primebotVars, queueVars
  <2> QED BY <1>7, <2>1 DEF Flush, Queued, Outgoing, primebotVars, queueVars
<1> QED BY <1>1, <1>2, <1>3, <1>5, <1>6, <1>7
        DEF SendStep, PrimebotStep, ServerStep

LEMMA CountedKept ==
  ASSUME SendTypes, Queued, Counted, SendStep PROVE Counted'
<1> USE DistributionAssumption DEF SendTypes
<1>0. Put \in Nat /\ Len(queue) \in Nat /\ Taken \in Int /\ Working \in Nat
  BY DEF Put, Taken, Working
<1>1. CASE PutTicket \/ PutPill
  <2>1. /\ unfinished' = unfinished + 1 /\ permits' = permits - 1
        /\ server' = server /\ refused' = refused
        /\ primebot = "put" /\ primebot' \in {"put", "join"}
    BY <1>1 DEF PutTicket, PutPill, WorkQPut, serverVars, faultVars
  <2>2. Len(queue') = Len(queue) + 1
    BY <1>1 DEF PutTicket, PutPill, WorkQPut
  <2>3. Put' = Put + 1
    BY <1>1 DEF PutTicket, PutPill, Put
  <2>4. Taken' = Taken /\ Working' = Working
    BY <1>0, <2>1, <2>2, <2>3 DEF Taken, Working
  <2> QED BY <1>0, <2>1, <2>2, <2>4 DEF Counted
<1>3. CASE Join
  <2>1. Taken' = Taken /\ Working' = Working
    BY <1>3 DEF Join, Put, Taken, Working, queueVars, serverVars
  <2> QED BY <1>3, <2>1 DEF Join, Counted, queueVars, serverVars, faultVars
<1>4. CASE JoinThread
  <2>1. Taken' = Taken /\ Working' = Working
    BY <1>4 DEF JoinThread, Put, Taken, Working, queueVars, serverVars
  <2> QED BY <1>4, <2>1 DEF JoinThread, Counted, queueVars, serverVars, faultVars
<1>5. CASE TakeItem
  <2>1. /\ Len(queue') = Len(queue) - 1 /\ Taken' = Taken + 1 /\ Len(queue) > 0
        /\ Len(queue) \in Nat /\ Taken \in Int
        /\ Working = 0 /\ refused' = refused /\ primebot' = primebot /\ server = "get"
    BY <1>5 DEF TakeItem, Put, Taken, Working, primebotVars, faultVars
  <2>2. primebot \notin {"joinThread", "returned"}
    BY <2>1 DEF Counted
  <2>3. CASE Head(queue) = Pill
    BY <1>5, <2>1, <2>2, <2>3 DEF TakeItem, WorkQTaskDone, Counted, Working
  <2>4. CASE Head(queue) # Pill
    BY <1>5, <2>1, <2>2, <2>4 DEF TakeItem, Counted, Working
  <2> QED BY <2>3, <2>4
<1>6. CASE Produce
  <2>1. Taken' = Taken /\ Working = 1 /\ Working' = 0 /\ Taken \in Int /\ Len(queue) \in Nat
    BY <1>6 DEF Produce, Put, Taken, Working, primebotVars
  <2> QED BY <1>6, <2>1 DEF Produce, WorkQTaskDone, Counted, primebotVars, faultVars
<1>7. CASE ServerFault
  <2>1. /\ Taken' = Taken /\ Working = 1 /\ Working' = 0 /\ refused' = refused + 1
        /\ Taken \in Int /\ Len(queue) \in Nat
    BY <1>7 DEF ServerFault, Refuse, ServerDies, Put, Taken, Working, primebotVars, queueVars
  <2>2. primebot \notin {"joinThread", "returned"}
    BY <2>1 DEF Counted
  <2>3. /\ UNCHANGED <<primebot, queue, permits, unfinished>>
        /\ refused \in Nat /\ unfinished = Len(queue) + 1 + refused
        /\ permits + unfinished = QueueSize /\ refused + 1 <= Taken
    BY <1>7, <2>1 DEF ServerFault, Refuse, ServerDies, Counted, primebotVars, queueVars
  <2>4. /\ unfinished' = Len(queue') + Working' + refused'
        /\ permits' + unfinished' = QueueSize
        /\ refused' + Working' <= Taken' /\ refused' > 0
    BY <2>1, <2>3
  <2> QED BY <2>2, <2>3, <2>4 DEF Counted
<1>8. CASE Flush
  <2>1. Taken' = Taken /\ Working' = Working
    BY <1>8 DEF Flush, Put, Taken, Working, primebotVars, queueVars
  <2> QED BY <1>8, <2>1 DEF Flush, Counted, primebotVars, queueVars, faultVars
<1> QED BY <1>1, <1>3, <1>4, <1>5, <1>6, <1>7, <1>8
        DEF SendStep, PrimebotStep, ServerStep

-----------------------------------------------------------------------------
(* Every ticket is in one place. *)

LEMMA PlanIsOnce ==
  /\ DOMAIN Plan = 1..Len(Plan) /\ Len(Plan) \in Nat
  /\ \A i, j \in DOMAIN Plan : Plan[i] = Plan[j] => i = j
<1>1. DOMAIN Plan = 1..Len(Plan) /\ Len(Plan) \in Nat
  BY DistributionAssumption
<1>2. IsInjective(Plan)
  BY DistributionAssumption
<1> QED BY <1>1, <1>2, Zenon DEF IsInjective

\* A ticket is handled when the thread puts it down, and at no other step.
LEMMA HandledKept ==
  ASSUME SendTypes, Queued, Counted, SendStep
  PROVE  IF Produce \/ ServerFault
         THEN \A t : Handled(t)' <=> Handled(t) \/ t = item
         ELSE \A t : Handled(t)' <=> Handled(t)
<1> USE DistributionAssumption DEF SendTypes
<1>0. Put \in Nat /\ Len(queue) \in Nat /\ Taken \in Int /\ Working \in Nat
  BY DEF Put, Taken, Working
<1>1. ASSUME Taken' - Working' = Taken - Working
      PROVE  \A t : Handled(t)' <=> Handled(t)
  BY <1>1, Zenon DEF Handled
<1>2. CASE PutTicket \/ PutPill \/ Join \/ JoinThread
  <2>1. ASSUME PutTicket \/ PutPill
        PROVE  Taken' - Working' = Taken - Working
    <3>1. Len(queue') = Len(queue) + 1
      BY <2>1 DEF PutTicket, PutPill, WorkQPut
    <3>2. Put' = Put + 1
      BY <2>1 DEF PutTicket, PutPill, Put
    <3>3. server' = server
      BY <2>1 DEF PutTicket, PutPill, serverVars
    <3> QED BY <1>0, <3>1, <3>2, <3>3 DEF Taken, Working
  <2>2. ASSUME Join \/ JoinThread
        PROVE  Taken' - Working' = Taken - Working
    BY <2>2 DEF Join, JoinThread, Put, Taken, Working, serverVars, queueVars
  <2>3. ~Produce /\ ~ServerFault
    BY <1>2 DEF PutTicket, PutPill, Join, JoinThread, serverVars,
                Produce, ServerFault, Refuse, ServerDies
  <2> QED BY <1>1, <1>2, <2>1, <2>2, <2>3
<1>3. CASE TakeItem
  <2>1. /\ Len(queue') = Len(queue) - 1 /\ Taken' = Taken + 1 /\ Len(queue) > 0
        /\ Working = 0 /\ ~Produce /\ ~ServerFault
    <3>1. queue # <<>> /\ queue' = Tail(queue) /\ UNCHANGED <<primebot, sent>>
      BY <1>3, Zenon DEF TakeItem, primebotVars
    <3>2. Len(queue') = Len(queue) - 1 /\ Len(queue) > 0
      BY <3>1
    <3>3. Put' = Put
      BY <3>1 DEF Put
    <3>4. Taken' = Taken + 1
      BY <1>0, <3>2, <3>3 DEF Taken
    <3>5. server = "get"
      BY <1>3 DEF TakeItem
    <3>6. Working = 0 /\ ~Produce /\ ~ServerFault
      BY <3>5 DEF Working, Produce, ServerFault, Refuse, ServerDies
    <3> QED BY <3>2, <3>4, <3>6
  <2>2. CASE Head(queue) = Pill
    <3>1. Queued' /\ server' = "flush"
      BY <1>3, <2>2, QueuedKept DEF TakeItem, SendStep, ServerStep
    <3>2. Taken' = Len(Plan) + 1 /\ Working' = 0
      BY <3>1 DEF Queued, Working
    <3>3. \A i \in DOMAIN Plan : i <= Taken - Working /\ i <= Taken' - Working'
      BY <1>0, <2>1, <3>2, PlanIsOnce
    <3>4. ASSUME NEW t PROVE Handled(t)' <=> Handled(t)
      <4>1. Handled(t)' <=> \E i \in DOMAIN Plan : i <= Taken' - Working' /\ t = Plan[i]
        BY DEF Handled
      <4>2. Handled(t) <=> \E i \in DOMAIN Plan : i <= Taken - Working /\ t = Plan[i]
        BY DEF Handled
      <4> QED BY <3>3, <4>1, <4>2
    <3> QED BY <2>1, <3>4
  <2>3. CASE Head(queue) # Pill
    <3>1. Working' = 1
      BY <1>3, <2>3 DEF TakeItem, Working
    <3> QED BY <1>0, <1>1, <2>1, <3>1
  <2> QED BY <2>2, <2>3
<1>4. CASE Produce \/ ServerFault
  <2>1. Taken' = Taken /\ Working = 1 /\ Working' = 0
    BY <1>4 DEF Produce, ServerFault, Refuse, ServerDies, Put, Taken, Working, primebotVars, queueVars
  <2>2. Taken \in DOMAIN Plan /\ item = Plan[Taken]
    BY <1>4 DEF Produce, ServerFault, Refuse, ServerDies, Queued
  <2> QED BY <1>0, <1>4, <2>1, <2>2 DEF Handled
<1>5. CASE Flush
  <2>1. Taken' = Taken /\ Working' = Working /\ ~Produce /\ ~ServerFault
    BY <1>5 DEF Flush, Produce, ServerFault, Refuse, ServerDies, Put, Taken, Working, primebotVars, queueVars
  <2> QED BY <1>1, <2>1
<1> QED BY <1>2, <1>3, <1>4, <1>5 DEF SendStep, PrimebotStep, ServerStep

LEMMA ItemIsNew ==
  ASSUME SendTypes, Queued, server = "produce"
  PROVE  ~Handled(item) /\ item \in Ticket
<1> USE DistributionAssumption DEF SendTypes
<1>1. Taken \in DOMAIN Plan /\ item = Plan[Taken] /\ Working = 1
  BY DEF Queued, Working
<1>2. ASSUME NEW i \in DOMAIN Plan, i <= Taken - Working, item = Plan[i] PROVE FALSE
  <2>1. i = Taken
    BY <1>1, <1>2, PlanIsOnce
  <2> QED BY <1>1, <1>2, <2>1, PlanIsOnce
<1> QED BY <1>1, <1>2 DEF Handled

LEMMA OnceSent ==
  ASSUME SendTypes, TopicTypes, Queued, Counted, Once, SendStep PROVE Once'
<1> USE DistributionAssumption
<1>0. log' = log
  BY SendFrame DEF kafkaVars
<1>1. \A t : InTopic(t)' <=> InTopic(t)
  BY <1>0 DEF InTopic
<1>2. CASE ~Produce /\ ~ServerFault
  <2>1. \A t : Handled(t)' <=> Handled(t)
    BY <1>2, HandledKept
  <2>2. buffer' = buffer /\ refused' = refused /\ undelivered' = undelivered
    BY <1>2 DEF SendStep, PrimebotStep, PutTicket, PutPill, Join, JoinThread,
                ServerStep, TakeItem, Flush, serverVars, faultVars
  <2>3. server' = "ended" => server = "ended" \/ buffer = {}
    BY <1>2 DEF SendStep, PrimebotStep, PutTicket, PutPill, Join, JoinThread,
                ServerStep, TakeItem, Flush, serverVars
  <2> QED BY <1>0, <1>1, <2>1, <2>2, <2>3 DEF Once
<1>3. CASE Produce \/ ServerFault
  <2>1. \A t : Handled(t)' <=> Handled(t) \/ t = item
    BY <1>3, HandledKept
  <2>2. server = "produce" /\ server' \in {"get", "dead"}
    BY <1>3 DEF Produce, ServerFault, Refuse, ServerDies
  <2>3. ~Handled(item) /\ item \in Ticket
    BY <2>2, ItemIsNew
  <2>4. CASE Produce
    <3>1. buffer' = buffer \cup {item} /\ UNCHANGED <<refused, undelivered>>
      BY <2>4 DEF Produce, faultVars
    <3>2. \A t \in buffer' : Handled(t)' /\ ~InTopic(t)' /\ t \notin undelivered'
      BY <1>1, <2>1, <2>3, <3>1 DEF Once
    <3>3. refused' = 0 => \A t \in Ticket :
            Handled(t)' => t \in buffer' \/ InTopic(t)' \/ t \in undelivered'
      BY <1>1, <2>1, <3>1 DEF Once
    <3> QED BY <1>0, <1>1, <2>1, <2>2, <3>1, <3>2, <3>3 DEF Once
  <2>5. CASE ServerFault
    <3>1. buffer' = buffer /\ refused' > 0 /\ undelivered' = undelivered
      BY <2>5 DEF ServerFault, Refuse, ServerDies, SendTypes
    <3> QED BY <1>0, <1>1, <2>1, <2>2, <3>1 DEF Once
  <2> QED BY <1>3, <2>4, <2>5
<1> QED BY <1>2, <1>3

LEMMA OnceDelivered ==
  ASSUME SendTypes, TopicTypes, Once, NEW p \in Partition, Deliver(p) PROVE Once'
<1> USE DistributionAssumption DEF SendTypes, TopicTypes
<1> PICK u \in buffer : /\ buffer' = buffer \ {u}
                        /\ log' = [log EXCEPT ![p] = Append(@, u)]
  BY DEF Deliver
<1>1. UNCHANGED <<primebotVars, queueVars, server, refused, undelivered>>
  BY DEF Deliver, faultVars
<1>2. \A t : Handled(t)' <=> Handled(t)
  BY <1>1 DEF Handled, Taken, Put, Working, primebotVars, queueVars
<1>3. u \in Ticket /\ Handled(u) /\ ~InTopic(u) /\ u \notin undelivered
  BY DEF Once
<1>14. \A q \in Partition \ {p} : log'[q] = log[q]
  BY DEF Deliver
<1>15. /\ Len(log[p]) \in Nat /\ DOMAIN log[p] = 1..Len(log[p])
       /\ DOMAIN log'[p] = 1..(Len(log[p]) + 1) /\ log'[p][Len(log[p]) + 1] = u
       /\ \A i \in 1..Len(log[p]) : log'[p][i] = log[p][i]
  <2>1. log[p] \in Seq(Ticket) /\ log'[p] = Append(log[p], u)
    BY <1>3
  <2> HIDE DEF SendTypes, TopicTypes
  <2> QED BY <1>3, <2>1
<1> HIDE DEF SendTypes, TopicTypes
<1>4. \A q \in Partition : \A i \in DOMAIN log'[q] :
         IF q = p /\ i = Len(log[p]) + 1 THEN log'[q][i] = u
         ELSE i \in DOMAIN log[q] /\ log'[q][i] = log[q][i]
  BY <1>14, <1>15
<1>5. \A q \in Partition : \A i \in DOMAIN log[q] :
         i \in DOMAIN log'[q] /\ log'[q][i] = log[q][i]
  BY <1>14, <1>15
<1>6. Len(log[p]) + 1 \in DOMAIN log'[p] /\ log'[p][Len(log[p]) + 1] = u
  BY <1>15
<1>7. \A t : InTopic(t)' <=> InTopic(t) \/ t = u
  <2> TAKE t
  <2>1. ASSUME InTopic(t)' PROVE InTopic(t) \/ t = u
    <3> PICK q \in Partition : \E i \in DOMAIN log'[q] : t = log'[q][i]
      BY <2>1 DEF InTopic
    <3> PICK i \in DOMAIN log'[q] : t = log'[q][i]
      OBVIOUS
    <3> QED BY <1>4 DEF InTopic
  <2>2. ASSUME InTopic(t) PROVE InTopic(t)'
    <3> PICK q \in Partition : \E i \in DOMAIN log[q] : t = log[q][i]
      BY <2>2 DEF InTopic
    <3> PICK i \in DOMAIN log[q] : t = log[q][i]
      OBVIOUS
    <3>1. i \in DOMAIN log'[q] /\ t = log'[q][i]
      BY <1>5
    <3> QED BY <3>1 DEF InTopic
  <2>3. InTopic(u)'
    BY <1>6 DEF InTopic
  <2> QED BY <2>1, <2>2, <2>3
<1>8. ASSUME NEW q \in Partition, NEW r \in Partition,
             NEW i \in DOMAIN log'[q], NEW j \in DOMAIN log'[r], log'[q][i] = log'[r][j]
      PROVE  q = r /\ i = j
  <2>1. \A v \in Partition : \A k \in DOMAIN log[v] : log[v][k] # u
    BY <1>3 DEF InTopic
  <2>2. IF q = p /\ i = Len(log[p]) + 1 THEN log'[q][i] = u
        ELSE i \in DOMAIN log[q] /\ log'[q][i] = log[q][i] /\ log'[q][i] # u
    <3>1. IF q = p /\ i = Len(log[p]) + 1 THEN log'[q][i] = u
          ELSE i \in DOMAIN log[q] /\ log'[q][i] = log[q][i]
      BY <1>4
    <3> QED BY <2>1, <3>1
  <2>3. IF r = p /\ j = Len(log[p]) + 1 THEN log'[r][j] = u
        ELSE j \in DOMAIN log[r] /\ log'[r][j] = log[r][j] /\ log'[r][j] # u
    <3>1. IF r = p /\ j = Len(log[p]) + 1 THEN log'[r][j] = u
          ELSE j \in DOMAIN log[r] /\ log'[r][j] = log[r][j]
      BY <1>4
    <3> QED BY <2>1, <3>1
  <2>4. CASE q = p /\ i = Len(log[p]) + 1
    BY <1>8, <2>2, <2>3, <2>4, Zenon
  <2>5. CASE ~(q = p /\ i = Len(log[p]) + 1)
    <3>1. i \in DOMAIN log[q] /\ j \in DOMAIN log[r] /\ log[q][i] = log[r][j]
      BY <1>8, <2>2, <2>3, <2>5, Zenon
    <3> QED BY <3>1 DEF Once
  <2> QED BY <2>4, <2>5
<1>9. /\ \A t \in buffer' : Handled(t)' /\ ~InTopic(t)' /\ t \notin undelivered'
      /\ \A t \in undelivered' : Handled(t)' /\ ~InTopic(t)'
  BY <1>1, <1>2, <1>3, <1>7 DEF Once
<1>10. \A t \in Ticket : InTopic(t)' => Handled(t)'
  BY <1>2, <1>3, <1>7 DEF Once
<1>11. refused' = 0 => \A t \in Ticket :
          Handled(t)' => t \in buffer' \/ InTopic(t)' \/ t \in undelivered'
  BY <1>1, <1>2, <1>7 DEF Once
<1>12. (server' = "ended" => buffer' = {}) /\ IsFiniteSet(undelivered')
  BY <1>1 DEF Once
<1> QED BY <1>8, <1>9, <1>10, <1>11, <1>12 DEF Once

\* A ticket that is given up was in the buffer only.
LEMMA OnceGivenUp ==
  ASSUME SendTypes, Once, DeliveryFails PROVE Once'
<1> PICK u \in buffer : buffer' = buffer \ {u} /\ undelivered' = undelivered \cup {u}
  BY DEF DeliveryFails
<1>1. UNCHANGED <<primebotVars, queueVars, server, refused, log>>
  BY DEF DeliveryFails, kafkaVars
<1>2. \A t : Handled(t)' <=> Handled(t)
  BY <1>1 DEF Handled, Taken, Put, Working, primebotVars, queueVars
<1>3. \A t : InTopic(t)' <=> InTopic(t)
  BY <1>1 DEF InTopic
<1>4. IsFiniteSet(undelivered')
  BY FS_AddElement DEF Once
<1> QED BY <1>1, <1>2, <1>3, <1>4 DEF Once

-----------------------------------------------------------------------------
(* What the corbots have in hand. *)

LEMMA InHandKept ==
  ASSUME HandTypes, TopicTypes, InHand, NEW c \in Corbot, CorbotStep(c)
  PROVE  InHand'
<1> USE DistributionAssumption DEF HandTypes
\* Only what the corbot itself holds and counts changes.
<1>0. ASSUME \A d \in Corbot \ {c} : bot'[d] = bot[d] /\ msg'[d] = msg[d] /\ idle'[d] = idle[d],
             bot'[c] \notin Gone => idle'[c] < IdleLimit,
             bot'[c] \in {"got", "run"} <=> msg'[c] # NoTicket
      PROVE  InHand'
  <2>1. ASSUME NEW d \in Corbot PROVE bot'[d] \notin Gone => idle'[d] < IdleLimit
    BY <1>0 DEF InHand
  <2>2. ASSUME NEW d \in Corbot PROVE bot'[d] \in {"got", "run"} <=> msg'[d] # NoTicket
    BY <1>0 DEF InHand
  <2> QED BY <2>1, <2>2 DEF InHand
<1>1. ASSUME NEW p \in Partition, Poll(c, p) PROVE InHand'
  <2> DEFINE t == log[p][position[p] + 1]
  <2>1. t \in Ticket
    BY <1>1 DEF Poll, TopicTypes
  <2>2. /\ bot[c] = "poll" /\ idle' = idle
        /\ IF t \in EmptyTicket
           THEN UNCHANGED <<bot, msg>>
           ELSE bot' = [bot EXCEPT ![c] = "got"] /\ msg' = [msg EXCEPT ![c] = t]
    BY <1>1 DEF Poll
  <2> HIDE DEF t
  <2>3. CASE t \in EmptyTicket
    BY <2>2, <2>3 DEF InHand
  <2>4. CASE t \notin EmptyTicket
    <3>1. bot'[c] = "got" /\ msg'[c] = t /\ t # NoTicket
      BY <2>1, <2>2, <2>4
    <3>2. idle[c] < IdleLimit
      BY <2>2 DEF InHand, Gone
    <3> QED BY <1>0, <2>2, <2>4, <3>1, <3>2
  <2> QED BY <2>3, <2>4
<1>2. CASE StartRun(c)
  BY <1>0, <1>2 DEF StartRun, InHand, Gone
<1>3. CASE EndRun(c)
  BY <1>0, <1>3 DEF EndRun, InHand, Gone
<1>4. CASE PollNothing(c)
  <2>1. /\ bot[c] = "poll" /\ msg' = msg /\ idle' = [idle EXCEPT ![c] = @ + 1]
        /\ IF idle'[c] >= IdleLimit THEN bot' = [bot EXCEPT ![c] = "stopped"] ELSE bot' = bot
    BY <1>4 DEF PollNothing
  <2>2. msg[c] = NoTicket
    BY <2>1 DEF InHand
  <2>3. bot'[c] \in {"poll", "stopped"} /\ (bot'[c] = "poll" => ~(idle'[c] >= IdleLimit))
    BY <2>1
  <2>4. idle'[c] \in Nat
    BY <2>1
  <2> QED BY <1>0, <2>1, <2>2, <2>3, <2>4 DEF Gone
<1>5. CASE Fail(c) \/ Crash(c)
  <2>1. /\ bot'[c] \in Gone /\ msg'[c] = NoTicket
        /\ \A d \in Corbot \ {c} : bot'[d] = bot[d] /\ msg'[d] = msg[d] /\ idle'[d] = idle[d]
    BY <1>5 DEF Fail, Crash, Gone
  <2> QED BY <1>0, <2>1 DEF Gone
<1> QED BY <1>1, <1>2, <1>3, <1>4, <1>5 DEF CorbotStep, BotStep

\* While no corbot is killed, a step other than Poll changes no position, so that
\* exactly what was read stays read; a Poll reads the next record of a partition.
LEMMA ReadFrame ==
  ASSUME TopicTypes, position' = position,
         \/ log' = log
         \/ SendTypes /\ \E p \in Partition : Deliver(p)
  PROVE  \A t : Read(t)' <=> Read(t)
<1>1. \A p \in Partition : \A i \in 1..position[p] : log'[p][i] = log[p][i]
  <2>1. ASSUME SendTypes, NEW q \in Partition, Deliver(q)
        PROVE  \A p \in Partition : \A i \in 1..position[p] : log'[p][i] = log[p][i]
    <3> PICK u \in buffer : log' = [log EXCEPT ![q] = Append(@, u)]
      BY <2>1 DEF Deliver
    <3> QED BY <2>1 DEF TopicTypes, SendTypes
  <2> QED BY <2>1
<1> QED BY <1>1 DEF Read

LEMMA ReadByPoll ==
  ASSUME TopicTypes, Once, NEW c \in Corbot, NEW p \in Partition, Poll(c, p)
  PROVE  LET u == log[p][position[p] + 1]
         IN  /\ u \in Ticket /\ ~Read(u)
             /\ \A t : Read(t)' <=> Read(t) \/ t = u
<1> DEFINE n == position[p] + 1
           u == log[p][n]
<1>1. n \in DOMAIN log[p] /\ log' = log /\ position' = [position EXCEPT ![p] = n]
  BY DEF Poll, TopicTypes
<1>2. u \in Ticket
  BY <1>1 DEF TopicTypes
<1>3. ASSUME NEW q \in Partition, NEW i \in 1..position[q], u = log[q][i] PROVE FALSE
  <2>1. i \in DOMAIN log[q]
    BY DEF TopicTypes
  <2>2. q = p /\ i = n
    BY <1>1, <1>3, <2>1 DEF Once
  <2> QED BY <2>2 DEF TopicTypes
<1>4. ASSUME NEW t, NEW q \in Partition, NEW i \in 1..position'[q], t = log[q][i]
      PROVE  Read(t) \/ t = u
  <2>1. (q = p /\ i = n) \/ i \in 1..position[q]
    BY <1>1 DEF TopicTypes
  <2> QED BY <1>4, <2>1 DEF Read
<1>5. ASSUME NEW t, NEW q \in Partition, NEW i \in 1..position[q], t = log[q][i]
      PROVE  Read(t)'
  <2>1. i \in 1..position'[q]
    BY <1>1 DEF TopicTypes
  <2> QED BY <1>1, <1>5, <2>1 DEF Read
<1>6. n \in 1..position'[p]
  BY <1>1 DEF TopicTypes
<1>7. \A t : t = u => Read(t)'
  BY <1>1, <1>6 DEF Read
<1>8. ~Read(u)
  BY <1>3 DEF Read
<1>9. \A t : Read(t)' => Read(t) \/ t = u
  BY <1>1, <1>4 DEF Read
<1>10. \A t : Read(t) => Read(t)'
  BY <1>5 DEF Read
<1> QED BY <1>2, <1>7, <1>8, <1>9, <1>10

\* Only these steps change what the corbots have in hand or have run.
LEMMA HandsKept ==
  ASSUME TopicTypes, SendTypes, UNCHANGED handVars,
         SendStep \/ KafkaStep \/ DeliveryFails \/ UNCHANGED vars
  PROVE  /\ Unrepeated => Unrepeated'
         /\ Unlost => Unlost'
<1>1. position' = position
      /\ (log' = log \/ \E p \in Partition : Deliver(p))
  <2>1. SendStep => position' = position /\ log' = log
    BY SendFrame, Zenon DEF kafkaVars
  <2>2. DeliveryFails => position' = position /\ log' = log
    BY DEF DeliveryFails, kafkaVars
  <2>3. UNCHANGED vars => position' = position /\ log' = log
    BY DEF kafkaVars, vars
  <2>4. ASSUME NEW p \in Partition, Deliver(p)
        PROVE  position' = position /\ \E q \in Partition : Deliver(q)
    BY <2>4 DEF Deliver
  <2>5. ASSUME NEW p \in Partition, Commit(p) PROVE position' = position /\ log' = log
    BY <2>5 DEF Commit
  <2>6. ASSUME NEW p \in Partition, NEW c \in Corbot, Assign(p, c)
        PROVE  position' = position /\ log' = log
    BY <2>6 DEF Assign
  <2> QED BY <2>1, <2>2, <2>3, <2>4, <2>5, <2>6 DEF KafkaStep
<1>2. \A t : Read(t)' <=> Read(t)
  BY <1>1, ReadFrame
<1> QED BY <1>2 DEF Unrepeated, Unlost, handVars, botVars

LEMMA UnrepeatedKept ==
  ASSUME HandTypes, TopicTypes, SendTypes, Once, InHand, Unrepeated,
         NEW c \in Corbot, CorbotStep(c)
  PROVE  Unrepeated'
<1> USE DistributionAssumption DEF HandTypes
<1>1. CASE Crash(c)
  BY <1>1 DEF Crash, Unrepeated
<1> SUFFICES ASSUME ~Crash(c), crashes' = 0 PROVE Unrepeated'
  BY <1>1 DEF Unrepeated
<1>2. crashes = 0
  BY DEF CorbotStep, BotStep, Poll, StartRun, EndRun, PollNothing, Fail, faultVars
<1>3. ASSUME NEW p \in Partition, Poll(c, p) PROVE Unrepeated'
  <2> DEFINE u == log[p][position[p] + 1]
  <2>1. u \in Ticket /\ ~Read(u) /\ \A t : Read(t)' <=> Read(t) \/ t = u
    BY <1>3, ReadByPoll
  <2>2. runs' = runs /\ (UNCHANGED <<bot, msg>> \/ (/\ bot' = [bot EXCEPT ![c] = "got"]
                                                    /\ msg' = [msg EXCEPT ![c] = u]))
    BY <1>3 DEF Poll
  <2> HIDE DEF u
  <2>3. runs[u] = 0
    BY <1>2, <2>1 DEF Unrepeated
  <2>4. \A d \in Corbot : msg[d] # u
    BY <1>2, <2>1 DEF Unrepeated
  <2>5. CASE UNCHANGED <<bot, msg>>
    BY <1>2, <2>1, <2>2, <2>5 DEF Unrepeated
  <2>6. CASE bot' = [bot EXCEPT ![c] = "got"] /\ msg' = [msg EXCEPT ![c] = u]
    <3>1. (\A d \in Corbot : msg[d] # NoTicket => Read(msg[d]))'
      BY <1>2, <2>1, <2>6 DEF Unrepeated
    <3>2. \A d \in Corbot : bot'[d] = "got" => runs'[msg'[d]] = 0
      BY <1>2, <2>2, <2>3, <2>6 DEF Unrepeated
    <3>3. \A d, e \in Corbot : d # e /\ msg'[d] = msg'[e] => msg'[d] = NoTicket
      BY <1>2, <2>4, <2>6 DEF Unrepeated
    <3>4. \A t \in Ticket : (runs'[t] > 0 => Read(t)') /\ runs'[t] <= 1
      BY <1>2, <2>1, <2>2 DEF Unrepeated
    <3> QED BY <3>1, <3>2, <3>3, <3>4 DEF Unrepeated
  <2> QED BY <2>2, <2>5, <2>6
<1>4. ASSUME log' = log, position' = position PROVE \A t : Read(t)' <=> Read(t)
  BY <1>4, ReadFrame
<1>5. CASE StartRun(c)
  <2>1. \A t : Read(t)' <=> Read(t)
    BY <1>4, <1>5 DEF StartRun, kafkaVars
  <2>2. /\ msg[c] \in Ticket /\ bot[c] = "got" /\ msg' = msg
        /\ bot' = [bot EXCEPT ![c] = "run"] /\ runs' = [runs EXCEPT ![msg[c]] = @ + 1]
    BY <1>5 DEF StartRun, InHand
  <2>3. runs[msg[c]] = 0 /\ Read(msg[c])
    BY <1>2, <2>2 DEF Unrepeated
  <2>4. \A d \in Corbot \ {c} : msg[d] # msg[c]
    BY <1>2, <2>2 DEF Unrepeated
  <2>5. \A d \in Corbot : bot'[d] = "got" => runs'[msg'[d]] = 0
    BY <1>2, <2>2, <2>4 DEF Unrepeated
  <2>6. \A t \in Ticket : (runs'[t] > 0 => Read(t)') /\ runs'[t] <= 1
    BY <1>2, <2>1, <2>2, <2>3 DEF Unrepeated
  <2> QED BY <1>2, <2>1, <2>2, <2>5, <2>6 DEF Unrepeated
<1>6. ASSUME EndRun(c) \/ PollNothing(c) \/ Fail(c) PROVE Unrepeated'
  <2>1. \A t : Read(t)' <=> Read(t)
    BY <1>4, <1>6 DEF EndRun, PollNothing, Fail, Close, kafkaVars
  <2>2. runs' = runs
    BY <1>6 DEF EndRun, PollNothing, Fail
  <2>3. \A d \in Corbot : /\ msg'[d] \in {msg[d], NoTicket}
                          /\ bot'[d] = "got" => bot[d] = "got" /\ msg'[d] = msg[d]
    BY <1>6 DEF EndRun, PollNothing, Fail
  <2> QED BY <1>2, <2>1, <2>2, <2>3 DEF Unrepeated
<1> QED BY <1>3, <1>5, <1>6 DEF CorbotStep, BotStep

LEMMA UnlostKept ==
  ASSUME HandTypes, TopicTypes, SendTypes, Once, InHand, Unrepeated, Unlost,
         NEW c \in Corbot, CorbotStep(c)
  PROVE  Unlost'
<1> USE DistributionAssumption DEF HandTypes
<1>1. CASE Crash(c) \/ Fail(c)
  BY <1>1 DEF Crash, Fail, Unlost
<1> SUFFICES ASSUME ~Crash(c), ~Fail(c), failures' = 0, crashes' = 0 PROVE Unlost'
  BY <1>1 DEF Unlost
<1>2. failures = 0 /\ crashes = 0
  BY DEF CorbotStep, BotStep, Poll, StartRun, EndRun, PollNothing, faultVars
<1>3. ASSUME NEW p \in Partition, Poll(c, p) PROVE Unlost'
  <2> DEFINE u == log[p][position[p] + 1]
  <2>1. u \in Ticket /\ \A t : Read(t)' <=> Read(t) \/ t = u
    BY <1>3, ReadByPoll
  <2>2. /\ runs' = runs /\ bot[c] = "poll" /\ msg[c] = NoTicket
        /\ IF u \in EmptyTicket
           THEN UNCHANGED <<bot, msg>>
           ELSE bot' = [bot EXCEPT ![c] = "got"] /\ msg' = [msg EXCEPT ![c] = u]
    BY <1>3 DEF Poll, InHand
  <2> HIDE DEF u
  <2>3. \A d \in Corbot : bot'[d] = "run" => bot[d] = "run" /\ msg'[d] = msg[d]
    BY <2>2
  <2>4. \A d \in Corbot : msg[d] # NoTicket => msg'[d] = msg[d]
    BY <2>2
  <2>5. ASSUME NEW t \in Ticket \ EmptyTicket, Read(t)'
        PROVE  runs[t] = 1 \/ \E d \in Corbot : msg'[d] = t
    <3>1. CASE Read(t)
      <4>1. runs[t] = 1 \/ \E d \in Corbot : msg[d] = t
        BY <1>2, <3>1 DEF Unlost
      <4>2. t # NoTicket
        OBVIOUS
      <4> QED BY <2>4, <4>1, <4>2
    <3>2. CASE t = u
      BY <2>2, <3>2
    <3> QED BY <2>1, <2>5, <3>1, <3>2
  <2> QED BY <1>2, <2>2, <2>3, <2>5 DEF Unlost
<1>4. ASSUME log' = log, position' = position PROVE \A t : Read(t)' <=> Read(t)
  BY <1>4, ReadFrame
<1>5. CASE StartRun(c)
  <2>1. \A t : Read(t)' <=> Read(t)
    BY <1>4, <1>5 DEF StartRun, kafkaVars
  <2>2. /\ msg[c] \in Ticket /\ bot[c] = "got" /\ msg' = msg
        /\ bot' = [bot EXCEPT ![c] = "run"] /\ runs' = [runs EXCEPT ![msg[c]] = @ + 1]
    BY <1>5 DEF StartRun, InHand
  <2>3. runs[msg[c]] = 0
    BY <1>2, <2>2 DEF Unrepeated
  <2>4. \A d \in Corbot : bot'[d] = "run" => runs'[msg'[d]] = 1
    BY <1>2, <2>2, <2>3 DEF Unlost
  <2>5. ASSUME NEW t \in Ticket \ EmptyTicket, Read(t)'
        PROVE  runs'[t] = 1 \/ \E d \in Corbot : msg'[d] = t
    BY <1>2, <2>1, <2>2, <2>3, <2>5 DEF Unlost
  <2> QED BY <2>4, <2>5 DEF Unlost
<1>6. ASSUME EndRun(c) PROVE Unlost'
  <2>1. \A t : Read(t)' <=> Read(t)
    BY <1>4, <1>6 DEF EndRun, kafkaVars
  <2>2. /\ runs' = runs /\ bot[c] = "run" /\ runs[msg[c]] = 1
        /\ bot' = [bot EXCEPT ![c] = "poll"] /\ msg' = [msg EXCEPT ![c] = NoTicket]
    BY <1>2, <1>6 DEF EndRun, Unlost
  <2>3. ASSUME NEW t \in Ticket \ EmptyTicket, Read(t)'
        PROVE  runs'[t] = 1 \/ \E d \in Corbot : msg'[d] = t
    BY <1>2, <2>1, <2>2, <2>3 DEF Unlost
  <2> QED BY <1>2, <2>2, <2>3 DEF Unlost
<1>7. ASSUME PollNothing(c) PROVE Unlost'
  <2>1. \A t : Read(t)' <=> Read(t)
    BY <1>4, <1>7 DEF PollNothing, Close, kafkaVars
  <2>2. /\ runs' = runs /\ msg' = msg
        /\ \A d \in Corbot : bot'[d] = "run" => bot[d] = "run"
    BY <1>7 DEF PollNothing
  <2> QED BY <1>2, <2>1, <2>2 DEF Unlost
<1> QED BY <1>3, <1>5, <1>6, <1>7 DEF CorbotStep, BotStep

-----------------------------------------------------------------------------
(* The invariant, and what follows from it. *)

LEMMA NextInParts ==
  Next <=> SendStep \/ KafkaStep \/ DeliveryFails \/ \E c \in Corbot : CorbotStep(c)
BY DEF Next, SendStep, KafkaStep, CorbotStep

LEMMA CorbotFrame ==
  ASSUME NEW c \in Corbot, CorbotStep(c) PROVE UNCHANGED <<sendVars, log>>
<1> USE DEF sendVars, faultVars
<1>1. ASSUME NEW p \in Partition, Poll(c, p) PROVE UNCHANGED <<sendVars, log>>
  BY <1>1 DEF Poll
<1>2. CASE StartRun(c) \/ EndRun(c)
  BY <1>2 DEF StartRun, EndRun, kafkaVars
<1>3. CASE PollNothing(c) \/ Fail(c) \/ Crash(c)
  BY <1>3 DEF PollNothing, Fail, Crash, Close, kafkaVars
<1> QED BY <1>1, <1>2, <1>3 DEF CorbotStep, BotStep

LEMMA KafkaFrame ==
  ASSUME KafkaStep
  PROVE  /\ UNCHANGED <<primebotVars, queueVars, server, item, refused, undelivered,
                        handVars>>
         /\ UNCHANGED <<buffer, log>> \/ \E p \in Partition : Deliver(p)
<1> USE DEF handVars, botVars, faultVars, serverVars
<1>1. ASSUME NEW p \in Partition, Deliver(p)
      PROVE  UNCHANGED <<primebotVars, queueVars, server, item, refused, undelivered, handVars>>
  BY <1>1 DEF Deliver
<1>2. ASSUME NEW p \in Partition, NEW c \in Corbot, Commit(p) \/ Assign(p, c)
      PROVE  /\ UNCHANGED <<primebotVars, queueVars, server, item, refused, undelivered,
                        handVars>>
             /\ UNCHANGED <<buffer, log>>
  BY <1>2 DEF Commit, Assign
<1>3. ASSUME NEW p \in Partition, Commit(p)
      PROVE  /\ UNCHANGED <<primebotVars, queueVars, server, item, refused, undelivered,
                        handVars>>
             /\ UNCHANGED <<buffer, log>>
  BY <1>3 DEF Commit
<1> QED BY <1>1, <1>2, <1>3 DEF KafkaStep

LEMMA GiveUpFrame ==
  ASSUME DeliveryFails
  PROVE  /\ UNCHANGED <<primebotVars, queueVars, server, item, refused, handVars, kafkaVars>>
         /\ buffer' \subseteq buffer
BY DEF DeliveryFails, handVars

\* What a step leaves alone that does not send.
LEMMA SendingUndisturbed ==
  ASSUME UNCHANGED <<primebotVars, queueVars, server, item, refused>>
  PROVE  /\ Queued => Queued'
         /\ Counted => Counted'
         /\ SendTypes /\ buffer' \subseteq buffer /\ undelivered' \subseteq Ticket => SendTypes'
         /\ Once /\ UNCHANGED <<buffer, log, undelivered>> => Once'
<1> USE DEF primebotVars, queueVars
<1>1. Put' = Put /\ Taken' = Taken /\ Working' = Working
  BY DEF Put, Taken, Working
<1>2. \A t : Handled(t)' <=> Handled(t)
  BY <1>1 DEF Handled
<1>3. Queued => Queued'
  BY <1>1 DEF Queued, Outgoing
<1>4. Counted => Counted'
  BY <1>1 DEF Counted
<1>5. SendTypes /\ buffer' \subseteq buffer /\ undelivered' \subseteq Ticket => SendTypes'
  BY DEF SendTypes
<1>6. Once /\ UNCHANGED <<buffer, log, undelivered>> => Once'
  <2> SUFFICES ASSUME Once, UNCHANGED <<buffer, log, undelivered>> PROVE Once'
    OBVIOUS
  <2>1. \A t : InTopic(t)' <=> InTopic(t)
    BY DEF InTopic
  <2> QED BY <1>2, <2>1 DEF Once
<1> QED BY <1>3, <1>4, <1>5, <1>6

LEMMA HandsUndisturbed ==
  ASSUME UNCHANGED handVars
  PROVE  /\ HandTypes => HandTypes'
         /\ InHand => InHand'
BY DEF handVars, botVars, HandTypes, InHand

LEMMA TopicUndisturbed ==
  ASSUME UNCHANGED kafkaVars PROVE TopicTypes => TopicTypes'
BY DEF kafkaVars, TopicTypes

LEMMA StepIInv ==
  ASSUME IInv, [Next]_vars PROVE IInv'
<1>0. /\ SendTypes /\ TopicTypes /\ HandTypes
      /\ Queued /\ Counted /\ Once /\ InHand /\ Unrepeated /\ Unlost
  BY TypesInParts DEF IInv
<1> SUFFICES /\ SendTypes' /\ TopicTypes' /\ HandTypes'
             /\ Queued' /\ Counted' /\ Once' /\ InHand' /\ Unrepeated' /\ Unlost'
  <2>1. SendTypes' /\ TopicTypes' /\ HandTypes' => TypeOK'
    BY DEF TypeOK, SendTypes, TopicTypes, HandTypes
  <2> QED BY <2>1 DEF IInv
<1>1. CASE SendStep
  <2>1. UNCHANGED kafkaVars /\ UNCHANGED handVars
    BY <1>1, SendFrame
  <2>2. SendTypes' /\ Queued' /\ Counted' /\ Once'
    BY <1>0, <1>1, SendTypesKept, QueuedKept, CountedKept, OnceSent
  <2>3. HandTypes' /\ InHand' /\ TopicTypes'
    BY <1>0, <2>1, HandsUndisturbed, TopicUndisturbed
  <2>4. Unrepeated' /\ Unlost'
    BY <1>0, <1>1, <2>1, HandsKept
  <2> QED BY <2>2, <2>3, <2>4
<1>2. CASE KafkaStep
  <2>1. /\ UNCHANGED <<primebotVars, queueVars, server, item, refused>>
        /\ UNCHANGED handVars /\ UNCHANGED undelivered
        /\ UNCHANGED <<buffer, log>> \/ \E p \in Partition : Deliver(p)
    BY <1>2, KafkaFrame
  <2>2. buffer' \subseteq buffer /\ undelivered' \subseteq Ticket
    BY <1>0, <2>1 DEF Deliver, SendTypes
  <2>3. SendTypes' /\ Queued' /\ Counted'
    BY <1>0, <2>1, <2>2, SendingUndisturbed
  <2>4. Once'
    BY <1>0, <2>1, SendingUndisturbed, OnceDelivered
  <2>5. HandTypes' /\ InHand'
    BY <1>0, <2>1, HandsUndisturbed
  <2>6. TopicTypes'
    BY <1>0, <1>2, TopicTypesKept
  <2>7. Unrepeated' /\ Unlost'
    BY <1>0, <1>2, <2>1, HandsKept
  <2> QED BY <2>3, <2>4, <2>5, <2>6, <2>7
<1>3. ASSUME NEW c \in Corbot, CorbotStep(c)
      PROVE  /\ SendTypes' /\ TopicTypes' /\ HandTypes'
             /\ Queued' /\ Counted' /\ Once' /\ InHand' /\ Unrepeated' /\ Unlost'
  <2>1. /\ UNCHANGED <<primebotVars, queueVars, server, item, refused>>
        /\ UNCHANGED <<buffer, log, undelivered>>
    BY <1>3, CorbotFrame DEF sendVars, serverVars
  <2>2. SendTypes' /\ Queued' /\ Counted' /\ Once'
    BY <1>0, <2>1, SendingUndisturbed DEF SendTypes
  <2>3. TopicTypes'
    BY <1>0, <1>3, TopicTypesKept
  <2>4. HandTypes' /\ InHand'
    BY <1>0, <1>3, HandTypesKept, InHandKept
  <2>5. Unrepeated' /\ Unlost'
    BY <1>0, <1>3, UnrepeatedKept, UnlostKept
  <2> QED BY <2>2, <2>3, <2>4, <2>5
<1>4. CASE UNCHANGED vars
  <2>1. /\ UNCHANGED <<primebotVars, queueVars, server, item, refused>>
        /\ UNCHANGED <<buffer, log, undelivered>> /\ UNCHANGED handVars
        /\ UNCHANGED kafkaVars
    BY <1>4 DEF vars, serverVars, faultVars, handVars, kafkaVars
  <2>2. SendTypes' /\ Queued' /\ Counted' /\ Once'
    BY <1>0, <2>1, SendingUndisturbed DEF SendTypes
  <2>3. HandTypes' /\ InHand' /\ TopicTypes'
    BY <1>0, <2>1, HandsUndisturbed, TopicUndisturbed
  <2>4. Unrepeated' /\ Unlost'
    BY <1>0, <1>4, <2>1, HandsKept
  <2> QED BY <2>2, <2>3, <2>4
<1>5. CASE DeliveryFails
  <2>1. /\ UNCHANGED <<primebotVars, queueVars, server, item, refused>>
        /\ UNCHANGED handVars /\ UNCHANGED kafkaVars /\ buffer' \subseteq buffer
    BY <1>5, GiveUpFrame
  <2>2. undelivered' \subseteq Ticket
    BY <1>0, <1>5 DEF DeliveryFails, SendTypes
  <2>3. SendTypes' /\ Queued' /\ Counted'
    BY <1>0, <2>1, <2>2, SendingUndisturbed
  <2>4. Once'
    BY <1>0, <1>5, OnceGivenUp
  <2>5. HandTypes' /\ InHand' /\ TopicTypes'
    BY <1>0, <2>1, HandsUndisturbed, TopicUndisturbed
  <2>6. Unrepeated' /\ Unlost'
    BY <1>0, <1>5, <2>1, HandsKept
  <2> QED BY <2>3, <2>4, <2>5, <2>6
<1> QED BY <1>1, <1>2, <1>3, <1>4, <1>5, NextInParts

\* The counters of the WorkQ add up, the thread of producer.server works through
\* the plan in order, and what it has produced is in one place of the topic.
THEOREM DistributionInvariant == Spec => []IInv
BY InitIInv, StepIInv, PTL DEF Spec

\* The types of the variables.
THEOREM DistributionTypes == Spec => []TypeOK
<1>1. IInv => TypeOK
  BY DEF IInv
<1> QED BY <1>1, DistributionInvariant, PTL

\* Where a ticket is that the thread has not put down yet.
LEMMA PlannedPlaces ==
  ASSUME IInv, NEW t
  PROVE  /\ t \in Unread <=>
              \/ t = item \/ t \in ToSet(queue) \/ t \in buffer
              \/ \E i \in (sent + 1)..Len(Plan) : t = Plan[i]
              \/ \E p \in Partition : \E i \in (position[p] + 1)..Len(log[p]) : t = log[p][i]
         /\ t \in ToSet(queue) <=> \E i \in DOMAIN queue : t = Outgoing(Taken + i)
<1>1. t \in ToSet(queue) <=> \E i \in DOMAIN queue : t = queue[i]
  BY DEF ToSet
<1>2. t \in ToSet(queue) <=> \E i \in DOMAIN queue : t = Outgoing(Taken + i)
  BY <1>1 DEF IInv, Queued
<1>3. t \in UNION {Ahead(p) : p \in Partition} <=>
        \E p \in Partition : \E i \in (position[p] + 1)..Len(log[p]) : t = log[p][i]
  BY DEF Ahead
<1> QED BY <1>2, <1>3 DEF Unread

\* A ticket that a corbot was given is nowhere on its way any more.
LEMMA ReadIsPast ==
  ASSUME IInv, NEW t \in Ticket, Read(t)
  PROVE  t \notin Unread
<1> USE DistributionAssumption
<1> SUFFICES ASSUME t \in Unread PROVE FALSE
  OBVIOUS
<1> PICK p \in Partition : \E i \in 1..position[p] : t = log[p][i]
  BY DEF Read
<1> PICK i \in 1..position[p] : t = log[p][i]
  OBVIOUS
<1>2. i \in DOMAIN log[p]
  BY TypesInParts DEF IInv, TopicTypes
<1>3. InTopic(t)
  BY <1>2 DEF InTopic
<1>4. t \notin buffer /\ Handled(t)
  BY <1>3 DEF IInv, Once
<1> PICK k \in DOMAIN Plan : k <= Taken - Working /\ t = Plan[k]
  BY <1>4 DEF Handled
<1>5. /\ Put \in Nat /\ Len(queue) \in Nat /\ Working \in {0, 1} /\ Taken = Put - Len(queue)
      /\ Put <= Len(Plan) + 1 /\ sent <= Put /\ Len(queue) <= Put /\ sent \in Nat
  <2>1. SendTypes /\ Queued
    BY TypesInParts DEF IInv
  <2>2. sent \in Nat /\ sent <= Len(Plan)
    BY <2>1, PlanIsOnce DEF SendTypes
  <2>4. Len(queue) \in Nat /\ Len(queue) <= Put
    BY <2>1 DEF SendTypes, Queued
  <2>3. Put \in Nat /\ Put <= Len(Plan) + 1 /\ sent <= Put
    BY <2>2, PlanIsOnce DEF Put
  <2> QED BY <2>2, <2>3, <2>4 DEF Taken, Working
<1>6. t # item
  <2>1. CASE server = "produce"
    BY <1>4, <2>1, ItemIsNew, TypesInParts DEF IInv
  <2>2. CASE server # "produce"
    BY <2>2 DEF IInv, Queued
  <2> QED BY <2>1, <2>2
<1>7. t \notin ToSet(queue)
  <2>1. ASSUME NEW j \in DOMAIN queue, t = Outgoing(Taken + j) PROVE FALSE
    <3>1. j \in Nat /\ j > 0
      BY TypesInParts DEF IInv, SendTypes
    <3>2. t = Plan[Taken + j] /\ Taken + j <= Len(Plan)
      BY <2>1 DEF Outgoing
    <3>3. Taken \in Nat /\ Len(Plan) \in Nat /\ k \in Nat /\ k <= Taken
      BY <1>5, PlanIsOnce
    <3>4. Taken + j \in 1..Len(Plan) /\ Taken + j # k
      BY <3>1, <3>2, <3>3
    <3>5. Taken + j \in DOMAIN Plan /\ k \in DOMAIN Plan
      BY <3>4, PlanIsOnce
    <3>6. Plan[Taken + j] = Plan[k]
      BY <3>2
    <3> HIDE DEF Taken
    <3> QED BY <3>4, <3>5, <3>6, PlanIsOnce, Zenon
  <2> QED BY <2>1, PlannedPlaces
<1>8. ASSUME NEW j \in (sent + 1)..Len(Plan), t = Plan[j] PROVE FALSE
  <2>1. primebot = "put" /\ Put = sent
    <3>1. sent < Len(Plan)
      BY <1>5, PlanIsOnce
    <3>2. primebot # "put" => sent = Len(Plan)
      BY DEF IInv, Queued
    <3> QED BY <3>1, <3>2, PlanIsOnce DEF Put
  <2>2. j \in DOMAIN Plan /\ j # k
    BY <1>5, <2>1, PlanIsOnce
  <2> QED BY <1>8, <2>2, PlanIsOnce
<1>9. ASSUME NEW q \in Partition, NEW j \in (position[q] + 1)..Len(log[q]), t = log[q][j]
      PROVE  FALSE
  <2>1. j \in DOMAIN log[q] /\ position[q] \in Nat
    BY TypesInParts DEF IInv, TopicTypes
  <2>2. q = p /\ j = i
    <3>1. log[p][i] = log[q][j]
      BY <1>9
    <3>2. Once
      BY DEF IInv
    <3> QED BY <1>2, <2>1, <3>1, <3>2 DEF Once
  <2> QED BY <2>1, <2>2
<1> QED BY <1>4, <1>6, <1>7, <1>8, <1>9, PlannedPlaces

\* Unless a corbot was killed no ticket is executed twice, and none that was
\* executed is still to be read or in the hands of a second corbot.
THEOREM TicketsRunOnce == Spec => []AtMostOnce
<1>1. ASSUME IInv PROVE AtMostOnce
  <2> SUFFICES ASSUME crashes = 0 PROVE
           /\ ExecutedOnce
           /\ \A t \in Ticket : runs[t] = 1 => t \notin Unread
           /\ \A c, d \in Corbot : c # d /\ msg[c] = msg[d] => msg[c] = NoTicket
    BY DEF AtMostOnce
  <2> USE <1>1, DistributionAssumption
  <2>1. ExecutedOnce
    BY DEF IInv, Unrepeated, ExecutedOnce
  <2>2. \A c, d \in Corbot : c # d /\ msg[c] = msg[d] => msg[c] = NoTicket
    BY DEF IInv, Unrepeated
  <2>3. ASSUME NEW t \in Ticket, runs[t] = 1, t \in Unread PROVE FALSE
    <3>1. Read(t)
      BY <2>3 DEF IInv, Unrepeated
    <3> QED BY <2>3, <3>1, ReadIsPast
  <2> QED BY <2>1, <2>2, <2>3
<1> QED BY <1>1, DistributionInvariant, PTL

\* Unless something was refused, raised or killed, every planned ticket with
\* tests whose delivery has not failed is on its way, in a corbot's hands, or was executed.
THEOREM TicketsAreKept == Spec => []NothingLost
<1>1. ASSUME IInv PROVE NothingLost
  <2> SUFFICES ASSUME refused = 0, failures = 0, crashes = 0,
                      NEW t \in Planned \ (EmptyTicket \cup undelivered), t \notin Unread
               PROVE  runs[t] = 1 \/ \E c \in Corbot : msg[c] = t
    BY DEF NothingLost
  <2> USE <1>1, DistributionAssumption
  <2> PICK k \in DOMAIN Plan : t = Plan[k]
    BY DEF Planned
  <2>1. k \in 1..Len(Plan) /\ t \in Ticket
    BY PlanIsOnce
  <2>2. /\ Put \in Nat /\ Len(queue) \in Nat /\ Working \in {0, 1} /\ Taken = Put - Len(queue)
        /\ Put <= Len(Plan) + 1 /\ sent \in Nat /\ (Put = sent \/ sent = Len(Plan))
    BY TypesInParts DEF IInv, SendTypes, Put, Taken, Working, Queued
  <2>3. k <= sent
    BY <2>1, <2>2, PlannedPlaces
  <2>4. k <= Taken
    <3> SUFFICES ASSUME k > Taken PROVE FALSE
      BY <2>1, <2>2
    <3>1. k - Taken \in 1..Len(queue)
      <4>1. sent <= Put
        BY <2>2 DEF Put
      <4>2. k \in Nat /\ Taken \in Int /\ k <= Taken + Len(queue)
        BY <2>1, <2>2, <2>3, <4>1
      <4> QED BY <2>2, <4>2
    <3>2. k - Taken \in DOMAIN queue
      BY <3>1, TypesInParts DEF IInv, SendTypes
    <3>3. Outgoing(Taken + (k - Taken)) = t
      BY <2>1, <2>2 DEF Outgoing
    <3> QED BY <3>2, <3>3, PlannedPlaces
  <2>5. k <= Taken - Working
    <3>1. CASE server = "produce"
      <4>1. item = Plan[Taken]
        BY <3>1 DEF IInv, Queued
      <4>2. k # Taken
        BY <4>1, PlannedPlaces
      <4> QED BY <2>1, <2>2, <2>4, <4>2
    <3>2. CASE server # "produce"
      BY <2>1, <2>2, <2>4, <3>2 DEF Working
    <3> QED BY <3>1, <3>2
  <2>6. InTopic(t)
    <3>1. Handled(t)
      BY <2>5 DEF Handled
    <3> QED BY <2>1, <3>1, PlannedPlaces DEF IInv, Once
  <2> PICK p \in Partition : \E i \in DOMAIN log[p] : t = log[p][i]
    BY <2>6 DEF InTopic
  <2> PICK i \in DOMAIN log[p] : t = log[p][i]
    OBVIOUS
  <2>7. i \in 1..position[p]
    <3>1. position[p] \in Nat /\ i \in 1..Len(log[p])
      BY TypesInParts DEF IInv, TopicTypes
    <3> QED BY <3>1, PlannedPlaces
  <2>8. Read(t)
    BY <2>7 DEF Read
  <2> QED BY <2>1, <2>8 DEF IInv, Unlost
<1> QED BY <1>1, DistributionInvariant, PTL

\* run() returns only if nothing was discarded and every delivery was decided:
\* each ticket is in the topic or was given up, never both.
THEOREM ReturnIsDelivery == Spec => []ReturnMeansDelivered
<1>1. ASSUME IInv PROVE ReturnMeansDelivered
  <2> SUFFICES ASSUME primebot = "returned"
               PROVE  /\ refused = 0 /\ buffer = {}
                      /\ UNION {ToSet(log[p]) : p \in Partition} = Planned \ undelivered
    BY DEF ReturnMeansDelivered
  <2> USE <1>1, DistributionAssumption
  <2>1. refused = 0 /\ Working = 0 /\ Len(queue) = 0 /\ server = "ended"
    <3>1. /\ unfinished = 0 /\ unfinished = Len(queue) + Working + refused
          /\ server \in {"ended", "dead"} /\ (server = "dead" => refused > 0)
      BY DEF IInv, Counted
    <3>2. Len(queue) \in Nat /\ Working \in Nat /\ refused \in Nat
      BY TypesInParts DEF IInv, SendTypes, Working
    <3> QED BY <3>1, <3>2
  <2>2. Taken = Len(Plan) + 1 /\ buffer = {}
    BY <2>1 DEF IInv, Queued, Once
  <2>3. \A t : t \in Planned <=> Handled(t)
    BY <2>1, <2>2, PlanIsOnce DEF Planned, Handled
  <2>4. \A t : t \in Planned => t \in Ticket
    BY DEF Planned
  <2>5. \A t : InTopic(t) => t \in Ticket
    BY TypesInParts DEF InTopic, IInv, TopicTypes
  <2>6. \A t : t \in Planned \ undelivered <=> InTopic(t)
    BY <2>1, <2>2, <2>3, <2>4, <2>5 DEF IInv, Once
  <2>7. \A t : t \in UNION {ToSet(log[p]) : p \in Partition} <=> InTopic(t)
    BY DEF InTopic, ToSet
  <2>8. UNION {ToSet(log[p]) : p \in Partition} = Planned \ undelivered
    BY <2>6, <2>7
  <2> QED BY <2>1, <2>2, <2>8
<1> QED BY <1>1, DistributionInvariant, PTL

-----------------------------------------------------------------------------
(* The queue of tickets that the distribution is to those who use it. *)

\* Where a ticket waits that no corbot was given, one place at a time.
ToPut(t) == \E i \in (sent + 1)..Len(Plan) : t = Plan[i]
InQueue(t) == t \in ToSet(queue)
ToRead(t) == \E p \in Partition : \E i \in (position[p] + 1)..Len(log[p]) : t = log[p][i]
Waits(t) == ToPut(t) \/ InQueue(t) \/ t = item \/ t \in buffer \/ ToRead(t)

LEMMA UnreadWaits ==
  ASSUME NEW t PROVE (t \in Unread <=> Waits(t)) /\ (t \in Unread' <=> Waits(t)')
<1>1. t \in Unread <=> Waits(t)
  BY DEF Unread, Waits, ToPut, InQueue, ToRead, Ahead
<1>2. t \in Unread' <=> Waits(t)'
  BY DEF Unread, Waits, ToPut, InQueue, ToRead, Ahead
<1> QED BY <1>1, <1>2

\* What Append and Tail do to the items of a sequence.
LEMMA AppendedItems ==
  ASSUME NEW S, NEW s \in Seq(S), NEW x \in S
  PROVE  ToSet(Append(s, x)) = ToSet(s) \cup {x}
<1>1. Len(s) \in Nat /\ DOMAIN s = 1..Len(s)
  OBVIOUS
<1>2. DOMAIN Append(s, x) = 1..(Len(s) + 1)
  OBVIOUS
<1>3. \A i \in 1..Len(s) : Append(s, x)[i] = s[i]
  OBVIOUS
<1>4. Append(s, x)[Len(s) + 1] = x
  OBVIOUS
<1>5. \A i : i \in 1..(Len(s) + 1) <=> i \in 1..Len(s) \/ i = Len(s) + 1
  BY <1>1
<1>6. \A t : t \in ToSet(Append(s, x)) <=> t \in ToSet(s) \/ t = x
  BY <1>1, <1>2, <1>3, <1>4, <1>5 DEF ToSet
<1> QED BY <1>6

LEMMA TailItems ==
  ASSUME NEW S, NEW s \in Seq(S), s # <<>>
  PROVE  ToSet(s) = {Head(s)} \cup ToSet(Tail(s))
<1>1. Len(s) \in Nat /\ Len(s) > 0 /\ DOMAIN s = 1..Len(s) /\ Head(s) = s[1]
  OBVIOUS
<1>2. Tail(s) \in Seq(S) /\ Len(Tail(s)) = Len(s) - 1
  OBVIOUS
<1>3. DOMAIN Tail(s) = 1..(Len(s) - 1)
  BY <1>1, <1>2
<1>4. \A i \in 1..(Len(s) - 1) : Tail(s)[i] = s[i + 1]
  OBVIOUS
<1>5. ASSUME NEW i \in 1..Len(s) PROVE s[i] = Head(s) \/ s[i] \in ToSet(Tail(s))
  <2>1. CASE i = 1
    BY <1>1, <2>1
  <2>2. CASE i # 1
    <3>1. i - 1 \in 1..(Len(s) - 1) /\ (i - 1) + 1 = i
      BY <1>1, <2>2
    <3> QED BY <1>3, <1>4, <3>1 DEF ToSet
  <2> QED BY <2>1, <2>2
<1>6. ASSUME NEW i \in 1..(Len(s) - 1) PROVE Tail(s)[i] \in ToSet(s)
  <2>1. i + 1 \in 1..Len(s)
    BY <1>1
  <2> QED BY <1>1, <1>4, <2>1 DEF ToSet
<1>7. Head(s) \in ToSet(s)
  BY <1>1 DEF ToSet
<1>8. ToSet(s) \subseteq {Head(s)} \cup ToSet(Tail(s))
  BY <1>1, <1>5 DEF ToSet
<1>9. ToSet(Tail(s)) \subseteq ToSet(s)
  BY <1>3, <1>6 DEF ToSet
<1> QED BY <1>7, <1>8, <1>9

\* run() puts the next ticket of the plan at the end of the WorkQ.
LEMMA PutWaits ==
  ASSUME IInv, PutTicket \/ PutPill, NEW t \in Ticket
  PROVE  Waits(t)' <=> Waits(t)
<1> USE DistributionAssumption
<1>1. /\ SendTypes /\ Len(Plan) \in Nat
  BY TypesInParts, PlanIsOnce DEF IInv
<1>2. UNCHANGED <<item, buffer, log, position>>
  BY DEF PutTicket, PutPill, serverVars, kafkaVars
<1>3. ToRead(t)' <=> ToRead(t)
  BY <1>2 DEF ToRead
<1>4. CASE PutTicket
  <2>1. /\ sent \in Nat /\ sent < Len(Plan) /\ sent' = sent + 1
        /\ queue' = Append(queue, Plan[sent + 1])
    BY <1>1, <1>4 DEF SendTypes, PutTicket, WorkQPut
  <2>2. InQueue(t)' <=> InQueue(t) \/ t = Plan[sent + 1]
    <3>1. queue \in Seq(Ticket \cup {Pill}) /\ Plan[sent + 1] \in Ticket \cup {Pill}
      BY <1>1, <2>1 DEF SendTypes
    <3> QED BY <2>1, <3>1, AppendedItems DEF InQueue
  <2>3. ToPut(t) <=> ToPut(t)' \/ t = Plan[sent + 1]
    <3>1. sent + 1 \in (sent + 1)..Len(Plan)
      BY <1>1, <2>1
    <3>2. \A i : i \in (sent + 1)..Len(Plan) <=> i = sent + 1 \/ i \in (sent' + 1)..Len(Plan)
      BY <1>1, <2>1
    <3> QED BY <3>1, <3>2 DEF ToPut
  <2> QED BY <1>2, <1>3, <2>2, <2>3 DEF Waits
<1>5. CASE PutPill
  <2>1. queue' = Append(queue, Pill) /\ sent' = sent /\ t # Pill
    BY <1>5 DEF PutPill, WorkQPut
  <2>2. InQueue(t)' <=> InQueue(t)
    <3>1. queue \in Seq(Ticket \cup {Pill}) /\ Pill \in Ticket \cup {Pill}
      BY <1>1 DEF SendTypes
    <3> QED BY <2>1, <3>1, AppendedItems DEF InQueue
  <2>3. ToPut(t)' <=> ToPut(t)
    BY <2>1 DEF ToPut
  <2> QED BY <1>2, <1>3, <2>2, <2>3 DEF Waits
<1> QED BY <1>4, <1>5

\* The thread of producer.server moves a ticket on towards the topic, unless the
\* serializer refuses it.
LEMMA ServerWaits ==
  ASSUME IInv, ServerStep \/ ServerFault, NEW t \in Ticket
  PROVE  (ServerFault => t # item) => (Waits(t)' <=> Waits(t))
<1> USE DistributionAssumption
<1>1. SendTypes /\ Queued
  BY TypesInParts DEF IInv
<1>2. UNCHANGED <<sent, log, position>>
  BY DEF ServerStep, TakeItem, Produce, Flush, ServerFault, Refuse, ServerDies,
         primebotVars, kafkaVars
<1>3. (ToRead(t)' <=> ToRead(t)) /\ (ToPut(t)' <=> ToPut(t))
  BY <1>2 DEF ToRead, ToPut
<1>4. CASE TakeItem
  <2>1. /\ queue # <<>> /\ queue' = Tail(queue) /\ buffer' = buffer
        /\ item = NoTicket
        /\ IF Head(queue) = Pill THEN item' = NoTicket ELSE item' = Head(queue)
    BY <1>1, <1>4 DEF TakeItem, Queued
  <2>2. InQueue(t) <=> t = Head(queue) \/ InQueue(t)'
    <3>1. queue \in Seq(Ticket \cup {Pill})
      BY <1>1 DEF SendTypes
    <3> QED BY <2>1, <3>1, TailItems DEF InQueue
  <2>3. t # Pill /\ t # NoTicket
    OBVIOUS
  <2> QED BY <1>3, <2>1, <2>2, <2>3 DEF Waits
<1>5. CASE Produce
  <2>1. queue' = queue /\ buffer' = buffer \cup {item} /\ item' = NoTicket
    BY <1>5 DEF Produce
  <2>2. (InQueue(t)' <=> InQueue(t)) /\ t # NoTicket
    BY <2>1 DEF InQueue
  <2> QED BY <1>3, <2>1, <2>2 DEF Waits
<1>6. CASE Flush
  <2>1. queue' = queue /\ buffer' = buffer /\ item' = item
    BY <1>6 DEF Flush, queueVars
  <2>2. InQueue(t)' <=> InQueue(t)
    BY <2>1 DEF InQueue
  <2> QED BY <1>3, <2>1, <2>2 DEF Waits
<1>7. CASE ServerFault
  <2>1. queue' = queue /\ buffer' = buffer /\ item' = NoTicket /\ t # NoTicket
    BY <1>7 DEF ServerFault, Refuse, ServerDies, queueVars
  <2>2. InQueue(t)' <=> InQueue(t)
    BY <2>1 DEF InQueue
  <2> QED BY <1>3, <1>7, <2>1, <2>2 DEF Waits
<1> QED BY <1>4, <1>5, <1>6, <1>7 DEF ServerStep

\* Kafka moves a ticket from the client's buffer to the end of a partition,
\* which no reader has reached.
LEMMA KafkaWaits ==
  ASSUME IInv, KafkaStep, NEW t \in Ticket
  PROVE  Waits(t)' <=> Waits(t)
<1> USE DistributionAssumption
<1>1. TopicTypes /\ SendTypes
  BY TypesInParts DEF IInv
<1>2. UNCHANGED <<sent, queue, item, position>>
  BY KafkaFrame DEF KafkaStep, Deliver, Commit, Assign, primebotVars, queueVars
<1>3. (InQueue(t)' <=> InQueue(t)) /\ (ToPut(t)' <=> ToPut(t))
  BY <1>2 DEF InQueue, ToPut
<1>4. CASE UNCHANGED <<buffer, log>>
  <2>1. ToRead(t)' <=> ToRead(t)
    BY <1>2, <1>4 DEF ToRead
  <2> QED BY <1>2, <1>3, <1>4, <2>1 DEF Waits
<1>5. ASSUME NEW p \in Partition, Deliver(p) PROVE Waits(t)' <=> Waits(t)
  <2> PICK u \in buffer : buffer' = buffer \ {u} /\ log' = [log EXCEPT ![p] = Append(@, u)]
    BY <1>5 DEF Deliver
  <2>1. /\ log[p] \in Seq(Ticket) /\ log'[p] = Append(log[p], u) /\ u \in Ticket
        /\ \A q \in Partition : q # p => log'[q] = log[q]
    BY <1>1 DEF TopicTypes, SendTypes
  <2>2. /\ Len(log[p]) \in Nat /\ Len(log'[p]) = Len(log[p]) + 1
        /\ \A i \in 1..Len(log[p]) : log'[p][i] = log[p][i]
        /\ log'[p][Len(log[p]) + 1] = u
    BY <2>1
  <2>3. position[p] \in Nat /\ position[p] <= Len(log[p])
    BY <1>1 DEF TopicTypes
  <2>4. \A i : i \in (position[p] + 1)..(Len(log[p]) + 1) <=>
                  i \in (position[p] + 1)..Len(log[p]) \/ i = Len(log[p]) + 1
    BY <2>2, <2>3
  <2>5. \A i \in (position[p] + 1)..Len(log[p]) : i \in 1..Len(log[p])
    BY <2>2, <2>3
  <2>6. (\E i \in (position[p] + 1)..Len(log'[p]) : t = log'[p][i])
          <=> (\E i \in (position[p] + 1)..Len(log[p]) : t = log[p][i]) \/ t = u
    BY <2>2, <2>4, <2>5
  <2>7. \A q \in Partition : q # p => Len(log'[q]) = Len(log[q]) /\ log'[q] = log[q]
    BY <2>1
  <2>8. ToRead(t)' <=> \E q \in Partition :
                         \E i \in (position[q] + 1)..Len(log'[q]) : t = log'[q][i]
    BY <1>2 DEF ToRead
  <2>9. ASSUME NEW q \in Partition, NEW i \in (position[q] + 1)..Len(log'[q]), t = log'[q][i]
        PROVE  ToRead(t) \/ t = u
    BY <2>6, <2>7, <2>9 DEF ToRead
  <2>10. ASSUME NEW q \in Partition, NEW i \in (position[q] + 1)..Len(log[q]), t = log[q][i]
         PROVE  ToRead(t)'
    <3>1. CASE q = p
      BY <2>6, <2>8, <2>10, <3>1
    <3>2. CASE q # p
      BY <2>7, <2>8, <2>10, <3>2
    <3> QED BY <3>1, <3>2
  <2>11. t = u => ToRead(t)'
    BY <2>6, <2>8
  <2>12. ToRead(t)' => ToRead(t) \/ t = u
    BY <2>8, <2>9
  <2>13. ToRead(t) => ToRead(t)'
    BY <2>10 DEF ToRead
  <2>14. ToRead(t)' <=> ToRead(t) \/ t = u
    BY <2>11, <2>12, <2>13
  <2> QED BY <1>2, <1>3, <2>14 DEF Waits
<1> QED BY <1>4, <1>5, KafkaFrame

\* The same of the state that a step leads to.
PastRead == \A t \in Ticket : Read(t) => t \notin Unread

LEMMA ReadIsPastNext == IInv' => PastRead'
<1>1. IInv => PastRead
  BY ReadIsPast DEF PastRead
<1> QED BY <1>1, PTL

\* A poll returns the message of one partition.
LEMMA PollsOnce ==
  ASSUME TopicTypes, NEW c \in Corbot, NEW p \in Partition, NEW q \in Partition,
         Poll(c, p), Poll(c, q)
  PROVE  p = q
<1> SUFFICES ASSUME p # q PROVE FALSE
  OBVIOUS
<1>1. position[q] \in Nat /\ position'[q] = position[q]
  BY DEF TopicTypes, Poll
<1>2. position'[q] = position[q] + 1
  BY DEF TopicTypes, Poll
<1> QED BY <1>1, <1>2

\* Of the steps of a corbot only a poll takes a ticket from those that wait,
\* unless the corbot is killed.
LEMMA CorbotWaits ==
  ASSUME IInv, IInv', NEW c \in Corbot, CorbotStep(c), ~Crash(c), NEW t \in Ticket
  PROVE  \/ /\ \E p \in Partition : Poll(c, p) /\ t = log[p][position[p] + 1]
            /\ Waits(t) /\ ~Waits(t)'
         \/ /\ \A p \in Partition : Poll(c, p) => t # log[p][position[p] + 1]
            /\ Waits(t)' <=> Waits(t)
<1> USE DistributionAssumption
<1>1. TopicTypes /\ Once
  BY TypesInParts DEF IInv
<1>2. UNCHANGED <<sent, queue, item, buffer, log>>
  BY CorbotFrame DEF sendVars, primebotVars, queueVars, serverVars
<1>3. (InQueue(t)' <=> InQueue(t)) /\ (ToPut(t)' <=> ToPut(t))
  BY <1>2 DEF InQueue, ToPut
<1>4. ASSUME \A p \in Partition : ~Poll(c, p) PROVE Waits(t)' <=> Waits(t)
  <2>1. position' = position
    BY <1>4 DEF CorbotStep, BotStep, StartRun, EndRun, PollNothing, Fail, Close, kafkaVars
  <2>2. ToRead(t)' <=> ToRead(t)
    BY <1>2, <2>1 DEF ToRead
  <2> QED BY <1>2, <1>3, <2>2 DEF Waits
<1>5. ASSUME NEW p \in Partition, Poll(c, p), t = log[p][position[p] + 1]
      PROVE  Waits(t) /\ ~Waits(t)'
  <2>1. position[p] \in Nat /\ position[p] < Len(log[p]) /\ Len(log[p]) \in Nat
    BY <1>1, <1>5 DEF TopicTypes, Poll
  <2>2. position[p] + 1 \in (position[p] + 1)..Len(log[p])
    BY <2>1
  <2>3. Waits(t)
    BY <1>5, <2>2 DEF Waits, ToRead
  <2>4. Read(t)'
    BY <1>1, <1>5, ReadByPoll
  <2>5. t \notin Unread'
    BY <2>4, ReadIsPastNext DEF PastRead
  <2> QED BY <2>3, <2>5, UnreadWaits
<1>6. ASSUME NEW p \in Partition, Poll(c, p), t # log[p][position[p] + 1]
      PROVE  Waits(t)' <=> Waits(t)
  <2>1. /\ position[p] \in Nat /\ position'[p] = position[p] + 1 /\ Len(log[p]) \in Nat
        /\ \A q \in Partition : q # p => position'[q] = position[q]
    BY <1>1, <1>6 DEF TopicTypes, Poll
  <2>2. \A i : i \in (position'[p] + 1)..Len(log[p]) =>
                  i \in (position[p] + 1)..Len(log[p])
    BY <2>1
  <2>3. \A i : i \in (position[p] + 1)..Len(log[p]) =>
                  i = position[p] + 1 \/ i \in (position'[p] + 1)..Len(log[p])
    BY <2>1
  <2>4. (\E i \in (position'[p] + 1)..Len(log[p]) : t = log[p][i])
          <=> \E i \in (position[p] + 1)..Len(log[p]) : t = log[p][i]
    BY <1>6, <2>2, <2>3
  <2>5. ToRead(t)' <=> ToRead(t)
    BY <1>2, <2>1, <2>4 DEF ToRead
  <2> QED BY <1>2, <1>3, <2>5 DEF Waits
<1>7. \A p, q \in Partition : Poll(c, p) /\ Poll(c, q) => p = q
  BY <1>1, PollsOnce
<1> QED BY <1>4, <1>5, <1>6, <1>7

-----------------------------------------------------------------------------
\* A corbot that runs tests has counted its ticket.
Running == \A c \in Corbot : bot[c] = "run" => runs[msg[c]] > 0

LEMMA RunningKept ==
  ASSUME IInv, Running, [Next]_vars PROVE Running'
<1> USE DistributionAssumption
<1>1. HandTypes /\ InHand
  BY TypesInParts DEF IInv
<1>2. CASE UNCHANGED handVars
  BY <1>2 DEF handVars, botVars, Running
<1>3. ASSUME NEW c \in Corbot, CorbotStep(c) PROVE Running'
  <2>1. CASE StartRun(c)
    <3>1. /\ msg[c] \in Ticket /\ msg' = msg /\ runs[msg[c]] \in Nat
          /\ bot' = [bot EXCEPT ![c] = "run"] /\ runs' = [runs EXCEPT ![msg[c]] = @ + 1]
      BY <1>1, <2>1 DEF StartRun, InHand, HandTypes
    <3>2. runs'[msg[c]] > 0 /\ \A t \in Ticket : t # msg[c] => runs'[t] = runs[t]
      BY <1>1, <3>1 DEF HandTypes
    <3>3. \A d \in Corbot : d # c /\ bot'[d] = "run" => bot[d] = "run" /\ msg[d] \in Ticket
      BY <1>1, <3>1 DEF HandTypes, InHand
    <3> QED BY <3>1, <3>2, <3>3 DEF Running
  <2>2. CASE ~StartRun(c)
    <3>1. /\ runs' = runs
          /\ \A d \in Corbot : bot'[d] = "run" => bot[d] = "run" /\ msg'[d] = msg[d]
      BY <1>1, <1>3, <2>2 DEF CorbotStep, BotStep, Poll, EndRun, PollNothing, Fail, Crash,
                              HandTypes
    <3> QED BY <3>1 DEF Running
  <2> QED BY <2>1, <2>2
<1>4. UNCHANGED vars \/ SendStep \/ KafkaStep \/ DeliveryFails => UNCHANGED handVars
  BY SendFrame, KafkaFrame, GiveUpFrame DEF vars, handVars, faultVars
<1> QED BY <1>2, <1>3, <1>4, NextInParts

-----------------------------------------------------------------------------
(* Every step of the distribution is one of the queue, or cannot be seen there. *)

\* What the queue sees of a state: who waits, and what each corbot holds.
Waiting == Unread \cap Ticket
Held == [c \in Corbot |-> {msg[c]} \cap Ticket]
Faults == refused + failures + Cardinality(undelivered)

LEMMA SameWaiting ==
  ASSUME \A t \in Ticket : Waits(t)' <=> Waits(t)
  PROVE  Waiting' = Waiting
<1>1. \A t \in Ticket : t \in Unread' <=> t \in Unread
  BY UnreadWaits
<1> QED BY <1>1 DEF Waiting

LEMMA OneLessWaiting ==
  ASSUME NEW u \in Ticket, Waits(u), ~Waits(u)',
         \A t \in Ticket : t # u => (Waits(t)' <=> Waits(t))
  PROVE  u \in Waiting /\ Waiting' = Waiting \ {u}
<1>1. u \in Unread /\ u \notin Unread'
  BY UnreadWaits
<1>2. \A t \in Ticket : t # u => (t \in Unread' <=> t \in Unread)
  BY UnreadWaits
<1> QED BY <1>1, <1>2 DEF Waiting

\* A step of the sender is unseen, or the serializer refuses a record.
LEMMA SendIsTicketStep ==
  ASSUME IInv, SendStep
  PROVE  [Tickets!Next]_(Tickets!vars)
<1> USE DistributionAssumption
<1>1. UNCHANGED <<msg, runs, failures, undelivered>>
  <2>1. UNCHANGED <<msg, runs, failures>>
    BY SendFrame DEF handVars, botVars
  <2>2. undelivered' = undelivered
    BY DEF SendStep, PrimebotStep, PutTicket, PutPill, Join, JoinThread, ServerStep,
           TakeItem, Produce, Flush, ServerFault, Refuse, ServerDies, faultVars
  <2> QED BY <2>1, <2>2
<1>2. Held' = Held
  BY <1>1 DEF Held
<1>3. CASE ~ServerFault
  <2>1. \A t \in Ticket : Waits(t)' <=> Waits(t)
    <3>1. CASE PutTicket \/ PutPill
      BY <3>1, PutWaits
    <3>2. CASE ServerStep
      BY <1>3, <3>2, ServerWaits
    <3>3. CASE Join \/ JoinThread
      BY <3>3 DEF Join, JoinThread, queueVars, serverVars, kafkaVars,
                  Waits, ToPut, InQueue, ToRead
    <3> QED BY <1>3, <3>1, <3>2, <3>3 DEF SendStep, PrimebotStep
  <2>2. Waiting' = Waiting
    BY <2>1, SameWaiting
  <2>3. refused' = refused
    BY <1>3 DEF SendStep, PrimebotStep, PutTicket, PutPill, Join, JoinThread, ServerStep,
                TakeItem, Produce, Flush, faultVars
  <2> QED BY <1>1, <1>2, <2>2, <2>3 DEF Tickets!vars, Waiting, Held
<1>4. CASE ServerFault
  <2>1. refused' = refused + 1 /\ item \in Ticket
    <3>1. refused' = refused + 1 /\ server = "produce"
      BY <1>4 DEF ServerFault, Refuse, ServerDies
    <3>2. Taken \in DOMAIN Plan /\ item = Plan[Taken]
      BY <3>1 DEF IInv, Queued
    <3> QED BY <3>1, <3>2
  <2>2. \A t \in Ticket : t # item => (Waits(t)' <=> Waits(t))
    BY <1>4, ServerWaits
  <2>3. Waiting' \in {Waiting, Waiting \ {item}}
    <3>1. item \in Unread
      BY DEF Unread
    <3>2. \A t \in Ticket : t # item => (t \in Unread' <=> t \in Unread)
      BY <2>2, UnreadWaits
    <3>3. CASE item \in Unread'
      BY <3>1, <3>2, <3>3 DEF Waiting
    <3>4. CASE item \notin Unread'
      BY <3>1, <3>2, <3>4 DEF Waiting
    <3> QED BY <3>3, <3>4
  <2>4. Faults' = Faults + 1
    <3>1. refused \in Int /\ failures \in Int /\ Cardinality(undelivered) \in Int
      BY TypesInParts, FS_CardinalityType DEF IInv, SendTypes, HandTypes, Once
    <3> QED BY <1>1, <2>1, <3>1 DEF Faults
  <2>5. Tickets!Fault
    BY <1>1, <1>2, <2>1, <2>3, <2>4 DEF Tickets!Fault, Waiting, Held, Faults
  <2> QED BY <2>5 DEF Tickets!Next
<1> QED BY <1>3, <1>4

LEMMA KafkaIsUnseen ==
  ASSUME IInv, KafkaStep
  PROVE  UNCHANGED Tickets!vars
<1>1. UNCHANGED <<msg, runs, failures, refused, undelivered>>
  BY KafkaFrame DEF handVars, botVars
<1>2. Waiting' = Waiting
  BY KafkaWaits, SameWaiting
<1> QED BY <1>1, <1>2 DEF Tickets!vars, Waiting

\* A failed delivery is a fault: it takes its ticket away from those that wait.
LEMMA GiveUpIsTicketStep ==
  ASSUME IInv, DeliveryFails
  PROVE  Tickets!Fault
<1> PICK u \in buffer : buffer' = buffer \ {u} /\ undelivered' = undelivered \cup {u}
  BY DEF DeliveryFails
<1>1. SendTypes /\ HandTypes /\ Once
  BY TypesInParts DEF IInv
<1>2. UNCHANGED <<msg, runs, refused, failures, sent, queue, item, log, position>>
  BY DEF DeliveryFails, primebotVars, queueVars, kafkaVars, botVars
<1>3. u \in Ticket /\ u \notin undelivered
  BY <1>1 DEF SendTypes, Once
<1>4. Held' = Held
  BY <1>2 DEF Held
<1>5. Waiting' \in {Waiting, Waiting \ {u}}
  <2>1. ASSUME NEW t \in Ticket, t # u PROVE Waits(t)' <=> Waits(t)
    BY <1>2, <2>1 DEF Waits, ToPut, InQueue, ToRead
  <2>2. \A t \in Ticket : t # u => (t \in Unread' <=> t \in Unread)
    BY <2>1, UnreadWaits
  <2>3. u \in Unread
    BY DEF Unread
  <2>4. CASE u \in Unread'
    BY <2>2, <2>3, <2>4 DEF Waiting
  <2>5. CASE u \notin Unread'
    BY <2>2, <2>3, <2>5 DEF Waiting
  <2> QED BY <2>4, <2>5
<1>6. Faults' = Faults + 1
  <2>1. Cardinality(undelivered) \in Nat /\ Cardinality(undelivered') = Cardinality(undelivered) + 1
    BY <1>1, <1>3, FS_CardinalityType, FS_AddElement DEF Once
  <2>2. refused \in Int /\ failures \in Int
    BY <1>1 DEF SendTypes, HandTypes
  <2> QED BY <1>2, <2>1, <2>2 DEF Faults
<1> QED BY <1>2, <1>3, <1>4, <1>5, <1>6 DEF Tickets!Fault, Waiting, Held, Faults

\* A corbot is handed a ticket by a poll, and executes and finishes it once.
LEMMA CorbotIsTicketStep ==
  ASSUME IInv, IInv', Running, NEW c \in Corbot, CorbotStep(c), crashes' = 0
  PROVE  [Tickets!Next]_(Tickets!vars)
<1> USE DistributionAssumption
<1>1. HandTypes /\ TopicTypes /\ InHand /\ SendTypes
  BY TypesInParts DEF IInv
<1>2. crashes = 0 /\ ~Crash(c)
  BY <1>1 DEF HandTypes, CorbotStep, BotStep, Poll, StartRun, EndRun, PollNothing, Fail,
              Crash, faultVars
<1>3. refused' = refused /\ undelivered' = undelivered
  BY CorbotFrame DEF sendVars
<1>4. \A d \in Corbot : Held[d] = {msg[d]} \cap Ticket /\ Held'[d] = {msg'[d]} \cap Ticket
  BY DEF Held
<1>5. (\A p \in Partition : ~Poll(c, p)) => Waiting' = Waiting
  BY <1>2, CorbotWaits, SameWaiting
<1>6. ASSUME NEW p \in Partition, Poll(c, p) PROVE Tickets!Next
  <2>1. log[p][position[p] + 1] \in Ticket
    BY <1>1, <1>6, ReadByPoll DEF IInv
  <2> PICK u \in Ticket : u = log[p][position[p] + 1]
    BY <2>1
  <2>2. Waits(u) /\ ~Waits(u)'
    BY <1>2, <1>6, CorbotWaits
  <2>3. ASSUME NEW t \in Ticket, t # u PROVE Waits(t)' <=> Waits(t)
    <3>1. \A q \in Partition : Poll(c, q) => q = p
      BY <1>1, <1>6, PollsOnce
    <3>2. ~\E q \in Partition : Poll(c, q) /\ t = log[q][position[q] + 1]
      BY <2>3, <3>1
    <3> QED BY <1>2, <3>2, CorbotWaits
  <2>4. /\ runs' = runs /\ failures' = failures /\ bot[c] = "poll" /\ msg[c] = NoTicket
        /\ IF u \in EmptyTicket THEN msg' = msg ELSE msg' = [msg EXCEPT ![c] = u]
    BY <1>1, <1>6 DEF Poll, InHand, faultVars
  <2>5. u \in Waiting /\ Waiting' = Waiting \ {u}
    BY <2>2, <2>3, OneLessWaiting
  <2>6. CASE u \in EmptyTicket
    <3>1. Held' = Held
      BY <2>4, <2>6 DEF Held
    <3>2. Tickets!PassOver(u)
      BY <1>3, <2>4, <2>5, <2>6, <3>1 DEF Tickets!PassOver, Waiting, Held
    <3> QED BY <3>2 DEF Tickets!Next
  <2>7. CASE u \notin EmptyTicket
    <3>1. msg' = [msg EXCEPT ![c] = u] /\ msg \in [Corbot -> Ticket \cup {NoTicket}]
      BY <1>1, <2>4, <2>7 DEF HandTypes
    <3>2. Held[c] = {} /\ Held' = [Held EXCEPT ![c] = {u}]
      <4>1. msg'[c] = u /\ \A d \in Corbot : d # c => msg'[d] = msg[d]
        BY <3>1
      <4>2. {u} \cap Ticket = {u} /\ {NoTicket} \cap Ticket = {}
        OBVIOUS
      <4>3. Held' = [d \in Corbot |-> {msg'[d]} \cap Ticket]
        BY DEF Held
      <4>4. \A d \in Corbot : Held'[d] = IF d = c THEN {u} ELSE Held[d]
        BY <1>4, <4>1, <4>2
      <4>5. Held[c] = {}
        BY <1>4, <2>4, <4>2
      <4>6. Held = [d \in Corbot |-> {msg[d]} \cap Ticket]
        BY DEF Held
      <4> QED BY <4>3, <4>4, <4>5, <4>6
    <3>3. Tickets!HandOut(c, u)
      BY <1>3, <2>4, <2>5, <2>7, <3>2 DEF Tickets!HandOut, Waiting, Held
    <3> QED BY <3>3 DEF Tickets!Next
  <2> QED BY <2>6, <2>7
<1>7. CASE StartRun(c)
  <2>1. /\ bot[c] = "got" /\ msg' = msg /\ runs' = [runs EXCEPT ![msg[c]] = @ + 1]
        /\ failures' = failures /\ \A p \in Partition : ~Poll(c, p)
    BY <1>7 DEF StartRun, Poll, faultVars
  <2>2. msg[c] \in Ticket /\ msg[c] \in Held[c]
    BY <1>1, <1>4, <2>1 DEF HandTypes, InHand
  <2>3. runs[msg[c]] = 0
    BY <1>2, <2>1 DEF IInv, Unrepeated
  <2>4. runs' = [runs EXCEPT ![msg[c]] = 1]
    BY <2>1, <2>3
  <2>5. Waiting' = Waiting /\ Held' = Held
    BY <1>5, <2>1 DEF Held
  <2>6. Tickets!Execute(c, msg[c])
    BY <1>3, <2>1, <2>2, <2>3, <2>4, <2>5 DEF Tickets!Execute, Waiting, Held
  <2> QED BY <2>2, <2>6 DEF Tickets!Next
<1>8. CASE EndRun(c)
  <2>1. /\ bot[c] = "run" /\ runs' = runs /\ msg' = [msg EXCEPT ![c] = NoTicket]
        /\ failures' = failures /\ \A p \in Partition : ~Poll(c, p)
    BY <1>8 DEF EndRun, Poll, faultVars
  <2>2. msg[c] \in Ticket
    BY <1>1, <2>1 DEF HandTypes, InHand
  <2> PICK t \in Ticket : t = msg[c]
    BY <2>2
  <2>3. t \in Held[c]
    BY <1>4
  <2>4. runs[t] = 1
    <3>1. runs[t] > 0 /\ runs[t] <= 1 /\ runs[t] \in Nat
      BY <1>1, <1>2, <2>1 DEF Running, IInv, Unrepeated, HandTypes
    <3> QED BY <3>1
  <2>5. Waiting' = Waiting
    BY <1>5, <2>1
  <2>6. Held' = [Held EXCEPT ![c] = {}]
    <3>1. msg'[c] = NoTicket /\ \A d \in Corbot : d # c => msg'[d] = msg[d]
      BY <1>1, <2>1 DEF HandTypes
    <3> QED BY <3>1 DEF Held
  <2>7. Tickets!Finish(c, t)
    BY <1>3, <2>1, <2>3, <2>4, <2>5, <2>6 DEF Tickets!Finish, Waiting, Held
  <2> QED BY <2>7 DEF Tickets!Next
<1>9. CASE PollNothing(c) /\ \A p \in Partition : ~Poll(c, p)
  <2>1. UNCHANGED <<runs, failures, msg>>
    BY <1>9 DEF PollNothing, faultVars
  <2>2. Held' = Held
    BY <2>1 DEF Held
  <2> QED BY <1>3, <1>5, <1>9, <2>1, <2>2 DEF Tickets!vars, Waiting, Held
<1>10. CASE Fail(c) /\ \A p \in Partition : ~Poll(c, p)
  <2>1. /\ runs' = runs /\ failures' = failures + 1 /\ msg' = [msg EXCEPT ![c] = NoTicket]
    BY <1>10 DEF Fail
  <2>2. Held' = [Held EXCEPT ![c] = {}]
    <3>1. msg'[c] = NoTicket /\ \A d \in Corbot : d # c => msg'[d] = msg[d]
      BY <1>1, <2>1 DEF HandTypes
    <3> QED BY <3>1 DEF Held
  <2>3. Faults' = Faults + 1
    <3>1. refused \in Int /\ failures \in Int /\ Cardinality(undelivered) \in Int
      BY <1>1, FS_CardinalityType DEF SendTypes, HandTypes, IInv, Once
    <3> QED BY <1>3, <2>1, <3>1 DEF Faults
  <2>4. Tickets!Fault
    BY <1>5, <1>10, <2>1, <2>2, <2>3 DEF Tickets!Fault, Waiting, Held, Faults
  <2> QED BY <2>4 DEF Tickets!Next
<1> QED BY <1>2, <1>6, <1>7, <1>8, <1>9, <1>10 DEF CorbotStep, BotStep

LEMMA TicketStep ==
  ASSUME IInv, IInv', Running, [Next]_vars, crashes' = 0
  PROVE  [Tickets!Next]_(Tickets!vars)
<1>1. CASE UNCHANGED vars
  <2>1. UNCHANGED <<msg, runs, refused, failures, undelivered, sent, queue, item, buffer, log,
                    position>>
    BY <1>1 DEF vars, primebotVars, queueVars, serverVars, kafkaVars, botVars, faultVars
  <2>2. Held' = Held
    BY <2>1 DEF Held
  <2>3. \A t \in Ticket : Waits(t)' <=> Waits(t)
    BY <2>1 DEF Waits, ToPut, InQueue, ToRead
  <2>4. Waiting' = Waiting
    BY <2>3, SameWaiting
  <2> QED BY <2>1, <2>2, <2>4 DEF Tickets!vars, Waiting, Held
<1>2. CASE SendStep
  BY <1>2, SendIsTicketStep
<1>3. CASE KafkaStep
  BY <1>3, KafkaIsUnseen
<1>4. ASSUME NEW c \in Corbot, CorbotStep(c) PROVE [Tickets!Next]_(Tickets!vars)
  BY <1>4, CorbotIsTicketStep
<1>5. CASE DeliveryFails
  BY <1>5, GiveUpIsTicketStep DEF Tickets!Next
<1> QED BY <1>1, <1>2, <1>3, <1>4, <1>5, NextInParts

LEMMA InitTickets == Init => Tickets!Init /\ Running
<1> SUFFICES ASSUME Init PROVE Tickets!Init /\ Running
  OBVIOUS
<1>1. [c \in Corbot |-> {msg[c]} \cap Ticket] = [c \in Corbot |-> {}]
  BY DistributionAssumption DEF Init
<1>2. Running
  BY DEF Init, Running
<1> QED BY <1>1, <1>2, FS_EmptySet DEF Init, Tickets!Init

\* Unless a corbot is killed, the way of the tickets is that of TicketQueue: none
\* is handed out or executed twice, and a fault costs at most one.
THEOREM DistributionIsAQueue == Spec => ImplementsTicketQueue
<1>1. IInv /\ Running /\ [Next]_vars => Running'
  BY RunningKept
<1>2. IInv /\ IInv' /\ Running /\ [Next]_vars
        => (crashes' = 0 => [Tickets!Next]_(Tickets!vars))
  BY TicketStep
<1> QED BY <1>1, <1>2, InitTickets, DistributionInvariant, PTL
           DEF Spec, ImplementsTicketQueue

\* Where no corbot is ever killed the distribution implements TicketQueue.
COROLLARY TicketQueueWithoutCrashes == Spec /\ [](crashes = 0) => Tickets!Spec
<1>1. IInv /\ Running /\ [Next]_vars => Running'
  BY RunningKept
<1>2. IInv /\ IInv' /\ Running /\ [Next]_vars /\ (crashes = 0)'
        => [Tickets!Next]_(Tickets!vars)
  BY TicketStep
<1> QED BY <1>1, <1>2, InitTickets, DistributionInvariant, PTL DEF Spec, Tickets!Spec

=============================================================================
