--------------------------- MODULE RabbitLoadProofs ---------------------------
(***************************************************************************)
(* Theorems about the RabbitMQ load test, for any number of exchanges,     *)
(* queues, routing keys and clients.                                       *)
(***************************************************************************)
EXTENDS RabbitLoad, FiniteSetTheorems, TLAPS

-----------------------------------------------------------------------------
(* Consumers and their queues *)

LEMMA ConsumerIsClient ==
  ASSUME NEW q \in Queue
  PROVE  ConsumerOf(q) \in Client
<1>1. ParallelClients \in Nat \ {0} /\ q - 1 \in Nat
  BY CountsAssumption DEF Queue
<1>2. \A n, m \in Nat : m # 0 => n % m \in 0..m - 1
  OBVIOUS
<1> QED
  BY <1>1, <1>2 DEF ConsumerOf, Client

-----------------------------------------------------------------------------
(* The copies of messages on their way, as a set *)

Slot == {"ready", "read", "drain"}
InSlot(r, d, q, s) == IF s = "ready" THEN r[q] ELSE d[q][s]

(* The copies that a queue has ready and those sent to its consumers, when  *)
(* the queues hold r and d.                                                 *)
Copies(r, d) == {c \in Queue \X Slot \X Nat : 1 <= c[3] /\ c[3] <= InSlot(r, d, c[1], c[2])}

Ready == [Queue -> Nat]
Delivered == [Queue -> [Purpose -> Nat]]

LEMMA QueuesFinite == IsFiniteSet(Queue) /\ Cardinality(Queue) = QueueCount
BY CountsAssumption, FS_Interval DEF Queue

LEMMA InSlotIsNat ==
  ASSUME NEW r \in Ready, NEW d \in Delivered, NEW q \in Queue, NEW s \in Slot
  PROVE  InSlot(r, d, q, s) \in Nat
BY DEF Ready, Delivered, Slot, Purpose, InSlot

(* Copies that are dropped *)
LEMMA FewerCopies ==
  ASSUME NEW r \in Ready, NEW d \in Delivered, NEW r1 \in Ready, NEW d1 \in Delivered,
         \A q \in Queue, s \in Slot : InSlot(r1, d1, q, s) <= InSlot(r, d, q, s),
         IsFiniteSet(Copies(r, d))
  PROVE  /\ IsFiniteSet(Copies(r1, d1))
         /\ Cardinality(Copies(r1, d1)) <= Cardinality(Copies(r, d))
<1>1. ASSUME NEW c \in Copies(r1, d1) PROVE c \in Copies(r, d)
  <2>1. c \in Queue \X Slot \X Nat /\ 1 <= c[3] /\ c[3] <= InSlot(r1, d1, c[1], c[2])
    BY DEF Copies
  <2>2. c[1] \in Queue /\ c[2] \in Slot /\ c[3] \in Nat
    BY <2>1
  <2>3. /\ InSlot(r1, d1, c[1], c[2]) \in Nat /\ InSlot(r, d, c[1], c[2]) \in Nat
        /\ InSlot(r1, d1, c[1], c[2]) <= InSlot(r, d, c[1], c[2])
    BY <2>2, InSlotIsNat
  <2>4. c[3] <= InSlot(r, d, c[1], c[2])
    BY <2>1, <2>2, <2>3
  <2> QED
    BY <2>1, <2>4 DEF Copies
<1> QED
  BY <1>1, FS_Subset

(* One copy more: r1 and d1 have one more than r and d in a slot of a queue. *)
OneMore(r, d, r1, d1, p, t) ==
  /\ InSlot(r1, d1, p, t) = InSlot(r, d, p, t) + 1
  /\ \A q \in Queue, s \in Slot : q # p \/ s # t => InSlot(r1, d1, q, s) = InSlot(r, d, q, s)

LEMMA OneCopyApart ==
  ASSUME NEW r \in Ready, NEW d \in Delivered, NEW r1 \in Ready, NEW d1 \in Delivered,
         NEW p \in Queue, NEW t \in Slot, OneMore(r, d, r1, d1, p, t)
  PROVE  \E c : c \notin Copies(r, d) /\ Copies(r1, d1) = Copies(r, d) \cup {c}
<1> DEFINE n == InSlot(r1, d1, p, t)
           c0 == <<p, t, n>>
<1>0. n \in Nat /\ InSlot(r, d, p, t) \in Nat /\ n = InSlot(r, d, p, t) + 1
  BY InSlotIsNat DEF OneMore
<1>1. n \in Nat /\ n >= 1
  BY <1>0
<1>2. c0 \in Copies(r1, d1)
  <2>1. c0 \in Queue \X Slot \X Nat /\ c0[1] = p /\ c0[2] = t /\ c0[3] = n
    BY <1>1
  <2> QED
    BY <1>1, <2>1 DEF Copies
<1>3. ASSUME NEW c \in Queue \X Slot \X Nat
      PROVE  c \in Copies(r, d) <=> c \in Copies(r1, d1) \ {c0}
  <2>1. c[1] \in Queue /\ c[2] \in Slot /\ c[3] \in Nat /\ c = <<c[1], c[2], c[3]>>
    OBVIOUS
  <2>2. CASE c[1] # p \/ c[2] # t
    <3>1. c # c0
      BY <2>2
    <3>2. InSlot(r1, d1, c[1], c[2]) = InSlot(r, d, c[1], c[2])
      BY <2>1, <2>2 DEF OneMore
    <3> QED
      BY <3>1, <3>2 DEF Copies
  <2>3. CASE c[1] = p /\ c[2] = t
    <3>1. c = c0 <=> c[3] = n
      BY <2>1, <2>3
    <3>2. c[3] <= n - 1 <=> c[3] <= n /\ c[3] # n
      BY <1>1, <2>1
    <3>3. InSlot(r, d, p, t) = n - 1
      BY <1>0
    <3> QED
      BY <2>3, <3>1, <3>2, <3>3 DEF Copies
  <2> QED
    BY <2>2, <2>3
<1>4. Copies(r, d) = Copies(r1, d1) \ {c0}
  BY <1>3 DEF Copies
<1>5. Copies(r1, d1) = Copies(r, d) \cup {c0} /\ c0 \notin Copies(r, d)
  BY <1>2, <1>4
<1> QED
  BY <1>5

LEMMA OneCopyMore ==
  ASSUME NEW r \in Ready, NEW d \in Delivered, NEW r1 \in Ready, NEW d1 \in Delivered,
         NEW p \in Queue, NEW t \in Slot, OneMore(r, d, r1, d1, p, t),
         IsFiniteSet(Copies(r, d))
  PROVE  /\ IsFiniteSet(Copies(r1, d1))
         /\ Cardinality(Copies(r1, d1)) = Cardinality(Copies(r, d)) + 1
<1>1. PICK c : c \notin Copies(r, d) /\ Copies(r1, d1) = Copies(r, d) \cup {c}
  BY OneCopyApart
<1>2. /\ IsFiniteSet(Copies(r, d) \cup {c})
      /\ Cardinality(Copies(r, d) \cup {c}) = Cardinality(Copies(r, d)) + 1
  BY <1>1, FS_AddElement
<1> QED
  BY <1>1, <1>2

LEMMA OneCopyLess ==
  ASSUME NEW r \in Ready, NEW d \in Delivered, NEW r1 \in Ready, NEW d1 \in Delivered,
         NEW p \in Queue, NEW t \in Slot, OneMore(r1, d1, r, d, p, t),
         IsFiniteSet(Copies(r, d))
  PROVE  /\ IsFiniteSet(Copies(r1, d1))
         /\ Cardinality(Copies(r1, d1)) = Cardinality(Copies(r, d)) - 1
<1>1. PICK c : c \notin Copies(r1, d1) /\ Copies(r, d) = Copies(r1, d1) \cup {c}
  BY OneCopyApart
<1>2. c \in Copies(r, d) /\ Copies(r1, d1) = Copies(r, d) \ {c}
  BY <1>1
<1>3. /\ IsFiniteSet(Copies(r, d) \ {c})
      /\ Cardinality(Copies(r, d) \ {c}) = Cardinality(Copies(r, d)) - 1
  BY <1>2, FS_RemoveElement
<1> QED
  BY <1>2, <1>3

(* A message is copied to each queue at most once. *)
LEMMA MessageCopied ==
  ASSUME NEW r \in Ready, NEW d \in Delivered, NEW r1 \in Ready,
         \A q \in Queue : r1[q] = r[q] \/ r1[q] = r[q] + 1,
         IsFiniteSet(Copies(r, d))
  PROVE  /\ IsFiniteSet(Copies(r1, d))
         /\ Cardinality(Copies(r1, d)) <= Cardinality(Copies(r, d)) + QueueCount
<1> DEFINE f == [q \in Queue |-> <<q, "ready", r[q] + 1>>]
           New == {f[q] : q \in Queue}
<1>1. IsFiniteSet(New) /\ Cardinality(New) <= QueueCount
  <2>1. f \in Surjection(Queue, New)
    BY DEF Surjection
  <2> HIDE DEF f, New
  <2> QED
    BY <2>1, QueuesFinite, FS_Surjection
<1>2. ASSUME NEW c \in Copies(r1, d) PROVE c \in Copies(r, d) \cup New
  <2>1. c \in Queue \X Slot \X Nat /\ 1 <= c[3] /\ c[3] <= InSlot(r1, d, c[1], c[2])
    BY DEF Copies
  <2>2. c[1] \in Queue /\ c[2] \in Slot /\ c[3] \in Nat /\ c = <<c[1], c[2], c[3]>>
    BY <2>1
  <2>3. CASE c[2] # "ready"
    BY <2>1, <2>3 DEF Copies, InSlot
  <2>4. CASE c[2] = "ready" /\ c[3] = r[c[1]] + 1
    <3>1. c = f[c[1]]
      BY <2>2, <2>4
    <3> QED
      BY <2>2, <3>1
  <2>5. CASE c[2] = "ready" /\ c[3] # r[c[1]] + 1
    <3>1. r[c[1]] \in Nat /\ (r1[c[1]] = r[c[1]] \/ r1[c[1]] = r[c[1]] + 1)
      BY <2>2 DEF Ready
    <3>2. c[3] <= r1[c[1]]
      BY <2>1, <2>5 DEF InSlot
    <3>3. c[3] <= r[c[1]]
      BY <2>2, <2>5, <3>1, <3>2
    <3> QED
      BY <2>1, <2>5, <3>3 DEF Copies, InSlot
  <2> QED
    BY <2>3, <2>4, <2>5
<1> HIDE DEF New
<1>3. /\ IsFiniteSet(Copies(r, d) \cup New)
      /\ Cardinality(Copies(r, d) \cup New) =
           Cardinality(Copies(r, d)) + Cardinality(New) - Cardinality(Copies(r, d) \cap New)
  BY <1>1, FS_Union
<1>4. IsFiniteSet(Copies(r, d) \cap New)
  BY <1>1, FS_Subset
<1>5. /\ Cardinality(Copies(r, d)) \in Nat /\ Cardinality(New) \in Nat
      /\ Cardinality(Copies(r, d) \cap New) \in Nat
  BY <1>1, <1>4, FS_CardinalityType
<1>6. /\ IsFiniteSet(Copies(r1, d))
      /\ Cardinality(Copies(r1, d)) <= Cardinality(Copies(r, d) \cup New)
  BY <1>2, <1>3, FS_Subset
<1>7. Cardinality(Copies(r1, d)) \in Nat
  BY <1>6, FS_CardinalityType
<1>8. QueueCount \in Nat
  BY CountsAssumption
<1> QED
  BY <1>1, <1>3, <1>5, <1>6, <1>7, <1>8
-----------------------------------------------------------------------------
(* The loops of createResources and cleanupResources *)

CreateOps == {"declareExchange", "declareQueue", "bind"}
CleanupOps == {"purge", "unbind", "deleteExchange", "deleteQueue"}

LEMMA FirstIsOperation ==
  ASSUME NEW op \in CreateOps \cup CleanupOps \cup {"none"}
  PROVE  /\ First(op) \in Operation /\ First(op).op = op
         /\ First(op).exchange = 1 /\ First(op).queue = 1
BY CountsAssumption DEF First, At, Operation, Exchange, Queue, RoutingKey, CreateOps, CleanupOps

(* The operation after an operation: the next one of its loop, or the first *)
(* one of the next loop when all have been done.                            *)
LEMMA AfterOperation ==
  ASSUME NEW o \in Operation
  PROVE  /\ After(o) \in Operation
         /\ o.op \in CreateOps => After(o).op \in CreateOps \cup {"none"}
         /\ o.op \in CleanupOps => After(o).op \in CleanupOps \cup {"none"}
         /\ o.op \in {"declareExchange", "deleteExchange"} =>
              \/ After(o).op = o.op /\ After(o).exchange = o.exchange + 1
              \/ /\ After(o).op = LoopAfter(o.op) /\ After(o).queue = 1
                 /\ o.exchange = ExchangeCount
         /\ o.op \in {"declareQueue", "deleteQueue"} =>
              \/ After(o).op = o.op /\ After(o).queue = o.queue + 1
              \/ After(o).op = LoopAfter(o.op) /\ o.queue = QueueCount
         /\ o.op = "unbind" => \/ After(o).op = "unbind"
                               \/ After(o).op = "deleteExchange" /\ After(o).exchange = 1
         /\ o.op = "bind" => After(o).op \in {"bind", "none"}
         /\ o.op = "purge" => After(o).op \in {"purge", "unbind"}
<1> DEFINE a == After(o)
<1> USE DEF CreateOps, CleanupOps, OverQueues, OverKeys, OverExchanges
<1>1. /\ o.exchange \in Nat /\ o.exchange \in 1..ExchangeCount
      /\ o.key \in Nat /\ o.key \in 1..RoutingKeyCount
      /\ o.queue \in Nat /\ o.queue \in 1..QueueCount
      /\ o.op \in CreateOps \cup CleanupOps \cup {"none"}
  BY DEF Operation, Exchange, RoutingKey, Queue
<1>2. ExchangeCount \in Nat \ {0} /\ RoutingKeyCount \in Nat \ {0} /\ QueueCount \in Nat \ {0}
  BY CountsAssumption
<1>3. CASE o.op \in OverQueues /\ o.queue < QueueCount
  <2>1. a = At(o.op, o.exchange, o.key, o.queue + 1)
    BY <1>3 DEF After
  <2>2. a.op = o.op /\ a.exchange = o.exchange /\ a.key = o.key /\ a.queue = o.queue + 1
    BY <2>1 DEF At
  <2>3. a \in Operation
    BY <1>1, <1>2, <1>3, <2>1 DEF At, Operation, Exchange, RoutingKey, Queue
  <2> QED
    BY <1>3, <2>2, <2>3
<1>4. CASE /\ ~(o.op \in OverQueues /\ o.queue < QueueCount)
           /\ o.op \in OverKeys /\ o.key < RoutingKeyCount
  <2>1. a = At(o.op, o.exchange, o.key + 1, 1)
    BY <1>4 DEF After
  <2>2. a.op = o.op /\ a.op = "bind"
    BY <1>4, <2>1 DEF At
  <2>3. a \in Operation
    BY <1>1, <1>2, <1>4, <2>1 DEF At, Operation, Exchange, RoutingKey, Queue
  <2> QED
    BY <2>2, <2>3
<1>5. CASE /\ ~(o.op \in OverQueues /\ o.queue < QueueCount)
           /\ ~(o.op \in OverKeys /\ o.key < RoutingKeyCount)
           /\ o.op \in OverExchanges /\ o.exchange < ExchangeCount
  <2>1. a = At(o.op, o.exchange + 1, 1, 1)
    BY <1>5 DEF After
  <2>2. a.op = o.op /\ a.exchange = o.exchange + 1
    BY <2>1 DEF At
  <2>3. a \in Operation
    BY <1>1, <1>2, <1>5, <2>1 DEF At, Operation, Exchange, RoutingKey, Queue
  <2> QED
    BY <1>5, <2>2, <2>3
<1>6. CASE /\ ~(o.op \in OverQueues /\ o.queue < QueueCount)
           /\ ~(o.op \in OverKeys /\ o.key < RoutingKeyCount)
           /\ ~(o.op \in OverExchanges /\ o.exchange < ExchangeCount)
  <2>1. a = First(LoopAfter(o.op))
    BY <1>6 DEF After
  <2>2. LoopAfter(o.op) \in CreateOps \cup CleanupOps \cup {"none"}
    BY DEF LoopAfter
  <2>3. a \in Operation /\ a.op = LoopAfter(o.op) /\ a.exchange = 1 /\ a.queue = 1
    BY <2>1, <2>2, FirstIsOperation
  <2>4. /\ o.op \in OverQueues => o.queue = QueueCount
        /\ o.op \in OverExchanges => o.exchange = ExchangeCount
    BY <1>1, <1>2, <1>6
  <2> QED
    BY <1>1, <2>3, <2>4 DEF LoopAfter
<1> QED
  BY <1>3, <1>4, <1>5, <1>6

-----------------------------------------------------------------------------
(* The inductive invariant *)

(* Which operations main is at, and what it has not come to yet *)
Script ==
  /\ main = "create" => todo.op \in CreateOps \cup {"none"}
  /\ main = "cleanup" => todo.op \in CleanupOps \cup {"none"}
  /\ main \in {"connect", "create"} => runner = "unborn"
  /\ main \in {"connect", "create", "select"} => finish = "none"
  /\ main \in {"print", "cleanup"} => finish # "none"

(* While no operation has failed everything declared so far exists. *)
Created ==
  main = "create" /\ channel =>
    /\ todo.op = "declareExchange" => 1..todo.exchange - 1 \subseteq exchanges
    /\ todo.op = "declareQueue" => /\ Exchange \subseteq exchanges
                                   /\ 1..todo.queue - 1 \subseteq queues
    /\ todo.op = "bind" => Exchange \subseteq exchanges /\ Queue \subseteq queues

(* While no operation has failed nothing deleted so far exists. *)
Removed ==
  /\ main = "cleanup" /\ channel =>
       /\ todo.op = "deleteExchange" => exchanges \cap 1..todo.exchange - 1 = {}
       /\ todo.op = "deleteQueue" => exchanges = {} /\ queues \cap 1..todo.queue - 1 = {}
       /\ todo.op = "none" => exchanges = {} /\ queues = {}
  /\ NothingLeftBehind

(* Whoever has been waited for counts no more. *)
Waited ==
  /\ finish = "done" => runner = "done"
  /\ runner = "done" => \A i \in Client : producer[i] = "exited" /\ consumer[i] = "exited"
  /\ runner \in {"unborn", "start"} =>
       \A i \in Client : producer[i] = "unborn" /\ consumer[i] = "unborn"
  /\ \A q \in Queue :
       /\ consumer[ConsumerOf(q)] \in {"unborn", "start"} => reader[q] = "unborn"
       /\ consumer[ConsumerOf(q)] = "exited" => reader[q] \in {"unborn", "exited"}
  /\ StatisticsFinal

(* Copies that have been received and copies on their way stem from         *)
(* messages that have been published.                                       *)
Copied ==
  /\ IsFiniteSet(Copies(ready, delivered))
  /\ receivedMessagesCount + Cardinality(Copies(ready, delivered))
       <= (sentMessagesCount + Cardinality(Uncounted)) * QueueCount

RabbitInv == TypeOK /\ Script /\ Created /\ Removed /\ Waited /\ Copied

-----------------------------------------------------------------------------
(* Types *)

LEMMA TypesOfMain ==
  ASSUME RabbitInv, MainStep \/ Killed \/ SelectSignal \/ RunnerStep \/ DurationExpires
  PROVE  TypeOK'
<1> USE DEF RabbitInv, TypeOK, resources, command, control, producers, consumers, messages
<1>1. CASE Connect
  <2>1. CreateResources \in Operation
    BY FirstIsOperation DEF CreateResources, CreateOps
  <2> QED
    BY <1>1, <2>1 DEF Connect
<1>2. CASE Killed \/ SelectDone \/ SelectSignal \/ Exit \/ DurationExpires
  BY <1>2 DEF Killed, SelectDone, SelectSignal, Exit, DurationExpires
<1>3. CASE ParseDuration
  BY <1>3 DEF ParseDuration
<1>4. CASE PrintStatistics
  <2>1. CleanupResources \in Operation
    BY FirstIsOperation DEF CleanupResources, CleanupOps
  <2> QED
    BY <1>4, <2>1 DEF PrintStatistics
<1>5. CASE RunnerStep
  BY <1>5 DEF RunnerStep, StartConsumersAndProducers, RunnerDone
<1>6. CASE Operate /\ main \in {"create", "cleanup"}
  <2>1. todo' \in Operation
    BY <1>6, AfterOperation DEF Operate
  <2>2. CASE UNCHANGED <<resources, messages>> /\ channel' = FALSE
    BY <1>6, <2>1, <2>2 DEF Operate
  <2>3. CASE channel /\ Perform(todo) /\ UNCHANGED channel
    <3>0. todo.exchange \in Exchange /\ todo.key \in RoutingKey /\ todo.queue \in Queue
      BY DEF Operation
    <3>1. /\ exchanges' \subseteq Exchange /\ queues' \subseteq Queue
          /\ bindings' \subseteq exchanges' \X RoutingKey \X queues'
      <4>1. CASE Declare(todo) /\ todo.op # "bind"
        BY <3>0, <4>1 DEF Declare
      <4>2. CASE Declare(todo) /\ todo.op = "bind"
        <5>1. todo.exchange \in exchanges /\ todo.queue \in queues
          BY <1>6, <2>3, <3>0, <4>2 DEF Created, Script, CleanupOps
        <5>2. /\ bindings' = bindings \cup {<<todo.exchange, todo.key, todo.queue>>}
              /\ exchanges' = exchanges /\ queues' = queues
          BY <4>2 DEF Declare
        <5> QED
          BY <3>0, <5>1, <5>2
      <4>3. CASE Purge(todo) \/ Unbind(todo)
        BY <4>3 DEF Purge, Unbind
      <4>4. CASE DeleteExchange(todo)
        BY <4>4 DEF DeleteExchange
      <4>5. CASE DeleteQueue(todo)
        BY <4>5 DEF DeleteQueue
      <4> QED
        BY <2>3, <4>1, <4>2, <4>3, <4>4, <4>5 DEF Perform
    <3>2. /\ ready' \in [Queue -> Nat] /\ registered' \in [Queue -> SUBSET Purpose]
          /\ delivered' \in [Queue -> [Purpose -> Nat]] /\ receivedMessagesCount' \in Nat
      <4>1. CASE Declare(todo) \/ Unbind(todo) \/ DeleteExchange(todo)
        BY <4>1 DEF Declare, Unbind, DeleteExchange
      <4>2. CASE Purge(todo)
        BY <3>0, <4>2 DEF Purge
      <4>3. CASE DeleteQueue(todo)
        BY <3>0, <4>3 DEF DeleteQueue
      <4> QED
        BY <2>3, <4>1, <4>2, <4>3 DEF Perform
    <3> QED
      BY <1>6, <2>1, <2>3, <3>1, <3>2 DEF Operate
  <2> QED
    BY <1>6, <2>2, <2>3 DEF Operate
<1> QED
  BY <1>1, <1>2, <1>3, <1>4, <1>5, <1>6 DEF MainStep, Create, Cleanup

LEMMA TypesOfProducers ==
  ASSUME RabbitInv, NEW i \in Client, ProducerStep(i)
  PROVE  TypeOK'
<1> USE DEF RabbitInv, TypeOK, resources, command, control, producers, consumers, messages
<1>1. CASE StartProducer(i)
  BY <1>1 DEF StartProducer
<1>2. CASE Publish(i)
  <2>1. ready' \in [Queue -> Nat]
    BY <1>2 DEF Publish
  <2>2. producerChannel' \in [Client -> BOOLEAN]
    BY <1>2 DEF Publish
  <2>3. producer' \in [Client -> {"unborn", "start", "loop", "count", "exited"}]
    BY <1>2 DEF Publish
  <2> QED
    BY <1>2, <2>1, <2>2, <2>3 DEF Publish
<1>3. CASE CountSent(i)
  BY <1>3 DEF CountSent
<1>4. CASE StopProducing(i)
  BY <1>4 DEF StopProducing
<1> QED
  BY <1>1, <1>2, <1>3, <1>4 DEF ProducerStep

LEMMA TypesOfConsumers ==
  ASSUME RabbitInv, NEW i \in Client, ConsumerStep(i)
  PROVE  TypeOK'
<1> USE DEF RabbitInv, TypeOK, resources, command, control, producers, consumers, messages
<1>1. CASE StartConsumer(i)
  <2>1. reader' \in [Queue -> {"unborn", "start", "read", "drain", "exited"}]
    BY <1>1 DEF StartConsumer
  <2>2. /\ consumer' \in [Client -> {"unborn", "start", "wait", "exited"}]
        /\ consumerChannel' \in [Client -> BOOLEAN] /\ timeout' \in [Client -> BOOLEAN]
    BY <1>1 DEF StartConsumer
  <2> QED
    BY <1>1, <2>1, <2>2 DEF StartConsumer
<1>2. CASE ConsumerReturns(i)
  <2>1. /\ registered' \in [Queue -> SUBSET Purpose]
        /\ delivered' \in [Queue -> [Purpose -> Nat]]
    BY <1>2 DEF ConsumerReturns, CloseChannel
  <2>2. /\ consumer' \in [Client -> {"unborn", "start", "wait", "exited"}]
        /\ consumerChannel' \in [Client -> BOOLEAN]
    BY <1>2 DEF ConsumerReturns, CloseChannel
  <2> QED
    BY <1>2, <2>1, <2>2 DEF ConsumerReturns
<1> QED
  BY <1>1, <1>2 DEF ConsumerStep

LEMMA TypesOfConsume ==
  ASSUME TypeOK, NEW q \in Queue, NEW purpose \in Purpose, Consume(q, purpose)
  PROVE  /\ registered' \in [Queue -> SUBSET Purpose]
         /\ delivered' \in [Queue -> [Purpose -> Nat]]
         /\ consumerChannel' \in [Client -> BOOLEAN]
         /\ reader' \in [Queue -> {"unborn", "start", "read", "drain", "exited"}]
         /\ \A p \in Queue \ {q} : reader'[p] = reader[p]
         /\ \A p \in Queue, c \in Purpose : delivered'[p][c] \in {delivered[p][c], 0}
<1> USE DEF TypeOK
<1>1. ConsumerOf(q) \in Client
  BY ConsumerIsClient
<1>2. CASE CloseChannel(ConsumerOf(q)) /\ reader' = [reader EXCEPT ![q] = "exited"]
  BY <1>1, <1>2 DEF CloseChannel
<1>3. CASE /\ registered' = [registered EXCEPT ![q] = @ \cup {purpose}]
           /\ reader' = [reader EXCEPT ![q] = purpose]
           /\ UNCHANGED <<consumerChannel, delivered>>
  BY <1>3 DEF Purpose
<1>4. CASE /\ reader' = [reader EXCEPT ![q] = "exited"]
           /\ UNCHANGED <<consumerChannel, registered, delivered>>
  BY <1>4
<1> QED
  BY <1>2, <1>3, <1>4 DEF Consume

LEMMA TypesOfReaders ==
  ASSUME RabbitInv, NEW q \in Queue, ReaderStep(q) \/ Deliver(q)
  PROVE  TypeOK'
<1> USE DEF RabbitInv, TypeOK, resources, command, control, producers, consumers, messages
<1>1. CASE StartReading(q)
  <2>1. Consume(q, "read") /\ "read" \in Purpose
    BY <1>1 DEF StartReading, Purpose
  <2> QED
    BY <1>1, <2>1, TypesOfConsume DEF StartReading
<1>2. CASE StopReading(q)
  <2>1. Consume(q, "drain") /\ "drain" \in Purpose
    BY <1>2 DEF StopReading, Purpose
  <2>2. timeout' \in [Client -> BOOLEAN]
    BY <1>2, ConsumerIsClient DEF StopReading
  <2> QED
    BY <1>2, <2>1, <2>2, TypesOfConsume DEF StopReading
<1>3. CASE Receive(q)
  <2>1. /\ delivered[q] \in [Purpose -> Nat] /\ reader[q] \in Purpose
        /\ delivered[q][reader[q]] \in Nat /\ delivered[q][reader[q]] > 0
    BY <1>3 DEF Receive
  <2>2. delivered[q][reader[q]] - 1 \in Nat
    BY <2>1
  <2>3. delivered' \in [Queue -> [Purpose -> Nat]]
    BY <1>3, <2>1, <2>2 DEF Receive
  <2> QED
    BY <1>3, <2>3 DEF Receive
<1>4. CASE Deliver(q)
  <2>1. ready' \in [Queue -> Nat]
    BY <1>4 DEF Deliver
  <2>2. PICK c \in registered[q] : delivered' = [delivered EXCEPT ![q][c] = @ + 1]
    BY <1>4 DEF Deliver
  <2>3. c \in Purpose /\ delivered[q] \in [Purpose -> Nat] /\ delivered[q][c] + 1 \in Nat
    OBVIOUS
  <2>4. delivered' \in [Queue -> [Purpose -> Nat]]
    BY <2>2, <2>3
  <2> QED
    BY <1>4, <2>1, <2>4 DEF Deliver
<1>5. CASE DeliveriesEnd(q) \/ DrainIdle(q)
  BY <1>5 DEF DeliveriesEnd, DrainIdle
<1> QED
  BY <1>1, <1>2, <1>3, <1>4, <1>5 DEF ReaderStep

LEMMA TypesKept ==
  ASSUME RabbitInv, [Next]_vars
  PROVE  TypeOK'
<1>1. CASE UNCHANGED vars
  BY <1>1 DEF vars, RabbitInv, TypeOK, resources, command, control, producers, consumers, messages
<1>2. CASE ~UNCHANGED vars
  BY <1>2, TypesOfMain, TypesOfProducers, TypesOfConsumers, TypesOfReaders DEF Next, Ended
<1> QED
  BY <1>1, <1>2

-----------------------------------------------------------------------------
(* What main has created and removed *)

LEMMA OnlyMain ==
  ASSUME Next, ~(MainStep \/ Killed \/ SelectSignal)
  PROVE  /\ UNCHANGED <<command, resources>>
         /\ runner' = runner \/ runner \in {"start", "wait"}
<1>1. CASE RunnerStep \/ DurationExpires
  BY <1>1 DEF RunnerStep, StartConsumersAndProducers, RunnerDone, DurationExpires
<1>2. CASE \E i \in Client : ProducerStep(i) \/ ConsumerStep(i)
  BY <1>2 DEF ProducerStep, ConsumerStep, StartProducer, Publish, CountSent, StopProducing,
              StartConsumer, ConsumerReturns, control
<1>3. CASE \E q \in Queue : ReaderStep(q) \/ Deliver(q)
  BY <1>3 DEF ReaderStep, StartReading, Receive, DeliveriesEnd, StopReading, DrainIdle, Deliver,
              control
<1>4. CASE Ended
  BY <1>4 DEF Ended, vars, control
<1> QED
  BY <1>1, <1>2, <1>3, <1>4 DEF Next

LEMMA ScriptKept ==
  ASSUME RabbitInv, [Next]_vars
  PROVE  Script' /\ Created' /\ Removed'
<1> USE DEF RabbitInv, Script, Created, Removed, NothingLeftBehind
<1>0. todo \in Operation /\ CreateResources.op = "declareExchange"
      /\ CreateResources.exchange = 1 /\ CleanupResources.op = "purge"
  BY FirstIsOperation DEF TypeOK, CreateResources, CleanupResources, CreateOps, CleanupOps
<1>1. CASE UNCHANGED vars
  BY <1>1 DEF vars, command, resources, control
<1>2. CASE Next /\ ~(MainStep \/ Killed \/ SelectSignal)
  <2>1. UNCHANGED <<badDuration, main, todo, channel, finish, printed, exchanges, queues>>
    BY <1>2, OnlyMain DEF command, resources
  <2>2. runner' = runner \/ runner # "unborn"
    BY <1>2, OnlyMain
  <2> QED
    BY <2>1, <2>2
<1>3. CASE Connect
  <2>1. UNCHANGED <<runner, finish, exchanges, queues>> /\ main = "connect"
        /\ \/ main' = "create" /\ todo' = CreateResources
           \/ main' = "exited"
    BY <1>3 DEF Connect, control, resources
  <2>2. 1..CreateResources.exchange - 1 = {}
    BY <1>0
  <2> QED
    BY <1>0, <2>1, <2>2 DEF CreateOps
<1>4. CASE Killed \/ ParseDuration \/ SelectDone \/ SelectSignal
  BY <1>4 DEF Killed, ParseDuration, SelectDone, SelectSignal, control, resources
<1>5. CASE PrintStatistics
  BY <1>0, <1>5 DEF PrintStatistics, control, resources, CleanupOps
<1>6. CASE Exit
  BY <1>6 DEF Exit, control, resources
<1>7. CASE Create
  <2>1. /\ main = "create" /\ todo.op \in CreateOps /\ todo' = After(todo)
        /\ UNCHANGED <<main, finish, runner>>
        /\ channel' => channel /\ Perform(todo)
    BY <1>7 DEF Create, Operate, control, CreateOps
  <2>2. todo'.op \in CreateOps \cup {"none"}
    BY <1>0, <2>1, AfterOperation
  <2>3. ASSUME channel' PROVE Created'
    <3>1. Declare(todo) /\ channel
      BY <2>1, <2>3 DEF Perform, Purge, Unbind, DeleteExchange, DeleteQueue, CreateOps
    <3>2. /\ todo.exchange \in 1..ExchangeCount /\ todo.queue \in 1..QueueCount
          /\ ExchangeCount \in Nat /\ QueueCount \in Nat
      BY <1>0, CountsAssumption DEF Operation, Exchange, Queue
    <3>3. CASE todo.op = "declareExchange"
      <4>1. exchanges' = exchanges \cup {todo.exchange}
        BY <3>1, <3>3 DEF Declare
      <4>2. 1..todo.exchange \subseteq exchanges'
        BY <2>1, <3>1, <3>2, <3>3, <4>1
      <4>3. CASE todo'.op = "declareExchange" /\ todo'.exchange = todo.exchange + 1
        <5>1. 1..todo'.exchange - 1 = 1..todo.exchange
          BY <3>2, <4>3
        <5> QED
          BY <4>2, <4>3, <5>1
      <4>4. CASE todo'.op = "declareQueue" /\ todo'.queue = 1 /\ todo.exchange = ExchangeCount
        <5>1. 1..todo'.queue - 1 = {} /\ Exchange \subseteq exchanges'
          BY <4>2, <4>4 DEF Exchange
        <5> QED
          BY <4>4, <5>1
      <4> QED
        BY <1>0, <2>1, <3>3, <4>3, <4>4, AfterOperation DEF LoopAfter
    <3>4. CASE todo.op = "declareQueue"
      <4>1. queues' = queues \cup {todo.queue} /\ exchanges' = exchanges
        BY <3>1, <3>4 DEF Declare
      <4>2. 1..todo.queue \subseteq queues' /\ Exchange \subseteq exchanges'
        BY <2>1, <3>1, <3>2, <3>4, <4>1
      <4>3. CASE todo'.op = "declareQueue" /\ todo'.queue = todo.queue + 1
        <5>1. 1..todo'.queue - 1 = 1..todo.queue
          BY <3>2, <4>3
        <5> QED
          BY <4>2, <4>3, <5>1
      <4>4. CASE todo'.op = "bind" /\ todo.queue = QueueCount
        BY <4>2, <4>4 DEF Queue
      <4> QED
        BY <1>0, <2>1, <3>4, <4>3, <4>4, AfterOperation DEF LoopAfter
    <3>5. CASE todo.op = "bind"
      <4>1. todo'.op \in {"bind", "none"}
        BY <1>0, <2>1, <3>5, AfterOperation
      <4>2. exchanges' = exchanges /\ queues' = queues
        BY <3>1, <3>5 DEF Declare
      <4> QED
        BY <2>1, <3>1, <3>5, <4>1, <4>2
    <3> QED
      BY <2>1, <3>3, <3>4, <3>5 DEF CreateOps
  <2> QED
    BY <2>1, <2>2, <2>3
<1>8. CASE Cleanup
  <2>1. /\ main = "cleanup" /\ todo.op \in CleanupOps /\ todo' = After(todo)
        /\ UNCHANGED <<main, finish, runner>>
        /\ channel' => channel /\ Perform(todo)
    BY <1>8 DEF Cleanup, Operate, control, CleanupOps
  <2>2. todo'.op \in CleanupOps \cup {"none"}
    BY <1>0, <2>1, AfterOperation
  <2>3. ASSUME channel'
        PROVE  /\ todo'.op = "deleteExchange" => exchanges' \cap 1..todo'.exchange - 1 = {}
               /\ todo'.op = "deleteQueue" =>
                    exchanges' = {} /\ queues' \cap 1..todo'.queue - 1 = {}
               /\ todo'.op = "none" => exchanges' = {} /\ queues' = {}
    <3>1. channel /\ ~Declare(todo) /\ Perform(todo)
      BY <2>1, <2>3 DEF Declare, CleanupOps
    <3>2. /\ todo.exchange \in 1..ExchangeCount /\ todo.queue \in 1..QueueCount
          /\ ExchangeCount \in Nat /\ QueueCount \in Nat
          /\ exchanges \subseteq 1..ExchangeCount /\ queues \subseteq 1..QueueCount
      BY <1>0, CountsAssumption DEF TypeOK, Operation, Exchange, Queue
    <3>3. CASE todo.op \in {"purge", "unbind"}
      <4>1. \/ todo'.op \in {"purge", "unbind"}
            \/ todo'.op = "deleteExchange" /\ todo'.exchange = 1
        BY <1>0, <2>1, <3>3, AfterOperation
      <4>2. todo'.exchange = 1 => 1..todo'.exchange - 1 = {}
        OBVIOUS
      <4> QED
        BY <4>1, <4>2
    <3>4. CASE todo.op = "deleteExchange"
      <4>1. exchanges' = exchanges \ {todo.exchange}
        BY <3>1, <3>4 DEF Perform, Purge, Unbind, DeleteExchange, DeleteQueue
      <4>2. exchanges' \cap 1..todo.exchange = {} /\ exchanges' \subseteq 1..ExchangeCount
        <5>1. exchanges \cap 1..todo.exchange - 1 = {}
          BY <2>1, <3>1, <3>4
        <5>2. 1..todo.exchange = 1..todo.exchange - 1 \cup {todo.exchange}
          BY <3>2
        <5> QED
          BY <3>2, <4>1, <5>1, <5>2
      <4>3. CASE todo'.op = "deleteExchange" /\ todo'.exchange = todo.exchange + 1
        <5>1. 1..todo'.exchange - 1 = 1..todo.exchange
          BY <3>2, <4>3
        <5> QED
          BY <4>2, <4>3, <5>1
      <4>4. CASE todo'.op = "deleteQueue" /\ todo'.queue = 1 /\ todo.exchange = ExchangeCount
        <5>1. 1..todo'.queue - 1 = {} /\ exchanges' = {}
          BY <4>2, <4>4
        <5> QED
          BY <4>4, <5>1
      <4> QED
        BY <1>0, <2>1, <3>4, <4>3, <4>4, AfterOperation DEF LoopAfter
    <3>5. CASE todo.op = "deleteQueue"
      <4>1. queues' = queues \ {todo.queue} /\ exchanges' = exchanges
        BY <3>1, <3>5 DEF Perform, Purge, Unbind, DeleteExchange, DeleteQueue
      <4>2. /\ queues' \cap 1..todo.queue = {} /\ queues' \subseteq 1..QueueCount
            /\ exchanges' = {}
        <5>1. exchanges = {} /\ queues \cap 1..todo.queue - 1 = {}
          BY <2>1, <3>1, <3>5
        <5>2. 1..todo.queue = 1..todo.queue - 1 \cup {todo.queue}
          BY <3>2
        <5> QED
          BY <3>2, <4>1, <5>1, <5>2
      <4>3. CASE todo'.op = "deleteQueue" /\ todo'.queue = todo.queue + 1
        <5>1. 1..todo'.queue - 1 = 1..todo.queue
          BY <3>2, <4>3
        <5> QED
          BY <4>2, <4>3, <5>1
      <4>4. CASE todo'.op = "none" /\ todo.queue = QueueCount
        <5>1. queues' = {}
          BY <4>2, <4>4
        <5> QED
          BY <4>2, <4>4, <5>1
      <4> QED
        BY <1>0, <2>1, <3>5, <4>3, <4>4, AfterOperation DEF LoopAfter
    <3> QED
      BY <2>1, <3>3, <3>4, <3>5 DEF CleanupOps
  <2> QED
    BY <2>1, <2>2, <2>3
<1> QED
  BY <1>1, <1>2, <1>3, <1>4, <1>5, <1>6, <1>7, <1>8 DEF MainStep

-----------------------------------------------------------------------------
(* Who counts *)

LEMMA WaitedKept ==
  ASSUME RabbitInv, [Next]_vars
  PROVE  Waited'
<1> USE DEF RabbitInv, Waited, StatisticsFinal
<1>0. /\ \A q \in Queue : ConsumerOf(q) \in Client
      /\ producer \in [Client -> {"unborn", "start", "loop", "count", "exited"}]
      /\ consumer \in [Client -> {"unborn", "start", "wait", "exited"}]
      /\ reader \in [Queue -> {"unborn", "start", "read", "drain", "exited"}]
  BY ConsumerIsClient DEF TypeOK
<1>1. CASE UNCHANGED <<runner, producers, consumers, receivedMessagesCount, finish, main, printed>>
  BY <1>1 DEF producers, consumers
<1>2. CASE Connect \/ Killed \/ Create \/ Cleanup \/ Exit \/ SelectSignal
  <2>1. /\ UNCHANGED <<runner, producers, consumers, receivedMessagesCount, printed>>
        /\ main' \in {"cleanup", "exited"} /\ finish' = "done" =>
             main \in {"cleanup", "exited"} /\ finish = "done"
        /\ finish' = finish \/ finish' = "signal"
    BY <1>2 DEF Connect, Killed, Create, Cleanup, Operate, Perform, Declare, Purge, Unbind,
                DeleteExchange, DeleteQueue, Exit, SelectSignal, control, messages, Script
  <2> QED
    BY <2>1 DEF producers, consumers
<1>3. CASE ParseDuration
  <2>1. /\ UNCHANGED <<producers, consumers, finish>> /\ finish = "none"
        /\ runner = "unborn" /\ runner' \in {"unborn", "start"}
    BY <1>3 DEF ParseDuration, Script
  <2> QED
    BY <2>1 DEF producers, consumers
<1>4. CASE SelectDone
  <2>1. UNCHANGED <<runner, producers, consumers>> /\ runner = "done" /\ main' = "print"
    BY <1>4 DEF SelectDone, control
  <2> QED
    BY <2>1 DEF producers, consumers
<1>5. CASE PrintStatistics
  <2>1. /\ UNCHANGED <<runner, producers, consumers, finish, receivedMessagesCount>>
        /\ printed' = [sent |-> sentMessagesCount, received |-> receivedMessagesCount]
    BY <1>5 DEF PrintStatistics, control, messages
  <2> QED
    BY <2>1 DEF producers, consumers
<1>6. CASE StartConsumersAndProducers
  <2>1. /\ UNCHANGED <<reader, finish>> /\ runner = "start" /\ runner' = "wait"
        /\ consumer' = [i \in Client |-> "start"]
    BY <1>6 DEF StartConsumersAndProducers, command
  <2>2. \A q \in Queue : reader[q] = "unborn"
    BY <1>0, <2>1
  <2>3. finish # "done"
    BY <2>1
  <2> QED
    BY <1>0, <2>1, <2>2, <2>3
<1>7. CASE RunnerDone
  BY <1>7 DEF RunnerDone, command, producers, consumers, messages
<1>8. CASE DurationExpires
  BY <1>8, <1>1 DEF DurationExpires, command, messages
<1>9. CASE \E i \in Client : ProducerStep(i)
  <2>1. PICK i \in Client : ProducerStep(i)
    BY <1>9
  <2>2. /\ UNCHANGED <<runner, consumers, finish, printed, main, receivedMessagesCount>>
        /\ producer[i] \in {"start", "loop", "count"}
        /\ \A j \in Client \ {i} : producer'[j] = producer[j]
    BY <1>0, <2>1 DEF ProducerStep, StartProducer, Publish, CountSent, StopProducing, control,
                     command, messages
  <2>3. runner = "wait" /\ finish # "done"
    BY <2>2 DEF TypeOK
  <2> QED
    BY <2>2, <2>3 DEF consumers
<1>10. CASE \E i \in Client : ConsumerStep(i)
  <2>1. PICK i \in Client : ConsumerStep(i)
    BY <1>10
  <2>2. UNCHANGED <<runner, finish>> /\ consumer[i] \in {"start", "wait"}
    BY <2>1 DEF ConsumerStep, StartConsumer, ConsumerReturns, control, command
  <2>3. runner = "wait" /\ finish # "done"
    BY <2>2 DEF TypeOK
  <2>4. CASE StartConsumer(i)
    <3>1. /\ consumer' \in {[consumer EXCEPT ![i] = "wait"], [consumer EXCEPT ![i] = "exited"]}
          /\ consumer[i] = "start"
          /\ \A q \in Queue : ConsumerOf(q) # i => reader'[q] = reader[q]
          /\ \A q \in Queue : ConsumerOf(q) = i /\ consumer'[i] = "exited" => reader'[q] = reader[q]
      BY <1>0, <2>4 DEF StartConsumer, AssignedQueues
    <3>2. ASSUME NEW q \in Queue
          PROVE  /\ consumer'[ConsumerOf(q)] \in {"unborn", "start"} => reader'[q] = "unborn"
                 /\ consumer'[ConsumerOf(q)] = "exited" => reader'[q] \in {"unborn", "exited"}
      <4>1. CASE ConsumerOf(q) = i
        BY <1>0, <3>1, <4>1
      <4>2. CASE ConsumerOf(q) # i
        BY <1>0, <3>1, <4>2
      <4> QED
        BY <4>1, <4>2
    <3> QED
      BY <2>2, <2>3, <3>2
  <2>5. CASE ConsumerReturns(i)
    <3>1. /\ consumer' = [consumer EXCEPT ![i] = "exited"] /\ reader' = reader
          /\ \A q \in Queue : ConsumerOf(q) = i => reader[q] = "exited"
      BY <2>5 DEF ConsumerReturns, AssignedQueues
    <3> QED
      BY <1>0, <2>2, <2>3, <3>1
  <2> QED
    BY <2>1, <2>4, <2>5 DEF ConsumerStep
<1>11. CASE \E q \in Queue : ReaderStep(q)
  <2>1. PICK q \in Queue : ReaderStep(q)
    BY <1>11
  <2>2. /\ UNCHANGED <<runner, finish, producer, consumer>>
        /\ reader[q] \in {"start", "read", "drain"}
    BY <2>1 DEF ReaderStep, StartReading, Receive, DeliveriesEnd, StopReading, DrainIdle,
                control, command, producers, consumers, Purpose
  <2>3. \A p \in Queue \ {q} : reader'[p] = reader[p]
    <3>1. CASE StartReading(q) \/ StopReading(q)
      BY <3>1, TypesOfConsume DEF StartReading, StopReading, Purpose
    <3>2. CASE Receive(q) \/ DeliveriesEnd(q) \/ DrainIdle(q)
      BY <1>0, <3>2 DEF Receive, DeliveriesEnd, DrainIdle, consumers
    <3> QED
      BY <2>1, <3>1, <3>2 DEF ReaderStep
  <2>4. consumer[ConsumerOf(q)] = "wait"
    BY <1>0, <2>2
  <2>5. runner = "wait" /\ finish # "done"
    BY <1>0, <2>4 DEF TypeOK
  <2> QED
    BY <1>0, <2>2, <2>3, <2>4, <2>5
<1>12. CASE \E q \in Queue : Deliver(q)
  BY <1>1, <1>12 DEF Deliver, control, command
<1>13. CASE UNCHANGED vars
  BY <1>1, <1>13 DEF vars, control, command, messages
<1> QED
  BY <1>2, <1>3, <1>4, <1>5, <1>6, <1>7, <1>8, <1>9, <1>10, <1>11, <1>12, <1>13
     DEF Next, MainStep, RunnerStep, Ended

-----------------------------------------------------------------------------
(* Messages and their copies *)

LEMMA UncountedIsNat ==
  /\ IsFiniteSet(Uncounted)
  /\ Cardinality(Uncounted) \in Nat
<1>1. IsFiniteSet(Client)
  <2>1. ParallelClients - 1 \in Int
    BY CountsAssumption
  <2> QED
    BY <2>1, FS_Interval DEF Client
<1>2. Uncounted \subseteq Client
  BY DEF Uncounted
<1> QED
  BY <1>1, <1>2, FS_Subset, FS_CardinalityType

(* A producer's step changes how many have published and not counted yet. *)
LEMMA UncountedMoves ==
  ASSUME NEW i \in Client, \A j \in Client \ {i} : producer'[j] = producer[j]
  PROVE  /\ producer[i] # "count" /\ producer'[i] # "count" =>
              Cardinality(Uncounted') = Cardinality(Uncounted)
         /\ producer[i] # "count" /\ producer'[i] = "count" =>
              Cardinality(Uncounted') = Cardinality(Uncounted) + 1
         /\ producer[i] = "count" /\ producer'[i] # "count" =>
              Cardinality(Uncounted') = Cardinality(Uncounted) - 1
<1>1. /\ producer[i] # "count" /\ producer'[i] # "count" => Uncounted' = Uncounted
      /\ producer[i] # "count" /\ producer'[i] = "count" =>
           i \notin Uncounted /\ Uncounted' = Uncounted \union {i}
      /\ producer[i] = "count" /\ producer'[i] # "count" =>
           i \in Uncounted /\ Uncounted' = Uncounted \ {i}
  BY DEF Uncounted
<1> QED
  BY <1>1, UncountedIsNat, FS_AddElement, FS_RemoveElement

LEMMA CopiedFewer ==
  ASSUME RabbitInv, TypeOK', UNCHANGED <<sentMessagesCount, receivedMessagesCount>>,
         Cardinality(Uncounted') = Cardinality(Uncounted),
         \A q \in Queue : ready'[q] <= ready[q],
         \A q \in Queue, c \in Purpose : delivered'[q][c] <= delivered[q][c]
  PROVE  Copied'
<1>1. ready \in Ready /\ ready' \in Ready /\ delivered \in Delivered /\ delivered' \in Delivered
  BY DEF RabbitInv, TypeOK, Ready, Delivered
<1>2. \A q \in Queue, s \in Slot :
        InSlot(ready', delivered', q, s) <= InSlot(ready, delivered, q, s)
  BY DEF InSlot, Slot, Purpose
<1>3. IsFiniteSet(Copies(ready, delivered))
  BY DEF RabbitInv, Copied
<1>4. /\ IsFiniteSet(Copies(ready', delivered'))
      /\ Cardinality(Copies(ready', delivered')) <= Cardinality(Copies(ready, delivered))
  BY <1>1, <1>2, <1>3, FewerCopies
<1>5. /\ Cardinality(Copies(ready', delivered')) \in Nat
      /\ Cardinality(Copies(ready, delivered)) \in Nat
  BY <1>3, <1>4, FS_CardinalityType
<1> DEFINE b == (sentMessagesCount + Cardinality(Uncounted)) * QueueCount
<1>6. b' = b
  OBVIOUS
<1>7. /\ receivedMessagesCount + Cardinality(Copies(ready, delivered)) <= b
      /\ receivedMessagesCount \in Nat /\ receivedMessagesCount' = receivedMessagesCount
      /\ b \in Nat
  BY UncountedIsNat, CountsAssumption DEF RabbitInv, TypeOK, Copied
<1> HIDE DEF b
<1>8. receivedMessagesCount' + Cardinality(Copies(ready', delivered')) <= b'
  BY <1>4, <1>5, <1>6, <1>7
<1> QED
  BY <1>4, <1>8 DEF Copied, b

LEMMA CopiedSame ==
  ASSUME RabbitInv, TypeOK', Cardinality(Uncounted') = Cardinality(Uncounted),
         UNCHANGED <<ready, delivered, sentMessagesCount, receivedMessagesCount>>
  PROVE  Copied'
<1>1. /\ \A q \in Queue : ready[q] <= ready[q]
      /\ \A q \in Queue, c \in Purpose : delivered[q][c] <= delivered[q][c]
  BY DEF RabbitInv, TypeOK
<1> QED
  BY <1>1, CopiedFewer

LEMMA Distribute ==
  ASSUME NEW n \in Nat, NEW q \in Nat
  PROVE  (n + 1) * q = n * q + q /\ n * q \in Nat
OBVIOUS

LEMMA PublishCopied ==
  ASSUME RabbitInv, TypeOK', NEW i \in Client, Publish(i)
  PROVE  Copied'
<1>1. ready \in Ready /\ ready' \in Ready /\ delivered \in Delivered /\ delivered' = delivered
  BY DEF RabbitInv, TypeOK, Ready, Delivered, Publish
<1>2. \A q \in Queue : ready'[q] = ready[q] \/ ready'[q] = ready[q] + 1
  <2>1. CASE ready' = ready
    BY <2>1
  <2>2. CASE ready' # ready
    <3>1. PICK e \in AssignedExchanges(i), k \in RoutingKey :
            ready' = [q \in Queue |-> IF q \in Routed(e, k) THEN ready[q] + 1 ELSE ready[q]]
      BY <2>2 DEF Publish
    <3> QED
      BY <3>1
  <2> QED
    BY <2>1, <2>2
<1>3. IsFiniteSet(Copies(ready, delivered))
  BY DEF RabbitInv, Copied
<1>4. /\ IsFiniteSet(Copies(ready', delivered'))
      /\ Cardinality(Copies(ready', delivered')) <= Cardinality(Copies(ready, delivered)) + QueueCount
  BY <1>1, <1>2, <1>3, MessageCopied
<1>5. /\ Cardinality(Copies(ready', delivered')) \in Nat
      /\ Cardinality(Copies(ready, delivered)) \in Nat
  BY <1>3, <1>4, FS_CardinalityType
<1>6. /\ producer[i] = "loop" /\ producer' = [producer EXCEPT ![i] = "count"]
      /\ producer \in [Client -> {"unborn", "start", "loop", "count", "exited"}]
      /\ UNCHANGED <<sentMessagesCount, receivedMessagesCount>>
  BY DEF Publish, RabbitInv, TypeOK
<1>7. Cardinality(Uncounted') = Cardinality(Uncounted) + 1
  BY <1>6, UncountedMoves
<1> DEFINE n == sentMessagesCount + Cardinality(Uncounted)
<1>8. n \in Nat /\ n' = n + 1 /\ QueueCount \in Nat /\ receivedMessagesCount \in Nat
  <2>1. /\ sentMessagesCount \in Nat /\ receivedMessagesCount \in Nat /\ QueueCount \in Nat
        /\ Cardinality(Uncounted) \in Nat
    BY UncountedIsNat, CountsAssumption DEF RabbitInv, TypeOK
  <2>2. n' = sentMessagesCount + (Cardinality(Uncounted) + 1)
    BY <1>6, <1>7
  <2> QED
    BY <2>1, <2>2
<1>9. receivedMessagesCount + Cardinality(Copies(ready, delivered)) <= n * QueueCount
  BY DEF RabbitInv, Copied
<1> HIDE DEF n
<1>10. n' * QueueCount = n * QueueCount + QueueCount /\ n * QueueCount \in Nat
  BY <1>8, Distribute
<1>11. receivedMessagesCount' + Cardinality(Copies(ready', delivered')) <= n' * QueueCount
  BY <1>4, <1>5, <1>6, <1>8, <1>9, <1>10
<1> QED
  BY <1>4, <1>11 DEF Copied, n

LEMMA CountSentCopied ==
  ASSUME RabbitInv, TypeOK', NEW i \in Client, CountSent(i)
  PROVE  Copied'
<1>1. /\ producer[i] = "count" /\ producer' = [producer EXCEPT ![i] = "loop"]
      /\ producer \in [Client -> {"unborn", "start", "loop", "count", "exited"}]
      /\ sentMessagesCount' = sentMessagesCount + 1
      /\ UNCHANGED <<ready, delivered, receivedMessagesCount>>
  BY DEF CountSent, RabbitInv, TypeOK, messages
<1>2. Cardinality(Uncounted') = Cardinality(Uncounted) - 1
  BY <1>1, UncountedMoves
<1>3. sentMessagesCount' + Cardinality(Uncounted') = sentMessagesCount + Cardinality(Uncounted)
  BY <1>1, <1>2, UncountedIsNat DEF RabbitInv, TypeOK
<1> QED
  BY <1>1, <1>3 DEF RabbitInv, Copied

(* A copy goes from the queue to a consumer. *)
LEMMA DeliverCopied ==
  ASSUME RabbitInv, TypeOK', NEW q \in Queue, Deliver(q)
  PROVE  Copied'
<1>1. /\ ready \in Ready /\ ready' \in Ready /\ delivered \in Delivered
      /\ delivered' \in Delivered
  BY DEF RabbitInv, TypeOK, Ready, Delivered
<1>2. PICK c \in registered[q] : delivered' = [delivered EXCEPT ![q][c] = @ + 1]
  BY DEF Deliver
<1>3. c \in Purpose /\ c \in Slot /\ c # "ready" /\ "ready" \in Slot
  BY DEF RabbitInv, TypeOK, Purpose, Slot
<1>4. ready' = [ready EXCEPT ![q] = @ - 1]
  BY DEF Deliver
<1>5. OneMore(ready', delivered, ready, delivered, q, "ready")
  <2>1. ready'[q] = ready[q] - 1 /\ \A p \in Queue \ {q} : ready'[p] = ready[p]
    BY <1>1, <1>4 DEF Ready
  <2>2. ready[q] \in Nat
    BY <1>1 DEF Ready
  <2>3. ready[q] = ready'[q] + 1
    BY <2>1, <2>2
  <2> QED
    BY <2>1, <2>3 DEF OneMore, InSlot
<1>6. OneMore(ready', delivered, ready', delivered', q, c)
  <2>1. delivered'[q][c] = delivered[q][c] + 1
    BY <1>1, <1>2, <1>3 DEF Delivered
  <2>2. \A p \in Queue, s \in Purpose : p # q \/ s # c => delivered'[p][s] = delivered[p][s]
    BY <1>1, <1>2, <1>3 DEF Delivered
  <2> QED
    BY <1>3, <2>1, <2>2 DEF OneMore, InSlot, Slot, Purpose
<1>7. IsFiniteSet(Copies(ready, delivered))
  BY DEF RabbitInv, Copied
<1>8. /\ IsFiniteSet(Copies(ready', delivered))
      /\ Cardinality(Copies(ready', delivered)) = Cardinality(Copies(ready, delivered)) - 1
  BY <1>1, <1>3, <1>5, <1>7, OneCopyLess
<1>9. /\ IsFiniteSet(Copies(ready', delivered'))
      /\ Cardinality(Copies(ready', delivered')) = Cardinality(Copies(ready', delivered)) + 1
  BY <1>1, <1>3, <1>6, <1>8, OneCopyMore
<1>10. Cardinality(Copies(ready, delivered)) \in Nat
  BY <1>7, FS_CardinalityType
<1>11. Cardinality(Copies(ready', delivered')) = Cardinality(Copies(ready, delivered))
  BY <1>8, <1>9, <1>10
<1>12. UNCHANGED <<producer, sentMessagesCount, receivedMessagesCount>>
  BY DEF Deliver, producers
<1>13. Uncounted' = Uncounted
  BY <1>12 DEF Uncounted
<1> QED
  BY <1>9, <1>11, <1>12, <1>13 DEF RabbitInv, Copied

LEMMA ReceiveCopied ==
  ASSUME RabbitInv, TypeOK', NEW q \in Queue, Receive(q)
  PROVE  Copied'
<1>1. /\ ready \in Ready /\ delivered \in Delivered /\ delivered' \in Delivered
      /\ ready' = ready
  BY DEF RabbitInv, TypeOK, Ready, Delivered, Receive
<1> DEFINE c == reader[q]
<1>2. /\ c \in Purpose /\ c \in Slot /\ c # "ready"
      /\ delivered' = [delivered EXCEPT ![q][c] = @ - 1]
      /\ receivedMessagesCount' = receivedMessagesCount + 1
  BY DEF Receive, Purpose, Slot
<1> HIDE DEF c
<1>3. OneMore(ready, delivered', ready, delivered, q, c)
  <2>0. delivered[q][c] \in Nat
    BY <1>1, <1>2 DEF Delivered
  <2>1. delivered'[q][c] = delivered[q][c] - 1
    BY <1>1, <1>2 DEF Delivered
  <2>2. \A p \in Queue, s \in Purpose : p # q \/ s # c => delivered'[p][s] = delivered[p][s]
    BY <1>1, <1>2 DEF Delivered
  <2>3. delivered[q][c] = delivered'[q][c] + 1
    BY <2>0, <2>1
  <2> QED
    BY <1>2, <2>2, <2>3 DEF OneMore, InSlot, Slot, Purpose
<1>4. IsFiniteSet(Copies(ready, delivered))
  BY DEF RabbitInv, Copied
<1>5. /\ IsFiniteSet(Copies(ready', delivered'))
      /\ Cardinality(Copies(ready', delivered')) = Cardinality(Copies(ready, delivered)) - 1
  BY <1>1, <1>2, <1>3, <1>4, OneCopyLess
<1>6. Cardinality(Copies(ready, delivered)) \in Nat
  BY <1>4, FS_CardinalityType
<1>7. receivedMessagesCount \in Nat
  BY DEF RabbitInv, TypeOK
<1>8. receivedMessagesCount' + Cardinality(Copies(ready', delivered')) =
        receivedMessagesCount + Cardinality(Copies(ready, delivered))
  BY <1>2, <1>5, <1>6, <1>7
<1>9. UNCHANGED <<producer, sentMessagesCount>>
  BY DEF Receive, producers
<1>10. Uncounted' = Uncounted
  BY <1>9 DEF Uncounted
<1> QED
  BY <1>5, <1>8, <1>9, <1>10 DEF RabbitInv, Copied

LEMMA CopiedKept ==
  ASSUME RabbitInv, [Next]_vars
  PROVE  Copied'
<1>0. TypeOK' /\ (producer' = producer => Cardinality(Uncounted') = Cardinality(Uncounted))
  BY TypesKept DEF Uncounted
<1>1. CASE UNCHANGED <<producers, messages>>
  BY <1>0, <1>1, CopiedSame DEF producers, messages
<1>2. CASE \/ Connect \/ Killed \/ ParseDuration \/ SelectDone \/ SelectSignal \/ PrintStatistics
           \/ Exit \/ RunnerDone \/ DurationExpires \/ Ended \/ UNCHANGED vars
  BY <1>1, <1>2 DEF Connect, Killed, ParseDuration, SelectDone, SelectSignal, PrintStatistics,
                    Exit, RunnerDone, DurationExpires, Ended, vars
<1>3. CASE Operate
  <2>1. /\ UNCHANGED <<producer, sentMessagesCount, receivedMessagesCount, delivered>>
        /\ \A q \in Queue : ready'[q] \in {ready[q], 0}
    <3>1. UNCHANGED producers
      BY <1>3 DEF Operate
    <3>2. CASE UNCHANGED messages
      BY <3>1, <3>2 DEF producers, messages
    <3>3. CASE Perform(todo)
      <4>1. CASE Declare(todo) \/ Unbind(todo) \/ DeleteExchange(todo)
        BY <3>1, <4>1 DEF Declare, Unbind, DeleteExchange, producers, messages
      <4>2. CASE Purge(todo) \/ DeleteQueue(todo)
        BY <3>1, <4>2 DEF Purge, DeleteQueue, producers, RabbitInv, TypeOK
      <4> QED
        BY <3>3, <4>1, <4>2 DEF Perform
    <3> QED
      BY <1>3, <3>2, <3>3 DEF Operate
  <2>2. /\ \A q \in Queue : ready'[q] <= ready[q]
        /\ \A q \in Queue, c \in Purpose : delivered'[q][c] <= delivered[q][c]
    BY <2>1 DEF RabbitInv, TypeOK
  <2> QED
    BY <1>0, <2>1, <2>2, CopiedFewer
<1>4. CASE StartConsumersAndProducers
  <2>1. /\ \A i \in Client : producer[i] = "unborn" /\ producer'[i] = "start"
        /\ UNCHANGED <<ready, delivered, sentMessagesCount, receivedMessagesCount>>
    BY <1>4 DEF StartConsumersAndProducers, messages, RabbitInv, Waited
  <2>2. Uncounted = {} /\ Uncounted' = {}
    BY <2>1 DEF Uncounted
  <2> QED
    BY <1>0, <2>1, <2>2, CopiedSame
<1>5. ASSUME NEW i \in Client, StartProducer(i) \/ StopProducing(i) PROVE Copied'
  <2>1. /\ producer[i] # "count" /\ producer'[i] # "count"
        /\ \A j \in Client \ {i} : producer'[j] = producer[j]
        /\ UNCHANGED <<ready, delivered, sentMessagesCount, receivedMessagesCount>>
    BY <1>5 DEF StartProducer, StopProducing, messages, RabbitInv, TypeOK
  <2>2. Cardinality(Uncounted') = Cardinality(Uncounted)
    BY <2>1, UncountedMoves
  <2> QED
    BY <1>0, <2>1, <2>2, CopiedSame
<1>6. ASSUME NEW i \in Client, ConsumerStep(i) PROVE Copied'
  <2>1. CASE StartConsumer(i)
    BY <1>1, <2>1 DEF StartConsumer
  <2>2. CASE ConsumerReturns(i)
    <3>1. /\ UNCHANGED <<producer, ready, sentMessagesCount, receivedMessagesCount>>
          /\ \A q \in Queue, c \in Purpose : delivered'[q][c] \in {delivered[q][c], 0}
      BY <2>2 DEF ConsumerReturns, CloseChannel, producers
    <3>2. /\ \A q \in Queue : ready'[q] <= ready[q]
          /\ \A q \in Queue, c \in Purpose : delivered'[q][c] <= delivered[q][c]
      BY <3>1 DEF RabbitInv, TypeOK
    <3> QED
      BY <1>0, <3>1, <3>2, CopiedFewer
  <2> QED
    BY <1>6, <2>1, <2>2 DEF ConsumerStep
<1>7. ASSUME NEW q \in Queue, StartReading(q) \/ StopReading(q) PROVE Copied'
  <2>1. UNCHANGED <<producer, ready, sentMessagesCount, receivedMessagesCount>>
    BY <1>7 DEF StartReading, StopReading, producers
  <2>2. PICK purpose \in Purpose : Consume(q, purpose)
    BY <1>7 DEF StartReading, StopReading, Purpose
  <2>3. \A p \in Queue, c \in Purpose : delivered'[p][c] \in {delivered[p][c], 0}
    BY <2>2, TypesOfConsume DEF RabbitInv
  <2>5. \A p \in Queue : ready[p] \in Nat /\ \A c \in Purpose : delivered[p][c] \in Nat
    BY DEF RabbitInv, TypeOK
  <2>4. /\ \A p \in Queue : ready'[p] <= ready[p]
        /\ \A p \in Queue, c \in Purpose : delivered'[p][c] <= delivered[p][c]
    BY <2>1, <2>3, <2>5
  <2> QED
    BY <1>0, <2>1, <2>4, CopiedFewer
<1>8. ASSUME NEW q \in Queue, DeliveriesEnd(q) \/ DrainIdle(q) PROVE Copied'
  BY <1>1, <1>8 DEF DeliveriesEnd, DrainIdle
<1> QED
  BY <1>0, <1>2, <1>3, <1>4, <1>5, <1>6, <1>7, <1>8, PublishCopied, CountSentCopied,
     DeliverCopied, ReceiveCopied
     DEF Next, MainStep, RunnerStep, ProducerStep, ReaderStep, Create, Cleanup

-----------------------------------------------------------------------------
LEMMA RabbitInvInit ==
  ASSUME Init
  PROVE  RabbitInv
<1>1. TypeOK
  BY FirstIsOperation DEF Init, TypeOK, Purpose
<1>2. Script /\ Created /\ Removed /\ Waited
  BY ConsumerIsClient DEF Init, Script, Created, Removed, Waited, NothingLeftBehind,
                          StatisticsFinal
<1>3. Copies(ready, delivered) = {}
  <2>1. ASSUME NEW q \in Queue, NEW s \in Slot PROVE InSlot(ready, delivered, q, s) = 0
    BY DEF Init, InSlot, Slot, Purpose
  <2>2. ASSUME NEW c \in Copies(ready, delivered) PROVE FALSE
    <3>1. c[1] \in Queue /\ c[2] \in Slot /\ c[3] \in Nat /\ 1 <= c[3]
          /\ c[3] <= InSlot(ready, delivered, c[1], c[2])
      BY DEF Copies
    <3>2. c[3] <= 0
      BY <2>1, <3>1
    <3> QED
      BY <3>1, <3>2
  <2> QED
    BY <2>2
<1>4. Uncounted = {}
  BY DEF Init, Uncounted
<1>5. Copied
  <2>1. /\ sentMessagesCount = 0 /\ receivedMessagesCount = 0 /\ QueueCount \in Nat
        /\ Cardinality(Uncounted) = 0 /\ Cardinality(Copies(ready, delivered)) = 0
        /\ IsFiniteSet(Copies(ready, delivered))
    BY <1>3, <1>4, FS_EmptySet, CountsAssumption DEF Init
  <2> QED
    BY <2>1 DEF Copied
<1> QED
  BY <1>1, <1>2, <1>5 DEF RabbitInv

LEMMA AlwaysRabbit == Spec => []RabbitInv
<1>1. RabbitInv /\ [Next]_vars => RabbitInv'
  BY TypesKept, ScriptKept, WaitedKept, CopiedKept DEF RabbitInv
<1> QED
  BY <1>1, RabbitInvInit, PTL DEF Spec

(* The variables have their types; what is bound exists. *)
THEOREM RabbitTypes == Spec => []TypeOK
BY AlwaysRabbit, PTL DEF RabbitInv

(* Every message received is a copy of a message published, and each is     *)
(* received once: the duplication factor that is printed does not exceed    *)
(* the number of queues by more than what is not counted yet.               *)
THEOREM Duplication == Spec => []DuplicationBounded
<1>1. RabbitInv => DuplicationBounded
  <2> SUFFICES ASSUME RabbitInv PROVE DuplicationBounded
    OBVIOUS
  <2> DEFINE b == (sentMessagesCount + Cardinality(Uncounted)) * QueueCount
  <2>1. /\ receivedMessagesCount + Cardinality(Copies(ready, delivered)) <= b
        /\ IsFiniteSet(Copies(ready, delivered))
    BY DEF RabbitInv, Copied
  <2>2. Cardinality(Copies(ready, delivered)) \in Nat
    BY <2>1, FS_CardinalityType
  <2>3. b \in Nat /\ receivedMessagesCount \in Nat
    BY UncountedIsNat, CountsAssumption DEF RabbitInv, TypeOK
  <2> HIDE DEF b
  <2>4. receivedMessagesCount <= b
    BY <2>1, <2>2, <2>3
  <2> QED
    BY <2>4 DEF DuplicationBounded, b
<1> QED
  BY <1>1, AlwaysRabbit, PTL

(* The statistics of a test that completed normally are final: whoever      *)
(* counts has been waited for.                                              *)
THEOREM StatisticsAreFinal == Spec => []StatisticsFinal
BY AlwaysRabbit, PTL DEF RabbitInv, Waited

(* Every exchange and every queue that was declared is deleted unless an    *)
(* operation failed, whatever producers and consumers do meanwhile.         *)
THEOREM NothingIsLeftBehind == Spec => []NothingLeftBehind
BY AlwaysRabbit, PTL DEF RabbitInv, Removed
=============================================================================
