------------------------------ MODULE RabbitLoad ------------------------------
(***************************************************************************)
(* `vpd rabbitmq load-test`: cmd/rabbitmq/load/load.go and the broker it   *)
(* runs against.                                                           *)
(*                                                                         *)
(* runLoadTest declares exchanges, queues and bindings on one AMQP         *)
(* channel, starts consumers and producers with a channel each, waits for  *)
(* their end or a signal, prints two counters and removes what it          *)
(* declared.  An operation that fails closes its channel, and every later  *)
(* operation on a closed channel fails.                                    *)
(*                                                                         *)
(* Of the broker: a message published to an exchange is copied to each     *)
(* queue bound to it; a copy goes to one of the queue's consumers, which   *)
(* acknowledge on delivery; closing a channel ends its consumers, deleting *)
(* a queue ends those of the queue once they have read what they were sent.*)
(***************************************************************************)
EXTENDS Integers, FiniteSets

CONSTANTS ExchangeCount, QueueCount, RoutingKeyCount, ParallelClients,
          MaxPublished  \* bound: messages published in a run

ASSUME CountsAssumption ==
  /\ ExchangeCount \in Nat \ {0} /\ QueueCount \in Nat \ {0}
  /\ RoutingKeyCount \in Nat \ {0} /\ ParallelClients \in Nat \ {0}
ASSUME BoundAssumption == MaxPublished \in Nat

Exchange == 1..ExchangeCount
Queue == 1..QueueCount
RoutingKey == 1..RoutingKeyCount
Client == 0..ParallelClients - 1  \* consumer i and producer i

VARIABLES
  badDuration,  \* --duration is not a duration, fixed for the run
  main,         \* where runLoadTest is
  todo,         \* the next operation of createResources or cleanupResources
  channel,      \* main's AMQP channel is open
  exchanges, queues, bindings, \* what exists on the broker
  ready,        \* copies in each queue that no consumer was sent
  doneChan,     \* close(doneChan) has run
  runner,       \* the goroutine that runs startConsumersAndProducers
  producer, producerChannel,   \* where producer i is; whether its channel is open
  consumer, consumerChannel,   \* the same of consumer i
  timeout,      \* consumer i's time.After has not been received yet
  reader,       \* where the goroutine that reads a queue is
  registered,   \* the reader's consumers at the broker: for reading, for draining
  delivered,    \* copies sent to each of these two that it has not received
  sentMessagesCount, receivedMessagesCount,
  finish,       \* what main's select received
  printed       \* the counters as printed

resources == <<exchanges, queues, bindings>>
command == <<badDuration, main, todo, channel, finish, printed>>
control == <<doneChan, runner>>
producers == <<producer, producerChannel, sentMessagesCount>>
consumers == <<consumer, consumerChannel, timeout, reader>>
messages == <<ready, registered, delivered, receivedMessagesCount>>
vars == <<resources, command, control, producers, consumers, messages>>

Purpose == {"read", "drain"}

-----------------------------------------------------------------------------
(* The operations on main's channel *)

Operation == [op : {"declareExchange", "declareQueue", "bind", "purge", "unbind",
                    "deleteExchange", "deleteQueue", "none"},
              exchange : Exchange, key : RoutingKey, queue : Queue]

At(op, e, k, q) == [op |-> op, exchange |-> e, key |-> k, queue |-> q]
First(op) == At(op, 1, 1, 1)

(* What the loop around an operation is over *)
OverExchanges == {"declareExchange", "bind", "unbind", "deleteExchange"}
OverKeys == {"bind"}
OverQueues == {"declareQueue", "bind", "purge", "unbind", "deleteQueue"}

(* Fault: the queues are bound before they are declared. *)
LoopAfterBindFirst(op) ==
  CASE op = "declareExchange" -> "bind"
    [] op = "bind" -> "declareQueue"
    [] op = "purge" -> "unbind"
    [] op = "unbind" -> "deleteExchange"
    [] op = "deleteExchange" -> "deleteQueue"
    [] OTHER -> "none"

(* The loops of createResources, and those of cleanupResources *)
LoopAfter(op) ==
  CASE op = "declareExchange" -> "declareQueue"
    [] op = "declareQueue" -> "bind"
    [] op = "purge" -> "unbind"
    [] op = "unbind" -> "deleteExchange"
    [] op = "deleteExchange" -> "deleteQueue"
    [] OTHER -> "none"

(* for every exchange, for every routing key, for every queue *)
After(o) ==
  IF o.op \in OverQueues /\ o.queue < QueueCount
    THEN At(o.op, o.exchange, o.key, o.queue + 1)
  ELSE IF o.op \in OverKeys /\ o.key < RoutingKeyCount
    THEN At(o.op, o.exchange, o.key + 1, 1)
  ELSE IF o.op \in OverExchanges /\ o.exchange < ExchangeCount
    THEN At(o.op, o.exchange + 1, 1, 1)
  ELSE First(LoopAfter(o.op))

CreateResources == First("declareExchange")
CleanupResources == First("purge")

Declare(o) ==
  /\ \/ /\ o.op = "declareExchange"
        /\ exchanges' = exchanges \cup {o.exchange}
        /\ UNCHANGED <<queues, bindings>>
     \/ /\ o.op = "declareQueue"
        /\ queues' = queues \cup {o.queue}
        /\ UNCHANGED <<exchanges, bindings>>
     \/ /\ o.op = "bind"
        /\ bindings' = bindings \cup {<<o.exchange, o.key, o.queue>>}
        /\ UNCHANGED <<exchanges, queues>>
  /\ UNCHANGED messages

Purge(o) ==
  /\ o.op = "purge"
  /\ ready' = [ready EXCEPT ![o.queue] = 0]
  /\ UNCHANGED <<resources, registered, delivered, receivedMessagesCount>>

(* Unbinding with the empty routing key removes no binding: none has it. *)
Unbind(o) == o.op = "unbind" /\ UNCHANGED <<resources, messages>>

DeleteExchange(o) ==
  /\ o.op = "deleteExchange"
  /\ exchanges' = exchanges \ {o.exchange}
  /\ bindings' = {b \in bindings : b[1] # o.exchange}
  /\ UNCHANGED <<queues, messages>>

(* Fault: the queue is deleted only if nobody consumes it (ifUnused). *)
DeleteUnusedQueue(o) ==
  /\ o.op = "deleteQueue"
  /\ IF registered[o.queue] = {}
       THEN /\ queues' = queues \ {o.queue}
            /\ bindings' = {b \in bindings : b[3] # o.queue}
            /\ ready' = [ready EXCEPT ![o.queue] = 0]
       ELSE UNCHANGED <<queues, bindings, ready>>
  /\ UNCHANGED <<exchanges, registered, delivered, receivedMessagesCount>>

(* The queue goes with its copies, whoever consumes it *)
DeleteQueue(o) ==
  /\ o.op = "deleteQueue"
  /\ queues' = queues \ {o.queue}
  /\ bindings' = {b \in bindings : b[3] # o.queue}
  /\ ready' = [ready EXCEPT ![o.queue] = 0]
  /\ registered' = [registered EXCEPT ![o.queue] = {}]
  /\ UNCHANGED <<exchanges, delivered, receivedMessagesCount>>

Perform(o) ==
  Declare(o) \/ Purge(o) \/ Unbind(o) \/ DeleteExchange(o) \/ DeleteQueue(o)

(* One operation: it succeeds, or fails and closes the channel; the error is *)
(* logged and the loop goes on.                                              *)
Operate ==
  /\ todo.op # "none"
  /\ todo' = After(todo)
  /\ \/ channel /\ Perform(todo) /\ UNCHANGED channel
     \/ channel' = FALSE /\ UNCHANGED <<resources, messages>>
  /\ UNCHANGED <<badDuration, main, finish, printed, control, producers, consumers>>

-----------------------------------------------------------------------------
Running == main # "exited"

Init ==
  /\ badDuration \in BOOLEAN
  /\ main = "connect"
  /\ todo = First("none")
  /\ channel = FALSE
  /\ exchanges = {} /\ queues = {} /\ bindings = {}
  /\ ready = [q \in Queue |-> 0]
  /\ doneChan = FALSE
  /\ runner = "unborn"
  /\ producer = [i \in Client |-> "unborn"]
  /\ producerChannel = [i \in Client |-> FALSE]
  /\ consumer = [i \in Client |-> "unborn"]
  /\ consumerChannel = [i \in Client |-> FALSE]
  /\ timeout = [i \in Client |-> FALSE]
  /\ reader = [q \in Queue |-> "unborn"]
  /\ registered = [q \in Queue |-> {}]
  /\ delivered = [q \in Queue |-> [c \in Purpose |-> 0]]
  /\ sentMessagesCount = 0
  /\ receivedMessagesCount = 0
  /\ finish = "none"
  /\ printed = [sent |-> 0, received |-> 0]

(* ConnectToRabbitMQ, which may fail *)
Connect ==
  /\ main = "connect"
  /\ \/ main' = "create" /\ todo' = CreateResources /\ channel' = TRUE
     \/ main' = "exited" /\ UNCHANGED <<todo, channel>>
  /\ UNCHANGED <<badDuration, finish, printed, resources, control, producers,
                 consumers, messages>>

Create == main = "create" /\ Operate

(* Until signal.Notify has run a signal kills the process. *)
Killed ==
  /\ main = "create"
  /\ main' = "exited"
  /\ UNCHANGED <<badDuration, todo, channel, finish, printed, resources, control,
                 producers, consumers, messages>>

(* signal.Notify, and the parsing of the duration: a bad one ends the command. *)
ParseDuration ==
  /\ main = "create" /\ todo.op = "none"
  /\ main' = IF badDuration THEN "exited" ELSE "select"
  /\ runner' = IF badDuration THEN "unborn" ELSE "start"
  /\ UNCHANGED <<badDuration, todo, channel, finish, printed, resources, doneChan,
                 producers, consumers, messages>>

(* startConsumersAndProducers: the goroutines exist; each one starts in its own time *)
StartConsumersAndProducers ==
  /\ Running /\ runner = "start"
  /\ runner' = "wait"
  /\ producer' = [i \in Client |-> "start"]
  /\ consumer' = [i \in Client |-> "start"]
  /\ UNCHANGED <<command, resources, doneChan, producerChannel, sentMessagesCount,
                 consumerChannel, timeout, reader, messages>>

(* The goroutine that sleeps for the duration *)
DurationExpires ==
  /\ Running /\ runner = "wait" /\ ~doneChan
  /\ doneChan' = TRUE
  /\ UNCHANGED <<command, resources, runner, producers, consumers, messages>>

(* wg.Wait returns and done is closed *)
RunnerDone ==
  /\ Running /\ runner = "wait"
  /\ \A i \in Client : producer[i] = "exited" /\ consumer[i] = "exited"
  /\ runner' = "done"
  /\ UNCHANGED <<command, resources, doneChan, producers, consumers, messages>>

(* The select of runLoadTest receives from done, or from sigChan. *)
SelectDone ==
  /\ main = "select" /\ runner = "done"
  /\ finish' = "done"
  /\ main' = "print"
  /\ UNCHANGED <<badDuration, todo, channel, printed, resources, control, producers,
                 consumers, messages>>

SelectSignal ==
  /\ main = "select"
  /\ finish' = "signal"
  /\ main' = "print"
  /\ UNCHANGED <<badDuration, todo, channel, printed, resources, control, producers,
                 consumers, messages>>

PrintStatistics ==
  /\ main = "print"
  /\ printed' = [sent |-> sentMessagesCount, received |-> receivedMessagesCount]
  /\ main' = "cleanup"
  /\ todo' = CleanupResources
  /\ UNCHANGED <<badDuration, channel, finish, resources, control, producers,
                 consumers, messages>>

Cleanup == main = "cleanup" /\ Operate

Exit ==
  /\ main = "cleanup" /\ todo.op = "none"
  /\ main' = "exited"
  /\ UNCHANGED <<badDuration, todo, channel, finish, printed, resources, control,
                 producers, consumers, messages>>

-----------------------------------------------------------------------------
(* The producers *)

AssignedExchanges(i) == {e \in Exchange : (e - 1) % ParallelClients = i}

(* conn.Channel() may fail; without an exchange the producer returns at once *)
StartProducer(i) ==
  /\ Running /\ producer[i] = "start"
  /\ \/ /\ AssignedExchanges(i) # {}
        /\ producer' = [producer EXCEPT ![i] = "loop"]
        /\ producerChannel' = [producerChannel EXCEPT ![i] = TRUE]
     \/ producer' = [producer EXCEPT ![i] = "exited"] /\ UNCHANGED producerChannel
  /\ UNCHANGED <<command, resources, control, sentMessagesCount, consumers, messages>>

Uncounted == {i \in Client : producer[i] = "count"}

Routed(e, k) == {q \in queues : <<e, k, q>> \in bindings}

(* The select falls to default and a message is published.  The call succeeds *)
(* as long as the channel is open; the broker copies the message to the bound *)
(* queues, or closes the channel because the exchange is gone.  A publish that *)
(* fails changes nothing and the loop goes on.                                *)
Publish(i) ==
  /\ Running /\ producer[i] = "loop" /\ ~doneChan /\ producerChannel[i]
  /\ sentMessagesCount + Cardinality(Uncounted) < MaxPublished
  /\ \E e \in AssignedExchanges(i), k \in RoutingKey :
       IF e \in exchanges
         THEN /\ ready' = [q \in Queue |-> IF q \in Routed(e, k) THEN ready[q] + 1 ELSE ready[q]]
              /\ UNCHANGED producerChannel
         ELSE producerChannel' = [producerChannel EXCEPT ![i] = FALSE] /\ UNCHANGED ready
  /\ producer' = [producer EXCEPT ![i] = "count"]
  /\ UNCHANGED <<command, resources, control, sentMessagesCount, consumers, registered,
                 delivered, receivedMessagesCount>>

CountSent(i) ==
  /\ Running /\ producer[i] = "count"
  /\ sentMessagesCount' = sentMessagesCount + 1
  /\ producer' = [producer EXCEPT ![i] = "loop"]
  /\ UNCHANGED <<command, resources, control, producerChannel, consumers, messages>>

(* doneChan is closed, or the producer's own timeout is over *)
StopProducing(i) ==
  /\ Running /\ producer[i] = "loop"
  /\ producer' = [producer EXCEPT ![i] = "exited"]
  /\ producerChannel' = [producerChannel EXCEPT ![i] = FALSE]
  /\ UNCHANGED <<command, resources, control, sentMessagesCount, consumers, messages>>

-----------------------------------------------------------------------------
(* The consumers, each with a goroutine per queue assigned to it *)

ConsumerOf(q) == (q - 1) % ParallelClients
AssignedQueues(i) == {q \in Queue : ConsumerOf(q) = i}

(* conn.Channel() may fail *)
StartConsumer(i) ==
  /\ Running /\ consumer[i] = "start"
  /\ \/ /\ consumer' = [consumer EXCEPT ![i] = "wait"]
        /\ consumerChannel' = [consumerChannel EXCEPT ![i] = TRUE]
        /\ timeout' = [timeout EXCEPT ![i] = TRUE]
        /\ reader' = [q \in Queue |-> IF q \in AssignedQueues(i) THEN "start" ELSE reader[q]]
     \/ /\ consumer' = [consumer EXCEPT ![i] = "exited"]
        /\ UNCHANGED <<consumerChannel, timeout, reader>>
  /\ UNCHANGED <<command, resources, control, producers, messages>>

(* Closing a channel ends its consumers and drops what they have not received *)
CloseChannel(i) ==
  /\ consumerChannel' = [consumerChannel EXCEPT ![i] = FALSE]
  /\ registered' = [q \in Queue |-> IF q \in AssignedQueues(i) THEN {} ELSE registered[q]]
  /\ delivered' = [q \in Queue |-> IF q \in AssignedQueues(i) THEN [c \in Purpose |-> 0]
                                                             ELSE delivered[q]]

(* ch.Qos and ch.Consume: on an existing queue it registers a consumer, on a *)
(* missing one it closes the channel, on a closed channel it fails.           *)
Consume(q, purpose) ==
  IF consumerChannel[ConsumerOf(q)]
    THEN IF q \in queues
           THEN /\ registered' = [registered EXCEPT ![q] = @ \cup {purpose}]
                /\ reader' = [reader EXCEPT ![q] = purpose]
                /\ UNCHANGED <<consumerChannel, delivered>>
           ELSE CloseChannel(ConsumerOf(q)) /\ reader' = [reader EXCEPT ![q] = "exited"]
    ELSE /\ reader' = [reader EXCEPT ![q] = "exited"]
         /\ UNCHANGED <<consumerChannel, registered, delivered>>

StartReading(q) ==
  /\ Running /\ reader[q] = "start"
  /\ Consume(q, "read")
  /\ UNCHANGED <<command, resources, control, producers, consumer, timeout, ready,
                 receivedMessagesCount>>

(* The broker sends a copy to one of the queue's consumers *)
Deliver(q) ==
  /\ Running /\ ready[q] > 0
  /\ \E c \in registered[q] : delivered' = [delivered EXCEPT ![q][c] = @ + 1]
  /\ ready' = [ready EXCEPT ![q] = @ - 1]
  /\ UNCHANGED <<command, resources, control, producers, consumers, registered,
                 receivedMessagesCount>>

(* Fault: a message received while draining is counted twice. *)
ReceiveDrainedTwice(q) ==
  /\ Running /\ reader[q] \in Purpose /\ delivered[q][reader[q]] > 0
  /\ delivered' = [delivered EXCEPT ![q][reader[q]] = @ - 1]
  /\ receivedMessagesCount' = receivedMessagesCount + IF reader[q] = "drain" THEN 2 ELSE 1
  /\ UNCHANGED <<command, resources, control, producers, consumers, ready, registered>>

Receive(q) ==
  /\ Running /\ reader[q] \in Purpose /\ delivered[q][reader[q]] > 0
  /\ delivered' = [delivered EXCEPT ![q][reader[q]] = @ - 1]
  /\ receivedMessagesCount' = receivedMessagesCount + 1
  /\ UNCHANGED <<command, resources, control, producers, consumers, ready, registered>>

(* The delivery channel is closed: the reader returns *)
DeliveriesEnd(q) ==
  /\ Running /\ reader[q] \in Purpose
  /\ reader[q] \notin registered[q] /\ delivered[q][reader[q]] = 0
  /\ reader' = [reader EXCEPT ![q] = "exited"]
  /\ UNCHANGED <<command, resources, control, producers, consumer, consumerChannel,
                 timeout, messages>>

(* Fault: the readers of a consumer rely on the timeout they share. *)
StopReadingOnTimeout(q) ==
  /\ Running /\ reader[q] = "read"
  /\ timeout[ConsumerOf(q)] /\ timeout' = [timeout EXCEPT ![ConsumerOf(q)] = FALSE]
  /\ Consume(q, "drain")
  /\ UNCHANGED <<command, resources, control, producers, consumer, ready,
                 receivedMessagesCount>>

(* doneChan is closed, or this reader receives the only value of the timeout  *)
(* that the consumer's readers share.  drainQueues registers a second         *)
(* consumer; the first one stays registered and nobody receives from it.      *)
StopReading(q) ==
  /\ Running /\ reader[q] = "read"
  /\ \/ doneChan /\ UNCHANGED timeout
     \/ timeout[ConsumerOf(q)] /\ timeout' = [timeout EXCEPT ![ConsumerOf(q)] = FALSE]
  /\ Consume(q, "drain")
  /\ UNCHANGED <<command, resources, control, producers, consumer, ready,
                 receivedMessagesCount>>

(* No message for 500 ms, as the reader sees it *)
DrainIdle(q) ==
  /\ Running /\ reader[q] = "drain"
  /\ reader' = [reader EXCEPT ![q] = "exited"]
  /\ UNCHANGED <<command, resources, control, producers, consumer, consumerChannel,
                 timeout, messages>>

(* Fault: the consumer does not wait for its readers. *)
ConsumerReturnsEarly(i) ==
  /\ Running /\ consumer[i] = "wait"
  /\ consumer' = [consumer EXCEPT ![i] = "exited"]
  /\ UNCHANGED <<command, resources, control, producers, consumerChannel, timeout, reader,
                 messages>>

(* The consumer's wg.Wait returns, and the deferred ch.Close closes its channel *)
ConsumerReturns(i) ==
  /\ Running /\ consumer[i] = "wait"
  /\ \A q \in AssignedQueues(i) : reader[q] = "exited"
  /\ consumer' = [consumer EXCEPT ![i] = "exited"]
  /\ CloseChannel(i)
  /\ UNCHANGED <<command, resources, control, producers, timeout, reader, ready,
                 receivedMessagesCount>>

-----------------------------------------------------------------------------
MainStep ==
  Connect \/ Create \/ ParseDuration \/ SelectDone \/ PrintStatistics \/ Cleanup \/ Exit

RunnerStep == StartConsumersAndProducers \/ RunnerDone

ProducerStep(i) == StartProducer(i) \/ Publish(i) \/ CountSent(i) \/ StopProducing(i)

ConsumerStep(i) == StartConsumer(i) \/ ConsumerReturns(i)

ReaderStep(q) ==
  \/ StartReading(q) \/ Receive(q) \/ DeliveriesEnd(q) \/ StopReading(q)
  \/ DrainIdle(q)

(* The process has ended *)
Ended == ~Running /\ UNCHANGED vars

Next ==
  \/ MainStep \/ Killed \/ SelectSignal
  \/ RunnerStep \/ DurationExpires
  \/ \E i \in Client : ProducerStep(i) \/ ConsumerStep(i)
  \/ \E q \in Queue : ReaderStep(q) \/ Deliver(q)
  \/ Ended

Spec == Init /\ [][Next]_vars

(* Goroutines are scheduled, calls of the broker return, and the duration    *)
(* passes: nothing is assumed of signals, or of the broker's deliveries.     *)
Fairness ==
  /\ WF_vars(MainStep) /\ WF_vars(RunnerStep) /\ WF_vars(DurationExpires)
  /\ \A i \in Client : WF_vars(ProducerStep(i)) /\ WF_vars(ConsumerStep(i))
  /\ \A q \in Queue : WF_vars(ReaderStep(q))

FairSpec == Spec /\ Fairness
-----------------------------------------------------------------------------
(* Properties *)

(* The variables have the types their Go counterparts have. *)
TypeOK ==
  /\ badDuration \in BOOLEAN
  /\ main \in {"connect", "create", "select", "print", "cleanup", "exited"}
  /\ todo \in Operation
  /\ channel \in BOOLEAN
  /\ exchanges \subseteq Exchange /\ queues \subseteq Queue
  /\ bindings \subseteq exchanges \X RoutingKey \X queues
  /\ ready \in [Queue -> Nat]
  /\ doneChan \in BOOLEAN
  /\ runner \in {"unborn", "start", "wait", "done"}
  /\ producer \in [Client -> {"unborn", "start", "loop", "count", "exited"}]
  /\ consumer \in [Client -> {"unborn", "start", "wait", "exited"}]
  /\ producerChannel \in [Client -> BOOLEAN] /\ consumerChannel \in [Client -> BOOLEAN]
  /\ timeout \in [Client -> BOOLEAN]
  /\ reader \in [Queue -> {"unborn", "start", "read", "drain", "exited"}]
  /\ registered \in [Queue -> SUBSET Purpose]
  /\ delivered \in [Queue -> [Purpose -> Nat]]
  /\ sentMessagesCount \in Nat /\ receivedMessagesCount \in Nat
  /\ finish \in {"none", "done", "signal"}
  /\ printed \in [sent : Nat, received : Nat]

(* However the two counters race (load.go 430, 517), and whatever the       *)
(* readers leave to the consumer that drains their queue, no message is     *)
(* received more often than it was copied: the printed duplication factor   *)
(* exceeds the number of queues at most by what the producers have          *)
(* published and not counted yet.                                           *)
DuplicationBounded ==
  receivedMessagesCount <= (sentMessagesCount + Cardinality(Uncounted)) * QueueCount

(* The statistics of a test that "completed normally" (load.go 200-206) are *)
(* final: no goroutine counts after both WaitGroups have been waited for.   *)
StatisticsFinal ==
  finish = "done" /\ main \in {"cleanup", "exited"} =>
    printed = [sent |-> sentMessagesCount, received |-> receivedMessagesCount]

(* When no operation of the main channel failed, a test that ended or was   *)
(* interrupted leaves nothing on the broker, although after a signal        *)
(* producers and consumers are still at work on what is being deleted       *)
(* (load.go 198-209, 264-304).                                              *)
NothingLeftBehind ==
  main = "exited" /\ finish # "none" /\ channel => exchanges = {} /\ queues = {}

(* A test that was started ends after its duration: every reader of every   *)
(* consumer stops, although the timeout they share wakes only one of them,  *)
(* every drain ends, and both WaitGroups come to zero (load.go 391-475).    *)
TestEnds == main = "select" ~> main = "exited"

(* What the code's own words promise and the code does not do: "First,      *)
(* purge all queues to remove remaining messages" (the comment at load.go   *)
(* 265).  Once the purge is over no message remains.                        *)
Purged == main = "cleanup" /\ todo.op # "purge"

NothingRemainsAfterPurge ==
  Purged /\ channel => \A q \in Queue : ready[q] = 0
=============================================================================
