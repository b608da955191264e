------------------------------ MODULE RabbitTools ------------------------------
(***************************************************************************)
(* `vpd rabbitmq func-test`, `put-message` and `read-queue`, several of    *)
(* them at once on one broker: cmd/rabbitmq/function/function.go,          *)
(* put_message/put_message.go, read_queue/read_queue.go and                *)
(* utils/rabbitmq/rabbitmq_config.go.                                      *)
(*                                                                         *)
(* On the broker there are an exchange, a queue and a binding of somebody  *)
(* else, all named Mine; the functional test makes and removes its own     *)
(* under fixed names, all abbreviated to Fixed.  Every process publishes   *)
(* at most one message, which is known by the process that sent it.        *)
(* Deliveries are acknowledged by the broker as it sends them.             *)
(***************************************************************************)
EXTENDS Integers, Sequences, FiniteSets

CONSTANTS Test, Reader, Publisher,  \* the processes, by command
          Mine, Fixed, NoName,      \* names; NoName is a flag left out
          MaxCommands               \* bound: commands given

ASSUME ProcessAssumption ==
  /\ Test \cap Reader = {} /\ Test \cap Publisher = {} /\ Reader \cap Publisher = {}
  /\ {"none", "closed", "timeout"} \cap (Test \cup Publisher) = {}
ASSUME BoundAssumption == MaxCommands \in Nat
ASSUME NameAssumption == Mine # Fixed /\ Mine # NoName /\ Fixed # NoName

Name == {Mine, Fixed}
Flag == {Mine, NoName}
Process == Test \cup Reader \cup Publisher
Message == Test \cup Publisher

VARIABLES
  pc,          \* where each process is
  flags,       \* --exchange, --queue and --routing-key of each process
  open,        \* its channel is open; keeps its last value when the process ends
  exchanges, queues, bindings,  \* what exists on the broker
  contents,    \* the messages in each queue
  registered,  \* the consumers of each queue
  inbox,       \* what a process was sent and has not received
  result,      \* what the select of a test received
  holding,     \* the message a reader has received and not logged
  logged,      \* the messages readers have logged
  alone        \* history: the test found nothing and met nobody

broker == <<exchanges, queues, bindings, contents, registered>>
vars == <<pc, flags, open, broker, inbox, result, holding, logged, alone>>

Ended == {"start", "refused", "failed", "done", "sent", "fatal", "exited"}
Active(p) == pc[p] \notin Ended

Init ==
  /\ pc = [p \in Process |-> "start"]
  /\ flags = [p \in Process |-> [exchange |-> NoName, queue |-> NoName, key |-> NoName]]
  /\ open = [p \in Process |-> FALSE]
  /\ exchanges = {Mine} /\ queues = {Mine} /\ bindings = {<<Mine, Mine, Mine>>}
  /\ contents = [q \in Name |-> <<>>]
  /\ registered = [q \in Name |-> {}]
  /\ inbox = [p \in Process |-> <<>>]
  /\ result = [t \in Test |-> "none"]
  /\ holding = [r \in Reader |-> "none"]
  /\ logged = {}
  /\ alone = [t \in Test |-> FALSE]

-----------------------------------------------------------------------------
(* Connections and channels *)

Goto(p, label) == pc' = [pc EXCEPT ![p] = label]

(* A channel is closed, by its process or because an operation failed: its *)
(* consumer goes and what it had not received is dropped.                   *)
Unregister(p) == registered' = [q \in Name |-> registered[q] \ {p}]
CloseChannel(p) ==
  /\ Unregister(p)
  /\ inbox' = [inbox EXCEPT ![p] = <<>>]

(* The process ends; its deferred calls close the channel and the connection. *)
EndAt(p, label) ==
  /\ Goto(p, label)
  /\ CloseChannel(p)
  /\ UNCHANGED <<flags, exchanges, queues, bindings, contents, logged, alone>>

(* ConnectToRabbitMQ: a channel, or an error that ends the command *)
ConnectToRabbitMQ(p, next, failure) ==
  /\ \/ Goto(p, next) /\ open' = [open EXCEPT ![p] = TRUE]
     \/ Goto(p, failure) /\ UNCHANGED open
  /\ UNCHANGED <<flags, broker, inbox, result, holding, logged, alone>>

(* What two processes that run at once do to a test that runs alone *)
Meets(p) ==
  alone' = [t \in Test |->
              IF t = p THEN /\ contents[Fixed] = <<>>
                            /\ \A other \in Process \ {p} : ~Active(other)
                       ELSE alone[t] /\ ~Active(t)]

Begin(p, label, flag) ==
  /\ pc[p] = "start"
  /\ Cardinality({other \in Process : pc[other] # "start"}) < MaxCommands
  /\ Goto(p, label)
  /\ flags' = [flags EXCEPT ![p] = flag]
  /\ Meets(p)
  /\ UNCHANGED <<open, broker, inbox, result, holding, logged>>

(* A consumer is sent the next message of its queue. *)
Deliver ==
  \E q \in queues : \E p \in registered[q] :
    /\ contents[q] # <<>>
    /\ contents' = [contents EXCEPT ![q] = Tail(@)]
    /\ inbox' = [inbox EXCEPT ![p] = Append(@, Head(contents[q]))]
    /\ UNCHANGED <<pc, flags, open, exchanges, queues, bindings, registered, result,
                   holding, logged, alone>>

(* A published message goes to the queues bound with its key, to none if there *)
(* are none; a missing exchange closes the channel, which Publish does not say. *)
Publish(p, exchange, key) ==
  /\ contents' = [q \in Name |-> IF exchange \in exchanges /\ <<exchange, key, q>> \in bindings
                                   THEN Append(contents[q], p) ELSE contents[q]]
  /\ open' = [open EXCEPT ![p] = exchange \in exchanges]

-----------------------------------------------------------------------------
(* The functional test *)

(* Fault: the test creates its objects whatever else is named. *)
ParametersAccepted(flag) == TRUE

ParametersOK(flag) ==
  ~(flag.exchange = NoName /\ (flag.queue # NoName \/ flag.key # NoName))

StartTest(t) ==
  \E flag \in [exchange : Flag, queue : Flag, key : Flag] :
    Begin(t, IF ParametersOK(flag) THEN "connect" ELSE "refused", flag)

(* Fault: a name that is left out stays empty. *)
UsedAsGiven(name) == name

Used(name) == IF name = NoName THEN Fixed ELSE name
Exchange(t) == Used(flags[t].exchange)
Queue(t) == Used(flags[t].queue)
RoutingKey(t) == Used(flags[t].key)
Creates(t) == flags[t].exchange = NoName

ConnectTest(t) ==
  /\ pc[t] = "connect"
  /\ ConnectToRabbitMQ(t, IF Creates(t) THEN "declareExchange" ELSE "publish", "failed")

DeclareExchange(t) ==
  /\ pc[t] = "declareExchange"
  /\ Goto(t, "declareQueue")
  /\ exchanges' = exchanges \cup {Exchange(t)}
  /\ UNCHANGED <<flags, open, queues, bindings, contents, registered, inbox, result,
                 holding, logged, alone>>

DeclareQueue(t) ==
  /\ pc[t] = "declareQueue"
  /\ Goto(t, "bind")
  /\ queues' = queues \cup {Queue(t)}
  /\ UNCHANGED <<flags, open, exchanges, bindings, contents, registered, inbox, result,
                 holding, logged, alone>>

QueueBind(t) ==
  /\ pc[t] = "bind"
  /\ Exchange(t) \in exchanges /\ Queue(t) \in queues
  /\ Goto(t, "publish")
  /\ bindings' = bindings \cup {<<Exchange(t), RoutingKey(t), Queue(t)>>}
  /\ UNCHANGED <<flags, open, exchanges, queues, contents, registered, inbox, result,
                 holding, logged, alone>>

SendMessage(t) ==
  /\ pc[t] = "publish"
  /\ Goto(t, "consume")
  /\ Publish(t, Exchange(t), RoutingKey(t))
  /\ UNCHANGED <<flags, exchanges, queues, bindings, registered, inbox, result, holding,
                 logged, alone>>

Consume(t) ==
  /\ pc[t] = "consume"
  /\ open[t] /\ Queue(t) \in queues
  /\ Goto(t, "wait")
  /\ registered' = [registered EXCEPT ![Queue(t)] = @ \cup {t}]
  /\ UNCHANGED <<flags, open, exchanges, queues, bindings, contents, inbox, result,
                 holding, logged, alone>>

(* An operation that may always fail, and must when what it needs is missing or *)
(* the channel is closed; the command returns without the cleanup.              *)
GiveUp(t) ==
  /\ pc[t] \in {"declareExchange", "declareQueue", "bind", "publish", "consume"}
  /\ open' = [open EXCEPT ![t] = FALSE]
  /\ EndAt(t, "failed")
  /\ UNCHANGED <<result, holding>>

(* The process is interrupted: nothing in it catches the signal. *)
Interrupted(t) ==
  /\ Active(t)
  /\ EndAt(t, "failed")
  /\ UNCHANGED <<open, result, holding>>

(* The three ways out of the select: a message, the closed channel of a *)
(* consumer that is gone, five seconds                                   *)
Select(t, got) ==
  /\ pc[t] = "wait"
  /\ result' = [result EXCEPT ![t] = got]
  /\ UNCHANGED <<flags, open, broker, holding, logged, alone>>

Receive(t) ==
  /\ inbox[t] # <<>>
  /\ Select(t, Head(inbox[t]))
  /\ inbox' = [inbox EXCEPT ![t] = Tail(@)]
  /\ Goto(t, "unbind")

ReceiveClosed(t) ==
  /\ inbox[t] = <<>> /\ \A q \in Name : t \notin registered[q]
  /\ Select(t, "closed")
  /\ UNCHANGED inbox
  /\ Goto(t, "unbind")

(* Fault: a test that received nothing returns. *)
TimeoutReturns(t) ==
  /\ pc[t] = "wait"
  /\ result' = [result EXCEPT ![t] = "timeout"]
  /\ EndAt(t, "done")
  /\ UNCHANGED <<open, holding>>

Timeout(t) ==
  /\ Select(t, "timeout")
  /\ UNCHANGED inbox
  /\ Goto(t, "unbind")

(* The connection is lost while nobody is calling the broker. *)
ConnectionLost(p) ==
  /\ open[p] /\ pc[p] \in {"wait", "reading"}
  /\ open' = [open EXCEPT ![p] = FALSE]
  /\ CloseChannel(p)
  /\ UNCHANGED <<pc, flags, exchanges, queues, bindings, contents, result, holding,
                 logged, alone>>

-----------------------------------------------------------------------------
(* The cleanup of the functional test: an error is printed and the next  *)
(* operation tried.  Removing what does not exist is no error.           *)

QueueUnbind(t) ==
  /\ pc[t] = "unbind" /\ Creates(t) /\ open[t]
  /\ Goto(t, "deleteQueue")
  /\ bindings' = bindings \ {<<Exchange(t), RoutingKey(t), Queue(t)>>}
  /\ UNCHANGED <<flags, open, exchanges, queues, contents, registered, inbox, result,
                 holding, logged, alone>>

(* The queue goes with its messages and its consumers, whoever they are of. *)
QueueDelete(t) ==
  /\ pc[t] = "deleteQueue" /\ open[t]
  /\ Goto(t, "deleteExchange")
  /\ queues' = queues \ {Queue(t)}
  /\ bindings' = {b \in bindings : b[3] # Queue(t)}
  /\ contents' = [contents EXCEPT ![Queue(t)] = <<>>]
  /\ registered' = [registered EXCEPT ![Queue(t)] = {}]
  /\ UNCHANGED <<flags, open, exchanges, inbox, result, holding, logged, alone>>

ExchangeDelete(t) ==
  /\ pc[t] = "deleteExchange" /\ open[t]
  /\ exchanges' = exchanges \ {Exchange(t)}
  /\ bindings' = {b \in bindings : b[1] # Exchange(t)}
  /\ Goto(t, "done")
  /\ CloseChannel(t)
  /\ UNCHANGED <<flags, open, queues, contents, result, holding, logged, alone>>

CleanupFails(t) ==
  /\ pc[t] \in {"unbind", "deleteQueue", "deleteExchange"} /\ Creates(t)
  /\ open' = [open EXCEPT ![t] = FALSE]
  /\ Goto(t, CASE pc[t] = "unbind" -> "deleteQueue"
               [] pc[t] = "deleteQueue" -> "deleteExchange"
               [] pc[t] = "deleteExchange" -> "done")
  /\ CloseChannel(t)
  /\ UNCHANGED <<flags, exchanges, queues, bindings, contents, result, holding, logged, alone>>

SkipCleanup(t) ==
  /\ pc[t] = "unbind" /\ ~Creates(t)
  /\ EndAt(t, "done")
  /\ UNCHANGED <<open, result, holding>>

FunctionalTest(t) ==
  \/ StartTest(t) \/ ConnectTest(t) \/ DeclareExchange(t) \/ DeclareQueue(t)
  \/ QueueBind(t) \/ SendMessage(t) \/ Consume(t) \/ GiveUp(t) \/ Interrupted(t)
  \/ Receive(t) \/ ReceiveClosed(t) \/ Timeout(t) \/ ConnectionLost(t)
  \/ QueueUnbind(t) \/ QueueDelete(t) \/ ExchangeDelete(t) \/ CleanupFails(t)
  \/ SkipCleanup(t)

-----------------------------------------------------------------------------
(* put-message: every error is fatal *)

StartPublisher(p) ==
  \E exchange \in Name, key \in Name \cup {NoName} :
    Begin(p, "connect", [exchange |-> exchange, queue |-> NoName, key |-> key])

ConnectPublisher(p) ==
  pc[p] = "connect" /\ ConnectToRabbitMQ(p, "put", "fatal")

PutMessage(p) ==
  /\ pc[p] = "put"
  /\ \/ Goto(p, "sent") /\ Publish(p, flags[p].exchange, flags[p].key)
     \/ Goto(p, "fatal") /\ open' = [open EXCEPT ![p] = FALSE] /\ UNCHANGED contents
  /\ UNCHANGED <<flags, exchanges, queues, bindings, registered, inbox, result, holding,
                 logged, alone>>

-----------------------------------------------------------------------------
(* read-queue *)

StartReader(r) ==
  \E queue \in Name :
    Begin(r, "connect", [exchange |-> NoName, queue |-> queue, key |-> NoName])

ConnectReader(r) ==
  pc[r] = "connect" /\ ConnectToRabbitMQ(r, "register", "fatal")

(* Until signal.Notify has run a signal ends the process like an error. *)
RegisterConsumer(r) ==
  /\ pc[r] = "register"
  /\ \/ /\ flags[r].queue \in queues
        /\ Goto(r, "reading")
        /\ registered' = [registered EXCEPT ![flags[r].queue] = @ \cup {r}]
     \/ Goto(r, "fatal") /\ UNCHANGED registered
  /\ UNCHANGED <<flags, open, exchanges, queues, bindings, contents, inbox, result,
                 holding, logged, alone>>

NextMessage(r) ==
  /\ pc[r] \in {"reading", "closing"}
  /\ holding[r] = "none" /\ inbox[r] # <<>>
  /\ holding' = [holding EXCEPT ![r] = Head(inbox[r])]
  /\ inbox' = [inbox EXCEPT ![r] = Tail(@)]
  /\ UNCHANGED <<pc, flags, open, broker, result, logged, alone>>

LogMessage(r) ==
  /\ pc[r] \in {"reading", "closing"}
  /\ holding[r] # "none"
  /\ logged' = logged \cup {holding[r]}
  /\ holding' = [holding EXCEPT ![r] = "none"]
  /\ UNCHANGED <<pc, flags, open, broker, inbox, result, alone>>

(* The deliveries are closed: the range loop ends and the command returns. *)
DeliveriesClosed(r) ==
  /\ pc[r] \in {"reading", "closing"}
  /\ holding[r] = "none" /\ inbox[r] = <<>>
  /\ \A q \in Name : r \notin registered[q]
  /\ EndAt(r, "exited")
  /\ UNCHANGED <<open, result, holding>>

(* The handler closes the connection, *)
ShutDown(r) ==
  /\ pc[r] = "reading"
  /\ open' = [open EXCEPT ![r] = FALSE]
  /\ EndAt(r, "closing")
  /\ UNCHANGED <<result, holding>>

(* and exits, whatever main has received and not logged. *)
OsExit(r) ==
  /\ pc[r] = "closing"
  /\ EndAt(r, "exited")
  /\ holding' = [holding EXCEPT ![r] = "none"]
  /\ UNCHANGED <<open, result>>

ReadQueue(r) ==
  \/ StartReader(r) \/ ConnectReader(r) \/ RegisterConsumer(r) \/ NextMessage(r)
  \/ LogMessage(r) \/ DeliveriesClosed(r) \/ ShutDown(r) \/ OsExit(r) \/ ConnectionLost(r)

Next ==
  \/ Deliver
  \/ \E t \in Test : FunctionalTest(t)
  \/ \E p \in Publisher : StartPublisher(p) \/ ConnectPublisher(p) \/ PutMessage(p)
  \/ \E r \in Reader : ReadQueue(r)

Spec == Init /\ [][Next]_vars

-----------------------------------------------------------------------------
(* The values the variables take.  A consumer's queue exists, a process that has *)
(* ended consumes nothing, and a reader that holds a message is still running.   *)
TypeOK ==
  /\ pc \in [Process -> Ended \cup {"connect", "declareExchange", "declareQueue", "bind",
                   "publish", "consume", "wait", "unbind", "deleteQueue", "deleteExchange",
                   "put", "register", "reading", "closing"}]
  /\ flags \in [Process -> [exchange : Name \cup {NoName}, queue : Name \cup {NoName},
                            key : Name \cup {NoName}]]
  /\ open \in [Process -> BOOLEAN] /\ alone \in [Test -> BOOLEAN]
  /\ exchanges \subseteq Name /\ queues \subseteq Name
  /\ \A b \in bindings : b[1] \in exchanges /\ b[3] \in queues
  /\ \A q \in Name \ queues : contents[q] = <<>> /\ registered[q] = {}
  /\ \A q \in Name : contents[q] \in Seq(Message)
  /\ \A p \in Process :
       /\ inbox[p] \in Seq(Message)
       /\ ~Active(p) => inbox[p] = <<>> /\ \A q \in Name : p \notin registered[q]
  /\ result \in [Test -> Message \cup {"none", "closed", "timeout"}]
  /\ holding \in [Reader -> Message \cup {"none"}]
  /\ \A r \in Reader : holding[r] # "none" => Active(r)
  /\ logged \subseteq Message

(* A functional test that was not given an exchange keeps its word: having met  *)
(* nobody, what it reports as received is its own message, unless its channel    *)
(* was closed; and however many tests overlap on the fixed names, an exchange or *)
(* queue of that name outlives them only if one of them gave up, was interrupted *)
(* or lost its channel.                                                          *)
ReceivedIsOwn ==
  \A t \in Test : Creates(t) /\ alone[t] /\ open[t] => result[t] \in {"none", "timeout", t}
LeftoversExplained ==
  Fixed \in exchanges \cup queues =>
    \E t \in Test : Creates(t) /\ (Active(t) \/ pc[t] = "failed" \/ (pc[t] = "done" /\ ~open[t]))
TestKeepsItsWord == ReceivedIsOwn /\ LeftoversExplained

(* Somebody else's exchange, queue and binding survive every functional test, and *)
(* a message put in that queue stays there until it was sent to a reader of the   *)
(* queue or to a test that was given it; what a reader is sent is logged unless   *)
(* the reader is stopped or cut off.                                              *)
Routed(p) == pc[p] = "sent" /\ flags[p].exchange = Mine /\ flags[p].key = Mine
OnItsWay(m) ==
  \/ \E i \in DOMAIN contents[Mine] : contents[Mine][i] = m
  \/ \E p \in Process : \E i \in DOMAIN inbox[p] : inbox[p][i] = m
  \/ \E r \in Reader : holding[r] = m
Takes(t) == flags[t].exchange = Mine /\ flags[t].queue = Mine /\ pc[t] \in {"wait", "unbind", "done", "failed"}
CutOff(r) == flags[r].queue = Mine /\ ~open[r] /\ pc[r] \in {"reading", "closing", "exited"}
MessagesOfOthersKept ==
  /\ Mine \in exchanges /\ Mine \in queues /\ <<Mine, Mine, Mine>> \in bindings
  /\ \A p \in Publisher :
       Routed(p) => \/ OnItsWay(p) \/ p \in logged
                    \/ \E t \in Test : Takes(t)
                    \/ \E r \in Reader : CutOff(r)
=============================================================================
