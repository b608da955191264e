--------------------------- MODULE RabbitToolsProofs ---------------------------
(***************************************************************************)
(* Theorems about the RabbitMQ functional test, the publisher and the      *)
(* queue reader, for any number of each on one broker.                     *)
(***************************************************************************)
EXTENDS RabbitTools, TLAPS

-----------------------------------------------------------------------------
(* Types *)

Early == {"start", "refused", "connect", "declareExchange", "declareQueue", "bind", "publish",
          "consume", "wait"}
TestLabel == Early \cup {"failed", "unbind", "deleteQueue", "deleteExchange", "done"}
PublisherLabel == {"start", "connect", "put", "sent", "fatal"}
ReaderLabel == {"start", "connect", "register", "reading", "closing", "exited", "fatal"}
Label == TestLabel \cup PublisherLabel \cup ReaderLabel

Named == Name \cup {NoName}
Flags == [exchange : Named, queue : Named, key : Named]

Shared ==
  /\ exchanges \subseteq Name /\ queues \subseteq Name
  /\ contents \in [Name -> Seq(Message)] /\ registered \in [Name -> SUBSET Process]
  /\ logged \subseteq Message

Own ==
  /\ pc \in [Process -> Label] /\ flags \in [Process -> Flags]
  /\ open \in [Process -> BOOLEAN] /\ alone \in [Test -> BOOLEAN]
  /\ inbox \in [Process -> Seq(Message)]
  /\ result \in [Test -> Message \cup {"none", "closed", "timeout"}]
  /\ holding \in [Reader -> Message \cup {"none"}]

LEMMA Names ==
  /\ Mine \in Name /\ Fixed \in Name /\ Mine # Fixed /\ Mine # NoName /\ Fixed # NoName
  /\ \A x \in Named : Used(x) \in Name
  /\ \A x \in Name : Used(x) = x
  /\ Used(NoName) = Fixed
BY NameAssumption DEF Name, Named, Used

LEMMA Kinds ==
  /\ Test \subseteq Process /\ Reader \subseteq Process /\ Publisher \subseteq Process
  /\ Test \subseteq Message /\ Publisher \subseteq Message
  /\ \A x \in Process : x \in Test \/ x \in Reader \/ x \in Publisher
BY DEF Process, Message

LEMMA SharedStep ==
  ASSUME Shared, Own, Next
  PROVE  Shared'
<1> USE Kinds, Names
<1>1. ASSUME NEW x \in Process, CloseChannel(x)
      PROVE  registered' \in [Name -> SUBSET Process]
  BY <1>1 DEF CloseChannel, Unregister, Shared
<1>2. ASSUME NEW x \in Message, NEW e, NEW k, Publish(x, e, k)
      PROVE  contents' \in [Name -> Seq(Message)]
  <2>1. \A q \in Name : contents[q] \in Seq(Message) /\ Append(contents[q], x) \in Seq(Message)
    BY DEF Shared
  <2> QED
    BY <1>2, <2>1 DEF Publish
<1>3. CASE Deliver
  <2>1. PICK q \in queues :
          /\ contents[q] # <<>>
          /\ contents' = [contents EXCEPT ![q] = Tail(@)]
          /\ UNCHANGED <<exchanges, queues, registered, logged>>
    BY <1>3 DEF Deliver
  <2>2. q \in Name /\ contents[q] \in Seq(Message)
    BY DEF Shared
  <2>3. Tail(contents[q]) \in Seq(Message)
    BY <2>1, <2>2
  <2> QED
    BY <2>1, <2>2, <2>3 DEF Shared
<1>4. ASSUME NEW t \in Test, FunctionalTest(t)
      PROVE  Shared'
  <2>1. Exchange(t) \in Name /\ Queue(t) \in Name
    BY DEF Own, Flags, Exchange, Queue
  <2>2. CASE StartTest(t) \/ ConnectTest(t) \/ Receive(t) \/ ReceiveClosed(t) \/ Timeout(t)
    BY <2>2 DEF StartTest, Begin, ConnectTest, ConnectToRabbitMQ, Receive, ReceiveClosed,
         Timeout, Select, broker, Shared
  <2>3. CASE DeclareExchange(t) \/ DeclareQueue(t) \/ QueueBind(t)
    BY <2>1, <2>3 DEF DeclareExchange, DeclareQueue, QueueBind, Shared
  <2>4. CASE SendMessage(t)
    BY <1>2, <2>4 DEF SendMessage, Shared
  <2>5. CASE Consume(t)
    <3>1. registered' = [registered EXCEPT ![Queue(t)] = @ \cup {t}]
      BY <2>5 DEF Consume
    <3>2. registered' \in [Name -> SUBSET Process]
      BY <2>1, <3>1 DEF Shared
    <3> QED
      BY <2>5, <3>2 DEF Consume, Shared
  <2>6. CASE GiveUp(t) \/ Interrupted(t) \/ SkipCleanup(t)
    BY <1>1, <2>6 DEF GiveUp, Interrupted, SkipCleanup, EndAt, Shared
  <2>7. CASE ConnectionLost(t) \/ CleanupFails(t)
    BY <1>1, <2>7 DEF ConnectionLost, CleanupFails, Shared
  <2>8. CASE QueueUnbind(t)
    BY <2>8 DEF QueueUnbind, Shared
  <2>9. CASE QueueDelete(t)
    <3>1. /\ contents' = [contents EXCEPT ![Queue(t)] = <<>>]
          /\ registered' = [registered EXCEPT ![Queue(t)] = {}]
      BY <2>9 DEF QueueDelete
    <3>2. contents' \in [Name -> Seq(Message)] /\ registered' \in [Name -> SUBSET Process]
      BY <2>1, <3>1 DEF Shared
    <3> QED
      BY <2>9, <3>2 DEF QueueDelete, Shared
  <2>10. CASE ExchangeDelete(t)
    BY <1>1, <2>10 DEF ExchangeDelete, Shared
  <2> QED
    BY <1>4, <2>2, <2>3, <2>4, <2>5, <2>6, <2>7, <2>8, <2>9, <2>10 DEF FunctionalTest
<1>5. ASSUME NEW p \in Publisher, StartPublisher(p) \/ ConnectPublisher(p) \/ PutMessage(p)
      PROVE  Shared'
  <2>1. CASE StartPublisher(p) \/ ConnectPublisher(p)
    BY <2>1 DEF StartPublisher, Begin, ConnectPublisher, ConnectToRabbitMQ, broker, Shared
  <2>2. CASE PutMessage(p)
    BY <1>2, <2>2 DEF PutMessage, Shared
  <2> QED
    BY <1>5, <2>1, <2>2
<1>6. ASSUME NEW r \in Reader, ReadQueue(r)
      PROVE  Shared'
  <2>1. CASE StartReader(r) \/ ConnectReader(r) \/ NextMessage(r)
    BY <2>1 DEF StartReader, Begin, ConnectReader, ConnectToRabbitMQ, NextMessage, broker, Shared
  <2>2. CASE RegisterConsumer(r)
    <3>1. \/ /\ flags[r].queue \in Name
             /\ registered' = [registered EXCEPT ![flags[r].queue] = @ \cup {r}]
          \/ UNCHANGED registered
      BY <2>2 DEF RegisterConsumer, Shared
    <3>2. registered' \in [Name -> SUBSET Process]
      BY <3>1 DEF Shared
    <3> QED
      BY <2>2, <3>2 DEF RegisterConsumer, Shared
  <2>3. CASE LogMessage(r)
    <3>1. holding[r] \in Message
      BY <2>3 DEF LogMessage, Own
    <3> QED
      BY <2>3, <3>1 DEF LogMessage, broker, Shared
  <2>4. CASE DeliveriesClosed(r) \/ ShutDown(r) \/ OsExit(r)
    BY <1>1, <2>4 DEF DeliveriesClosed, ShutDown, OsExit, EndAt, Shared
  <2>5. CASE ConnectionLost(r)
    BY <1>1, <2>5 DEF ConnectionLost, Shared
  <2> QED
    BY <1>6, <2>1, <2>2, <2>3, <2>4, <2>5 DEF ReadQueue
<1> QED
  BY <1>3, <1>4, <1>5, <1>6 DEF Next

LEMMA OwnStep ==
  ASSUME Shared, Own, Next
  PROVE  Own'
<1> USE Kinds, Names
<1>1. ASSUME NEW x \in Process, NEW label \in Label, Goto(x, label)
      PROVE  pc' \in [Process -> Label]
  BY <1>1 DEF Goto, Own
<1>2. ASSUME NEW x \in Process, CloseChannel(x)
      PROVE  inbox' \in [Process -> Seq(Message)]
  <2>1. <<>> \in Seq(Message)
    OBVIOUS
  <2> QED
    BY <1>2, <2>1 DEF CloseChannel, Own
<1>3. ASSUME NEW x \in Process, NEW value \in BOOLEAN, open' = [open EXCEPT ![x] = value]
      PROVE  open' \in [Process -> BOOLEAN]
  BY <1>3 DEF Own
<1>4. ASSUME NEW x \in Process, NEW label \in Label, NEW flag \in Flags, Begin(x, label, flag)
      PROVE  Own'
  <2>1. pc' \in [Process -> Label] /\ flags' \in [Process -> Flags]
    BY <1>1, <1>4 DEF Begin, Own
  <2>2. alone' \in [Test -> BOOLEAN]
    <3>1. \A t \in Test : alone[t] \in BOOLEAN
      BY DEF Own
    <3> QED
      BY <1>4, <3>1 DEF Begin, Meets
  <2> QED
    BY <1>4, <2>1, <2>2 DEF Begin, Own
<1>5. ASSUME NEW x \in Process, NEW next \in Label, NEW failure \in Label,
             ConnectToRabbitMQ(x, next, failure)
      PROVE  Own'
  <2>1. pc' \in [Process -> Label]
    BY <1>1, <1>5 DEF ConnectToRabbitMQ
  <2>2. open' \in [Process -> BOOLEAN]
    BY <1>3, <1>5 DEF ConnectToRabbitMQ, Own
  <2> QED
    BY <1>5, <2>1, <2>2 DEF ConnectToRabbitMQ, Own
<1>6. ASSUME NEW x \in Process, NEW label \in Label, EndAt(x, label)
      PROVE  /\ pc' \in [Process -> Label] /\ flags' \in [Process -> Flags]
             /\ inbox' \in [Process -> Seq(Message)] /\ alone' \in [Test -> BOOLEAN]
  BY <1>1, <1>2, <1>6 DEF EndAt, Own
<1>7. ASSUME NEW x \in Process, ConnectionLost(x)
      PROVE  Own'
  BY <1>2, <1>3, <1>7 DEF ConnectionLost, Own
<1>8. ASSUME NEW x \in Process, inbox[x] # <<>>
      PROVE  Head(inbox[x]) \in Message /\ Tail(inbox[x]) \in Seq(Message)
  <2>1. inbox[x] \in Seq(Message)
    BY DEF Own
  <2> QED
    BY <1>8, <2>1
<1>9. CASE Deliver
  <2>1. PICK q \in queues : \E x \in registered[q] :
          /\ contents[q] # <<>>
          /\ inbox' = [inbox EXCEPT ![x] = Append(@, Head(contents[q]))]
          /\ UNCHANGED <<pc, flags, open, result, holding, alone>>
    BY <1>9 DEF Deliver
  <2>2. PICK x \in registered[q] : inbox' = [inbox EXCEPT ![x] = Append(@, Head(contents[q]))]
    BY <2>1
  <2>3. q \in Name /\ x \in Process /\ contents[q] \in Seq(Message)
    BY DEF Shared
  <2>4. Head(contents[q]) \in Message
    BY <2>1, <2>3
  <2>5. inbox[x] \in Seq(Message)
    BY <2>3 DEF Own
  <2>6. Append(inbox[x], Head(contents[q])) \in Seq(Message)
    BY <2>4, <2>5
  <2>7. inbox' \in [Process -> Seq(Message)]
    BY <2>2, <2>3, <2>6 DEF Own
  <2> QED
    BY <2>1, <2>7 DEF Own
<1>10. ASSUME NEW t \in Test, FunctionalTest(t)
       PROVE  Own'
  <2>1. CASE StartTest(t)
    <3>1. PICK flag \in [exchange : Flag, queue : Flag, key : Flag] :
            Begin(t, IF ParametersOK(flag) THEN "connect" ELSE "refused", flag)
      BY <2>1 DEF StartTest
    <3>2. flag \in Flags
      BY DEF Flag, Flags, Named, Name
    <3>3. (IF ParametersOK(flag) THEN "connect" ELSE "refused") \in Label
      BY DEF Label, TestLabel, Early
    <3> QED
      BY <1>4, <3>1, <3>2, <3>3
  <2>2. CASE ConnectTest(t)
    <3>1. /\ (IF Creates(t) THEN "declareExchange" ELSE "publish") \in Label
          /\ "failed" \in Label
      BY DEF Label, TestLabel, Early
    <3> QED
      BY <1>5, <2>2, <3>1 DEF ConnectTest
  <2>3. CASE DeclareExchange(t) \/ DeclareQueue(t) \/ QueueBind(t) \/ Consume(t)
             \/ QueueUnbind(t) \/ QueueDelete(t)
    <3>1. PICK label \in Label : Goto(t, label)
      BY <2>3 DEF DeclareExchange, DeclareQueue, QueueBind, Consume, QueueUnbind, QueueDelete,
           Label, TestLabel, Early
    <3>2. pc' \in [Process -> Label]
      BY <1>1, <3>1
    <3> QED
      BY <2>3, <3>2 DEF DeclareExchange, DeclareQueue, QueueBind, Consume, QueueUnbind,
           QueueDelete, Own
  <2>4. CASE SendMessage(t)
    <3>1. pc' \in [Process -> Label]
      BY <1>1, <2>4 DEF SendMessage, Label, TestLabel, Early
    <3>2. open' \in [Process -> BOOLEAN]
      <4>1. (Exchange(t) \in exchanges) \in BOOLEAN
        OBVIOUS
      <4> QED
        BY <1>3, <2>4, <4>1 DEF SendMessage, Publish
    <3> QED
      BY <2>4, <3>1, <3>2 DEF SendMessage, Own
  <2>5. CASE GiveUp(t) \/ Interrupted(t) \/ SkipCleanup(t)
    <3>1. PICK label \in Label : EndAt(t, label)
      BY <2>5 DEF GiveUp, Interrupted, SkipCleanup, Label, TestLabel
    <3>2. open' \in [Process -> BOOLEAN]
      BY <1>3, <2>5 DEF GiveUp, Interrupted, SkipCleanup, Own
    <3>3. UNCHANGED <<result, holding>>
      BY <2>5 DEF GiveUp, Interrupted, SkipCleanup
    <3> QED
      BY <1>6, <3>1, <3>2, <3>3 DEF Own
  <2>6. CASE Receive(t) \/ ReceiveClosed(t) \/ Timeout(t)
    <3>1. pc' \in [Process -> Label]
      BY <1>1, <2>6 DEF Receive, ReceiveClosed, Timeout, Label, TestLabel
    <3>2. inbox' \in [Process -> Seq(Message)]
      <4>1. CASE inbox' = inbox
        BY <4>1 DEF Own
      <4>2. CASE Receive(t)
        <5>1. Tail(inbox[t]) \in Seq(Message) /\ inbox' = [inbox EXCEPT ![t] = Tail(@)]
          BY <1>8, <4>2 DEF Receive
        <5> QED
          BY <5>1 DEF Own
      <4> QED
        BY <2>6, <4>1, <4>2 DEF ReceiveClosed, Timeout
    <3>3. result' \in [Test -> Message \cup {"none", "closed", "timeout"}]
      BY <1>8, <2>6 DEF Receive, ReceiveClosed, Timeout, Select, Own
    <3> QED
      BY <2>6, <3>1, <3>2, <3>3 DEF Receive, ReceiveClosed, Timeout, Select, Own
  <2>7. CASE ExchangeDelete(t)
    <3>1. pc' \in [Process -> Label]
      BY <1>1, <2>7 DEF ExchangeDelete, Label, TestLabel
    <3> QED
      BY <1>2, <2>7, <3>1 DEF ExchangeDelete, Own
  <2>8. CASE CleanupFails(t)
    <3>1. PICK label \in Label : Goto(t, label)
      BY <2>8 DEF CleanupFails, Label, TestLabel
    <3>2. pc' \in [Process -> Label]
      BY <1>1, <3>1
    <3> QED
      BY <1>2, <1>3, <2>8, <3>2 DEF CleanupFails, Own
  <2> QED
    BY <1>7, <1>10, <2>1, <2>2, <2>3, <2>4, <2>5, <2>6, <2>7, <2>8 DEF FunctionalTest
<1>11. ASSUME NEW p \in Publisher, StartPublisher(p) \/ ConnectPublisher(p) \/ PutMessage(p)
       PROVE  Own'
  <2>1. CASE StartPublisher(p)
    <3>1. PICK exchange \in Name, key \in Name \cup {NoName} :
            Begin(p, "connect", [exchange |-> exchange, queue |-> NoName, key |-> key])
      BY <2>1 DEF StartPublisher
    <3>2. [exchange |-> exchange, queue |-> NoName, key |-> key] \in Flags
      BY DEF Flags, Named
    <3>3. "connect" \in Label
      BY DEF Label, TestLabel, Early
    <3> QED
      BY <1>4, <3>1, <3>2, <3>3
  <2>2. CASE ConnectPublisher(p)
    <3>1. "put" \in Label /\ "fatal" \in Label
      BY DEF Label, PublisherLabel
    <3> QED
      BY <1>5, <2>2, <3>1 DEF ConnectPublisher
  <2>3. CASE PutMessage(p)
    <3>1. pc' \in [Process -> Label]
      BY <1>1, <2>3 DEF PutMessage, Label, PublisherLabel
    <3>2. open' \in [Process -> BOOLEAN]
      <4>1. (flags[p].exchange \in exchanges) \in BOOLEAN
        OBVIOUS
      <4> QED
        BY <1>3, <2>3, <4>1 DEF PutMessage, Publish
    <3> QED
      BY <2>3, <3>1, <3>2 DEF PutMessage, Own
  <2> QED
    BY <1>11, <2>1, <2>2, <2>3
<1>12. ASSUME NEW r \in Reader, ReadQueue(r)
       PROVE  Own'
  <2>1. CASE StartReader(r)
    <3>1. PICK queue \in Name :
            Begin(r, "connect", [exchange |-> NoName, queue |-> queue, key |-> NoName])
      BY <2>1 DEF StartReader
    <3>2. [exchange |-> NoName, queue |-> queue, key |-> NoName] \in Flags
      BY DEF Flags, Named
    <3>3. "connect" \in Label
      BY DEF Label, TestLabel, Early
    <3> QED
      BY <1>4, <3>1, <3>2, <3>3
  <2>2. CASE ConnectReader(r)
    <3>1. "register" \in Label /\ "fatal" \in Label
      BY DEF Label, ReaderLabel
    <3> QED
      BY <1>5, <2>2, <3>1 DEF ConnectReader
  <2>3. CASE RegisterConsumer(r)
    <3>1. pc' \in [Process -> Label]
      BY <1>1, <2>3 DEF RegisterConsumer, Label, ReaderLabel
    <3> QED
      BY <2>3, <3>1 DEF RegisterConsumer, Own
  <2>4. CASE NextMessage(r) \/ LogMessage(r)
    <3>1. CASE NextMessage(r)
      <4>1. /\ Head(inbox[r]) \in Message /\ Tail(inbox[r]) \in Seq(Message)
            /\ inbox' = [inbox EXCEPT ![r] = Tail(@)]
            /\ holding' = [holding EXCEPT ![r] = Head(inbox[r])]
        BY <1>8, <3>1 DEF NextMessage
      <4>2. inbox' \in [Process -> Seq(Message)] /\ holding' \in [Reader -> Message \cup {"none"}]
        BY <4>1 DEF Own
      <4> QED
        BY <3>1, <4>2 DEF NextMessage, broker, Own
    <3>2. CASE LogMessage(r)
      <4>1. holding' \in [Reader -> Message \cup {"none"}]
        BY <3>2 DEF LogMessage, Own
      <4> QED
        BY <3>2, <4>1 DEF LogMessage, Own
    <3> QED
      BY <2>4, <3>1, <3>2
  <2>5. CASE DeliveriesClosed(r) \/ ShutDown(r) \/ OsExit(r)
    <3>1. PICK label \in Label : EndAt(r, label)
      BY <2>5 DEF DeliveriesClosed, ShutDown, OsExit, Label, ReaderLabel
    <3>2. open' \in [Process -> BOOLEAN]
      BY <1>3, <2>5 DEF DeliveriesClosed, ShutDown, OsExit, Own
    <3>3. holding' \in [Reader -> Message \cup {"none"}]
      BY <2>5 DEF DeliveriesClosed, ShutDown, OsExit, Own
    <3>4. UNCHANGED result
      BY <2>5 DEF DeliveriesClosed, ShutDown, OsExit
    <3> QED
      BY <1>6, <3>1, <3>2, <3>3, <3>4 DEF Own
  <2> QED
    BY <1>7, <1>12, <2>1, <2>2, <2>3, <2>4, <2>5 DEF ReadQueue
<1> QED
  BY <1>9, <1>10, <1>11, <1>12 DEF Next

-----------------------------------------------------------------------------
(* Each process on its own *)

(* Of what processes have, a step changes one process's only. *)
Moves(x) ==
  /\ \A y \in Process \ {x} :
       pc'[y] = pc[y] /\ flags'[y] = flags[y] /\ open'[y] = open[y] /\ inbox'[y] = inbox[y]
  /\ \A t \in Test \ {x} : result'[t] = result[t]
  /\ \A r \in Reader \ {x} : holding'[r] = holding[r]

LEMMA BeginMoves ==
  ASSUME Own, NEW x \in Process, NEW label, NEW flag, Begin(x, label, flag)
  PROVE  Moves(x)
BY DEF Begin, Goto, Moves, Own

LEMMA ConnectMoves ==
  ASSUME Own, NEW x \in Process, NEW next, NEW failure, ConnectToRabbitMQ(x, next, failure)
  PROVE  Moves(x)
BY DEF ConnectToRabbitMQ, Goto, Moves, Own

LEMMA TestMoves ==
  ASSUME Own, NEW t \in Test, FunctionalTest(t)
  PROVE  Moves(t)
<1>1. t \in Process
  BY Kinds
<1>2. CASE StartTest(t)
  BY <1>1, <1>2, BeginMoves DEF StartTest
<1>3. CASE ConnectTest(t)
  BY <1>1, <1>3, ConnectMoves DEF ConnectTest
<1>4. CASE DeclareExchange(t) \/ DeclareQueue(t) \/ QueueBind(t) \/ SendMessage(t) \/ Consume(t)
  BY <1>1, <1>4 DEF DeclareExchange, DeclareQueue, QueueBind, SendMessage, Publish, Consume,
       Goto, Moves, Own
<1>5. CASE GiveUp(t) \/ Interrupted(t) \/ SkipCleanup(t) \/ ConnectionLost(t)
  BY <1>1, <1>5 DEF GiveUp, Interrupted, SkipCleanup, ConnectionLost, EndAt, CloseChannel, Goto,
       Moves, Own
<1>6. CASE Receive(t) \/ ReceiveClosed(t) \/ Timeout(t)
  BY <1>1, <1>6 DEF Receive, ReceiveClosed, Timeout, Select, Goto, Moves, Own
<1>7. CASE QueueUnbind(t) \/ QueueDelete(t) \/ ExchangeDelete(t) \/ CleanupFails(t)
  BY <1>1, <1>7 DEF QueueUnbind, QueueDelete, ExchangeDelete, CleanupFails, CloseChannel, Goto,
       Moves, Own
<1> QED
  BY <1>2, <1>3, <1>4, <1>5, <1>6, <1>7 DEF FunctionalTest

PutStep(p) == StartPublisher(p) \/ ConnectPublisher(p) \/ PutMessage(p)

LEMMA PublisherMoves ==
  ASSUME Own, NEW p \in Publisher, PutStep(p)
  PROVE  Moves(p)
<1>1. p \in Process
  BY Kinds
<1>2. CASE StartPublisher(p)
  BY <1>1, <1>2, BeginMoves DEF StartPublisher
<1>3. CASE ConnectPublisher(p)
  BY <1>1, <1>3, ConnectMoves DEF ConnectPublisher
<1>4. CASE PutMessage(p)
  BY <1>1, <1>4 DEF PutMessage, Publish, Goto, Moves, Own
<1> QED
  BY <1>2, <1>3, <1>4 DEF PutStep

LEMMA ReaderMoves ==
  ASSUME Own, NEW r \in Reader, ReadQueue(r)
  PROVE  Moves(r)
<1>1. r \in Process
  BY Kinds
<1>2. CASE StartReader(r)
  BY <1>1, <1>2, BeginMoves DEF StartReader
<1>3. CASE ConnectReader(r)
  BY <1>1, <1>3, ConnectMoves DEF ConnectReader
<1>4. CASE RegisterConsumer(r) \/ NextMessage(r) \/ LogMessage(r)
  BY <1>1, <1>4 DEF RegisterConsumer, NextMessage, LogMessage, Goto, Moves, Own
<1>5. CASE DeliveriesClosed(r) \/ ShutDown(r) \/ OsExit(r) \/ ConnectionLost(r)
  BY <1>1, <1>5 DEF DeliveriesClosed, ShutDown, OsExit, ConnectionLost, EndAt, CloseChannel, Goto,
       Moves, Own
<1> QED
  BY <1>2, <1>3, <1>4, <1>5 DEF ReadQueue

(* What the place that a process is at says about it *)
TestOK(t) ==
  /\ pc[t] \in TestLabel
  /\ flags[t] \in [exchange : Flag, queue : Flag, key : Flag]
  /\ pc[t] # "refused" => ParametersOK(flags[t])
  /\ pc[t] \in {"declareExchange", "declareQueue", "bind", "deleteQueue", "deleteExchange"}
       => Creates(t)
  /\ pc[t] \in Early => result[t] = "none"
PublisherOK(p) == pc[p] \in PublisherLabel
ReaderOK(r) ==
  /\ pc[r] \in ReaderLabel
  /\ holding[r] # "none" => pc[r] \in {"reading", "closing"}
  /\ pc[r] = "closing" => ~open[r]

Control ==
  /\ \A t \in Test : TestOK(t)
  /\ \A p \in Publisher : PublisherOK(p)
  /\ \A r \in Reader : ReaderOK(r)

LEMMA OtherStays ==
  ASSUME Control, NEW x, Moves(x)
  PROVE  /\ \A t \in Test \ {x} : TestOK(t)'
         /\ \A p \in Publisher \ {x} : PublisherOK(p)'
         /\ \A r \in Reader \ {x} : ReaderOK(r)'
<1>1. ASSUME NEW t \in Test \ {x}
      PROVE  TestOK(t)'
  <2>1. pc'[t] = pc[t] /\ flags'[t] = flags[t] /\ result'[t] = result[t]
    BY Kinds DEF Moves
  <2>2. TestOK(t)
    BY DEF Control
  <2> QED
    BY <2>1, <2>2 DEF TestOK, Creates
<1>2. ASSUME NEW p \in Publisher \ {x}
      PROVE  PublisherOK(p)'
  BY Kinds DEF Moves, Control, PublisherOK
<1>3. ASSUME NEW r \in Reader \ {x}
      PROVE  ReaderOK(r)'
  <2>1. pc'[r] = pc[r] /\ open'[r] = open[r] /\ holding'[r] = holding[r]
    BY Kinds DEF Moves
  <2>2. ReaderOK(r)
    BY DEF Control
  <2> QED
    BY <2>1, <2>2 DEF ReaderOK
<1> QED
  BY <1>1, <1>2, <1>3

LEMMA TestOKStep ==
  ASSUME Own, NEW t \in Test, TestOK(t), FunctionalTest(t)
  PROVE  TestOK(t)'
<1>1. t \in Process /\ t \in Message
  BY Kinds
<1>2. \A label : Goto(t, label) => pc'[t] = label
  BY <1>1 DEF Goto, Own
<1>3. CASE StartTest(t)
  <2>1. PICK flag \in [exchange : Flag, queue : Flag, key : Flag] :
          Begin(t, IF ParametersOK(flag) THEN "connect" ELSE "refused", flag)
    BY <1>3 DEF StartTest
  <2>2. /\ pc'[t] = IF ParametersOK(flag) THEN "connect" ELSE "refused"
        /\ flags'[t] = flag /\ result'[t] = result[t] /\ pc[t] = "start"
    BY <1>1, <1>2, <2>1 DEF Begin, Own
  <2> QED
    BY <2>2 DEF TestOK, TestLabel, Early
<1>4. CASE ~StartTest(t)
  <2>1. flags'[t] = flags[t] /\ Creates(t)' = Creates(t)
    BY <1>4 DEF FunctionalTest, ConnectTest, ConnectToRabbitMQ, DeclareExchange, DeclareQueue,
         QueueBind, SendMessage, Consume, GiveUp, Interrupted, EndAt, Receive, ReceiveClosed,
         Timeout, Select, ConnectionLost, QueueUnbind, QueueDelete, ExchangeDelete, CleanupFails,
         SkipCleanup, Creates
  <2>2. pc[t] # "refused" /\ pc'[t] # "refused"
    BY <1>2, <1>4 DEF FunctionalTest, ConnectTest, ConnectToRabbitMQ, DeclareExchange,
         DeclareQueue, QueueBind, SendMessage, Consume, GiveUp, Interrupted, EndAt, Receive,
         ReceiveClosed, Timeout, Select, ConnectionLost, QueueUnbind, QueueDelete,
         ExchangeDelete, CleanupFails, SkipCleanup, Active, Ended
  <2>3. /\ pc'[t] \in TestLabel
        /\ pc'[t] \in {"declareExchange", "declareQueue", "bind", "deleteQueue", "deleteExchange"}
             => Creates(t)
        /\ pc'[t] \in Early => pc[t] \in Early /\ result'[t] = result[t]
    <3>1. CASE ConnectTest(t)
      BY <1>2, <3>1 DEF ConnectTest, ConnectToRabbitMQ, TestLabel, Early
    <3>2. CASE DeclareExchange(t) \/ DeclareQueue(t) \/ QueueBind(t) \/ SendMessage(t)
               \/ Consume(t)
      BY <1>2, <3>2 DEF DeclareExchange, DeclareQueue, QueueBind, SendMessage, Consume,
           TestOK, TestLabel, Early
    <3>3. CASE GiveUp(t) \/ Interrupted(t) \/ SkipCleanup(t)
      BY <1>2, <3>3 DEF GiveUp, Interrupted, SkipCleanup, EndAt, TestLabel, Early
    <3>4. CASE Receive(t) \/ ReceiveClosed(t) \/ Timeout(t)
      BY <1>2, <3>4 DEF Receive, ReceiveClosed, Timeout, TestLabel, Early
    <3>5. CASE ConnectionLost(t)
      BY <3>5 DEF ConnectionLost, TestOK
    <3>6. CASE QueueUnbind(t) \/ QueueDelete(t) \/ ExchangeDelete(t)
      BY <1>2, <3>6 DEF QueueUnbind, QueueDelete, ExchangeDelete, TestOK, TestLabel, Early
    <3>7. CASE CleanupFails(t)
      BY <1>2, <3>7 DEF CleanupFails, TestLabel, Early
    <3> QED
      BY <1>4, <3>1, <3>2, <3>3, <3>4, <3>5, <3>6, <3>7 DEF FunctionalTest
  <2> QED
    BY <2>1, <2>2, <2>3 DEF TestOK
<1> QED
  BY <1>3, <1>4

LEMMA ReaderOKStep ==
  ASSUME Own, NEW r \in Reader, ReaderOK(r), ReadQueue(r)
  PROVE  ReaderOK(r)'
<1>1. r \in Process
  BY Kinds
<1>2. \A label : Goto(r, label) => pc'[r] = label
  BY <1>1 DEF Goto, Own
<1>3. CASE StartReader(r) \/ ConnectReader(r) \/ RegisterConsumer(r)
  <2>1. pc'[r] \in {"connect", "register", "reading", "fatal"} /\ holding' = holding
        /\ pc[r] \in {"start", "connect", "register"}
    BY <1>2, <1>3 DEF StartReader, Begin, ConnectReader, ConnectToRabbitMQ, RegisterConsumer
  <2> QED
    BY <2>1 DEF ReaderOK, ReaderLabel
<1>4. CASE NextMessage(r) \/ LogMessage(r)
  BY <1>4 DEF NextMessage, LogMessage, ReaderOK
<1>5. CASE DeliveriesClosed(r)
  <2>1. pc'[r] = "exited" /\ holding[r] = "none" /\ UNCHANGED <<open, holding>>
    BY <1>2, <1>5 DEF DeliveriesClosed, EndAt
  <2> QED
    BY <2>1 DEF ReaderOK, ReaderLabel
<1>6. CASE ShutDown(r)
  <2>1. pc'[r] = "closing" /\ open' = [open EXCEPT ![r] = FALSE]
    BY <1>2, <1>6 DEF ShutDown, EndAt
  <2> QED
    BY <1>1, <2>1 DEF ReaderOK, ReaderLabel, Own
<1>7. CASE OsExit(r)
  <2>1. pc'[r] = "exited" /\ holding' = [holding EXCEPT ![r] = "none"]
    BY <1>2, <1>7 DEF OsExit, EndAt
  <2> QED
    BY <2>1 DEF ReaderOK, ReaderLabel, Own
<1>8. CASE ConnectionLost(r)
  <2>1. UNCHANGED <<pc, holding>> /\ open' = [open EXCEPT ![r] = FALSE]
    BY <1>8 DEF ConnectionLost
  <2> QED
    BY <1>1, <2>1 DEF ReaderOK, Own
<1> QED
  BY <1>3, <1>4, <1>5, <1>6, <1>7, <1>8 DEF ReadQueue

LEMMA ControlStep ==
  ASSUME Own, Control, Next
  PROVE  Control'
<1>1. CASE Deliver
  <2>1. UNCHANGED <<pc, flags, open, result, holding>>
    BY <1>1 DEF Deliver
  <2> QED
    BY <2>1 DEF Control, TestOK, PublisherOK, ReaderOK, Creates
<1>2. ASSUME NEW t \in Test, FunctionalTest(t)
      PROVE  Control'
  <2>1. Moves(t) /\ TestOK(t)'
    BY <1>2, TestMoves, TestOKStep DEF Control
  <2>2. t \notin Publisher /\ t \notin Reader
    BY ProcessAssumption
  <2> QED
    BY <2>1, <2>2, OtherStays DEF Control
<1>3. ASSUME NEW p \in Publisher, PutStep(p)
      PROVE  Control'
  <2>1. Moves(p)
    BY <1>3, PublisherMoves
  <2>2. PublisherOK(p)'
    BY <1>3, Kinds DEF PutStep, StartPublisher, Begin, ConnectPublisher, ConnectToRabbitMQ,
         PutMessage, Goto, PublisherOK, PublisherLabel, Own
  <2>3. p \notin Test /\ p \notin Reader
    BY ProcessAssumption
  <2> QED
    BY <2>1, <2>2, <2>3, OtherStays DEF Control
<1>4. ASSUME NEW r \in Reader, ReadQueue(r)
      PROVE  Control'
  <2>1. Moves(r) /\ ReaderOK(r)'
    BY <1>4, ReaderMoves, ReaderOKStep DEF Control
  <2>2. r \notin Test /\ r \notin Publisher
    BY ProcessAssumption
  <2> QED
    BY <2>1, <2>2, OtherStays DEF Control
<1> QED
  BY <1>1, <1>2, <1>3, <1>4 DEF Next, PutStep

-----------------------------------------------------------------------------
(* The broker *)

Theirs == <<Mine, Mine, Mine>>
Ours == <<Fixed, Fixed, Fixed>>

(* Only two bindings ever exist, and what is somebody else's always does. *)
Broker ==
  /\ bindings \subseteq {Theirs, Ours}
  /\ \A b \in bindings : b[1] \in exchanges /\ b[3] \in queues
  /\ \A q \in Name \ queues : contents[q] = <<>> /\ registered[q] = {}
  /\ Mine \in exchanges /\ Mine \in queues /\ Theirs \in bindings

(* A test that was not given an exchange works on the fixed names alone. *)
LEMMA FixedNames ==
  ASSUME NEW t \in Test, TestOK(t), Creates(t), pc[t] # "refused"
  PROVE  Exchange(t) = Fixed /\ Queue(t) = Fixed /\ RoutingKey(t) = Fixed
BY DEF TestOK, ParametersOK, Creates, Exchange, Queue, RoutingKey, Used

LEMMA ClosedBroker ==
  ASSUME Shared, Broker, NEW x, CloseChannel(x),
         UNCHANGED <<exchanges, queues, bindings, contents>>
  PROVE  Broker'
<1>1. \A q \in Name : registered'[q] = registered[q] \ {x}
  BY DEF CloseChannel, Unregister
<1> QED
  BY <1>1 DEF Broker

LEMMA PublishedBroker ==
  ASSUME Shared, Broker, NEW x, NEW e, NEW k, Publish(x, e, k),
         UNCHANGED <<exchanges, queues, bindings, registered>>
  PROVE  Broker'
<1>1. ASSUME NEW q \in Name \ queues
      PROVE  contents'[q] = contents[q]
  <2>1. <<e, k, q>> \notin bindings
    BY DEF Broker
  <2> QED
    BY <2>1 DEF Publish
<1> QED
  BY <1>1 DEF Broker

LEMMA RegisteredBroker ==
  ASSUME Shared, Broker, NEW x, NEW q \in queues,
         registered' = [registered EXCEPT ![q] = @ \cup {x}],
         UNCHANGED <<exchanges, queues, bindings, contents>>
  PROVE  Broker'
<1>1. \A other \in Name \ queues : registered'[other] = registered[other]
  BY DEF Shared
<1> QED
  BY <1>1 DEF Broker

LEMMA BrokerStep ==
  ASSUME Shared, Own, Control, Broker, Next
  PROVE  Broker'
<1> USE Names
<1>1. CASE UNCHANGED broker
  BY <1>1 DEF broker, Broker
<1>2. CASE Deliver
  <2>1. PICK q \in queues :
          /\ contents' = [contents EXCEPT ![q] = Tail(@)]
          /\ UNCHANGED <<exchanges, queues, bindings, registered>>
    BY <1>2 DEF Deliver
  <2>2. \A other \in Name \ queues : contents'[other] = contents[other]
    BY <2>1 DEF Shared
  <2> QED
    BY <2>1, <2>2 DEF Broker
<1>3. ASSUME NEW t \in Test, FunctionalTest(t)
      PROVE  Broker'
  <2>1. TestOK(t)
    BY DEF Control
  <2>2. CASE StartTest(t) \/ ConnectTest(t) \/ Receive(t) \/ ReceiveClosed(t) \/ Timeout(t)
    BY <1>1, <2>2 DEF StartTest, Begin, ConnectTest, ConnectToRabbitMQ, Receive, ReceiveClosed,
         Timeout, Select
  <2>3. CASE GiveUp(t) \/ Interrupted(t) \/ SkipCleanup(t) \/ ConnectionLost(t) \/ CleanupFails(t)
    BY <2>3, ClosedBroker DEF GiveUp, Interrupted, SkipCleanup, EndAt, ConnectionLost, CleanupFails
  <2>4. CASE SendMessage(t)
    BY <2>4, PublishedBroker DEF SendMessage
  <2>5. CASE Consume(t)
    BY <2>5, RegisteredBroker DEF Consume
  <2>6. CASE DeclareExchange(t) \/ DeclareQueue(t)
    BY <2>6 DEF DeclareExchange, DeclareQueue, Broker
  <2>7. CASE pc[t] \in {"bind", "deleteQueue", "deleteExchange"} \/ QueueUnbind(t)
    <3>1. Exchange(t) = Fixed /\ Queue(t) = Fixed /\ RoutingKey(t) = Fixed
      BY <2>1, <2>7, FixedNames DEF TestOK, QueueUnbind
    <3>2. CASE QueueBind(t)
      BY <3>1, <3>2 DEF QueueBind, Broker, Ours
    <3>3. CASE QueueUnbind(t)
      <4>1. Theirs # Ours
        BY DEF Theirs, Ours
      <4> QED
        BY <3>1, <3>3, <4>1 DEF QueueUnbind, Broker, Ours
    <3>4. CASE QueueDelete(t)
      <4>1. /\ queues' = queues \ {Fixed}
            /\ bindings' = {b \in bindings : b[3] # Fixed}
            /\ contents' = [contents EXCEPT ![Fixed] = <<>>]
            /\ registered' = [registered EXCEPT ![Fixed] = {}]
            /\ exchanges' = exchanges
        BY <3>1, <3>4 DEF QueueDelete
      <4>2. Theirs \in bindings'
        BY <4>1 DEF Broker, Theirs
      <4>3. \A q \in Name \ queues' : contents'[q] = <<>> /\ registered'[q] = {}
        BY <4>1 DEF Broker, Shared
      <4> QED
        BY <4>1, <4>2, <4>3 DEF Broker
    <3>5. CASE ExchangeDelete(t)
      <4>1. /\ exchanges' = exchanges \ {Fixed}
            /\ bindings' = {b \in bindings : b[1] # Fixed}
            /\ UNCHANGED <<queues, contents>>
            /\ \A q \in Name : registered'[q] = registered[q] \ {t}
        BY <3>1, <3>5 DEF ExchangeDelete, CloseChannel, Unregister
      <4>2. Theirs \in bindings'
        BY <4>1 DEF Broker, Theirs
      <4> QED
        BY <4>1, <4>2 DEF Broker
    <3>6. CASE ~(QueueBind(t) \/ QueueUnbind(t) \/ QueueDelete(t) \/ ExchangeDelete(t))
      BY <1>3, <2>2, <2>3, <2>4, <2>5, <2>6, <3>6 DEF FunctionalTest
    <3> QED
      BY <3>2, <3>3, <3>4, <3>5, <3>6
  <2> QED
    BY <1>3, <2>2, <2>3, <2>4, <2>5, <2>6, <2>7
       DEF FunctionalTest, QueueBind, QueueDelete, ExchangeDelete
<1>4. ASSUME NEW p \in Publisher, PutStep(p)
      PROVE  Broker'
  <2>1. CASE StartPublisher(p) \/ ConnectPublisher(p)
    BY <1>1, <2>1 DEF StartPublisher, Begin, ConnectPublisher, ConnectToRabbitMQ
  <2>2. CASE PutMessage(p)
    <3>1. CASE UNCHANGED contents
      BY <1>1, <2>2, <3>1 DEF PutMessage, broker
    <3>2. CASE Publish(p, flags[p].exchange, flags[p].key)
      BY <2>2, <3>2, PublishedBroker DEF PutMessage
    <3> QED
      BY <2>2, <3>1, <3>2 DEF PutMessage
  <2> QED
    BY <1>4, <2>1, <2>2 DEF PutStep
<1>5. ASSUME NEW r \in Reader, ReadQueue(r)
      PROVE  Broker'
  <2>1. CASE StartReader(r) \/ ConnectReader(r) \/ NextMessage(r) \/ LogMessage(r)
    BY <1>1, <2>1 DEF StartReader, Begin, ConnectReader, ConnectToRabbitMQ, NextMessage, LogMessage
  <2>2. CASE RegisterConsumer(r)
    <3>1. CASE UNCHANGED registered
      BY <1>1, <2>2, <3>1 DEF RegisterConsumer, broker
    <3>2. CASE registered' # registered
      BY <2>2, <3>2, RegisteredBroker DEF RegisterConsumer
    <3> QED
      BY <3>1, <3>2
  <2>3. CASE DeliveriesClosed(r) \/ ShutDown(r) \/ OsExit(r) \/ ConnectionLost(r)
    BY <2>3, ClosedBroker DEF DeliveriesClosed, ShutDown, OsExit, EndAt, ConnectionLost
  <2> QED
    BY <1>5, <2>1, <2>2, <2>3 DEF ReadQueue
<1> QED
  BY <1>2, <1>3, <1>4, <1>5 DEF Next, PutStep

-----------------------------------------------------------------------------
(* Consumers *)

Consuming == {"wait", "unbind", "deleteQueue", "deleteExchange", "reading", "closing"}

(* Only a process that consumes is sent messages, and from its own queue. *)
ConsumerOK(x) ==
  /\ inbox[x] # <<>> => pc[x] \in Consuming
  /\ \A q \in Name : x \in registered[q] => pc[x] \in Consuming /\ q = Queue(x)
Consumers == \A x \in Process : ConsumerOK(x)

NoNewcomers(x) == \A q \in Name : registered'[q] \subseteq registered[q] \cup {x}

LEMMA OtherConsumers ==
  ASSUME Consumers, NEW x \in Process, Moves(x), NoNewcomers(x), ConsumerOK(x)'
  PROVE  Consumers'
<1>1. ASSUME NEW y \in Process \ {x}
      PROVE  ConsumerOK(y)'
  <2>1. pc'[y] = pc[y] /\ flags'[y] = flags[y] /\ inbox'[y] = inbox[y]
    BY DEF Moves
  <2>2. \A q \in Name : y \in registered'[q] => y \in registered[q]
    BY DEF NoNewcomers
  <2>3. ConsumerOK(y)
    BY DEF Consumers
  <2> QED
    BY <2>1, <2>2, <2>3 DEF ConsumerOK, Queue
<1> QED
  BY <1>1 DEF Consumers

LEMMA ClosedConsumer ==
  ASSUME Shared, Own, NEW x \in Process, CloseChannel(x)
  PROVE  NoNewcomers(x) /\ ConsumerOK(x)'
<1>1. \A q \in Name : registered'[q] = registered[q] \ {x}
  BY DEF CloseChannel, Unregister
<1>2. inbox'[x] = <<>>
  BY DEF CloseChannel, Own
<1> QED
  BY <1>1, <1>2 DEF NoNewcomers, ConsumerOK

LEMMA IdleConsumer ==
  ASSUME NEW x \in Process, ConsumerOK(x), UNCHANGED <<inbox, registered>>,
         \/ pc[x] \notin Consuming
         \/ pc'[x] \in Consuming /\ flags'[x] = flags[x]
  PROVE  NoNewcomers(x) /\ ConsumerOK(x)'
<1>1. CASE pc[x] \notin Consuming
  BY <1>1 DEF NoNewcomers, ConsumerOK
<1>2. CASE pc'[x] \in Consuming /\ flags'[x] = flags[x]
  BY <1>2 DEF NoNewcomers, ConsumerOK, Queue
<1> QED
  BY <1>1, <1>2

LEMMA RegisteredConsumer ==
  ASSUME Shared, NEW x \in Process, ConsumerOK(x), pc[x] \notin Consuming, pc'[x] \in Consuming,
         NEW q \in Name, q = Queue(x), UNCHANGED <<flags, inbox>>,
         registered' = [registered EXCEPT ![q] = @ \cup {x}]
  PROVE  NoNewcomers(x) /\ ConsumerOK(x)'
<1>1. \A other \in Name :
        registered'[other] = IF other = q THEN registered[q] \cup {x} ELSE registered[other]
  BY DEF Shared
<1> QED
  BY <1>1 DEF NoNewcomers, ConsumerOK, Queue

LEMMA ConsumersStep ==
  ASSUME Shared, Own, Control, Consumers, Next
  PROVE  Consumers'
<1> USE Kinds, Names
<1>1. \A x \in Process : \A label : Goto(x, label) => pc'[x] = label
  BY DEF Goto, Own
<1>2. CASE Deliver
  <2>1. PICK q \in queues : \E x \in registered[q] :
          /\ contents[q] # <<>>
          /\ inbox' = [inbox EXCEPT ![x] = Append(@, Head(contents[q]))]
          /\ UNCHANGED <<pc, flags, registered>>
    BY <1>2 DEF Deliver
  <2>2. PICK x \in registered[q] :
          /\ inbox' = [inbox EXCEPT ![x] = Append(@, Head(contents[q]))]
          /\ UNCHANGED <<pc, flags, registered>>
    BY <2>1
  <2>3. q \in Name /\ x \in Process
    BY DEF Shared
  <2>4. pc[x] \in Consuming
    BY <2>3 DEF Consumers, ConsumerOK
  <2>5. \A y \in Process \ {x} : inbox'[y] = inbox[y]
    BY <2>2, <2>3 DEF Own
  <2> QED
    BY <2>2, <2>4, <2>5 DEF Consumers, ConsumerOK, Queue
<1>3. ASSUME NEW t \in Test, FunctionalTest(t)
      PROVE  Consumers'
  <2>1. ConsumerOK(t) /\ TestOK(t) /\ Moves(t) /\ t \in Process
    BY <1>3, TestMoves DEF Consumers, Control
  <2>2. CASE StartTest(t) \/ ConnectTest(t) \/ DeclareExchange(t) \/ DeclareQueue(t)
             \/ QueueBind(t) \/ SendMessage(t)
    <3>1. pc[t] \notin Consuming /\ UNCHANGED <<inbox, registered>>
      BY <2>2 DEF StartTest, Begin, ConnectTest, ConnectToRabbitMQ, DeclareExchange, DeclareQueue,
           QueueBind, SendMessage, broker, Consuming
    <3> QED
      BY <2>1, <3>1, IdleConsumer, OtherConsumers
  <2>3. CASE Consume(t)
    <3>1. /\ pc[t] \notin Consuming /\ pc'[t] \in Consuming /\ UNCHANGED <<flags, inbox>>
          /\ Queue(t) \in Name /\ registered' = [registered EXCEPT ![Queue(t)] = @ \cup {t}]
      BY <1>1, <2>3 DEF Consume, Consuming, Shared
    <3> QED
      BY <2>1, <3>1, RegisteredConsumer, OtherConsumers
  <2>4. CASE GiveUp(t) \/ Interrupted(t) \/ SkipCleanup(t) \/ ConnectionLost(t) \/ CleanupFails(t)
             \/ ExchangeDelete(t)
    <3>1. CloseChannel(t)
      BY <2>4 DEF GiveUp, Interrupted, SkipCleanup, EndAt, ConnectionLost, CleanupFails,
           ExchangeDelete
    <3> QED
      BY <2>1, <3>1, ClosedConsumer, OtherConsumers
  <2>5. CASE ReceiveClosed(t) \/ Timeout(t) \/ QueueUnbind(t)
    <3>1. pc'[t] \in Consuming /\ UNCHANGED <<flags, inbox, registered>>
      BY <1>1, <2>1, <2>5 DEF ReceiveClosed, Timeout, Select, QueueUnbind, broker, Consuming
    <3> QED
      BY <2>1, <3>1, IdleConsumer, OtherConsumers
  <2>6. CASE Receive(t)
    <3>1. pc'[t] \in Consuming /\ UNCHANGED <<flags, registered>>
      BY <1>1, <2>1, <2>6 DEF Receive, Select, broker, Consuming
    <3>2. NoNewcomers(t) /\ ConsumerOK(t)'
      BY <2>1, <3>1 DEF NoNewcomers, ConsumerOK, Queue
    <3> QED
      BY <2>1, <3>2, OtherConsumers
  <2>7. CASE QueueDelete(t)
    <3>1. pc'[t] \in Consuming /\ UNCHANGED <<flags, inbox>>
      BY <1>1, <2>1, <2>7 DEF QueueDelete, Consuming
    <3>2. \A q \in Name : registered'[q] \subseteq registered[q]
      BY <2>7 DEF QueueDelete, Shared
    <3>3. NoNewcomers(t) /\ ConsumerOK(t)'
      BY <2>1, <3>1, <3>2 DEF NoNewcomers, ConsumerOK, Queue
    <3> QED
      BY <2>1, <3>3, OtherConsumers
  <2> QED
    BY <1>3, <2>2, <2>3, <2>4, <2>5, <2>6, <2>7 DEF FunctionalTest
<1>4. ASSUME NEW p \in Publisher, PutStep(p)
      PROVE  Consumers'
  <2>1. ConsumerOK(p) /\ PublisherOK(p) /\ Moves(p) /\ p \in Process
    BY <1>4, PublisherMoves DEF Consumers, Control
  <2>2. pc[p] \notin Consuming
    BY <2>1 DEF PublisherOK, PublisherLabel, Consuming
  <2>3. UNCHANGED <<inbox, registered>>
    BY <1>4 DEF PutStep, StartPublisher, Begin, ConnectPublisher, ConnectToRabbitMQ, PutMessage,
         broker
  <2> QED
    BY <2>1, <2>2, <2>3, IdleConsumer, OtherConsumers
<1>5. ASSUME NEW r \in Reader, ReadQueue(r)
      PROVE  Consumers'
  <2>1. ConsumerOK(r) /\ Moves(r) /\ r \in Process
    BY <1>5, ReaderMoves DEF Consumers, Control
  <2>2. CASE StartReader(r) \/ ConnectReader(r)
    <3>1. pc[r] \notin Consuming /\ UNCHANGED <<inbox, registered>>
      BY <2>2 DEF StartReader, Begin, ConnectReader, ConnectToRabbitMQ, broker, Consuming
    <3> QED
      BY <2>1, <3>1, IdleConsumer, OtherConsumers
  <2>3. CASE RegisterConsumer(r)
    <3>1. pc[r] \notin Consuming /\ UNCHANGED <<flags, inbox>>
      BY <2>3 DEF RegisterConsumer, Consuming
    <3>2. CASE UNCHANGED registered
      BY <2>1, <3>1, <3>2, IdleConsumer, OtherConsumers
    <3>3. CASE ~UNCHANGED registered
      <4>1. /\ flags[r].queue \in Name /\ pc'[r] \in Consuming
            /\ registered' = [registered EXCEPT ![flags[r].queue] = @ \cup {r}]
        BY <1>1, <2>1, <2>3, <3>3 DEF RegisterConsumer, Consuming, Shared
      <4>2. flags[r].queue = Queue(r)
        BY <4>1 DEF Queue
      <4> QED
        BY <2>1, <3>1, <4>1, <4>2, RegisteredConsumer, OtherConsumers
    <3> QED
      BY <3>2, <3>3
  <2>4. CASE NextMessage(r)
    <3>1. pc[r] \in Consuming /\ UNCHANGED <<pc, flags, registered>>
      BY <2>4 DEF NextMessage, broker, Consuming
    <3>2. NoNewcomers(r) /\ ConsumerOK(r)'
      BY <2>1, <3>1 DEF NoNewcomers, ConsumerOK, Queue
    <3> QED
      BY <2>1, <3>2, OtherConsumers
  <2>5. CASE LogMessage(r)
    <3>1. pc'[r] \in Consuming /\ UNCHANGED <<flags, inbox, registered>>
      BY <2>5 DEF LogMessage, broker, Consuming
    <3> QED
      BY <2>1, <3>1, IdleConsumer, OtherConsumers
  <2>6. CASE DeliveriesClosed(r) \/ ShutDown(r) \/ OsExit(r) \/ ConnectionLost(r)
    <3>1. CloseChannel(r)
      BY <2>6 DEF DeliveriesClosed, ShutDown, OsExit, EndAt, ConnectionLost
    <3> QED
      BY <2>1, <3>1, ClosedConsumer, OtherConsumers
  <2> QED
    BY <1>5, <2>2, <2>3, <2>4, <2>5, <2>6 DEF ReadQueue
<1> QED
  BY <1>2, <1>3, <1>4, <1>5 DEF Next, PutStep

-----------------------------------------------------------------------------
(* A test that meets nobody *)

OnlyOf(messages, m) == \A i \in DOMAIN messages : messages[i] = m

LonelyOK(t) ==
  alone[t] /\ Active(t) =>
    /\ \A other \in Process \ {t} : ~Active(other)
    /\ Creates(t) => /\ OnlyOf(contents[Fixed], t) /\ OnlyOf(inbox[t], t)
                     /\ pc[t] = "wait" /\ open[t] => t \in registered[Fixed]
Lonely == \A t \in Test : LonelyOK(t)

LEMMA OnlyOfTail ==
  ASSUME NEW S, NEW messages \in Seq(S), NEW m, OnlyOf(messages, m), messages # <<>>
  PROVE  Head(messages) = m /\ OnlyOf(Tail(messages), m)
<1>1. Len(messages) \in Nat /\ Len(messages) > 0 /\ DOMAIN messages = 1..Len(messages)
  OBVIOUS
<1>2. Len(Tail(messages)) = Len(messages) - 1 /\ DOMAIN Tail(messages) = 1..Len(Tail(messages))
  OBVIOUS
<1>3. \A i \in 1..Len(Tail(messages)) : Tail(messages)[i] = messages[i + 1] /\ i + 1 \in DOMAIN messages
  BY <1>1, <1>2
<1> QED
  BY <1>1, <1>2, <1>3 DEF OnlyOf

LEMMA OnlyOfAppend ==
  ASSUME NEW S, NEW messages \in Seq(S), NEW m \in S, OnlyOf(messages, m)
  PROVE  OnlyOf(Append(messages, m), m)
<1>1. /\ DOMAIN messages = 1..Len(messages) /\ Len(messages) \in Nat
      /\ DOMAIN Append(messages, m) = 1..(Len(messages) + 1)
  OBVIOUS
<1>2. \A i \in 1..(Len(messages) + 1) :
        Append(messages, m)[i] = IF i = Len(messages) + 1 THEN m ELSE messages[i]
  OBVIOUS
<1> QED
  BY <1>1, <1>2 DEF OnlyOf

LEMMA OnlyOfNone == ASSUME NEW m PROVE OnlyOf(<<>>, m)
BY DEF OnlyOf

Step(x) ==
  \/ x \in Test /\ FunctionalTest(x)
  \/ x \in Publisher /\ PutStep(x)
  \/ x \in Reader /\ ReadQueue(x)

(* Whoever takes a step has been running, or begins and is met by the others. *)
LEMMA RunsOrBegins ==
  ASSUME NEW x, Step(x)
  PROVE  \/ pc[x] = "start" /\ Meets(x)
         \/ Active(x) /\ alone' = alone
<1>1. CASE FunctionalTest(x)
  BY <1>1 DEF FunctionalTest, StartTest, Begin, ConnectTest, ConnectToRabbitMQ, DeclareExchange,
       DeclareQueue, QueueBind, SendMessage, Consume, GiveUp, Interrupted, EndAt, Receive,
       ReceiveClosed, Timeout, Select, ConnectionLost, QueueUnbind, QueueDelete, ExchangeDelete,
       CleanupFails, SkipCleanup, Active, Ended
<1>2. CASE PutStep(x)
  BY <1>2 DEF PutStep, StartPublisher, Begin, ConnectPublisher, ConnectToRabbitMQ, PutMessage,
       Active, Ended
<1>3. CASE ReadQueue(x)
  BY <1>3 DEF ReadQueue, StartReader, Begin, ConnectReader, ConnectToRabbitMQ, RegisterConsumer,
       NextMessage, LogMessage, DeliveriesClosed, ShutDown, OsExit, EndAt, ConnectionLost, Active,
       Ended
<1> QED
  BY <1>1, <1>2, <1>3 DEF Step

LEMMA Solitude ==
  ASSUME Lonely, NEW x \in Process, Step(x), Moves(x), NEW t \in Test \ {x}
  PROVE  LonelyOK(t)'
<1>1. t \in Process /\ pc'[t] = pc[t] /\ (Active(t)' <=> Active(t))
  BY Kinds DEF Moves, Active
<1>2. ~(alone'[t] /\ Active(t))
  <2>1. CASE pc[x] = "start" /\ Meets(x)
    BY <2>1 DEF Meets
  <2>2. CASE Active(x) /\ alone' = alone
    BY <2>2 DEF Lonely, LonelyOK
  <2> QED
    BY <2>1, <2>2, RunsOrBegins
<1> QED
  BY <1>1, <1>2 DEF LonelyOK

LEMMA LonelyTest ==
  ASSUME Shared, Own, Control, Consumers, Lonely, NEW t \in Test, FunctionalTest(t)
  PROVE  LonelyOK(t)'
<1> USE Kinds, Names
<1>1. t \in Process /\ Moves(t) /\ TestOK(t) /\ ConsumerOK(t) /\ LonelyOK(t)
  BY TestMoves DEF Control, Consumers, Lonely
<1>2. \A label : Goto(t, label) => pc'[t] = label
  BY <1>1 DEF Goto, Own
<1> SUFFICES ASSUME alone'[t], Active(t)'
             PROVE  /\ \A other \in Process \ {t} : ~Active(other)'
                    /\ Creates(t)' => /\ OnlyOf(contents[Fixed], t)' /\ OnlyOf(inbox[t], t)'
                                      /\ pc'[t] = "wait" /\ open'[t] => t \in registered'[Fixed]
  BY DEF LonelyOK
<1>3. \A other \in Process \ {t} : Active(other)' <=> Active(other)
  BY <1>1 DEF Moves, Active
<1>4. CASE StartTest(t)
  <2>1. /\ pc[t] = "start" /\ pc'[t] \in {"connect", "refused"} /\ Meets(t)
        /\ UNCHANGED <<contents, inbox>>
    BY <1>2, <1>4 DEF StartTest, Begin, broker
  <2>2. contents[Fixed] = <<>> /\ \A other \in Process \ {t} : ~Active(other)
    BY <2>1 DEF Meets
  <2>3. inbox[t] = <<>>
    BY <1>1, <2>1 DEF ConsumerOK, Consuming
  <2> QED
    BY <1>3, <2>1, <2>2, <2>3, OnlyOfNone
<1>5. CASE ~StartTest(t)
  <2>1. flags'[t] = flags[t] /\ (Creates(t)' <=> Creates(t)) /\ alone' = alone /\ Active(t)
    BY <1>5 DEF FunctionalTest, ConnectTest, ConnectToRabbitMQ, DeclareExchange, DeclareQueue,
         QueueBind, SendMessage, Consume, GiveUp, Interrupted, EndAt, Receive, ReceiveClosed,
         Timeout, Select, ConnectionLost, QueueUnbind, QueueDelete, ExchangeDelete, CleanupFails,
         SkipCleanup, Creates, Active, Ended
  <2>2. \A other \in Process \ {t} : ~Active(other)'
    BY <1>1, <1>3, <2>1 DEF LonelyOK
  <2>3. ASSUME Creates(t)
        PROVE  /\ OnlyOf(contents[Fixed], t)' /\ OnlyOf(inbox[t], t)'
               /\ pc'[t] = "wait" /\ open'[t] => t \in registered'[Fixed]
    <3>1. OnlyOf(contents[Fixed], t) /\ OnlyOf(inbox[t], t)
      BY <1>1, <2>1, <2>3 DEF LonelyOK
    <3>2. pc[t] # "refused"
      BY <2>1 DEF Active, Ended
    <3>3. Queue(t) = Fixed /\ Exchange(t) = Fixed /\ RoutingKey(t) = Fixed
      BY <1>1, <2>3, <3>2, FixedNames
    <3>4. contents[Fixed] \in Seq(Message) /\ inbox[t] \in Seq(Message)
      BY <1>1 DEF Shared, Own
    <3>5. CASE \/ ConnectTest(t) \/ DeclareExchange(t) \/ DeclareQueue(t) \/ QueueBind(t)
               \/ ReceiveClosed(t) \/ Timeout(t) \/ QueueUnbind(t)
      <4>1. UNCHANGED <<contents, inbox>> /\ pc'[t] # "wait"
        BY <1>2, <3>5 DEF ConnectTest, ConnectToRabbitMQ, DeclareExchange, DeclareQueue, QueueBind,
             ReceiveClosed, Timeout, Select, QueueUnbind, broker
      <4> QED
        BY <3>1, <4>1
    <3>6. CASE SendMessage(t)
      <4>1. /\ contents'[Fixed] \in {contents[Fixed], Append(contents[Fixed], t)}
            /\ UNCHANGED inbox /\ pc'[t] # "wait"
        BY <1>2, <3>6 DEF SendMessage, Publish
      <4>2. OnlyOf(Append(contents[Fixed], t), t)
        BY <3>1, <3>4, OnlyOfAppend
      <4> QED
        BY <3>1, <4>1, <4>2
    <3>7. CASE Consume(t)
      <4>1. t \in registered'[Fixed] /\ UNCHANGED <<contents, inbox>>
        BY <3>3, <3>7 DEF Consume, Shared
      <4> QED
        BY <3>1, <4>1
    <3>8. CASE GiveUp(t) \/ Interrupted(t) \/ SkipCleanup(t) \/ ExchangeDelete(t) \/ CleanupFails(t)
               \/ ConnectionLost(t)
      <4>1. CloseChannel(t) /\ UNCHANGED contents
        BY <3>8 DEF GiveUp, Interrupted, SkipCleanup, EndAt, ExchangeDelete, CleanupFails,
             ConnectionLost
      <4>2. inbox'[t] = <<>>
        BY <1>1, <4>1 DEF CloseChannel, Own
      <4>3. pc'[t] # "wait" \/ ~open'[t]
        <5>1. CASE ConnectionLost(t)
          BY <1>1, <5>1 DEF ConnectionLost, Own
        <5>2. CASE ~ConnectionLost(t)
          BY <1>2, <3>8, <5>2 DEF GiveUp, Interrupted, SkipCleanup, EndAt, ExchangeDelete,
               CleanupFails
        <5> QED
          BY <5>1, <5>2
      <4> QED
        BY <3>1, <4>1, <4>2, <4>3, OnlyOfNone
    <3>9. CASE Receive(t)
      <4>1. /\ inbox[t] # <<>> /\ inbox'[t] = Tail(inbox[t])
            /\ UNCHANGED contents /\ pc'[t] # "wait"
        BY <1>1, <1>2, <3>9 DEF Receive, Select, broker, Own
      <4>2. OnlyOf(Tail(inbox[t]), t)
        BY <3>1, <3>4, <4>1, OnlyOfTail
      <4> QED
        BY <3>1, <4>1, <4>2
    <3>10. CASE QueueDelete(t)
      <4>1. contents'[Fixed] = <<>> /\ UNCHANGED inbox /\ pc'[t] # "wait"
        BY <1>2, <3>3, <3>10 DEF QueueDelete, Shared
      <4> QED
        BY <3>1, <4>1, OnlyOfNone
    <3> QED
      BY <1>5, <3>5, <3>6, <3>7, <3>8, <3>9, <3>10 DEF FunctionalTest
  <2> QED
    BY <2>1, <2>2, <2>3
<1> QED
  BY <1>4, <1>5

LEMMA LonelyDelivery ==
  ASSUME Shared, Own, Control, Consumers, Lonely, Deliver
  PROVE  Lonely'
<1> USE Kinds, Names
<1>1. PICK q \in queues : \E x \in registered[q] :
        /\ contents[q] # <<>>
        /\ contents' = [contents EXCEPT ![q] = Tail(@)]
        /\ inbox' = [inbox EXCEPT ![x] = Append(@, Head(contents[q]))]
        /\ UNCHANGED <<pc, flags, open, registered, alone>>
  BY DEF Deliver
<1>2. PICK x \in registered[q] :
        /\ contents[q] # <<>>
        /\ contents' = [contents EXCEPT ![q] = Tail(@)]
        /\ inbox' = [inbox EXCEPT ![x] = Append(@, Head(contents[q]))]
        /\ UNCHANGED <<pc, flags, open, registered, alone>>
  BY <1>1
<1>3. q \in Name /\ x \in Process
  BY DEF Shared
<1>4. ASSUME NEW t \in Test
      PROVE  LonelyOK(t)'
  <2>1. LonelyOK(t) /\ (Creates(t)' <=> Creates(t))
    BY <1>2 DEF Lonely, Creates
  <2>2. \A y \in Process : Active(y)' <=> Active(y)
    BY <1>2 DEF Active
  <2>3. ASSUME alone[t], Active(t), Creates(t)
        PROVE  OnlyOf(contents[Fixed], t)' /\ OnlyOf(inbox[t], t)'
    <3>1. OnlyOf(contents[Fixed], t) /\ OnlyOf(inbox[t], t)
      BY <2>1, <2>3 DEF LonelyOK
    <3>2. contents[q] \in Seq(Message) /\ contents[Fixed] \in Seq(Message) /\ inbox[t] \in Seq(Message)
      BY <1>3 DEF Shared, Own
    <3>3. OnlyOf(contents'[Fixed], t)
      <4>1. CASE q = Fixed
        <5>1. OnlyOf(Tail(contents[Fixed]), t)
          BY <1>2, <3>1, <3>2, <4>1, OnlyOfTail
        <5> QED
          BY <1>2, <4>1, <5>1 DEF Shared
      <4>2. CASE q # Fixed
        BY <1>2, <3>1, <4>2 DEF Shared
      <4> QED
        BY <4>1, <4>2
    <3>4. OnlyOf(inbox'[t], t)
      <4>1. CASE x = t
        <5>1. q = Queue(t)
          BY <1>3, <4>1 DEF Consumers, ConsumerOK
        <5>2. q = Fixed
          BY <2>3, <5>1, FixedNames DEF Control, Active, Ended
        <5>3. Head(contents[q]) = t
          BY <1>2, <3>1, <3>2, <5>2, OnlyOfTail
        <5>4. OnlyOf(Append(inbox[t], t), t)
          BY <3>1, <3>2, OnlyOfAppend
        <5> QED
          BY <1>2, <1>3, <4>1, <5>3, <5>4 DEF Own
      <4>2. CASE x # t
        BY <1>2, <3>1, <4>2 DEF Own
      <4> QED
        BY <4>1, <4>2
    <3> QED
      BY <3>3, <3>4
  <2> QED
    BY <1>2, <2>1, <2>2, <2>3 DEF LonelyOK
<1> QED
  BY <1>4 DEF Lonely

LEMMA LonelyStep ==
  ASSUME Shared, Own, Control, Consumers, Lonely, Next
  PROVE  Lonely'
<1>1. ASSUME NEW t \in Test, FunctionalTest(t)
      PROVE  Lonely'
  <2>1. Moves(t) /\ Step(t) /\ t \in Process
    BY <1>1, TestMoves, Kinds DEF Step
  <2> QED
    BY <1>1, <2>1, Solitude, LonelyTest DEF Lonely
<1>2. ASSUME NEW p \in Publisher, PutStep(p)
      PROVE  Lonely'
  <2>1. Moves(p) /\ Step(p) /\ p \in Process /\ p \notin Test
    BY <1>2, PublisherMoves, Kinds, ProcessAssumption DEF Step
  <2> QED
    BY <2>1, Solitude DEF Lonely
<1>3. ASSUME NEW r \in Reader, ReadQueue(r)
      PROVE  Lonely'
  <2>1. Moves(r) /\ Step(r) /\ r \in Process /\ r \notin Test
    BY <1>3, ReaderMoves, Kinds, ProcessAssumption DEF Step
  <2> QED
    BY <2>1, Solitude DEF Lonely
<1> QED
  BY <1>1, <1>2, <1>3, LonelyDelivery DEF Next, PutStep

-----------------------------------------------------------------------------
(* What a test that meets nobody receives *)

ReceivedOK(t) == Creates(t) /\ alone[t] /\ open[t] => result[t] \in {"none", "timeout", t}

LEMMA OwnReceived ==
  ASSUME Own, Control, Lonely, NEW t \in Test, ReceivedOK(t), FunctionalTest(t)
  PROVE  ReceivedOK(t)'
<1>1. t \in Process /\ TestOK(t) /\ TestOK(t)' /\ LonelyOK(t)
  BY Kinds, TestOKStep DEF Control, Lonely
<1>2. CASE pc'[t] \in Early
  BY <1>1, <1>2 DEF TestOK, ReceivedOK
<1>3. CASE ConnectionLost(t) \/ GiveUp(t) \/ CleanupFails(t)
  <2>1. open'[t] = FALSE
    BY <1>1, <1>3 DEF ConnectionLost, GiveUp, CleanupFails, Own
  <2> QED
    BY <2>1 DEF ReceivedOK
<1>4. CASE Interrupted(t) \/ SkipCleanup(t) \/ QueueUnbind(t) \/ QueueDelete(t) \/ ExchangeDelete(t)
  <2>1. UNCHANGED <<flags, open, result, alone>>
    BY <1>4 DEF Interrupted, SkipCleanup, EndAt, QueueUnbind, QueueDelete, ExchangeDelete
  <2> QED
    BY <2>1 DEF ReceivedOK, Creates
<1>5. CASE Receive(t) \/ ReceiveClosed(t) \/ Timeout(t)
  <2>1. UNCHANGED <<flags, open, alone>> /\ pc[t] = "wait"
    BY <1>5 DEF Receive, ReceiveClosed, Timeout, Select
  <2>2. ASSUME Creates(t), alone[t], open[t]
        PROVE  result'[t] \in {"none", "timeout", t}
    <3>1. OnlyOf(inbox[t], t) /\ t \in registered[Fixed]
      BY <1>1, <2>1, <2>2 DEF LonelyOK, Active, Ended
    <3>2. CASE Receive(t)
      <4>1. inbox[t] # <<>> /\ inbox[t] \in Seq(Message) /\ result'[t] = Head(inbox[t])
        BY <1>1, <3>2 DEF Receive, Select, Own
      <4> QED
        BY <3>1, <4>1, OnlyOfTail
    <3>3. CASE ReceiveClosed(t)
      BY <3>1, <3>3, Names DEF ReceiveClosed
    <3>4. CASE Timeout(t)
      BY <3>4 DEF Timeout, Select, Own
    <3> QED
      BY <1>5, <3>2, <3>3, <3>4
  <2> QED
    BY <2>1, <2>2 DEF ReceivedOK, Creates
<1>6. ASSUME StartTest(t) \/ ConnectTest(t) \/ DeclareExchange(t) \/ DeclareQueue(t)
             \/ QueueBind(t) \/ SendMessage(t) \/ Consume(t), pc'[t] \notin Early
      PROVE  ReceivedOK(t)'
  <2>1. \A label : Goto(t, label) => pc'[t] = label
    BY <1>1 DEF Goto, Own
  <2>2. ConnectTest(t) /\ ConnectToRabbitMQ(t, IF Creates(t) THEN "declareExchange" ELSE "publish", "failed")
    BY <1>6, <2>1 DEF StartTest, Begin, ConnectTest, DeclareExchange, DeclareQueue, QueueBind,
         SendMessage, Consume, Early
  <2>3. pc[t] \in Early /\ result' = result
    BY <2>2 DEF ConnectTest, ConnectToRabbitMQ, Early
  <2> QED
    BY <1>1, <2>3 DEF TestOK, ReceivedOK
<1> QED
  BY <1>2, <1>3, <1>4, <1>5, <1>6 DEF FunctionalTest

LEMMA OtherReceived ==
  ASSUME Own, NEW x \in Process, Step(x), Moves(x), NEW t \in Test \ {x}, ReceivedOK(t)
  PROVE  ReceivedOK(t)'
<1>1. /\ t \in Process /\ flags'[t] = flags[t] /\ open'[t] = open[t] /\ result'[t] = result[t]
  BY Kinds DEF Moves
<1>2. alone'[t] => alone[t]
  BY RunsOrBegins DEF Meets
<1> QED
  BY <1>1, <1>2 DEF ReceivedOK, Creates

LEMMA ReceivedStep ==
  ASSUME Own, Control, Lonely, ReceivedIsOwn, Next
  PROVE  ReceivedIsOwn'
<1> SUFFICES ASSUME NEW t \in Test
             PROVE  ReceivedOK(t)'
  BY DEF ReceivedIsOwn, ReceivedOK
<1>1. ReceivedOK(t)
  BY DEF ReceivedIsOwn, ReceivedOK
<1>2. CASE Deliver
  BY <1>1, <1>2 DEF Deliver, ReceivedOK, Creates
<1>3. ASSUME NEW x \in Test, FunctionalTest(x)
      PROVE  ReceivedOK(t)'
  BY <1>1, <1>3, TestMoves, Kinds, OwnReceived, OtherReceived DEF Step
<1>4. ASSUME NEW p \in Publisher, PutStep(p)
      PROVE  ReceivedOK(t)'
  BY <1>1, <1>4, PublisherMoves, Kinds, ProcessAssumption, OtherReceived DEF Step
<1>5. ASSUME NEW r \in Reader, ReadQueue(r)
      PROVE  ReceivedOK(t)'
  BY <1>1, <1>5, ReaderMoves, Kinds, ProcessAssumption, OtherReceived DEF Step
<1> QED
  BY <1>2, <1>3, <1>4, <1>5 DEF Next, PutStep

-----------------------------------------------------------------------------
(* What the tests leave behind *)

(* A test that has made the queue, or the exchange, has not removed it yet, or *)
(* never will.                                                                 *)
KeepsQueue(t) ==
  /\ Creates(t)
  /\ \/ pc[t] \in {"bind", "publish", "consume", "wait", "unbind", "deleteQueue", "failed"}
     \/ pc[t] \in {"deleteExchange", "done"} /\ ~open[t]
KeepsExchange(t) ==
  /\ Creates(t)
  /\ \/ pc[t] \in {"declareQueue", "bind", "publish", "consume", "wait", "unbind", "deleteQueue",
                   "deleteExchange", "failed"}
     \/ pc[t] = "done" /\ ~open[t]

Left ==
  /\ Fixed \in queues => \E t \in Test : KeepsQueue(t)
  /\ Fixed \in exchanges => \E t \in Test : KeepsExchange(t)

LEMMA Keeping ==
  ASSUME Own, Control, NEW t \in Test, FunctionalTest(t)
  PROVE  /\ Fixed \in queues' /\ (Fixed \notin queues \/ KeepsQueue(t)) => KeepsQueue(t)'
         /\ Fixed \in exchanges' /\ (Fixed \notin exchanges \/ KeepsExchange(t))
              => KeepsExchange(t)'
<1>1. t \in Process /\ TestOK(t) /\ TestOK(t)'
  BY Kinds, TestOKStep DEF Control
<1>2. \A label : Goto(t, label) => pc'[t] = label
  BY <1>1 DEF Goto, Own
<1>3. CASE UNCHANGED <<queues, exchanges>> /\ pc[t] \in {"start", "connect", "refused"}
  BY <1>3 DEF KeepsQueue, KeepsExchange
<1>4. CASE DeclareExchange(t) \/ DeclareQueue(t) \/ QueueBind(t) \/ SendMessage(t) \/ Consume(t)
  <2>1. (Creates(t)' <=> Creates(t)) /\ pc[t] # "refused"
    BY <1>4 DEF DeclareExchange, DeclareQueue, QueueBind, SendMessage, Consume, Creates
  <2>2. CASE DeclareExchange(t) \/ DeclareQueue(t) \/ QueueBind(t)
    <3>1. Creates(t)
      BY <1>1, <2>2 DEF DeclareExchange, DeclareQueue, QueueBind, TestOK
    <3>2. /\ pc[t] = "declareExchange" => pc'[t] = "declareQueue" /\ queues' = queues
          /\ pc[t] # "declareExchange" => pc'[t] \in {"bind", "publish"}
      BY <1>2, <2>2 DEF DeclareExchange, DeclareQueue, QueueBind
    <3> QED
      BY <2>1, <2>2, <3>1, <3>2 DEF DeclareExchange, DeclareQueue, QueueBind, KeepsQueue, KeepsExchange
  <2>3. CASE SendMessage(t) \/ Consume(t)
    <3>1. pc'[t] \in {"consume", "wait"} /\ UNCHANGED <<exchanges, queues>>
      BY <1>2, <2>3 DEF SendMessage, Consume
    <3> QED
      BY <2>1, <3>1 DEF KeepsQueue, KeepsExchange
  <2> QED
    BY <1>4, <2>2, <2>3
<1>5. CASE GiveUp(t) \/ Interrupted(t)
  <2>1. pc'[t] = "failed" /\ UNCHANGED <<flags, exchanges, queues>>
    BY <1>2, <1>5 DEF GiveUp, Interrupted, EndAt
  <2> QED
    BY <2>1 DEF KeepsQueue, KeepsExchange, Creates
<1>6. CASE Receive(t) \/ ReceiveClosed(t) \/ Timeout(t)
  <2>1. pc'[t] = "unbind" /\ UNCHANGED <<flags, exchanges, queues>>
    BY <1>2, <1>6 DEF Receive, ReceiveClosed, Timeout, Select, broker
  <2> QED
    BY <2>1 DEF KeepsQueue, KeepsExchange, Creates
<1>7. CASE ConnectionLost(t)
  <2>1. open'[t] = FALSE /\ UNCHANGED <<pc, flags, exchanges, queues>>
    BY <1>1, <1>7 DEF ConnectionLost, Own
  <2> QED
    BY <2>1 DEF KeepsQueue, KeepsExchange, Creates
<1>8. CASE QueueUnbind(t)
  <2>1. pc'[t] = "deleteQueue" /\ UNCHANGED <<flags, exchanges, queues>>
    BY <1>2, <1>8 DEF QueueUnbind
  <2> QED
    BY <2>1 DEF KeepsQueue, KeepsExchange, Creates
<1>9. CASE QueueDelete(t) \/ ExchangeDelete(t)
  <2>1. Creates(t) /\ pc[t] # "refused" /\ pc[t] \in {"deleteQueue", "deleteExchange"}
    BY <1>1, <1>9 DEF QueueDelete, ExchangeDelete, TestOK
  <2>2. Queue(t) = Fixed /\ Exchange(t) = Fixed
    BY <1>1, <2>1, FixedNames
  <2>3. CASE QueueDelete(t)
    <3>1. Fixed \notin queues' /\ pc'[t] = "deleteExchange" /\ UNCHANGED <<flags, exchanges>>
      BY <1>2, <2>2, <2>3 DEF QueueDelete
    <3> QED
      BY <3>1 DEF KeepsExchange, Creates
  <2>4. CASE ExchangeDelete(t)
    <3>1. /\ Fixed \notin exchanges' /\ pc[t] = "deleteExchange" /\ open[t]
          /\ UNCHANGED <<flags, queues>>
      BY <1>2, <2>2, <2>4 DEF ExchangeDelete
    <3> QED
      BY <3>1 DEF KeepsQueue, Creates
  <2> QED
    BY <1>9, <2>3, <2>4
<1>10. CASE CleanupFails(t)
  <2>1. open'[t] = FALSE /\ UNCHANGED <<flags, exchanges, queues>>
    BY <1>1, <1>10 DEF CleanupFails, Own
  <2>2. pc'[t] \in {"deleteQueue", "deleteExchange", "done"}
    BY <1>2, <1>10 DEF CleanupFails
  <2> QED
    BY <2>1, <2>2 DEF KeepsQueue, KeepsExchange, Creates
<1>11. CASE SkipCleanup(t)
  BY <1>11 DEF SkipCleanup, EndAt, KeepsQueue, KeepsExchange
<1>12. CASE StartTest(t) \/ ConnectTest(t)
  BY <1>3, <1>12 DEF StartTest, Begin, ConnectTest, ConnectToRabbitMQ, broker
<1> QED
  BY <1>4, <1>5, <1>6, <1>7, <1>8, <1>9, <1>10, <1>11, <1>12 DEF FunctionalTest

LEMMA OtherKeeps ==
  ASSUME NEW x, Moves(x), NEW t \in Test \ {x}
  PROVE  (KeepsQueue(t)' <=> KeepsQueue(t)) /\ (KeepsExchange(t)' <=> KeepsExchange(t))
BY Kinds DEF Moves, KeepsQueue, KeepsExchange, Creates

LEMMA LeftStep ==
  ASSUME Own, Control, Left, Next
  PROVE  Left'
<1>1. ASSUME NEW x \in Process, Moves(x), x \notin Test, UNCHANGED <<queues, exchanges>>
      PROVE  Left'
  BY <1>1, OtherKeeps DEF Left
<1>2. ASSUME NEW t \in Test, FunctionalTest(t)
      PROVE  Left'
  <2>1. \A other \in Test \ {t} : /\ KeepsQueue(other)' <=> KeepsQueue(other)
                                  /\ KeepsExchange(other)' <=> KeepsExchange(other)
    BY <1>2, TestMoves, OtherKeeps
  <2>2. Fixed \in queues' => \E other \in Test : KeepsQueue(other)'
    BY <1>2, <2>1, Keeping DEF Left
  <2>3. Fixed \in exchanges' => \E other \in Test : KeepsExchange(other)'
    BY <1>2, <2>1, Keeping DEF Left
  <2> QED
    BY <2>2, <2>3 DEF Left
<1>3. ASSUME NEW p \in Publisher, PutStep(p)
      PROVE  Left'
  <2>1. UNCHANGED <<queues, exchanges>>
    BY <1>3 DEF PutStep, StartPublisher, Begin, ConnectPublisher, ConnectToRabbitMQ, PutMessage,
         broker
  <2> QED
    BY <1>1, <1>3, <2>1, PublisherMoves, Kinds, ProcessAssumption
<1>4. ASSUME NEW r \in Reader, ReadQueue(r)
      PROVE  Left'
  <2>1. UNCHANGED <<queues, exchanges>>
    BY <1>4 DEF ReadQueue, StartReader, Begin, ConnectReader, ConnectToRabbitMQ, RegisterConsumer,
         NextMessage, LogMessage, DeliveriesClosed, ShutDown, OsExit, EndAt, ConnectionLost, broker
  <2> QED
    BY <1>1, <1>4, <2>1, ReaderMoves, Kinds, ProcessAssumption
<1>5. CASE Deliver
  BY <1>5 DEF Deliver, Left, KeepsQueue, KeepsExchange, Creates
<1> QED
  BY <1>2, <1>3, <1>4, <1>5 DEF Next, PutStep

-----------------------------------------------------------------------------
(* The messages of somebody else's queue *)

Has(messages, m) == \E i \in DOMAIN messages : messages[i] = m

LEMMA HasAppend ==
  ASSUME NEW S, NEW messages \in Seq(S), NEW x \in S, NEW m, Has(messages, m) \/ x = m
  PROVE  Has(Append(messages, x), m)
<1>1. /\ DOMAIN messages = 1..Len(messages) /\ Len(messages) \in Nat
      /\ DOMAIN Append(messages, x) = 1..(Len(messages) + 1)
  OBVIOUS
<1>2. \A i \in 1..(Len(messages) + 1) :
        Append(messages, x)[i] = IF i = Len(messages) + 1 THEN x ELSE messages[i]
  OBVIOUS
<1>3. CASE x = m
  BY <1>1, <1>2, <1>3 DEF Has
<1>4. CASE Has(messages, m)
  <2>1. PICK i \in 1..Len(messages) : messages[i] = m
    BY <1>1, <1>4 DEF Has
  <2>2. i \in 1..(Len(messages) + 1) /\ i # Len(messages) + 1
    BY <1>1
  <2> QED
    BY <1>1, <1>2, <2>1, <2>2 DEF Has
<1> QED
  BY <1>3, <1>4

LEMMA HasTail ==
  ASSUME NEW S, NEW messages \in Seq(S), NEW m, Has(messages, m)
  PROVE  messages # <<>> /\ (Head(messages) = m \/ Has(Tail(messages), m))
<1>1. DOMAIN messages = 1..Len(messages) /\ Len(messages) \in Nat
  OBVIOUS
<1>2. PICK i \in 1..Len(messages) : messages[i] = m
  BY <1>1 DEF Has
<1>3. messages # <<>>
  BY <1>1, <1>2
<1>4. CASE i = 1
  BY <1>2, <1>3, <1>4
<1>5. CASE i # 1
  <2>1. i - 1 \in 1..Len(Tail(messages)) /\ DOMAIN Tail(messages) = 1..Len(Tail(messages))
    BY <1>1, <1>2, <1>3, <1>5
  <2>2. Tail(messages)[i - 1] = messages[(i - 1) + 1] /\ (i - 1) + 1 = i
    BY <1>1, <1>2, <1>3, <2>1
  <2> QED
    BY <1>2, <1>3, <2>1, <2>2 DEF Has
<1> QED
  BY <1>4, <1>5

(* On its way in somebody else's queue, or to a consumer of that queue *)
Held(m) ==
  \/ Has(contents[Mine], m)
  \/ \E x \in Process : Queue(x) = Mine /\ Has(inbox[x], m)
  \/ \E r \in Reader : Queue(r) = Mine /\ holding[r] = m
Safe(m) ==
  \/ Held(m) \/ m \in logged
  \/ \E t \in Test : Takes(t)
  \/ \E r \in Reader : CutOff(r)
Kept == \A p \in Publisher : Routed(p) => Safe(p)

LEMMA TheirQueue ==
  ASSUME Own, NEW x \in Process, Queue(x) = Mine
  PROVE  flags[x].queue = Mine
BY Names DEF Queue, Used

(* Only a test that was given the queue is sent what is in it. *)
LEMMA TakingTest ==
  ASSUME Own, Control, Consumers, NEW t \in Test, Queue(t) = Mine, inbox[t] # <<>>
  PROVE  Takes(t)
<1>1. TestOK(t) /\ ConsumerOK(t) /\ flags[t].queue = Mine /\ t \in Process
  BY Kinds, TheirQueue DEF Control, Consumers
<1>2. pc[t] \in {"wait", "unbind", "deleteQueue", "deleteExchange"}
  BY <1>1 DEF ConsumerOK, Consuming, TestOK, TestLabel, Early
<1>3. flags[t].exchange \in Flag /\ flags[t].exchange # NoName
  BY <1>1, <1>2, Names DEF TestOK, ParametersOK
<1>4. flags[t].exchange = Mine /\ ~Creates(t)
  BY <1>3 DEF Flag, Creates
<1> QED
  BY <1>1, <1>2, <1>4 DEF TestOK, Takes

LEMMA TakesStays ==
  ASSUME Own, Control, NEW t \in Test, Takes(t), FunctionalTest(t)
  PROVE  Takes(t)'
<1>1. t \in Process /\ ~Creates(t) /\ flags[t].exchange = Mine
  BY Kinds, Names DEF Takes, Creates
<1>2. \A label : Goto(t, label) => pc'[t] = label
  BY <1>1 DEF Goto, Own
<1>3. flags' = flags /\ pc'[t] \in {"wait", "unbind", "done", "failed"}
  <2>1. CASE Interrupted(t) \/ SkipCleanup(t)
    BY <1>2, <2>1 DEF Interrupted, SkipCleanup, EndAt
  <2>2. CASE Receive(t) \/ ReceiveClosed(t) \/ Timeout(t) \/ ConnectionLost(t)
    BY <1>2, <2>2 DEF Receive, ReceiveClosed, Timeout, Select, ConnectionLost, Takes
  <2> QED
    BY <1>1, <2>1, <2>2 DEF FunctionalTest, StartTest, Begin, ConnectTest, DeclareExchange,
         DeclareQueue, QueueBind, SendMessage, Consume, GiveUp, QueueUnbind, QueueDelete,
         ExchangeDelete, CleanupFails, Takes
<1> QED
  BY <1>3 DEF Takes

LEMMA CutOffStays ==
  ASSUME Own, NEW r \in Reader, CutOff(r), ReadQueue(r)
  PROVE  CutOff(r)'
<1>1. r \in Process
  BY Kinds
<1>2. \A label : Goto(r, label) => pc'[r] = label
  BY <1>1 DEF Goto, Own
<1>3. flags' = flags /\ ~open'[r] /\ pc'[r] \in {"reading", "closing", "exited"}
  <2>1. CASE NextMessage(r) \/ LogMessage(r)
    BY <2>1 DEF NextMessage, LogMessage, CutOff
  <2>2. CASE DeliveriesClosed(r) \/ OsExit(r)
    BY <1>2, <2>2 DEF DeliveriesClosed, OsExit, EndAt, CutOff
  <2>3. CASE ShutDown(r)
    BY <1>1, <1>2, <2>3 DEF ShutDown, EndAt, Own
  <2> QED
    BY <2>1, <2>2, <2>3 DEF ReadQueue, StartReader, Begin, ConnectReader, RegisterConsumer,
         ConnectionLost, CutOff
<1> QED
  BY <1>3 DEF CutOff

(* The others keep what they had. *)
LEMMA OthersSafe ==
  ASSUME NEW x \in Process, Moves(x), NEW y \in Process \ {x}, NEW m
  PROVE  /\ Queue(y)' = Queue(y) /\ (Has(inbox[y], m)' <=> Has(inbox[y], m))
         /\ y \in Test => (Takes(y)' <=> Takes(y))
         /\ y \in Reader => (CutOff(y)' <=> CutOff(y)) /\ holding'[y] = holding[y]
BY DEF Moves, Queue, Takes, CutOff, Has

LEMMA PublishedKept ==
  ASSUME Shared, NEW x \in Message, NEW e, NEW k, Publish(x, e, k), NEW m, Has(contents[Mine], m)
  PROVE  Has(contents'[Mine], m)
<1>1. contents[Mine] \in Seq(Message) /\ contents'[Mine] \in {contents[Mine], Append(contents[Mine], x)}
  BY Names DEF Shared, Publish
<1>2. Has(Append(contents[Mine], x), m)
  BY <1>1, HasAppend
<1> QED
  BY <1>1, <1>2

LEMMA ContentsKept ==
  ASSUME Shared, Own, Control, NEW x \in Process, Step(x), NEW m, Has(contents[Mine], m)
  PROVE  Has(contents'[Mine], m)
<1>1. CASE UNCHANGED contents
  BY <1>1
<1>2. ASSUME x \in Test, FunctionalTest(x)
      PROVE  Has(contents'[Mine], m)
  <2>1. CASE SendMessage(x)
    BY <1>2, <2>1, Kinds, PublishedKept DEF SendMessage
  <2>2. CASE QueueDelete(x)
    <3>1. Queue(x) = Fixed
      BY <1>2, <2>2, FixedNames DEF QueueDelete, Control, TestOK
    <3> QED
      BY <2>2, <3>1, Names DEF QueueDelete, Shared
  <2>3. CASE ~(SendMessage(x) \/ QueueDelete(x))
    BY <1>1, <1>2, <2>3 DEF FunctionalTest, StartTest, Begin, ConnectTest, ConnectToRabbitMQ,
         DeclareExchange, DeclareQueue, QueueBind, Consume, GiveUp, Interrupted, EndAt, Receive,
         ReceiveClosed, Timeout, Select, ConnectionLost, QueueUnbind, ExchangeDelete,
         CleanupFails, SkipCleanup, broker
  <2> QED
    BY <2>1, <2>2, <2>3
<1>3. ASSUME x \in Publisher, PutStep(x)
      PROVE  Has(contents'[Mine], m)
  <2>1. UNCHANGED contents \/ Publish(x, flags[x].exchange, flags[x].key)
    BY <1>3 DEF PutStep, StartPublisher, Begin, ConnectPublisher, ConnectToRabbitMQ, PutMessage,
         broker
  <2> QED
    BY <1>1, <1>3, <2>1, Kinds, PublishedKept
<1>4. ASSUME ReadQueue(x)
      PROVE  UNCHANGED contents
  BY <1>4 DEF ReadQueue, StartReader, Begin, ConnectReader, ConnectToRabbitMQ, RegisterConsumer,
       NextMessage, LogMessage, DeliveriesClosed, ShutDown, OsExit, EndAt, ConnectionLost, broker
<1> QED
  BY <1>1, <1>2, <1>3, <1>4 DEF Step

(* What a reader was sent it logs, unless it is cut off. *)
LEMMA ReaderKeeps ==
  ASSUME Own, Control, Consumers, NEW r \in Reader, ReadQueue(r), NEW m \in Message,
         Queue(r) = Mine, Has(inbox[r], m) \/ holding[r] = m
  PROVE  \/ Queue(r)' = Mine /\ (Has(inbox'[r], m) \/ holding'[r] = m)
         \/ m \in logged'
         \/ CutOff(r)'
<1>1. r \in Process /\ m # "none" /\ inbox[r] \in Seq(Message) /\ ReaderOK(r) /\ ConsumerOK(r)
  BY Kinds, ProcessAssumption DEF Own, Control, Consumers, Message
<1>2. (inbox[r] # <<>> /\ (Head(inbox[r]) = m \/ Has(Tail(inbox[r]), m))) \/ holding[r] = m
  BY <1>1, HasTail
<1>3. pc[r] \in {"reading", "closing"} /\ flags[r].queue = Mine
  BY <1>1, <1>2, TheirQueue DEF ReaderOK, ReaderLabel, ConsumerOK, Consuming
<1>4. \A label : Goto(r, label) => pc'[r] = label
  BY <1>1 DEF Goto, Own
<1>5. flags' = flags /\ Queue(r)' = Mine
  BY <1>3 DEF ReadQueue, StartReader, Begin, ConnectReader, RegisterConsumer, NextMessage,
       LogMessage, DeliveriesClosed, ShutDown, OsExit, EndAt, ConnectionLost, Queue
<1>6. CASE NextMessage(r)
  <2>1. /\ holding[r] = "none" /\ holding'[r] = Head(inbox[r]) /\ inbox'[r] = Tail(inbox[r])
    BY <1>1, <1>6 DEF NextMessage, Own
  <2> QED
    BY <1>1, <1>2, <1>5, <2>1
<1>7. CASE LogMessage(r)
  BY <1>5, <1>7 DEF LogMessage
<1>8. CASE DeliveriesClosed(r)
  BY <1>1, <1>2, <1>8 DEF DeliveriesClosed
<1>9. CASE ShutDown(r) \/ ConnectionLost(r)
  <2>1. ~open'[r] /\ pc'[r] \in {"reading", "closing"}
    BY <1>1, <1>3, <1>4, <1>9 DEF ShutDown, ConnectionLost, EndAt, Own
  <2> QED
    BY <1>3, <1>5, <2>1 DEF CutOff
<1>10. CASE OsExit(r)
  <2>1. ~open'[r] /\ pc'[r] = "exited"
    BY <1>1, <1>4, <1>10 DEF OsExit, EndAt, ReaderOK
  <2> QED
    BY <1>3, <1>5, <2>1 DEF CutOff
<1> QED
  BY <1>3, <1>6, <1>7, <1>8, <1>9, <1>10
     DEF ReadQueue, StartReader, Begin, ConnectReader, RegisterConsumer

LEMMA LoggedStays ==
  ASSUME NEW x, Step(x)
  PROVE  logged \subseteq logged'
<1>1. CASE FunctionalTest(x)
  BY <1>1 DEF FunctionalTest, StartTest, Begin, ConnectTest, ConnectToRabbitMQ, DeclareExchange,
       DeclareQueue, QueueBind, SendMessage, Consume, GiveUp, Interrupted, EndAt, Receive,
       ReceiveClosed, Timeout, Select, ConnectionLost, QueueUnbind, QueueDelete, ExchangeDelete,
       CleanupFails, SkipCleanup
<1>2. CASE PutStep(x)
  BY <1>2 DEF PutStep, StartPublisher, Begin, ConnectPublisher, ConnectToRabbitMQ, PutMessage
<1>3. CASE ReadQueue(x)
  BY <1>3 DEF ReadQueue, StartReader, Begin, ConnectReader, ConnectToRabbitMQ, RegisterConsumer,
       NextMessage, LogMessage, DeliveriesClosed, ShutDown, OsExit, EndAt, ConnectionLost
<1> QED
  BY <1>1, <1>2, <1>3 DEF Step

LEMMA SafeStep ==
  ASSUME Shared, Own, Control, Consumers, NEW x \in Process, Step(x), Moves(x),
         NEW m \in Message, Safe(m)
  PROVE  Safe(m)'
<1> USE Kinds
<1>1. CASE Has(contents[Mine], m)
  BY <1>1, ContentsKept DEF Safe, Held
<1>2. CASE m \in logged
  BY <1>2, LoggedStays DEF Safe
<1>3. ASSUME NEW t \in Test, Takes(t)
      PROVE  Takes(t)'
  <2>1. CASE t = x
    BY <1>3, <2>1, TakesStays, ProcessAssumption DEF Step
  <2>2. CASE t # x
    BY <1>3, <2>2, OthersSafe
  <2> QED
    BY <2>1, <2>2
<1>4. ASSUME NEW r \in Reader, CutOff(r)
      PROVE  CutOff(r)'
  <2>1. CASE r = x
    BY <1>4, <2>1, CutOffStays, ProcessAssumption DEF Step
  <2>2. CASE r # x
    BY <1>4, <2>2, OthersSafe
  <2> QED
    BY <2>1, <2>2
<1>5. ASSUME NEW r \in Reader, Queue(r) = Mine, Has(inbox[r], m) \/ holding[r] = m
      PROVE  Safe(m)'
  <2>1. CASE r = x
    <3>1. ReadQueue(r)
      BY <2>1, ProcessAssumption DEF Step
    <3> QED
      BY <1>5, <3>1, ReaderKeeps DEF Safe, Held
  <2>2. CASE r # x
    BY <1>5, <2>2, OthersSafe DEF Safe, Held
  <2> QED
    BY <2>1, <2>2
<1>6. ASSUME NEW y \in Process, Queue(y) = Mine, Has(inbox[y], m)
      PROVE  Safe(m)'
  <2>1. inbox[y] # <<>>
    BY <1>6, HasTail DEF Own
  <2>2. y \notin Publisher
    BY <2>1 DEF Control, PublisherOK, PublisherLabel, Consumers, ConsumerOK, Consuming
  <2>3. CASE y \in Test
    BY <1>3, <1>6, <2>1, <2>3, TakingTest DEF Safe
  <2>4. CASE y \in Reader
    BY <1>5, <1>6, <2>4
  <2> QED
    BY <2>2, <2>3, <2>4
<1> QED
  BY <1>1, <1>2, <1>3, <1>4, <1>5, <1>6 DEF Safe, Held

LEMMA SafeDelivery ==
  ASSUME Shared, Own, Consumers, Deliver, NEW m \in Message, Safe(m)
  PROVE  Safe(m)'
<1>1. PICK q \in queues : \E x \in registered[q] :
        /\ contents[q] # <<>>
        /\ contents' = [contents EXCEPT ![q] = Tail(@)]
        /\ inbox' = [inbox EXCEPT ![x] = Append(@, Head(contents[q]))]
        /\ UNCHANGED <<pc, flags, open, holding, logged>>
  BY DEF Deliver
<1>2. PICK x \in registered[q] :
        /\ contents[q] # <<>>
        /\ contents' = [contents EXCEPT ![q] = Tail(@)]
        /\ inbox' = [inbox EXCEPT ![x] = Append(@, Head(contents[q]))]
        /\ UNCHANGED <<pc, flags, open, holding, logged>>
  BY <1>1
<1>3. /\ q \in Name /\ x \in Process /\ contents[q] \in Seq(Message) /\ inbox[x] \in Seq(Message)
  BY DEF Shared, Own
<1>4. Head(contents[q]) \in Message /\ inbox'[x] = Append(inbox[x], Head(contents[q]))
  BY <1>2, <1>3 DEF Own
<1>5. \A y \in Process : Queue(y)' = Queue(y)
  BY <1>2 DEF Queue
<1>6. CASE Has(contents[Mine], m)
  <2>1. CASE q = Mine
    <3>1. Head(contents[q]) = m \/ Has(Tail(contents[q]), m)
      BY <1>3, <1>6, <2>1, HasTail
    <3>2. CASE Has(Tail(contents[q]), m)
      <4>1. contents'[Mine] = Tail(contents[q])
        BY <1>2, <1>3, <2>1 DEF Shared
      <4> QED
        BY <3>2, <4>1 DEF Safe, Held
    <3>3. CASE Head(contents[q]) = m
      <4>1. Has(inbox'[x], m)
        BY <1>3, <1>4, <3>3, HasAppend
      <4>2. Queue(x) = Mine
        BY <1>3, <2>1 DEF Consumers, ConsumerOK
      <4> QED
        BY <1>3, <1>5, <4>1, <4>2 DEF Safe, Held
    <3> QED
      BY <3>1, <3>2, <3>3
  <2>2. CASE q # Mine
    <3>1. contents'[Mine] = contents[Mine]
      BY <1>2, <2>2, Names DEF Shared
    <3> QED
      BY <1>6, <3>1 DEF Safe, Held
  <2> QED
    BY <2>1, <2>2
<1>7. ASSUME NEW y \in Process, Queue(y) = Mine, Has(inbox[y], m)
      PROVE  Safe(m)'
  <2>1. CASE y = x
    <3>1. Has(inbox'[x], m)
      BY <1>3, <1>4, <1>7, <2>1, HasAppend
    <3> QED
      BY <1>3, <1>5, <1>7, <2>1, <3>1 DEF Safe, Held
  <2>2. CASE y # x
    <3>1. inbox'[y] = inbox[y]
      BY <1>2, <1>3, <2>2 DEF Own
    <3> QED
      BY <1>5, <1>7, <3>1 DEF Safe, Held
  <2> QED
    BY <2>1, <2>2
<1>8. ASSUME NEW r \in Reader, Queue(r) = Mine, holding[r] = m
      PROVE  Safe(m)'
  BY <1>2, <1>5, <1>8, Kinds DEF Safe, Held
<1>9. CASE m \in logged \/ (\E t \in Test : Takes(t)) \/ \E r \in Reader : CutOff(r)
  BY <1>2, <1>9 DEF Safe, Takes, CutOff
<1> QED
  BY <1>6, <1>7, <1>8, <1>9 DEF Safe, Held

(* A message that is sent to somebody else's exchange is in the queue. *)
LEMMA SentIsHeld ==
  ASSUME Shared, Own, Broker, NEW p \in Publisher, PutStep(p), Routed(p)'
  PROVE  Safe(p)'
<1>1. p \in Process /\ p \in Message
  BY Kinds
<1>2. \A label : Goto(p, label) => pc'[p] = label
  BY <1>1 DEF Goto, Own
<1>3. PutMessage(p) /\ Publish(p, flags[p].exchange, flags[p].key)
  BY <1>2 DEF PutStep, StartPublisher, Begin, ConnectPublisher, ConnectToRabbitMQ, PutMessage, Routed
<1>4. flags[p].exchange = Mine /\ flags[p].key = Mine
  BY <1>3 DEF PutMessage, Routed
<1>5. contents'[Mine] = Append(contents[Mine], p)
  BY <1>3, <1>4, Names DEF Publish, Broker, Theirs
<1>6. Has(Append(contents[Mine], p), p)
  BY <1>1, Names, HasAppend DEF Shared
<1> QED
  BY <1>5, <1>6 DEF Safe, Held

LEMMA KeptStep ==
  ASSUME Shared, Own, Control, Broker, Consumers, Kept, Next
  PROVE  Kept'
<1> SUFFICES ASSUME NEW p \in Publisher, Routed(p)'
             PROVE  Safe(p)'
  BY DEF Kept
<1>1. p \in Process /\ p \in Message
  BY Kinds
<1>2. ASSUME NEW x \in Process \ {p}, Step(x), Moves(x)
      PROVE  Safe(p)'
  <2>1. Routed(p)
    BY <1>1, <1>2 DEF Moves, Routed
  <2> QED
    BY <1>1, <1>2, <2>1, SafeStep DEF Kept
<1>3. CASE Deliver
  <2>1. Routed(p)
    BY <1>3 DEF Deliver, Routed
  <2> QED
    BY <1>1, <1>3, <2>1, SafeDelivery DEF Kept
<1>4. ASSUME NEW t \in Test, FunctionalTest(t)
      PROVE  Safe(p)'
  BY <1>2, <1>4, TestMoves, Kinds, ProcessAssumption DEF Step
<1>5. ASSUME NEW x \in Publisher, PutStep(x)
      PROVE  Safe(p)'
  BY <1>2, <1>5, PublisherMoves, Kinds, SentIsHeld DEF Step
<1>6. ASSUME NEW r \in Reader, ReadQueue(r)
      PROVE  Safe(p)'
  BY <1>2, <1>6, ReaderMoves, Kinds, ProcessAssumption DEF Step
<1> QED
  BY <1>3, <1>4, <1>5, <1>6 DEF Next, PutStep

-----------------------------------------------------------------------------
(* The theorems *)

ToolsInv ==
  /\ Shared /\ Own /\ Control /\ Broker /\ Consumers /\ Lonely /\ ReceivedIsOwn
  /\ Left /\ Kept

LEMMA ToolsInit ==
  ASSUME Init
  PROVE  ToolsInv
<1> USE Kinds, Names
<1>1. Shared /\ Broker
  BY DEF Init, Shared, Broker, Theirs
<1>2. Own
  <2>1. [exchange |-> NoName, queue |-> NoName, key |-> NoName] \in Flags
    BY DEF Flags, Named
  <2>2. "start" \in Label
    BY DEF Label, TestLabel, Early
  <2>3. pc \in [Process -> Label] /\ flags \in [Process -> Flags]
    BY <2>1, <2>2 DEF Init
  <2>4. /\ open \in [Process -> BOOLEAN] /\ alone \in [Test -> BOOLEAN]
        /\ inbox \in [Process -> Seq(Message)]
    BY DEF Init
  <2>5. /\ result \in [Test -> Message \cup {"none", "closed", "timeout"}]
        /\ holding \in [Reader -> Message \cup {"none"}]
    BY DEF Init
  <2> QED
    BY <2>3, <2>4, <2>5 DEF Own
<1>3. Control
  <2>1. ASSUME NEW t \in Test
        PROVE  TestOK(t)
    <3>1. /\ pc[t] = "start" /\ result[t] = "none"
          /\ flags[t] = [exchange |-> NoName, queue |-> NoName, key |-> NoName]
      BY DEF Init
    <3>2. flags[t] \in [exchange : Flag, queue : Flag, key : Flag] /\ ParametersOK(flags[t])
      BY <3>1 DEF Flag, ParametersOK
    <3> QED
      BY <3>1, <3>2 DEF TestOK, TestLabel, Early
  <2>2. ASSUME NEW p \in Publisher
        PROVE  PublisherOK(p)
    BY DEF Init, PublisherOK, PublisherLabel
  <2>3. ASSUME NEW r \in Reader
        PROVE  ReaderOK(r)
    BY DEF Init, ReaderOK, ReaderLabel
  <2> QED
    BY <2>1, <2>2, <2>3 DEF Control
<1>4. Consumers
  BY DEF Init, Consumers, ConsumerOK
<1>5. Lonely /\ ReceivedIsOwn
  BY DEF Init, Lonely, LonelyOK, ReceivedIsOwn
<1>6. Left
  BY DEF Init, Left
<1>7. Kept
  BY DEF Init, Kept, Routed
<1> QED
  BY <1>1, <1>2, <1>3, <1>4, <1>5, <1>6, <1>7 DEF ToolsInv

LEMMA ToolsStep ==
  ASSUME ToolsInv, [Next]_vars
  PROVE  ToolsInv'
<1>1. CASE Next
  <2>1. Shared /\ Own /\ Control /\ Broker /\ Consumers /\ Lonely /\ ReceivedIsOwn /\ Left /\ Kept
    BY DEF ToolsInv
  <2>2. Shared' /\ Own'
    BY <1>1, <2>1, SharedStep, OwnStep
  <2>3. Control' /\ Broker' /\ Consumers'
    BY <1>1, <2>1, ControlStep, BrokerStep, ConsumersStep
  <2>4. Lonely' /\ ReceivedIsOwn'
    BY <1>1, <2>1, LonelyStep, ReceivedStep
  <2>5. Left' /\ Kept'
    BY <1>1, <2>1, LeftStep, KeptStep
  <2> QED
    BY <2>2, <2>3, <2>4, <2>5 DEF ToolsInv
<1>2. CASE UNCHANGED vars
  BY <1>2 DEF vars, broker, ToolsInv, Shared, Own, Control, TestOK, PublisherOK, ReaderOK, Creates,
       Broker, Consumers, ConsumerOK, Queue, Lonely, LonelyOK, Active, OnlyOf, ReceivedIsOwn, Left,
       KeepsQueue, KeepsExchange, Kept, Routed, Safe, Held, Has, Takes, CutOff
<1> QED
  BY <1>1, <1>2

LEMMA Invariance == Spec => []ToolsInv
BY ToolsInit, ToolsStep, PTL DEF Spec

LEMMA TypesHold ==
  ASSUME ToolsInv
  PROVE  TypeOK
<1>1. /\ Shared /\ Own /\ Control /\ Broker /\ Consumers
  BY DEF ToolsInv
<1>2. Label = Ended \cup {"connect", "declareExchange", "declareQueue", "bind", "publish",
                "consume", "wait", "unbind", "deleteQueue", "deleteExchange", "put", "register",
                "reading", "closing"}
  BY DEF Label, TestLabel, PublisherLabel, ReaderLabel, Early, Ended
<1>3. ASSUME NEW p \in Process
      PROVE  /\ inbox[p] \in Seq(Message)
             /\ ~Active(p) => inbox[p] = <<>> /\ \A q \in Name : p \notin registered[q]
  <2>1. inbox[p] \in Seq(Message) /\ ConsumerOK(p)
    BY <1>1 DEF Own, Consumers
  <2>2. ~Active(p) => pc[p] \notin Consuming
    BY DEF Active, Ended, Consuming
  <2> QED
    BY <2>1, <2>2 DEF ConsumerOK
<1>4. ASSUME NEW r \in Reader, holding[r] # "none"
      PROVE  Active(r)
  BY <1>1, <1>4 DEF Control, ReaderOK, Active, Ended
<1>5. /\ pc \in [Process -> Ended \cup {"connect", "declareExchange", "declareQueue", "bind",
              "publish", "consume", "wait", "unbind", "deleteQueue", "deleteExchange", "put",
              "register", "reading", "closing"}]
      /\ flags \in [Process -> [exchange : Name \cup {NoName}, queue : Name \cup {NoName},
                                key : Name \cup {NoName}]]
  BY <1>1, <1>2 DEF Own, Flags, Named
<1> QED
  BY <1>1, <1>3, <1>4, <1>5 DEF TypeOK, Own, Shared, Broker

LEMMA WordHolds ==
  ASSUME ToolsInv
  PROVE  TestKeepsItsWord
<1>1. ReceivedIsOwn /\ Left
  BY DEF ToolsInv
<1>2. \A t \in Test : KeepsQueue(t) \/ KeepsExchange(t) =>
        Creates(t) /\ (Active(t) \/ pc[t] = "failed" \/ (pc[t] = "done" /\ ~open[t]))
  BY DEF KeepsQueue, KeepsExchange, Active, Ended
<1>3. LeftoversExplained
  BY <1>1, <1>2 DEF Left, LeftoversExplained
<1> QED
  BY <1>1, <1>3 DEF TestKeepsItsWord

LEMMA OthersHold ==
  ASSUME ToolsInv
  PROVE  MessagesOfOthersKept
<1>1. Broker /\ Kept
  BY DEF ToolsInv
<1>2. ASSUME NEW m, Held(m)
      PROVE  OnItsWay(m)
  BY <1>2 DEF Held, Has, OnItsWay
<1> QED
  BY <1>1, <1>2 DEF Broker, Theirs, Kept, Safe, MessagesOfOthersKept

(* The values the variables take: a consumer's queue exists, a process that  *)
(* has ended consumes nothing, and only a running reader holds a message.    *)
THEOREM ToolsTypes == Spec => []TypeOK
BY Invariance, TypesHold, PTL

(* A functional test keeps its word, whoever else is on the broker: having   *)
(* met nobody it receives its own message only, and what it has made under   *)
(* the fixed names it has removed, or it was cut off.                        *)
THEOREM WordKept == Spec => []TestKeepsItsWord
BY Invariance, WordHolds, PTL

(* Somebody else's exchange, queue and binding survive every functional      *)
(* test, and no message of theirs is lost but to a test that was given the   *)
(* queue or to a reader that was stopped or cut off.                         *)
THEOREM OthersKept == Spec => []MessagesOfOthersKept
BY Invariance, OthersHold, PTL
=============================================================================
