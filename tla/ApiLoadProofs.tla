---------------------------- MODULE ApiLoadProofs ----------------------------
(***************************************************************************)
(* Proofs about ApiLoad for any number of workers, any buffer and any      *)
(* limits.  The invariant is built in layers, each inductive given the     *)
(* ones before it.                                                         *)
(***************************************************************************)
EXTENDS ApiLoad, FiniteSetTheorems, SequenceTheorems, WellFoundedInduction, TLAPS

WorkerPlace == {"unborn", "rampUp", "select", "admit", "request", "send", "think", "exited"}

At(f, places) == {w \in Workers : f[w] \in places}

-----------------------------------------------------------------------------
(* Lemmas about the operators *)

(* The number of workers in a set of places is a natural number, and less   *)
(* than the number of workers when one of them is elsewhere.                *)
LEMMA CountIsNat ==
  ASSUME NEW f, NEW places
  PROVE  /\ IsFiniteSet(At(f, places))
         /\ Cardinality(At(f, places)) \in Nat
         /\ Cardinality(Workers) \in Nat
         /\ \A w \in Workers :
              f[w] \notin places => Cardinality(At(f, places)) < Cardinality(Workers)
<1> DEFINE T == At(f, places)
<1>1. T \subseteq Workers /\ \A w \in Workers : w \in T <=> f[w] \in places
  BY DEF At
<1> HIDE DEF T
<1>2. /\ IsFiniteSet(T)
      /\ Cardinality(T) <= Cardinality(Workers)
      /\ Cardinality(Workers) = Cardinality(T) => Workers = T
  BY <1>1, WorkersAssumption, FS_Subset
<1>3. Cardinality(T) \in Nat /\ Cardinality(Workers) \in Nat
  BY <1>2, WorkersAssumption, FS_CardinalityType
<1>4. \A w \in Workers : f[w] \notin places => Cardinality(T) < Cardinality(Workers)
  BY <1>1, <1>2, <1>3
<1> QED
  BY <1>2, <1>3, <1>4 DEF T

(* Moving one worker changes that number by at most one, in the direction   *)
(* of the move.                                                             *)
LEMMA MoveOne ==
  ASSUME NEW f, NEW g, NEW places, NEW w \in Workers,
         \A v \in Workers \ {w} : g[v] = f[v]
  PROVE  /\ (f[w] \in places <=> g[w] \in places) =>
               Cardinality(At(g, places)) = Cardinality(At(f, places))
         /\ f[w] \notin places /\ g[w] \in places =>
               Cardinality(At(g, places)) = Cardinality(At(f, places)) + 1
         /\ f[w] \in places /\ g[w] \notin places =>
               Cardinality(At(g, places)) = Cardinality(At(f, places)) - 1
<1>1. /\ (f[w] \in places <=> g[w] \in places) => At(g, places) = At(f, places)
      /\ f[w] \notin places /\ g[w] \in places =>
           w \notin At(f, places) /\ At(g, places) = At(f, places) \union {w}
      /\ f[w] \in places /\ g[w] \notin places =>
           w \in At(f, places) /\ At(g, places) = At(f, places) \ {w}
  BY DEF At
<1> QED
  BY <1>1, CountIsNat, FS_AddElement, FS_RemoveElement

(* Bump adds one to the counters it is given and keeps the others. *)
LEMMA BumpCounts ==
  ASSUME NEW s \in [Counters -> Nat], NEW counters
  PROVE  /\ Bump(s, counters) \in [Counters -> Nat]
         /\ "total" \in counters => Bump(s, counters).total = s.total + 1
  BY DEF Bump, Counters

(* What main takes from the channel is a result; at most one is skipped or  *)
(* counted for it.                                                          *)
LEMMA ResultFields ==
  ASSUME NEW r \in RequestResult
  PROVE  r.err = "none" => r.code \in Codes /\ r.duration \in Nat
  BY DataAssumption DEF RequestResult, Response, ContextOver, RequestError, Codes

(* A step in which one worker goes from a place to another. *)
Moves(w, from, to) ==
  /\ worker[w] = from /\ worker'[w] = to
  /\ worker' \in [Workers -> WorkerPlace]
  /\ \A v \in Workers \ {w} : worker'[v] = worker[v]

LEMMA MovesCount ==
  ASSUME NEW w \in Workers, NEW from, NEW to, NEW places, Moves(w, from, to)
  PROVE  /\ Cardinality(Located(places)) \in Nat
         /\ Cardinality(Located(places)') \in Nat
         /\ Cardinality(Workers) \in Nat
         /\ (from \in places <=> to \in places) =>
              Cardinality(Located(places)') = Cardinality(Located(places))
         /\ from \notin places /\ to \in places =>
              Cardinality(Located(places)') = Cardinality(Located(places)) + 1
         /\ from \in places /\ to \notin places =>
              Cardinality(Located(places)') = Cardinality(Located(places)) - 1
         /\ from \notin places => Cardinality(Located(places)) < Cardinality(Workers)
<1>1. \A v \in Workers \ {w} : worker'[v] = worker[v]
  BY DEF Moves
<1>2. worker[w] = from /\ worker'[w] = to
  BY DEF Moves
<1>3. /\ (worker[w] \in places <=> worker'[w] \in places) =>
           Cardinality(At(worker', places)) = Cardinality(At(worker, places))
      /\ worker[w] \notin places /\ worker'[w] \in places =>
           Cardinality(At(worker', places)) = Cardinality(At(worker, places)) + 1
      /\ worker[w] \in places /\ worker'[w] \notin places =>
           Cardinality(At(worker', places)) = Cardinality(At(worker, places)) - 1
  BY <1>1, MoveOne
<1>4. /\ Cardinality(At(worker, places)) \in Nat
      /\ Cardinality(At(worker', places)) \in Nat
      /\ Cardinality(Workers) \in Nat
      /\ worker[w] \notin places => Cardinality(At(worker, places)) < Cardinality(Workers)
  BY CountIsNat
<1>5. Located(places) = At(worker, places) /\ Located(places)' = At(worker', places)
  BY DEF Located, At
<1> QED
  BY <1>2, <1>3, <1>4, <1>5

(* Where each step of a worker takes it. *)
LEMMA WorkerMoves ==
  ASSUME worker \in [Workers -> WorkerPlace], NEW w \in Workers
  PROVE  /\ StartWorker(w) => Moves(w, "unborn", "rampUp")
         /\ RampUp(w) => Moves(w, "rampUp", "select")
         /\ SeeDone(w) => Moves(w, "select", "exited")
         /\ Proceed(w) => Moves(w, "select", "admit")
         /\ StartRequest(w) => Moves(w, "admit", "request")
         /\ Refuse(w) => Moves(w, "admit", "exited")
         /\ ExecuteRequest(w) => Moves(w, "request", "send")
         /\ SendResult(w) /\ ~chanClosed => Moves(w, "send", "think")
         /\ SendResult(w) /\ chanClosed => worker' = worker
         /\ Think(w) => Moves(w, "think", "select")
<1>1. ASSUME NEW from \in WorkerPlace, NEW to \in WorkerPlace,
             worker[w] = from, worker' = [worker EXCEPT ![w] = to]
      PROVE  Moves(w, from, to)
  BY <1>1 DEF Moves
<1>2. {"unborn", "rampUp", "select", "admit", "request", "send", "think", "exited"}
        \subseteq WorkerPlace
  BY DEF WorkerPlace
<1>3. StartWorker(w) => Moves(w, "unborn", "rampUp")
  BY <1>1, <1>2 DEF StartWorker
<1>4. RampUp(w) => Moves(w, "rampUp", "select")
  BY <1>1, <1>2 DEF RampUp
<1>5. SeeDone(w) => Moves(w, "select", "exited")
  BY <1>1, <1>2 DEF SeeDone
<1>6. Proceed(w) => Moves(w, "select", "admit")
  BY <1>1, <1>2 DEF Proceed
<1>7. StartRequest(w) => Moves(w, "admit", "request")
  BY <1>1, <1>2 DEF StartRequest
<1>8. Refuse(w) => Moves(w, "admit", "exited")
  BY <1>1, <1>2 DEF Refuse
<1>9. ExecuteRequest(w) => Moves(w, "request", "send")
  BY <1>1, <1>2 DEF ExecuteRequest
<1>10. SendResult(w) /\ ~chanClosed => Moves(w, "send", "think")
  BY <1>1, <1>2 DEF SendResult
<1>11. SendResult(w) /\ chanClosed => worker' = worker
  BY DEF SendResult
<1>12. Think(w) => Moves(w, "think", "select")
  BY <1>1, <1>2 DEF Think
<1> QED
  BY <1>3, <1>4, <1>5, <1>6, <1>7, <1>8, <1>9, <1>10, <1>11, <1>12

-----------------------------------------------------------------------------
(* Types, and the WaitGroup counts the workers that have not returned *)

GroupCounts == wg = Cardinality(Unfinished)

Inv1 == TypeOK /\ GroupCounts

LEMMA InitInv1 == Init => Inv1
<1> SUFFICES ASSUME Init PROVE Inv1
  OBVIOUS
<1>1. Unfinished = {}
  BY DEF Init, Unfinished, Located, Alive
<1>2. GroupCounts
  BY <1>1, FS_EmptySet DEF Init, GroupCounts
<1>3. Capacity \in Nat
  BY WorkersAssumption, BufferAssumption, FS_CardinalityType DEF Capacity
<1>4. times \in Times /\ results \in [Counters -> Nat]
  BY DataAssumption DEF Init, Times
<1>5. resultsChan \in Seq(RequestResult) /\ Len(resultsChan) <= Capacity
  BY <1>3 DEF Init
<1>6. RequestError \in RequestResult
  BY DEF RequestResult
<1>7. inHand \in [Workers -> RequestResult] /\ statusCodes \in [Codes -> Nat]
  BY <1>6 DEF Init
<1>8. /\ worker \in [Workers -> WorkerPlace] /\ lateStarts \in [Workers -> Nat]
      /\ main = "start" /\ handler = "unborn" /\ timer = "unborn" /\ closer = "unborn"
      /\ requests \in RequestLimits /\ hasDuration \in BOOLEAN
      /\ wg = 0 /\ requestsCounter = 0 /\ signals = 0 /\ skipped = 0 /\ sent = 0
  BY DEF Init, WorkerPlace
<1>9. chanClosed \in BOOLEAN /\ done \in BOOLEAN /\ panicked \in BOOLEAN
  BY Zenon DEF Init
<1>10. TypeOK
  BY <1>4, <1>5, <1>7, <1>8, <1>9 DEF TypeOK, WorkerPlace
<1> QED
  BY <1>2, <1>10 DEF Inv1

(* The WaitGroup still counts after a worker has moved, if its counter was  *)
(* adjusted to the move.                                                    *)
LEMMA GroupMoves ==
  ASSUME GroupCounts, wg \in Nat, NEW w \in Workers, NEW from, NEW to, Moves(w, from, to),
         \/ (from \in Alive <=> to \in Alive) /\ wg' = wg
         \/ from \notin Alive /\ to \in Alive /\ wg' = wg + 1
         \/ from \in Alive /\ to \notin Alive /\ wg' = wg - 1
  PROVE  GroupCounts' /\ wg' \in Nat /\ worker' \in [Workers -> WorkerPlace]
<1>1. wg = Cardinality(Located(Alive))
  BY DEF GroupCounts, Unfinished
<1>2. wg' = Cardinality(Located(Alive)') /\ wg' \in Nat
  BY <1>1, MovesCount
<1> QED
  BY <1>2 DEF GroupCounts, Unfinished, Moves

LEMMA NextInv1 == Inv1 /\ [Next]_vars => Inv1'
<1> SUFFICES ASSUME Inv1, [Next]_vars PROVE Inv1'
  OBVIOUS
<1> USE DEF Inv1
<1>1. worker \in [Workers -> WorkerPlace]
  BY DEF TypeOK, WorkerPlace
<1>2. ASSUME NEW w \in Workers, StartWorker(w) PROVE Inv1'
  <2>1. Moves(w, "unborn", "rampUp")
    BY <1>1, <1>2, WorkerMoves
  <2>2. wg' = wg + 1
    BY <1>2 DEF StartWorker
  <2>3. worker' \in [Workers -> WorkerPlace] /\ GroupCounts' /\ wg' \in Nat
    BY <2>1, <2>2, GroupMoves DEF Alive, TypeOK
  <2> QED
    BY <1>2, <2>3 DEF StartWorker, TypeOK, WorkerPlace, flags, pool, channel, stoppers, report
<1>3. ASSUME NEW w \in Workers, RampUp(w) PROVE Inv1'
  <2>1. Moves(w, "rampUp", "select")
    BY <1>1, <1>3, WorkerMoves
  <2>2. wg' = wg
    BY <1>3 DEF RampUp
  <2>3. worker' \in [Workers -> WorkerPlace] /\ GroupCounts' /\ wg' \in Nat
    BY <2>1, <2>2, GroupMoves DEF Alive, TypeOK
  <2> QED
    BY <1>3, <2>3 DEF RampUp, TypeOK, WorkerPlace, flags, pool, channel, stoppers, report
<1>4. ASSUME NEW w \in Workers, SeeDone(w) PROVE Inv1'
  <2>1. Moves(w, "select", "exited")
    BY <1>1, <1>4, WorkerMoves
  <2>2. wg' = wg - 1
    BY <1>4 DEF SeeDone
  <2>3. worker' \in [Workers -> WorkerPlace] /\ GroupCounts' /\ wg' \in Nat
    BY <2>1, <2>2, GroupMoves DEF Alive, TypeOK
  <2> QED
    BY <1>4, <2>3 DEF SeeDone, TypeOK, WorkerPlace, flags, pool, channel, stoppers, report
<1>5. ASSUME NEW w \in Workers, Proceed(w) PROVE Inv1'
  <2>1. Moves(w, "select", "admit")
    BY <1>1, <1>5, WorkerMoves
  <2>2. wg' = wg
    BY <1>5 DEF Proceed
  <2>3. worker' \in [Workers -> WorkerPlace] /\ GroupCounts' /\ wg' \in Nat
    BY <2>1, <2>2, GroupMoves DEF Alive, TypeOK
  <2> QED
    BY <1>5, <2>3 DEF Proceed, TypeOK, WorkerPlace, flags, pool, channel, stoppers, report
<1>6. ASSUME NEW w \in Workers, StartRequest(w) PROVE Inv1'
  <2>1. Moves(w, "admit", "request")
    BY <1>1, <1>6, WorkerMoves
  <2>2. wg' = wg
    BY <1>6 DEF StartRequest
  <2>3. worker' \in [Workers -> WorkerPlace] /\ GroupCounts' /\ wg' \in Nat
    BY <2>1, <2>2, GroupMoves DEF Alive, TypeOK
  <2> QED
    BY <1>6, <2>3 DEF StartRequest, CountRequest, AddInt32, TypeOK, WorkerPlace, flags, pool, channel, stoppers, report
<1>7. ASSUME NEW w \in Workers, Refuse(w) PROVE Inv1'
  <2>1. Moves(w, "admit", "exited")
    BY <1>1, <1>7, WorkerMoves
  <2>2. wg' = wg - 1
    BY <1>7 DEF Refuse
  <2>3. worker' \in [Workers -> WorkerPlace] /\ GroupCounts' /\ wg' \in Nat
    BY <2>1, <2>2, GroupMoves DEF Alive, TypeOK
  <2> QED
    BY <1>7, <2>3 DEF Refuse, CountRequest, AddInt32, TypeOK, WorkerPlace, flags, pool, channel, stoppers, report
<1>8. ASSUME NEW w \in Workers, ExecuteRequest(w) PROVE Inv1'
  <2>1. Moves(w, "request", "send")
    BY <1>1, <1>8, WorkerMoves
  <2>2. wg' = wg
    BY <1>8 DEF ExecuteRequest
  <2>3. worker' \in [Workers -> WorkerPlace] /\ GroupCounts' /\ wg' \in Nat
    BY <2>1, <2>2, GroupMoves DEF Alive, TypeOK
  <2> QED
    BY <1>8, <2>3 DEF ExecuteRequest, TypeOK, WorkerPlace, flags, pool, channel, stoppers, report
<1>9. ASSUME NEW w \in Workers, SendResult(w) PROVE Inv1'
  <2>1. RequestError \in RequestResult
    BY DEF RequestResult
  <2>2. CASE chanClosed
    BY <1>9, <2>2 DEF SendResult, TypeOK, GroupCounts, Unfinished, Located, flags, channel,
                      stoppers, report
  <2>3. CASE ~chanClosed
    <3>1. Moves(w, "send", "think") /\ wg' = wg
      BY <1>1, <1>9, <2>3, WorkerMoves DEF SendResult
    <3>2. worker' \in [Workers -> WorkerPlace] /\ GroupCounts' /\ wg' \in Nat
      BY <3>1, GroupMoves DEF Alive, TypeOK
    <3>3. resultsChan' = Append(resultsChan, inHand[w]) /\ Len(resultsChan) < Capacity
      BY <1>9, <2>3 DEF SendResult
    <3>4. resultsChan \in Seq(RequestResult) /\ inHand[w] \in RequestResult /\ Capacity \in Nat
      BY WorkersAssumption, BufferAssumption, FS_CardinalityType DEF TypeOK, Capacity
    <3>5. resultsChan' \in Seq(RequestResult) /\ Len(resultsChan') <= Capacity
      BY <3>3, <3>4
    <3>6. Capacity' = Capacity
      BY DEF Capacity
    <3>7. inHand' \in [Workers -> RequestResult]
      BY <1>9, <2>1, <2>3 DEF SendResult, TypeOK
    <3>8. UNCHANGED <<flags, requestsCounter, sent, lateStarts, chanClosed, stoppers, report,
                      main, closer, panicked>>
      BY <1>9, <2>3 DEF SendResult
    <3> QED
      BY <3>2, <3>5, <3>6, <3>7, <3>8 DEF TypeOK, WorkerPlace, flags, stoppers, report
  <2> QED
    BY <2>2, <2>3
<1>10. ASSUME NEW w \in Workers, Think(w) PROVE Inv1'
  <2>1. Moves(w, "think", "select")
    BY <1>1, <1>10, WorkerMoves
  <2>2. wg' = wg
    BY <1>10 DEF Think
  <2>3. worker' \in [Workers -> WorkerPlace] /\ GroupCounts' /\ wg' \in Nat
    BY <2>1, <2>2, GroupMoves DEF Alive, TypeOK
  <2> QED
    BY <1>10, <2>3 DEF Think, TypeOK, WorkerPlace, flags, pool, channel, stoppers, report
<1>11. CASE BodyUnreadable
  BY <1>11 DEF BodyUnreadable, TypeOK, GroupCounts, Unfinished, Located, flags, pool, channel, stoppers, report
<1>12. CASE StartTest
  BY <1>12 DEF StartTest, TypeOK, GroupCounts, Unfinished, Located, flags, pool, channel, stoppers, report
<1>13. CASE StartTimerAndCloser
  BY <1>13 DEF StartTimerAndCloser, TypeOK, GroupCounts, Unfinished, Located, flags, pool, channel, stoppers, report
<1>14. CASE Signal
  BY <1>14 DEF Signal, TypeOK, GroupCounts, Unfinished, Located, flags, pool, channel, stoppers, report
<1>15. CASE CatchSignal
  BY <1>15 DEF CatchSignal, TypeOK, GroupCounts, Unfinished, Located, flags, pool, channel, stoppers, report
<1>16. CASE SignalStops
  BY <1>16 DEF SignalStops, CloseDone, TypeOK, GroupCounts, Unfinished, Located, flags, pool, channel, stoppers, report
<1>17. CASE TimerStops
  BY <1>17 DEF TimerStops, CloseDone, TypeOK, GroupCounts, Unfinished, Located, flags, pool, channel, stoppers, report
<1>18. CASE CloseResults
  BY <1>18 DEF CloseResults, TypeOK, GroupCounts, Unfinished, Located, flags, pool, channel, stoppers, report
<1>19. CASE Collect
  <2> DEFINE r == Head(resultsChan)
  <2>1. /\ resultsChan \in Seq(RequestResult) /\ resultsChan # <<>>
        /\ resultsChan' = Tail(resultsChan)
    BY <1>19 DEF Collect, TakeResult, TypeOK
  <2>2. /\ r \in RequestResult
        /\ resultsChan' \in Seq(RequestResult) /\ Len(resultsChan') <= Len(resultsChan)
    BY <2>1, HeadTailProperties, LenProperties
  <2>3. Len(resultsChan') <= Capacity'
    <3>1. Capacity \in Nat /\ Capacity' = Capacity
      BY WorkersAssumption, BufferAssumption, FS_CardinalityType DEF Capacity
    <3>2. Len(resultsChan) \in Nat /\ Len(resultsChan') \in Nat
      BY <2>1, <2>2, LenProperties
    <3> QED
      BY <2>2, <3>1, <3>2 DEF TypeOK
  <2>4. /\ results' \in [Counters -> Nat] /\ statusCodes' \in [Codes -> Nat]
        /\ times' \in Times /\ skipped' \in Nat
    <3>1. CASE Skip(r)
      BY <3>1 DEF Skip, TypeOK
    <3>2. CASE CountError(r)
      BY <3>2, BumpCounts DEF CountError, TypeOK
    <3>3. CASE CountHTTPError(r)
      <4>1. r.code \in Codes
        BY <2>2, <3>3, ResultFields DEF CountHTTPError
      <4>2. results' \in [Counters -> Nat]
        BY <3>3, BumpCounts DEF CountHTTPError, TypeOK
      <4>3. statusCodes' \in [Codes -> Nat]
        BY <3>3, <4>1 DEF CountHTTPError, TypeOK
      <4>4. times' \in Times /\ skipped' \in Nat
        BY <3>3 DEF CountHTTPError, TypeOK
      <4> QED
        BY <4>2, <4>3, <4>4
    <3>4. CASE CountSuccess(r)
      <4>1. r.code \in Codes /\ r.duration \in Nat
        BY <2>2, <3>4, ResultFields DEF CountSuccess
      <4>2. times' \in Times
        BY <3>4, <4>1 DEF CountSuccess, TypeOK, RecordTime, Times
      <4>3. results' \in [Counters -> Nat]
        BY <3>4, BumpCounts DEF CountSuccess, TypeOK
      <4>4. statusCodes' \in [Codes -> Nat] /\ skipped' \in Nat
        BY <3>4, <4>1 DEF CountSuccess, TypeOK
      <4> QED
        BY <4>2, <4>3, <4>4
    <3> QED
      BY <1>19, <3>1, <3>2, <3>3, <3>4 DEF Collect
  <2> QED
    BY <1>19, <2>2, <2>3, <2>4 DEF Collect, TakeResult, TypeOK, GroupCounts, Unfinished,
                                   Located, flags, pool, stoppers
<1>20. CASE FinishCollecting
  BY <1>20 DEF FinishCollecting, TypeOK, GroupCounts, Unfinished, Located, flags, pool, channel, stoppers, report
<1>21. CASE Report
  BY <1>21 DEF Report, TypeOK, GroupCounts, Unfinished, Located, flags, pool, channel, stoppers, report
<1>22. CASE UNCHANGED vars
  BY <1>22 DEF vars, TypeOK, GroupCounts, Unfinished, Located, flags, pool, channel, stoppers, report
<1> QED
  BY <1>2, <1>3, <1>4, <1>5, <1>6, <1>7, <1>8, <1>9, <1>10, <1>11, <1>12, <1>13, <1>14, <1>15, <1>16, <1>17, <1>18, <1>19, <1>20, <1>21, <1>22 DEF Next, WorkerStep, MainStep, Ended

LEMMA Typed == Spec => []Inv1
  BY InitInv1, NextInv1, PTL DEF Spec

(* In every reachable state the variables have their types: the WaitGroup   *)
(* never goes negative and the results channel never holds more than its    *)
(* capacity (load.go 161, 164, 236-239).                                    *)
THEOREM TypeCorrect == Spec => []TypeOK
  BY Typed, PTL DEF Inv1

-----------------------------------------------------------------------------
(* Who has started, who has returned, and what is closed by then *)

Stages ==
  /\ main = "start" => handler = "unborn" /\ resultsChan = <<>>
  /\ main = "start" => \A w \in Workers : worker[w] = "unborn"
  /\ main \in {"start", "spawn"} => closer = "unborn" /\ timer = "unborn"
  /\ main \in {"collect", "report"} => closer # "unborn"
  /\ closer # "unborn" => \A w \in Workers : worker[w] # "unborn"
  /\ chanClosed <=> closer = "exited"
  /\ chanClosed => \A w \in Workers : worker[w] = "exited"
  /\ main = "report" => chanClosed /\ resultsChan = <<>>
  /\ main = "exited" => resultsChan = <<>>
                        /\ \A w \in Workers : worker[w] \in {"unborn", "exited"}
  /\ done => handler = "exited" \/ timer = "exited"

Inv2 == Stages /\ PanicOnlyWhenBothStop

LEMMA InitInv2 == Init => Inv2
  BY DEF Init, Inv2, Stages, PanicOnlyWhenBothStop

(* A WaitGroup at zero means that no worker is alive. *)
LEMMA NobodyAlive ==
  ASSUME TypeOK, GroupCounts, wg = 0, NEW w \in Workers
  PROVE  worker[w] \in {"unborn", "exited"}
<1>1. Unfinished = At(worker, Alive)
  BY DEF Unfinished, Located, At
<1>2. IsFiniteSet(At(worker, Alive)) /\ Cardinality(At(worker, Alive)) = 0
  BY <1>1, CountIsNat DEF GroupCounts
<1>3. At(worker, Alive) = {}
  BY <1>2, FS_EmptySet
<1> QED
  BY <1>3 DEF At, Alive, TypeOK

LEMMA NextInv2 == Inv1 /\ Inv2 /\ [Next]_vars => Inv2'
<1> SUFFICES ASSUME Inv1, Inv2, [Next]_vars PROVE Inv2'
  OBVIOUS
<1> USE DEF Inv2, PanicOnlyWhenBothStop
<1>1. worker \in [Workers -> WorkerPlace]
  BY DEF Inv1, TypeOK, WorkerPlace
<1>2. ASSUME NEW w \in Workers, StartWorker(w) PROVE Inv2'
  <2>1. Moves(w, "unborn", "rampUp")
    BY <1>1, <1>2, WorkerMoves
  <2>2. UNCHANGED <<main, closer, channel, done, handler, timer, panicked>> /\ Running
    BY <1>2 DEF StartWorker, stoppers
  <2> QED
    BY <2>1, <2>2, <1>2 DEF Stages, Moves, channel, Running, StartWorker
<1>3. ASSUME NEW w \in Workers, RampUp(w) PROVE Inv2'
  <2>1. Moves(w, "rampUp", "select")
    BY <1>1, <1>3, WorkerMoves
  <2>2. UNCHANGED <<main, closer, channel, done, handler, timer, panicked>> /\ Running
    BY <1>3 DEF RampUp, stoppers
  <2> QED
    BY <2>1, <2>2 DEF Stages, Moves, channel, Running
<1>4. ASSUME NEW w \in Workers, SeeDone(w) PROVE Inv2'
  <2>1. Moves(w, "select", "exited")
    BY <1>1, <1>4, WorkerMoves
  <2>2. UNCHANGED <<main, closer, channel, done, handler, timer, panicked>> /\ Running
    BY <1>4 DEF SeeDone, stoppers
  <2> QED
    BY <2>1, <2>2 DEF Stages, Moves, channel, Running
<1>5. ASSUME NEW w \in Workers, Proceed(w) PROVE Inv2'
  <2>1. Moves(w, "select", "admit")
    BY <1>1, <1>5, WorkerMoves
  <2>2. UNCHANGED <<main, closer, channel, done, handler, timer, panicked>> /\ Running
    BY <1>5 DEF Proceed, stoppers
  <2> QED
    BY <2>1, <2>2 DEF Stages, Moves, channel, Running
<1>6. ASSUME NEW w \in Workers, StartRequest(w) PROVE Inv2'
  <2>1. Moves(w, "admit", "request")
    BY <1>1, <1>6, WorkerMoves
  <2>2. UNCHANGED <<main, closer, channel, done, handler, timer, panicked>> /\ Running
    BY <1>6 DEF StartRequest, stoppers
  <2> QED
    BY <2>1, <2>2 DEF Stages, Moves, channel, Running
<1>7. ASSUME NEW w \in Workers, Refuse(w) PROVE Inv2'
  <2>1. Moves(w, "admit", "exited")
    BY <1>1, <1>7, WorkerMoves
  <2>2. UNCHANGED <<main, closer, channel, done, handler, timer, panicked>> /\ Running
    BY <1>7 DEF Refuse, stoppers
  <2> QED
    BY <2>1, <2>2 DEF Stages, Moves, channel, Running
<1>8. ASSUME NEW w \in Workers, ExecuteRequest(w) PROVE Inv2'
  <2>1. Moves(w, "request", "send")
    BY <1>1, <1>8, WorkerMoves
  <2>2. UNCHANGED <<main, closer, channel, done, handler, timer, panicked>> /\ Running
    BY <1>8 DEF ExecuteRequest, stoppers
  <2> QED
    BY <2>1, <2>2 DEF Stages, Moves, channel, Running
<1>9. ASSUME NEW w \in Workers, SendResult(w) PROVE Inv2'
  <2>1. ~chanClosed
    BY <1>9 DEF SendResult, Stages
  <2>2. Moves(w, "send", "think")
    BY <1>1, <1>9, <2>1, WorkerMoves
  <2>3. main \notin {"start", "report", "exited"}
    BY <1>9, <2>1 DEF SendResult, Stages, Running
  <2>4. UNCHANGED <<main, closer, chanClosed, done, handler, timer, panicked>>
    BY <1>9, <2>1 DEF SendResult, stoppers
  <2> QED
    BY <2>1, <2>2, <2>3, <2>4 DEF Stages, Moves
<1>10. ASSUME NEW w \in Workers, Think(w) PROVE Inv2'
  <2>1. Moves(w, "think", "select")
    BY <1>1, <1>10, WorkerMoves
  <2>2. UNCHANGED <<main, closer, channel, done, handler, timer, panicked>> /\ Running
    BY <1>10 DEF Think, stoppers
  <2> QED
    BY <2>1, <2>2 DEF Stages, Moves, channel, Running
<1>11. CASE BodyUnreadable
  BY <1>11 DEF BodyUnreadable, Stages, Running, flags, pool, channel, stoppers, report
<1>12. CASE StartTest
  BY <1>12 DEF StartTest, Stages, Running, flags, pool, channel, stoppers, report
<1>13. CASE StartTimerAndCloser
  BY <1>13 DEF StartTimerAndCloser, Stages, Running, flags, pool, channel, stoppers, report
<1>14. CASE Signal
  BY <1>14 DEF Signal, Stages, Running, flags, pool, channel, stoppers, report
<1>15. CASE CatchSignal
  BY <1>15 DEF CatchSignal, Stages, Running, flags, pool, channel, stoppers, report
<1>16. CASE SignalStops
  BY <1>16 DEF SignalStops, CloseDone, Stages, Running, flags, pool, channel, stoppers, report
<1>17. CASE TimerStops
  BY <1>17 DEF TimerStops, CloseDone, Stages, Running, flags, pool, channel, stoppers, report
<1>18. CASE CloseResults
  BY <1>18, NobodyAlive DEF CloseResults, Inv1, Stages, Running, flags, pool, channel, stoppers, report
<1>19. CASE Collect
  BY <1>19 DEF Collect, TakeResult, Stages, Running, flags, pool, channel, stoppers, report
<1>20. CASE FinishCollecting
  BY <1>20 DEF FinishCollecting, Stages, Running, flags, pool, channel, stoppers, report
<1>21. CASE Report
  BY <1>21 DEF Report, Stages, Running, flags, pool, channel, stoppers, report
<1>22. CASE UNCHANGED vars
  BY <1>22 DEF vars, Stages, flags, pool, channel, stoppers, report
<1> QED
  BY <1>2, <1>3, <1>4, <1>5, <1>6, <1>7, <1>8, <1>9, <1>10, <1>11, <1>12, <1>13, <1>14, <1>15, <1>16, <1>17, <1>18, <1>19, <1>20, <1>21, <1>22 DEF Next, WorkerStep, MainStep, Ended

(* The results channel is never closed under a worker that still has to     *)
(* send: only the double close of done can panic.                           *)
THEOREM PanicOnlyByDoubleClose == Spec => []PanicOnlyWhenBothStop
<1>1. Spec => [](Inv1 /\ Inv2)
  BY Typed, InitInv2, NextInv2, PTL DEF Spec
<1> QED
  BY <1>1, PTL DEF Inv2

-----------------------------------------------------------------------------
(* Every request is accounted for *)

LEMMA InitAccounted == Init => EveryRequestAccounted
<1> SUFFICES ASSUME Init PROVE EveryRequestAccounted
  OBVIOUS
<1>1. Open = {}
  BY DEF Init, Open, Located, InHand
<1>2. Cardinality(Open) = 0
  BY <1>1, FS_EmptySet
<1>3. Len(resultsChan) = 0 /\ results.total = 0 /\ skipped = 0 /\ sent = 0
  BY DEF Init, Counters
<1> QED
  BY <1>2, <1>3 DEF EveryRequestAccounted

(* What a step of a worker adds to the requests that workers have in hand. *)
LEMMA OpenMoves ==
  ASSUME NEW w \in Workers, NEW from, NEW to, Moves(w, from, to)
  PROVE  /\ Cardinality(Open) \in Nat /\ Cardinality(Open)' \in Nat
         /\ (from \in InHand <=> to \in InHand) => Cardinality(Open)' = Cardinality(Open)
         /\ from \notin InHand /\ to \in InHand => Cardinality(Open)' = Cardinality(Open) + 1
         /\ from \in InHand /\ to \notin InHand => Cardinality(Open)' = Cardinality(Open) - 1
  BY MovesCount DEF Open

LEMMA NextAccounted ==
  Inv1 /\ Inv2 /\ EveryRequestAccounted /\ [Next]_vars => EveryRequestAccounted'
<1> SUFFICES ASSUME Inv1, Inv2, EveryRequestAccounted, [Next]_vars
             PROVE  EveryRequestAccounted'
  OBVIOUS
<1>1. /\ worker \in [Workers -> WorkerPlace] /\ resultsChan \in Seq(RequestResult)
      /\ results.total \in Nat /\ skipped \in Nat /\ sent \in Nat
      /\ Len(resultsChan) \in Nat
  BY LenProperties DEF Inv1, TypeOK, WorkerPlace, Counters
<1>2. ASSUME UNCHANGED <<worker, sent, resultsChan, results, skipped>>
      PROVE  EveryRequestAccounted'
  BY <1>2 DEF EveryRequestAccounted, Open, Located
<1>3. ASSUME NEW w \in Workers, StartWorker(w) PROVE EveryRequestAccounted'
  <2>1. Moves(w, "unborn", "rampUp")
    BY <1>1, <1>3, WorkerMoves
  <2>2. Cardinality(Open)' = Cardinality(Open) /\ Cardinality(Open) \in Nat
    BY <2>1, OpenMoves DEF InHand
  <2>3. sent' = sent /\ UNCHANGED <<resultsChan, results, skipped>>
    BY <1>3 DEF StartWorker, channel, report
  <2> QED
    BY <1>1, <2>2, <2>3 DEF EveryRequestAccounted
<1>4. ASSUME NEW w \in Workers, RampUp(w) PROVE EveryRequestAccounted'
  <2>1. Moves(w, "rampUp", "select")
    BY <1>1, <1>4, WorkerMoves
  <2>2. Cardinality(Open)' = Cardinality(Open) /\ Cardinality(Open) \in Nat
    BY <2>1, OpenMoves DEF InHand
  <2>3. sent' = sent /\ UNCHANGED <<resultsChan, results, skipped>>
    BY <1>4 DEF RampUp, channel, report
  <2> QED
    BY <1>1, <2>2, <2>3 DEF EveryRequestAccounted
<1>5. ASSUME NEW w \in Workers, SeeDone(w) PROVE EveryRequestAccounted'
  <2>1. Moves(w, "select", "exited")
    BY <1>1, <1>5, WorkerMoves
  <2>2. Cardinality(Open)' = Cardinality(Open) /\ Cardinality(Open) \in Nat
    BY <2>1, OpenMoves DEF InHand
  <2>3. sent' = sent /\ UNCHANGED <<resultsChan, results, skipped>>
    BY <1>5 DEF SeeDone, channel, report
  <2> QED
    BY <1>1, <2>2, <2>3 DEF EveryRequestAccounted
<1>6. ASSUME NEW w \in Workers, Proceed(w) PROVE EveryRequestAccounted'
  <2>1. Moves(w, "select", "admit")
    BY <1>1, <1>6, WorkerMoves
  <2>2. Cardinality(Open)' = Cardinality(Open) /\ Cardinality(Open) \in Nat
    BY <2>1, OpenMoves DEF InHand
  <2>3. sent' = sent /\ UNCHANGED <<resultsChan, results, skipped>>
    BY <1>6 DEF Proceed, channel, report
  <2> QED
    BY <1>1, <2>2, <2>3 DEF EveryRequestAccounted
<1>7. ASSUME NEW w \in Workers, StartRequest(w) PROVE EveryRequestAccounted'
  <2>1. Moves(w, "admit", "request")
    BY <1>1, <1>7, WorkerMoves
  <2>2. Cardinality(Open)' = Cardinality(Open) + 1 /\ Cardinality(Open) \in Nat
    BY <2>1, OpenMoves DEF InHand
  <2>3. sent' = sent + 1 /\ UNCHANGED <<resultsChan, results, skipped>>
    BY <1>7 DEF StartRequest, channel, report
  <2> QED
    BY <1>1, <2>2, <2>3 DEF EveryRequestAccounted
<1>8. ASSUME NEW w \in Workers, Refuse(w) PROVE EveryRequestAccounted'
  <2>1. Moves(w, "admit", "exited")
    BY <1>1, <1>8, WorkerMoves
  <2>2. Cardinality(Open)' = Cardinality(Open) /\ Cardinality(Open) \in Nat
    BY <2>1, OpenMoves DEF InHand
  <2>3. sent' = sent /\ UNCHANGED <<resultsChan, results, skipped>>
    BY <1>8 DEF Refuse, channel, report
  <2> QED
    BY <1>1, <2>2, <2>3 DEF EveryRequestAccounted
<1>9. ASSUME NEW w \in Workers, ExecuteRequest(w) PROVE EveryRequestAccounted'
  <2>1. Moves(w, "request", "send")
    BY <1>1, <1>9, WorkerMoves
  <2>2. Cardinality(Open)' = Cardinality(Open) /\ Cardinality(Open) \in Nat
    BY <2>1, OpenMoves DEF InHand
  <2>3. sent' = sent /\ UNCHANGED <<resultsChan, results, skipped>>
    BY <1>9 DEF ExecuteRequest, channel, report
  <2> QED
    BY <1>1, <2>2, <2>3 DEF EveryRequestAccounted
<1>10. ASSUME NEW w \in Workers, SendResult(w) PROVE EveryRequestAccounted'
  <2>1. ~chanClosed
    BY <1>10 DEF SendResult, Inv2, Stages
  <2>2. Moves(w, "send", "think")
    BY <1>1, <1>10, <2>1, WorkerMoves
  <2>3. Cardinality(Open)' = Cardinality(Open) - 1 /\ Cardinality(Open) \in Nat
    BY <2>2, OpenMoves DEF InHand
  <2>4. Len(resultsChan)' = Len(resultsChan) + 1
    <3>1. resultsChan' = Append(resultsChan, inHand[w])
      BY <1>10, <2>1 DEF SendResult
    <3> QED
      BY <1>1, <3>1
  <2>5. UNCHANGED <<sent, results, skipped>>
    BY <1>10 DEF SendResult, report
  <2> QED
    BY <1>1, <2>3, <2>4, <2>5 DEF EveryRequestAccounted
<1>11. ASSUME NEW w \in Workers, Think(w) PROVE EveryRequestAccounted'
  <2>1. Moves(w, "think", "select")
    BY <1>1, <1>11, WorkerMoves
  <2>2. Cardinality(Open)' = Cardinality(Open) /\ Cardinality(Open) \in Nat
    BY <2>1, OpenMoves DEF InHand
  <2>3. sent' = sent /\ UNCHANGED <<resultsChan, results, skipped>>
    BY <1>11 DEF Think, channel, report
  <2> QED
    BY <1>1, <2>2, <2>3 DEF EveryRequestAccounted
<1>12. CASE Collect
  <2> DEFINE r == Head(resultsChan)
  <2>1. Len(resultsChan)' = Len(resultsChan) - 1
    <3>1. resultsChan # <<>> /\ resultsChan' = Tail(resultsChan)
      BY <1>12 DEF Collect, TakeResult
    <3> QED
      BY <1>1, <3>1, HeadTailProperties
  <2>2. results'.total + skipped' = results.total + skipped + 1
    <3>1. \/ Skip(r)
          \/ results' = Bump(results, Failure) /\ skipped' = skipped
          \/ results' = Bump(results, Success) /\ skipped' = skipped
      BY <1>12 DEF Collect, CountError, CountHTTPError, CountSuccess
    <3>2. CASE Skip(r)
      <4>1. results' = results /\ skipped' = skipped + 1
        BY <3>2 DEF Skip
      <4> QED
        BY <1>1, <4>1
    <3>3. CASE results' = Bump(results, Failure) /\ skipped' = skipped
      <4>1. results'.total = results.total + 1
        BY <3>3, BumpCounts DEF Inv1, TypeOK, Failure
      <4> QED
        BY <1>1, <3>3, <4>1
    <3>4. CASE results' = Bump(results, Success) /\ skipped' = skipped
      <4>1. results'.total = results.total + 1
        BY <3>4, BumpCounts DEF Inv1, TypeOK, Success
      <4> QED
        BY <1>1, <3>4, <4>1
    <3> QED
      BY <3>1, <3>2, <3>3, <3>4
  <2>3. results'.total \in Nat /\ skipped' \in Nat
    BY NextInv1 DEF Inv1, TypeOK, Counters
  <2>4. Cardinality(Open)' = Cardinality(Open) /\ Cardinality(Open) \in Nat
    <3>1. Open' = Open /\ Open = At(worker, InHand)
      BY <1>12 DEF Collect, TakeResult, pool, Open, Located, At
    <3> QED
      BY <3>1, CountIsNat
  <2>5. sent' = sent
    BY <1>12 DEF Collect, TakeResult, pool
  <2>6. sent = Cardinality(Open) + Len(resultsChan) + results.total + skipped
    BY DEF EveryRequestAccounted
  <2>7. sent' = Cardinality(Open)' + Len(resultsChan)' + (results'.total + skipped')
    BY <1>1, <2>1, <2>2, <2>4, <2>5, <2>6
  <2>8. Cardinality(Open)' \in Nat /\ Len(resultsChan)' \in Nat
    BY <1>1, <2>1, <2>4, LenProperties DEF Inv1, TypeOK
  <2> QED
    BY <2>3, <2>7, <2>8 DEF EveryRequestAccounted
<1>13. CASE BodyUnreadable
  BY <1>2, <1>13 DEF BodyUnreadable, pool, channel, report
<1>14. CASE StartTest
  BY <1>2, <1>14 DEF StartTest, pool, channel, report
<1>15. CASE StartTimerAndCloser
  BY <1>2, <1>15 DEF StartTimerAndCloser, pool, channel, report
<1>16. CASE Signal
  BY <1>2, <1>16 DEF Signal, pool, channel, report
<1>17. CASE CatchSignal
  BY <1>2, <1>17 DEF CatchSignal, pool, channel, report
<1>18. CASE SignalStops
  BY <1>2, <1>18 DEF SignalStops, pool, channel, report
<1>19. CASE TimerStops
  BY <1>2, <1>19 DEF TimerStops, pool, channel, report
<1>20. CASE CloseResults
  BY <1>2, <1>20 DEF CloseResults, pool, channel, report
<1>21. CASE FinishCollecting
  BY <1>2, <1>21 DEF FinishCollecting, pool, channel, report
<1>22. CASE Report
  BY <1>2, <1>22 DEF Report, pool, channel, report
<1>23. CASE UNCHANGED vars
  BY <1>2, <1>23 DEF vars, pool, channel, report
<1> QED
  BY <1>3, <1>4, <1>5, <1>6, <1>7, <1>8, <1>9, <1>10, <1>11, <1>12, <1>13, <1>14, <1>15, <1>16, <1>17, <1>18, <1>19, <1>20, <1>21, <1>22, <1>23 DEF Next, WorkerStep, MainStep, Ended

(* No interleaving loses or doubles a request on its way to the report. *)
THEOREM RequestsAccounted == Spec => []EveryRequestAccounted
<1>1. Spec => [](Inv1 /\ Inv2)
  BY Typed, InitInv2, NextInv2, PTL DEF Spec
<1> QED
  BY <1>1, InitAccounted, NextAccounted, PTL DEF Spec

-----------------------------------------------------------------------------
(* The limit *)

(* The counter has room for one refusal per worker beyond every limit. *)
NoWrap == \A n \in RequestLimits : n + Cardinality(Workers) <= MaxCount

Exited == Located({"exited"})

Counted ==
  requests > 0 =>
    /\ requestsCounter \in Nat
    /\ requestsCounter <= requests => sent = requestsCounter
    /\ requestsCounter >= requests => sent = requests
    /\ requestsCounter <= sent + Cardinality(Exited)

(* Unless done was closed, only the limit makes a worker return. *)
Refused ==
  ~done => \A w \in Workers :
             worker[w] = "exited" => requests > 0 /\ requestsCounter > requests

Inv4 == Counted /\ Refused

LEMMA InitInv4 == Init => Inv4
<1> SUFFICES ASSUME Init PROVE Inv4
  OBVIOUS
<1>1. Exited = At(worker, {"exited"})
  BY DEF Exited, Located, At
<1>2. Cardinality(Exited) \in Nat
  BY <1>1, CountIsNat
<1>3. requestsCounter = 0 /\ sent = 0 /\ requests \in Nat
  BY LimitAssumption DEF Init
<1>4. Refused
  BY DEF Init, Refused
<1> QED
  BY <1>2, <1>3, <1>4 DEF Inv4, Counted

(* Below the limit plus one refusal per worker the counter does not wrap. *)
LEMMA CounterAdvances ==
  ASSUME NoWrap, TypeOK, Counted, requests > 0, NEW w \in Workers, worker[w] # "exited"
  PROVE  AddInt32(requestsCounter) = requestsCounter + 1
<1>1. Exited = At(worker, {"exited"})
  BY DEF Exited, Located, At
<1>2. /\ Cardinality(Exited) \in Nat /\ Cardinality(Workers) \in Nat
      /\ Cardinality(Exited) < Cardinality(Workers)
  BY <1>1, CountIsNat
<1>3. requests \in Nat /\ requests + Cardinality(Workers) <= MaxCount
  BY LimitAssumption DEF NoWrap, TypeOK
<1>4. /\ requestsCounter \in Nat /\ sent \in Nat
      /\ requestsCounter <= sent + Cardinality(Exited) /\ sent <= requests
  BY <1>3 DEF Counted, TypeOK
<1>5. requestsCounter < MaxCount
  BY <1>2, <1>3, <1>4, CountAssumption
<1> QED
  BY <1>4, <1>5, CountAssumption DEF AddInt32

LEMMA NextInv4 == NoWrap /\ Inv1 /\ Inv2 /\ Inv4 /\ [Next]_vars => Inv4'
<1> SUFFICES ASSUME NoWrap, Inv1, Inv2, Inv4, [Next]_vars PROVE Inv4'
  OBVIOUS
<1>1. /\ TypeOK /\ Counted /\ Refused /\ sent \in Nat /\ requests \in Nat
      /\ requestsCounter \in Int /\ requests' = requests
      /\ worker \in [Workers -> WorkerPlace]
  <2>1. requests' = requests
    BY DEF Next, vars, flags, WorkerStep, MainStep, Ended, StartWorker, RampUp, SeeDone, Proceed,
           StartRequest, Refuse, ExecuteRequest, SendResult, Think, BodyUnreadable, StartTest,
           StartTimerAndCloser, Collect, TakeResult, FinishCollecting, Report, Signal,
           CatchSignal, SignalStops, TimerStops, CloseResults
  <2> QED
    BY <2>1, LimitAssumption DEF Inv1, Inv4, TypeOK, WorkerPlace
(* A step that keeps the counters, in which nobody returns and done stays *)
(* closed if it was.                                                      *)
<1>2. ASSUME sent' = sent, requestsCounter' = requestsCounter, done => done',
             Cardinality(Exited)' = Cardinality(Exited),
             \A v \in Workers : worker'[v] = "exited" => worker[v] = "exited"
      PROVE  Inv4'
  BY <1>1, <1>2 DEF Inv4, Counted, Refused
<1>3. ASSUME NEW w \in Workers, NEW from, NEW to, Moves(w, from, to),
             from # "exited"
      PROVE  /\ Cardinality(Exited) \in Nat /\ Cardinality(Exited)' \in Nat
             /\ to # "exited" => /\ Cardinality(Exited)' = Cardinality(Exited)
                                 /\ \A v \in Workers : worker'[v] = "exited" => worker[v] = "exited"
             /\ to = "exited" => Cardinality(Exited)' = Cardinality(Exited) + 1
  <2>1. from \notin {"exited"} /\ (to \in {"exited"} <=> to = "exited")
    BY <1>3
  <2> QED
    BY <1>3, <2>1, MovesCount DEF Exited, Moves
<1>4. ASSUME NEW w \in Workers, StartWorker(w) PROVE Inv4'
  <2>1. Moves(w, "unborn", "rampUp")
    BY <1>1, <1>4, WorkerMoves
  <2>2. UNCHANGED <<sent, requestsCounter, done>>
    BY <1>4 DEF StartWorker, stoppers
  <2> QED
    BY <1>2, <1>3, <2>1, <2>2
<1>5. ASSUME NEW w \in Workers, RampUp(w) PROVE Inv4'
  <2>1. Moves(w, "rampUp", "select")
    BY <1>1, <1>5, WorkerMoves
  <2>2. UNCHANGED <<sent, requestsCounter, done>>
    BY <1>5 DEF RampUp, stoppers
  <2> QED
    BY <1>2, <1>3, <2>1, <2>2
<1>6. ASSUME NEW w \in Workers, Proceed(w) PROVE Inv4'
  <2>1. Moves(w, "select", "admit")
    BY <1>1, <1>6, WorkerMoves
  <2>2. UNCHANGED <<sent, requestsCounter, done>>
    BY <1>6 DEF Proceed, stoppers
  <2> QED
    BY <1>2, <1>3, <2>1, <2>2
<1>7. ASSUME NEW w \in Workers, ExecuteRequest(w) PROVE Inv4'
  <2>1. Moves(w, "request", "send")
    BY <1>1, <1>7, WorkerMoves
  <2>2. UNCHANGED <<sent, requestsCounter, done>>
    BY <1>7 DEF ExecuteRequest, stoppers
  <2> QED
    BY <1>2, <1>3, <2>1, <2>2
<1>8. ASSUME NEW w \in Workers, SendResult(w) PROVE Inv4'
  <2>1. Moves(w, "send", "think")
    BY <1>1, <1>8, WorkerMoves DEF SendResult, Inv2, Stages
  <2>2. UNCHANGED <<sent, requestsCounter, done>>
    BY <1>8 DEF SendResult, stoppers
  <2> QED
    BY <1>2, <1>3, <2>1, <2>2
<1>9. ASSUME NEW w \in Workers, Think(w) PROVE Inv4'
  <2>1. Moves(w, "think", "select")
    BY <1>1, <1>9, WorkerMoves
  <2>2. UNCHANGED <<sent, requestsCounter, done>>
    BY <1>9 DEF Think, stoppers
  <2> QED
    BY <1>2, <1>3, <2>1, <2>2
<1>10. ASSUME NEW w \in Workers, SeeDone(w) PROVE Inv4'
  <2>1. Moves(w, "select", "exited")
    BY <1>1, <1>10, WorkerMoves
  <2>2. UNCHANGED <<sent, requestsCounter, done>> /\ done
    BY <1>10 DEF SeeDone, stoppers
  <2>3. Cardinality(Exited)' = Cardinality(Exited) + 1 /\ Cardinality(Exited) \in Nat
    BY <1>3, <2>1
  <2>4. Refused'
    BY <2>2 DEF Refused
  <2>5. Counted'
    BY <1>1, <2>2, <2>3 DEF Counted
  <2> QED
    BY <2>4, <2>5 DEF Inv4
<1>11. ASSUME NEW w \in Workers, StartRequest(w) PROVE Inv4'
  <2>1. Moves(w, "admit", "request")
    BY <1>1, <1>11, WorkerMoves
  <2>2. /\ Cardinality(Exited)' = Cardinality(Exited) /\ Cardinality(Exited) \in Nat
        /\ \A v \in Workers : worker'[v] = "exited" => worker[v] = "exited"
    BY <1>3, <2>1
  <2>3. sent' = sent + 1 /\ done' = done
    BY <1>11 DEF StartRequest, stoppers
  <2>4. requests > 0 => /\ requestsCounter' = requestsCounter + 1
                        /\ requestsCounter + 1 <= requests
    <3>1. requests > 0 => AddInt32(requestsCounter) = requestsCounter + 1
      BY <1>1, <2>1, CounterAdvances DEF Moves
    <3>2. requests > 0 => /\ requestsCounter' = AddInt32(requestsCounter)
                          /\ ~(AddInt32(requestsCounter) > requests)
      BY <1>11 DEF StartRequest, CountRequest, OverLimit
    <3> QED
      BY <1>1, <3>1, <3>2
  <2>5. Counted'
    BY <1>1, <2>2, <2>3, <2>4 DEF Counted
  <2>6. Refused'
    BY <1>1, <2>2, <2>3, <2>4 DEF Refused
  <2> QED
    BY <2>5, <2>6 DEF Inv4
<1>12. ASSUME NEW w \in Workers, Refuse(w) PROVE Inv4'
  <2>1. Moves(w, "admit", "exited")
    BY <1>1, <1>12, WorkerMoves
  <2>2. Cardinality(Exited)' = Cardinality(Exited) + 1 /\ Cardinality(Exited) \in Nat
    BY <1>3, <2>1
  <2>3. sent' = sent /\ done' = done /\ requests > 0
    BY <1>12 DEF Refuse, OverLimit, stoppers
  <2>4. requestsCounter' = requestsCounter + 1 /\ requestsCounter + 1 > requests
    <3>1. AddInt32(requestsCounter) = requestsCounter + 1
      BY <1>1, <2>1, <2>3, CounterAdvances DEF Moves
    <3> QED
      BY <1>12, <2>3, <3>1 DEF Refuse, CountRequest, OverLimit
  <2>5. Counted'
    BY <1>1, <2>2, <2>3, <2>4 DEF Counted
  <2>6. Refused'
    BY <1>1, <2>3, <2>4 DEF Refused
  <2> QED
    BY <2>5, <2>6 DEF Inv4
<1>13. ASSUME worker' = worker PROVE Cardinality(Exited)' = Cardinality(Exited)
  BY <1>13 DEF Exited, Located
<1>14. CASE BodyUnreadable
  BY <1>2, <1>13, <1>14 DEF BodyUnreadable, pool, stoppers
<1>15. CASE StartTest
  BY <1>2, <1>13, <1>15 DEF StartTest, pool, stoppers
<1>16. CASE StartTimerAndCloser
  BY <1>2, <1>13, <1>16 DEF StartTimerAndCloser, pool, stoppers
<1>17. CASE Signal
  BY <1>2, <1>13, <1>17 DEF Signal, pool, stoppers
<1>18. CASE CatchSignal
  BY <1>2, <1>13, <1>18 DEF CatchSignal, pool, stoppers
<1>19. CASE SignalStops
  BY <1>2, <1>13, <1>19 DEF SignalStops, CloseDone, pool, stoppers
<1>20. CASE TimerStops
  BY <1>2, <1>13, <1>20 DEF TimerStops, CloseDone, pool, stoppers
<1>21. CASE CloseResults
  BY <1>2, <1>13, <1>21 DEF CloseResults, pool, stoppers
<1>22. CASE Collect
  BY <1>2, <1>13, <1>22 DEF Collect, TakeResult, pool, stoppers
<1>23. CASE FinishCollecting
  BY <1>2, <1>13, <1>23 DEF FinishCollecting, pool, stoppers
<1>24. CASE Report
  BY <1>2, <1>13, <1>24 DEF Report, pool, stoppers
<1>25. CASE UNCHANGED vars
  BY <1>2, <1>13, <1>25 DEF vars, pool, stoppers
<1> QED
  BY <1>4, <1>5, <1>6, <1>7, <1>8, <1>9, <1>10, <1>11, <1>12, <1>14, <1>15, <1>16, <1>17, <1>18, <1>19, <1>20, <1>21, <1>22, <1>23, <1>24, <1>25 DEF Next, WorkerStep, MainStep, Ended

LEMMA CountedMeansLimited == TypeOK /\ Counted => LimitRespected
<1> SUFFICES ASSUME TypeOK, Counted, requests > 0
             PROVE  /\ sent <= requests /\ sent <= requestsCounter
                    /\ requestsCounter <= sent + Cardinality(Workers)
  BY DEF LimitRespected
<1>1. Exited = At(worker, {"exited"}) /\ Exited \subseteq Workers
  BY DEF Exited, Located, At
<1>2. Cardinality(Exited) \in Nat /\ Cardinality(Workers) \in Nat
  BY <1>1, CountIsNat
<1>3. Cardinality(Exited) <= Cardinality(Workers)
  BY <1>1, WorkersAssumption, FS_Subset
<1> QED
  BY <1>2, <1>3, LimitAssumption DEF TypeOK, Counted

LEMMA Limited == ASSUME NoWrap PROVE Spec => [](Inv1 /\ Inv2 /\ Inv4)
<1>1. Spec => [](Inv1 /\ Inv2)
  BY Typed, InitInv2, NextInv2, PTL DEF Spec
<1>2. Inv1 /\ Inv2 /\ Inv4 /\ [Next]_vars => Inv4'
  BY NextInv4
<1> QED
  BY <1>1, <1>2, InitInv4, PTL DEF Spec

(* A limit that leaves the counter room is never exceeded. *)
THEOREM LimitHolds == ASSUME NoWrap PROVE Spec => []LimitRespected
  BY Limited, CountedMeansLimited, PTL DEF Inv1, Inv4

-----------------------------------------------------------------------------
(* A test that was not stopped runs to its limit *)

(* What main finds when it reports: the channel is drained and every worker *)
(* has left, and only the limit makes one leave.                            *)
LEMMA AtTheReport ==
  TypeOK /\ Stages /\ Counted /\ Refused /\ EveryRequestAccounted => RunsToLimit
<1> SUFFICES ASSUME TypeOK, Stages, Counted, Refused, EveryRequestAccounted,
                    main = "report", requests > 0, ~done, NEW w \in Workers
             PROVE  results.total + skipped = requests
  BY DEF RunsToLimit
<1>1. worker[w] = "exited" /\ resultsChan = <<>>
  BY DEF Stages
<1>2. requestsCounter > requests
  BY <1>1 DEF Refused
<1>3. sent = requests
  BY <1>2, LimitAssumption DEF Counted, TypeOK
<1>4. Open = {}
  BY DEF Stages, Open, Located, InHand
<1>5. Cardinality(Open) = 0 /\ Len(resultsChan) = 0
  BY <1>1, <1>4, FS_EmptySet
<1>6. results.total \in Nat /\ skipped \in Nat
  BY DEF TypeOK, Counters
<1> QED
  BY <1>3, <1>5, <1>6 DEF EveryRequestAccounted

(* A limited test that nobody stopped reports on exactly the requests asked *)
(* for: no interleaving makes a worker leave early or lose a result.        *)
THEOREM RunsToItsLimit == ASSUME NoWrap PROVE Spec => []RunsToLimit
  BY Limited, RequestsAccounted, AtTheReport, PTL DEF Inv1, Inv2, Inv4

-----------------------------------------------------------------------------
(* Late starts *)

Inv5 ==
  \A w \in Workers :
    /\ lateStarts[w] <= 1
    /\ ~done \/ worker[w] = "admit" => lateStarts[w] = 0

LEMMA NextInv5 == Inv1 /\ Inv2 /\ Inv5 /\ [Next]_vars => Inv5'
<1> SUFFICES ASSUME Inv1, Inv2, Inv5, [Next]_vars PROVE Inv5'
  OBVIOUS
<1>1. worker \in [Workers -> WorkerPlace] /\ lateStarts \in [Workers -> Nat]
  BY DEF Inv1, TypeOK, WorkerPlace
(* Nobody starts a request, and nobody gets past the select after done. *)
<1>2. ASSUME lateStarts' = lateStarts, done => done',
             \A v \in Workers : worker'[v] = "admit" => worker[v] = "admit" \/ ~done
      PROVE  Inv5'
  BY <1>2 DEF Inv5
<1>3. ASSUME NEW w \in Workers, NEW from, NEW to, Moves(w, from, to), to # "admit"
      PROVE  \A v \in Workers : worker'[v] = "admit" => worker[v] = "admit"
  BY <1>3 DEF Moves
<1>4. ASSUME NEW w \in Workers, StartWorker(w) PROVE Inv5'
  <2>1. Moves(w, "unborn", "rampUp")
    BY <1>1, <1>4, WorkerMoves
  <2>2. UNCHANGED <<lateStarts, done>>
    BY <1>4 DEF StartWorker, stoppers
  <2> QED
    BY <1>2, <1>3, <2>1, <2>2
<1>5. ASSUME NEW w \in Workers, RampUp(w) PROVE Inv5'
  <2>1. Moves(w, "rampUp", "select")
    BY <1>1, <1>5, WorkerMoves
  <2>2. UNCHANGED <<lateStarts, done>>
    BY <1>5 DEF RampUp, stoppers
  <2> QED
    BY <1>2, <1>3, <2>1, <2>2
<1>6. ASSUME NEW w \in Workers, SeeDone(w) PROVE Inv5'
  <2>1. Moves(w, "select", "exited")
    BY <1>1, <1>6, WorkerMoves
  <2>2. UNCHANGED <<lateStarts, done>>
    BY <1>6 DEF SeeDone, stoppers
  <2> QED
    BY <1>2, <1>3, <2>1, <2>2
<1>7. ASSUME NEW w \in Workers, Proceed(w) PROVE Inv5'
  BY <1>2, <1>7 DEF Proceed, stoppers
<1>8. ASSUME NEW w \in Workers, StartRequest(w) PROVE Inv5'
  <2>1. Moves(w, "admit", "request")
    BY <1>1, <1>8, WorkerMoves
  <2>2. lateStarts[w] = 0
    BY <2>1 DEF Inv5, Moves
  <2>3. /\ done' = done
        /\ lateStarts'[w] = IF done THEN 1 ELSE 0
        /\ \A v \in Workers \ {w} : lateStarts'[v] = lateStarts[v]
    BY <1>1, <1>8, <2>2 DEF StartRequest, stoppers
  <2>4. /\ worker'[w] = "request"
        /\ \A v \in Workers \ {w} : worker'[v] = worker[v]
    BY <2>1 DEF Moves
  <2> QED
    BY <2>3, <2>4 DEF Inv5
<1>9. ASSUME NEW w \in Workers, Refuse(w) PROVE Inv5'
  <2>1. Moves(w, "admit", "exited")
    BY <1>1, <1>9, WorkerMoves
  <2>2. UNCHANGED <<lateStarts, done>>
    BY <1>9 DEF Refuse, stoppers
  <2> QED
    BY <1>2, <1>3, <2>1, <2>2
<1>10. ASSUME NEW w \in Workers, ExecuteRequest(w) PROVE Inv5'
  <2>1. Moves(w, "request", "send")
    BY <1>1, <1>10, WorkerMoves
  <2>2. UNCHANGED <<lateStarts, done>>
    BY <1>10 DEF ExecuteRequest, stoppers
  <2> QED
    BY <1>2, <1>3, <2>1, <2>2
<1>11. ASSUME NEW w \in Workers, SendResult(w) PROVE Inv5'
  <2>1. Moves(w, "send", "think")
    BY <1>1, <1>11, WorkerMoves DEF SendResult, Inv2, Stages
  <2>2. UNCHANGED <<lateStarts, done>>
    BY <1>11 DEF SendResult, stoppers
  <2> QED
    BY <1>2, <1>3, <2>1, <2>2
<1>12. ASSUME NEW w \in Workers, Think(w) PROVE Inv5'
  <2>1. Moves(w, "think", "select")
    BY <1>1, <1>12, WorkerMoves
  <2>2. UNCHANGED <<lateStarts, done>>
    BY <1>12 DEF Think, stoppers
  <2> QED
    BY <1>2, <1>3, <2>1, <2>2
<1>13. ASSUME MainStep \/ Signal \/ CatchSignal \/ CloseResults \/ UNCHANGED vars PROVE Inv5'
  BY <1>2, <1>13 DEF MainStep, BodyUnreadable, StartTest, StartTimerAndCloser, Collect, TakeResult,
                     FinishCollecting, Report, Signal, CatchSignal, CloseResults, vars, pool, stoppers
<1>14. ASSUME SignalStops \/ TimerStops PROVE Inv5'
  BY <1>2, <1>14 DEF SignalStops, TimerStops, CloseDone, pool
<1> QED
  BY <1>4, <1>5, <1>6, <1>7, <1>8, <1>9, <1>10, <1>11, <1>12, <1>13, <1>14 DEF Next, WorkerStep, Ended

(* After done is closed each worker starts at most the one request it had   *)
(* already been let through for.                                            *)
THEOREM LateStarts == Spec => []OneLateStartPerWorker
<1>1. Spec => [](Inv1 /\ Inv2)
  BY Typed, InitInv2, NextInv2, PTL DEF Spec
<1>2. Init => Inv5
  BY DEF Init, Inv5
<1>3. Inv5 => OneLateStartPerWorker
  BY DEF Inv5, OneLateStartPerWorker
<1> QED
  BY <1>1, <1>2, <1>3, NextInv5, PTL DEF Spec

-----------------------------------------------------------------------------
(* Refinement: the worker pool implements LoadReport *)

Final(m) == m \in {"report", "exited"}

(* What is open in LoadReport is with a worker or in the channel. *)
LEMMA OpenIs ==
  ASSUME TypeOK, EveryRequestAccounted
  PROVE  /\ sent - results.total - skipped = Cardinality(Open) + Len(resultsChan)
         /\ Cardinality(Open) \in Nat /\ Len(resultsChan) \in Nat
         /\ results.total \in Nat /\ skipped \in Nat /\ sent \in Nat
<1>1. Open = At(worker, InHand)
  BY DEF Open, Located, At
<1>2. Cardinality(Open) \in Nat
  BY <1>1, CountIsNat
<1>3. Len(resultsChan) \in Nat /\ results.total \in Nat /\ skipped \in Nat /\ sent \in Nat
  BY LenProperties DEF TypeOK, Counters
<1> QED
  BY <1>2, <1>3 DEF EveryRequestAccounted

LEMMA NothingOpen ==
  ASSUME TypeOK, EveryRequestAccounted, resultsChan = <<>>,
         \A w \in Workers : worker[w] \in {"unborn", "exited"}
  PROVE  sent - results.total - skipped = 0
<1>1. Open = {}
  BY DEF Open, Located, InHand
<1>2. Cardinality(Open) = 0 /\ Len(resultsChan) = 0
  BY <1>1, FS_EmptySet
<1> QED
  BY <1>2, OpenIs

LEMMA InitRefines == Init => Test!Init
<1> SUFFICES ASSUME Init PROVE Test!Init
  OBVIOUS
<1>1. sent = 0 /\ results.total = 0 /\ skipped = 0 /\ requests \in Nat
  BY LimitAssumption DEF Init, Counters
<1>2. (main \in {"report", "exited"}) = FALSE
  BY DEF Init
<1> QED
  BY <1>1, <1>2 DEF Test!Init

LEMMA NextRefines ==
  ASSUME NoWrap, Inv1, Inv2, Inv4, EveryRequestAccounted, [Next]_vars
  PROVE  [Test!Next]_(Test!vars)
<1>1. /\ TypeOK /\ Counted /\ Stages /\ sent \in Nat /\ requests \in Nat
      /\ requestsCounter \in Int /\ worker \in [Workers -> WorkerPlace]
      /\ results.total \in Nat /\ skipped \in Nat
  BY LimitAssumption DEF Inv1, Inv2, Inv4, TypeOK, WorkerPlace, Counters
<1>2. ASSUME UNCHANGED <<requests, sent, results, skipped>>, Final(main') <=> Final(main)
      PROVE  UNCHANGED Test!vars
  BY <1>2 DEF Test!vars, Final
<1>3. ASSUME NEW w \in Workers, StartRequest(w) PROVE Test!Issue
  <2>1. Moves(w, "admit", "request")
    BY <1>1, <1>3, WorkerMoves
  <2>2. ~Final(main)
    BY <1>1, <2>1 DEF Stages, Moves, Final
  <2>3. requests = 0 \/ sent < requests
    <3>1. SUFFICES ASSUME requests > 0 PROVE sent < requests
      BY <1>1
    <3>2. AddInt32(requestsCounter) = requestsCounter + 1
      BY <1>1, <2>1, <3>1, CounterAdvances DEF Moves
    <3>3. ~(AddInt32(requestsCounter) > requests)
      BY <1>3, <3>1 DEF StartRequest, OverLimit
    <3> QED
      BY <1>1, <3>1, <3>2, <3>3 DEF Counted
  <2>4. /\ sent' = sent + 1
        /\ UNCHANGED <<requests, results, skipped, main>>
    BY <1>3 DEF StartRequest, flags, report
  <2>5. sent' - results'.total - skipped' = (sent - results.total - skipped) + 1
    BY <1>1, <2>4
  <2> QED
    BY <2>2, <2>3, <2>4, <2>5 DEF Test!Issue, Final
<1>4. ASSUME Collect PROVE Test!Count \/ Test!Drop
  <2> DEFINE r == Head(resultsChan)
  <2>1. sent - results.total - skipped > 0
    <3>1. resultsChan # <<>> /\ resultsChan \in Seq(RequestResult)
      BY <1>1, <1>4 DEF Collect, TakeResult, TypeOK
    <3>2. Len(resultsChan) > 0
      BY <3>1
    <3> QED
      BY <1>1, <3>2, OpenIs
  <2>2. ~Final(main) /\ UNCHANGED <<requests, sent, main>>
    BY <1>4 DEF Collect, TakeResult, Final, flags, pool
  <2>3. \/ Skip(r)
        \/ results' = Bump(results, Failure) /\ skipped' = skipped
        \/ results' = Bump(results, Success) /\ skipped' = skipped
    BY <1>4 DEF Collect, CountError, CountHTTPError, CountSuccess
  <2>4. \/ results' = results /\ skipped' = skipped + 1
        \/ results'.total = results.total + 1 /\ skipped' = skipped
    <3>1. CASE Skip(r)
      BY <3>1 DEF Skip
    <3>2. CASE results' = Bump(results, Failure) /\ skipped' = skipped
      BY <1>1, <3>2, BumpCounts DEF TypeOK, Failure
    <3>3. CASE results' = Bump(results, Success) /\ skipped' = skipped
      BY <1>1, <3>3, BumpCounts DEF TypeOK, Success
    <3> QED
      BY <2>3, <3>1, <3>2, <3>3
  <2>5. CASE results' = results /\ skipped' = skipped + 1
    <3>1. sent' - results'.total - skipped' = (sent - results.total - skipped) - 1
      BY <1>1, <2>2, <2>5
    <3> QED
      BY <2>1, <2>2, <2>5, <3>1 DEF Test!Drop, Final
  <2>6. CASE results'.total = results.total + 1 /\ skipped' = skipped
    <3>1. sent' - results'.total - skipped' = (sent - results.total - skipped) - 1
      BY <1>1, <2>2, <2>6
    <3> QED
      BY <2>1, <2>2, <2>6, <3>1 DEF Test!Count, Final
  <2> QED
    BY <2>4, <2>5, <2>6
<1>5. ASSUME BodyUnreadable \/ FinishCollecting PROVE Test!Publish
  <2>1. /\ resultsChan = <<>>
        /\ \A w \in Workers : worker[w] \in {"unborn", "exited"}
    BY <1>1, <1>5 DEF BodyUnreadable, FinishCollecting, Stages
  <2>2. sent - results.total - skipped = 0
    BY <1>1, <2>1, NothingOpen
  <2>3. ~Final(main) /\ Final(main') /\ UNCHANGED <<requests, sent, results, skipped>>
    BY <1>5 DEF BodyUnreadable, FinishCollecting, Final, flags, pool, report
  <2> QED
    BY <2>2, <2>3 DEF Test!Publish, Final
<1>6. ASSUME NEW w \in Workers,
             \/ StartWorker(w) \/ RampUp(w) \/ SeeDone(w) \/ Proceed(w)
             \/ Refuse(w) \/ ExecuteRequest(w) \/ SendResult(w) \/ Think(w)
      PROVE  UNCHANGED Test!vars
  BY <1>2, <1>6 DEF StartWorker, RampUp, SeeDone, Proceed, Refuse, ExecuteRequest, SendResult,
                    Think, flags, report
<1>7. ASSUME \/ StartTest \/ StartTimerAndCloser \/ Report
             \/ Signal \/ CatchSignal \/ SignalStops \/ TimerStops \/ CloseResults
      PROVE  UNCHANGED Test!vars
  <2>1. UNCHANGED <<requests, sent, results, skipped>>
    BY <1>7 DEF StartTest, StartTimerAndCloser, Report, Signal, CatchSignal, SignalStops,
                TimerStops, CloseResults, flags, pool, report
  <2>2. Final(main') <=> Final(main)
    BY <1>7 DEF StartTest, StartTimerAndCloser, Report, Signal, CatchSignal, SignalStops,
                TimerStops, CloseResults, Final
  <2> QED
    BY <1>2, <2>1, <2>2
<1>8. CASE UNCHANGED vars
  BY <1>2, <1>8 DEF vars, flags, pool, report
<1> QED
  BY <1>3, <1>4, <1>5, <1>6, <1>7, <1>8 DEF Next, WorkerStep, MainStep, Ended, Test!Next

(* If the counter has room, the pool of workers, channel, closer and        *)
(* collector implements LoadReport: a request is issued within the limit    *)
(* only, decided once, and the report is final when nothing is open.        *)
THEOREM PoolImplementsReport == ASSUME NoWrap PROVE Spec => ImplementsLoadReport
<1>1. Spec => [](Inv1 /\ Inv2 /\ Inv4)
  BY Limited
<1>2. Inv1 /\ Inv2 /\ Inv4 /\ EveryRequestAccounted /\ [Next]_vars
        => [Test!Next]_(Test!vars)
  BY NextRefines
<1> QED
  BY <1>1, <1>2, RequestsAccounted, InitRefines, PTL DEF Spec, ImplementsLoadReport, Test!Spec

-----------------------------------------------------------------------------
(* Sums over finite sets.  MapThenSumSet chooses a function defined by      *)
(* recursion on the subsets; that there is one, and what it computes, is    *)
(* shown with smallest counterexamples.                                     *)

SumOf(f, S) == MapThenSumSet(LAMBDA c : f[c], S)

(* The function the fold chooses, for every subset of S. *)
Chosen(s) == CHOOSE x \in s : TRUE
IsSum(it, f, S) ==
  it = [s \in SUBSET S |-> IF s = {} THEN 0 ELSE f[Chosen(s)] + it[s \ {Chosen(s)}]]

LEMMA SumIsFold ==
  ASSUME NEW f, NEW S
  PROVE  SumOf(f, S) = (CHOOSE it : IsSum(it, f, S))[S]
  BY DEF SumOf, MapThenSumSet, MapThenFoldSet, IsSum, Chosen

LEMMA LeastSet ==
  ASSUME NEW S, IsFiniteSet(S), NEW B, B \subseteq SUBSET S, B # {}
  PROVE  \E T \in B : \A U \in B : U \subseteq T => U = T
<1> DEFINE R == StrictSubsetOrdering(S)
<1>1. B \subseteq FiniteSubsetsOf(S)
  BY FS_Subset DEF FiniteSubsetsOf
<1>2. IsWellFoundedOn(R, FiniteSubsetsOf(S))
  BY FS_StrictSubsetOrderingWellFounded
<1> HIDE DEF R
<1>3. PICK T \in B : \A U \in B : <<U, T>> \notin R
  BY <1>1, <1>2, WFMin
<1>4. \A U \in B : U \subseteq T => U = T
  <2> SUFFICES ASSUME NEW U \in B, U \subseteq T, U # T
               PROVE  FALSE
    OBVIOUS
  <2>1. U \in SUBSET S /\ T \in SUBSET S
    OBVIOUS
  <2> QED
    BY <1>3, <2>1 DEF R, StrictSubsetOrdering
<1> QED
  BY <1>4

LEMMA ChosenIsMember ==
  ASSUME NEW s, s # {}
  PROVE  Chosen(s) \in s
  BY DEF Chosen

(* Two such functions agree where both are defined. *)
LEMMA SumsAgree ==
  ASSUME NEW f, NEW S, IsFiniteSet(S), NEW it, IsSum(it, f, S),
         NEW T, T \subseteq S, NEW jt, IsSum(jt, f, T)
  PROVE  \A s \in SUBSET T : it[s] = jt[s]
<1> DEFINE Bad == {s \in SUBSET T : it[s] # jt[s]}
<1> SUFFICES ASSUME Bad # {}
             PROVE  FALSE
  OBVIOUS
<1>1. Bad \subseteq SUBSET S
  OBVIOUS
<1>2. PICK s \in Bad : \A u \in Bad : u \subseteq s => u = s
  <2> HIDE DEF Bad
  <2> QED
    BY <1>1, LeastSet
<1>3. s \in SUBSET S /\ s \in SUBSET T
  BY <1>1
<1>4. /\ it[s] = IF s = {} THEN 0 ELSE f[Chosen(s)] + it[s \ {Chosen(s)}]
      /\ jt[s] = IF s = {} THEN 0 ELSE f[Chosen(s)] + jt[s \ {Chosen(s)}]
  BY <1>3 DEF IsSum
<1>5. s # {} => it[s \ {Chosen(s)}] = jt[s \ {Chosen(s)}]
  <2> SUFFICES ASSUME s # {}
               PROVE  it[s \ {Chosen(s)}] = jt[s \ {Chosen(s)}]
    OBVIOUS
  <2>1. Chosen(s) \in s
    BY ChosenIsMember
  <2>2. s \ {Chosen(s)} \subseteq s /\ s \ {Chosen(s)} # s /\ s \ {Chosen(s)} \in SUBSET T
    BY <1>3, <2>1
  <2> QED
    BY <1>2, <2>2
<1> QED
  BY <1>4, <1>5

(* Over a finite set there is one, so the sum over a set is the sum over    *)
(* the others and the value at one member.                                  *)
LEMMA SumStep ==
  ASSUME NEW f, NEW u, \E it : IsSum(it, f, u), IsFiniteSet(u),
         u # {} => \E it : IsSum(it, f, u \ {Chosen(u)})
  PROVE  SumOf(f, u) = IF u = {} THEN 0 ELSE f[Chosen(u)] + SumOf(f, u \ {Chosen(u)})
<1> DEFINE it == CHOOSE i : IsSum(i, f, u)
           v == u \ {Chosen(u)}
           jt == CHOOSE i : IsSum(i, f, v)
<1>1. IsSum(it, f, u)
  OBVIOUS
<1>2. u # {} => IsSum(jt, f, v)
  OBVIOUS
<1>3. SumOf(f, u) = it[u] /\ SumOf(f, v) = jt[v]
  BY SumIsFold
<1> HIDE DEF it, jt
<1>4. it[u] = IF u = {} THEN 0 ELSE f[Chosen(u)] + it[v]
  BY <1>1 DEF IsSum
<1>5. u # {} => it[v] = jt[v]
  BY <1>1, <1>2, SumsAgree
<1> QED
  BY <1>3, <1>4, <1>5

LEMMA SumExists ==
  ASSUME NEW f, NEW S, IsFiniteSet(S)
  PROVE  \E it : IsSum(it, f, S)
<1> DEFINE Bad == {T \in SUBSET S : ~ \E it : IsSum(it, f, T)}
<1> SUFFICES ASSUME Bad # {}
             PROVE  FALSE
  OBVIOUS
<1>1. PICK T \in Bad : \A U \in Bad : U \subseteq T => U = T
  <2>1. Bad \subseteq SUBSET S
    OBVIOUS
  <2> HIDE DEF Bad
  <2> QED
    BY <2>1, LeastSet
<1>2. T \in SUBSET S /\ ~ \E it : IsSum(it, f, T)
  OBVIOUS
<1>3. ASSUME NEW U \in SUBSET T, U # T
      PROVE  IsFiniteSet(U) /\ \E it : IsSum(it, f, U)
  <2>1. U \in SUBSET S
    BY <1>2
  <2> QED
    BY <1>1, <1>3, <2>1, FS_Subset
<1>4. ASSUME NEW U \in SUBSET T, U # T
      PROVE  SumOf(f, U) = IF U = {} THEN 0 ELSE f[Chosen(U)] + SumOf(f, U \ {Chosen(U)})
  <2>1. U \ {Chosen(U)} \in SUBSET T
    OBVIOUS
  <2>2. U # {} => U \ {Chosen(U)} # T
    BY ChosenIsMember
  <2> QED
    BY <1>3, <1>4, <2>1, <2>2, SumStep
<1> DEFINE it == [s \in SUBSET T |-> IF s = {} THEN 0 ELSE f[Chosen(s)] + SumOf(f, s \ {Chosen(s)})]
<1>5. ASSUME NEW s \in SUBSET T, s # {}
      PROVE  it[s \ {Chosen(s)}] = SumOf(f, s \ {Chosen(s)})
  <2> DEFINE U == s \ {Chosen(s)}
  <2>1. Chosen(s) \in s
    BY <1>5, ChosenIsMember
  <2>2. U \in SUBSET T /\ U # T
    BY <2>1
  <2>3. it[U] = IF U = {} THEN 0 ELSE f[Chosen(U)] + SumOf(f, U \ {Chosen(U)})
    BY <2>2
  <2> HIDE DEF U, it
  <2> QED
    BY <1>4, <2>2, <2>3 DEF U
<1>6. \A s \in SUBSET T :
        it[s] = IF s = {} THEN 0 ELSE f[Chosen(s)] + it[s \ {Chosen(s)}]
  <2> SUFFICES ASSUME NEW s \in SUBSET T
               PROVE  it[s] = IF s = {} THEN 0 ELSE f[Chosen(s)] + it[s \ {Chosen(s)}]
    OBVIOUS
  <2>1. it[s] = IF s = {} THEN 0 ELSE f[Chosen(s)] + SumOf(f, s \ {Chosen(s)})
    OBVIOUS
  <2> HIDE DEF it
  <2> QED
    BY <1>5, <2>1
<1>7. it = [s \in SUBSET T |-> it[s]]
  OBVIOUS
<1> HIDE DEF it
<1>8. IsSum(it, f, T)
  BY <1>6, <1>7 DEF IsSum
<1> QED
  BY <1>2, <1>8

LEMMA SumOfRest ==
  ASSUME NEW f, NEW S, IsFiniteSet(S)
  PROVE  SumOf(f, S) = IF S = {} THEN 0 ELSE f[Chosen(S)] + SumOf(f, S \ {Chosen(S)})
<1>1. IsFiniteSet(S \ {Chosen(S)})
  BY FS_RemoveElement
<1> QED
  BY <1>1, SumExists, SumStep

(* A sum of natural numbers is one. *)
LEMMA SumIsNat ==
  ASSUME NEW S, IsFiniteSet(S), NEW f, \A x \in S : f[x] \in Nat
  PROVE  SumOf(f, S) \in Nat
<1> DEFINE Bad == {T \in SUBSET S : SumOf(f, T) \notin Nat}
<1> SUFFICES ASSUME Bad # {}
             PROVE  FALSE
  OBVIOUS
<1>1. PICK T \in Bad : \A U \in Bad : U \subseteq T => U = T
  <2>1. Bad \subseteq SUBSET S
    OBVIOUS
  <2> HIDE DEF Bad
  <2> QED
    BY <2>1, LeastSet
<1>2. T \in SUBSET S /\ SumOf(f, T) \notin Nat /\ IsFiniteSet(T)
  BY FS_Subset
<1>3. SumOf(f, T) = IF T = {} THEN 0 ELSE f[Chosen(T)] + SumOf(f, T \ {Chosen(T)})
  BY <1>2, SumOfRest
<1>4. T # {} => Chosen(T) \in T
  BY ChosenIsMember
<1>5. T # {} => SumOf(f, T \ {Chosen(T)}) \in Nat
  BY <1>1, <1>2, <1>4
<1> HIDE DEF Bad
<1> QED
  BY <1>2, <1>3, <1>4, <1>5

(* One more at c is one more in the sums over the sets that contain c. *)
LEMMA SumBumps ==
  ASSUME NEW S, IsFiniteSet(S), NEW f, \A x \in S : f[x] \in Nat,
         NEW g, NEW c, \A x \in S : g[x] = IF x = c THEN f[x] + 1 ELSE f[x]
  PROVE  SumOf(g, S) = SumOf(f, S) + (IF c \in S THEN 1 ELSE 0)
<1> DEFINE Bad == {T \in SUBSET S : SumOf(g, T) # SumOf(f, T) + (IF c \in T THEN 1 ELSE 0)}
<1> SUFFICES ASSUME Bad # {}
             PROVE  FALSE
  OBVIOUS
<1>1. PICK T \in Bad : \A U \in Bad : U \subseteq T => U = T
  <2>1. Bad \subseteq SUBSET S
    OBVIOUS
  <2> HIDE DEF Bad
  <2> QED
    BY <2>1, LeastSet
<1>2. T \in SUBSET S /\ IsFiniteSet(T) /\ SumOf(g, T) # SumOf(f, T) + (IF c \in T THEN 1 ELSE 0)
  BY FS_Subset
<1> DEFINE x == Chosen(T)
           U == T \ {x}
<1>3. /\ SumOf(f, T) = IF T = {} THEN 0 ELSE f[x] + SumOf(f, U)
      /\ SumOf(g, T) = IF T = {} THEN 0 ELSE g[x] + SumOf(g, U)
  BY <1>2, SumOfRest
<1>4. T # {}
  BY <1>2, <1>3
<1>5. x \in T /\ x \in S
  BY <1>2, <1>4, ChosenIsMember
<1>6. SumOf(g, U) = SumOf(f, U) + (IF c \in U THEN 1 ELSE 0)
  <2>1. U \in SUBSET S /\ U \subseteq T /\ U # T
    BY <1>2, <1>5
  <2> HIDE DEF U
  <2> QED
    BY <1>1, <2>1
<1>7. SumOf(f, U) \in Nat
  <2>1. U \subseteq S /\ IsFiniteSet(U) /\ \A y \in U : f[y] \in Nat
    BY <1>2, FS_RemoveElement
  <2> HIDE DEF U
  <2> QED
    BY <2>1, SumIsNat
<1>8. f[x] \in Nat /\ g[x] = IF x = c THEN f[x] + 1 ELSE f[x]
  BY <1>5
<1>9. (x = c => c \in T /\ c \notin U) /\ (x # c => (c \in U <=> c \in T))
  BY <1>5
<1> HIDE DEF Bad, U, x
<1> QED
  BY <1>2, <1>3, <1>4, <1>6, <1>7, <1>8, <1>9

(* Zeros add up to zero. *)
LEMMA SumOfZeros ==
  ASSUME NEW S, IsFiniteSet(S), NEW f, \A x \in S : f[x] = 0
  PROVE  SumOf(f, S) = 0
<1> DEFINE Bad == {T \in SUBSET S : SumOf(f, T) # 0}
<1> SUFFICES ASSUME Bad # {}
             PROVE  FALSE
  OBVIOUS
<1>1. PICK T \in Bad : \A U \in Bad : U \subseteq T => U = T
  <2>1. Bad \subseteq SUBSET S
    OBVIOUS
  <2> HIDE DEF Bad
  <2> QED
    BY <2>1, LeastSet
<1>2. T \in SUBSET S /\ SumOf(f, T) # 0 /\ IsFiniteSet(T)
  BY FS_Subset
<1>3. SumOf(f, T) = IF T = {} THEN 0 ELSE f[Chosen(T)] + SumOf(f, T \ {Chosen(T)})
  BY <1>2, SumOfRest
<1>4. T # {} => Chosen(T) \in T
  BY ChosenIsMember
<1>5. T # {} => SumOf(f, T \ {Chosen(T)}) = 0
  BY <1>1, <1>2, <1>4
<1> HIDE DEF Bad
<1> QED
  BY <1>2, <1>3, <1>4, <1>5

(* The average of n numbers of at least a and at most b. *)
LEMMA Quotient ==
  ASSUME NEW n \in Nat, n > 0, NEW s \in Nat, NEW a \in Nat, NEW b \in Nat, n * a <= s, s <= n * b
  PROVE  a <= s \div n /\ s \div n <= b
  OBVIOUS

LEMMA Grows ==
  ASSUME NEW n \in Nat, NEW s \in Nat, NEW a \in Nat, NEW b \in Nat, NEW d \in Nat,
         NEW a2 \in Nat, NEW b2 \in Nat, n * a <= s, s <= n * b,
         a2 <= a, a2 <= d, b <= b2, d <= b2
  PROVE  (n + 1) * a2 <= s + d /\ s + d <= (n + 1) * b2
  OBVIOUS

-----------------------------------------------------------------------------
(* The report *)

(* The smallest response time starts at an hour. *)
WithinAnHour == \A a \in Answers : a.duration <= Hour

ErrorCodes == 400..599
SuccessTimes == {a.duration : a \in {b \in Answers : b.code \notin ErrorCodes}}

Tallies ==
  /\ results.total = results.successful + results.failed
  /\ results.errors = results.failed
  /\ SumOf(statusCodes, Codes \ ErrorCodes) = results.successful
  /\ SumOf(statusCodes, Codes \cap ErrorCodes) <= results.failed

Extremes ==
  /\ results.successful * times.minimum <= times.sum
  /\ times.sum <= results.successful * times.maximum
  /\ results.successful = 0 => times.minimum = Hour /\ times.maximum = 0
  /\ results.successful # 0 => {times.minimum, times.maximum} \subseteq SuccessTimes

ReportInv == Tallies /\ Extremes

LEMMA CodesFinite ==
  /\ IsFiniteSet(Codes \ ErrorCodes) /\ Codes \ ErrorCodes \subseteq Codes
  /\ IsFiniteSet(Codes \cap ErrorCodes) /\ Codes \cap ErrorCodes \subseteq Codes
<1>1. IsFiniteSet(Codes)
  BY CodesAssumption DEF Codes
<1> QED
  BY <1>1, FS_Subset

LEMMA InitReport == Init => ReportInv
<1> SUFFICES ASSUME Init
             PROVE  ReportInv
  OBVIOUS
<1>1. /\ results.total = 0 /\ results.successful = 0 /\ results.failed = 0 /\ results.errors = 0
      /\ times.minimum = Hour /\ times.maximum = 0 /\ times.sum = 0
  BY DEF Init, Counters
<1>2. \A c \in Codes : statusCodes[c] = 0
  BY DEF Init
<1>3. /\ SumOf(statusCodes, Codes \ ErrorCodes) = 0
      /\ SumOf(statusCodes, Codes \cap ErrorCodes) = 0
  BY <1>2, CodesFinite, SumOfZeros
<1>4. Tallies
  BY <1>1, <1>3 DEF Tallies
<1>5. 0 * times.minimum <= 0 /\ 0 <= 0 * times.maximum
  BY <1>1, DataAssumption
<1>6. Extremes
  BY <1>1, <1>5 DEF Extremes
<1> QED
  BY <1>4, <1>6 DEF ReportInv

(* One response more with this code. *)
LEMMA ReceivedMore ==
  ASSUME statusCodes \in [Codes -> Nat], NEW code \in Codes,
         statusCodes' = [statusCodes EXCEPT ![code] = @ + 1],
         NEW S, S \subseteq Codes, IsFiniteSet(S)
  PROVE  SumOf(statusCodes', S) = SumOf(statusCodes, S) + (IF code \in S THEN 1 ELSE 0)
<1>1. \A x \in S : statusCodes[x] \in Nat
  OBVIOUS
<1>2. \A x \in S : statusCodes'[x] = IF x = code THEN statusCodes[x] + 1 ELSE statusCodes[x]
  OBVIOUS
<1> QED
  BY <1>1, <1>2, SumBumps

LEMMA BumpsAre ==
  ASSUME NEW s \in [Counters -> Nat]
  PROVE  /\ Bump(s, Failure).total = s.total + 1 /\ Bump(s, Failure).failed = s.failed + 1
         /\ Bump(s, Failure).errors = s.errors + 1 /\ Bump(s, Failure).successful = s.successful
         /\ Bump(s, Success).total = s.total + 1 /\ Bump(s, Success).failed = s.failed
         /\ Bump(s, Success).errors = s.errors /\ Bump(s, Success).successful = s.successful + 1
  BY DEF Bump, Counters, Failure, Success

LEMMA SuccessRecorded ==
  ASSUME WithinAnHour, TypeOK, Extremes, NEW r \in RequestResult, CountSuccess(r)
  PROVE  Extremes'
<1> DEFINE n == results.successful
           d == r.duration
<1>1. r.err = "none" /\ ~IsHTTPError(r.code)
  BY DEF CountSuccess
<1>2. PICK a \in Answers : r.code = a.code /\ d = a.duration
  BY <1>1 DEF RequestResult, Response, ContextOver, RequestError
<1>3. d \in Nat /\ d <= Hour /\ d \in SuccessTimes
  BY <1>1, <1>2, DataAssumption DEF WithinAnHour, SuccessTimes, IsHTTPError, ErrorCodes
<1>4. n \in Nat /\ times \in Times /\ times.minimum \in Nat /\ times.maximum \in Nat /\ times.sum \in Nat
  BY DEF TypeOK, Times, Counters
<1>5. results'.successful = n + 1
  BY BumpsAre DEF CountSuccess, TypeOK
<1>6. /\ times'.minimum = IF d < times.minimum THEN d ELSE times.minimum
      /\ times'.maximum = IF d > times.maximum THEN d ELSE times.maximum
      /\ times'.sum = times.sum + d
  BY DEF CountSuccess, RecordTime
<1>7. /\ n * times.minimum <= times.sum /\ times.sum <= n * times.maximum
      /\ n = 0 => times.minimum = Hour /\ times.maximum = 0
      /\ n # 0 => times.minimum \in SuccessTimes /\ times.maximum \in SuccessTimes
  BY DEF Extremes
<1> HIDE DEF n, d
<1>8. /\ times'.minimum \in Nat /\ times'.maximum \in Nat
      /\ times'.minimum <= times.minimum /\ times'.minimum <= d
      /\ times.maximum <= times'.maximum /\ d <= times'.maximum
  BY <1>3, <1>4, <1>6
<1>9. /\ (n + 1) * times'.minimum <= times.sum + d
      /\ times.sum + d <= (n + 1) * times'.maximum
  BY ONLY <1>3, <1>4, <1>7, <1>8, Grows
<1>10. times'.minimum \in SuccessTimes /\ times'.maximum \in SuccessTimes
  <2>1. CASE n = 0
    BY <1>3, <1>6, <1>7, <2>1, DataAssumption
  <2>2. CASE n # 0
    BY <1>3, <1>6, <1>7, <2>2
  <2> QED
    BY <2>1, <2>2
<1>11. n + 1 # 0
  BY <1>4
<1> QED
  BY <1>5, <1>6, <1>9, <1>10, <1>11 DEF Extremes

LEMMA NextReport == ASSUME WithinAnHour, Inv1, ReportInv, [Next]_vars PROVE ReportInv'
<1> USE DEF Inv1
<1>1. ASSUME UNCHANGED <<results, statusCodes, times>>
      PROVE  ReportInv'
  BY <1>1 DEF ReportInv, Tallies, Extremes
<1>2. ASSUME NEW r \in RequestResult,
             Skip(r) \/ CountError(r) \/ CountHTTPError(r) \/ CountSuccess(r)
      PROVE  ReportInv'
  <2> DEFINE well == SumOf(statusCodes, Codes \ ErrorCodes)
             ill == SumOf(statusCodes, Codes \cap ErrorCodes)
  <2>1. /\ results \in [Counters -> Nat] /\ statusCodes \in [Codes -> Nat]
        /\ results.total \in Nat /\ results.failed \in Nat /\ results.errors \in Nat
        /\ results.successful \in Nat
    BY DEF TypeOK, Counters
  <2>2. /\ results.total = results.successful + results.failed
        /\ results.errors = results.failed
        /\ well = results.successful /\ ill <= results.failed
    BY DEF ReportInv, Tallies
  <2>3. well \in Nat /\ ill \in Nat
    BY <2>1, CodesFinite, SumIsNat
  <2>4. CASE Skip(r)
    BY <1>1, <2>4 DEF Skip
  <2>5. CASE CountError(r)
    <3>1. /\ results'.total = results.total + 1 /\ results'.failed = results.failed + 1
          /\ results'.errors = results.errors + 1 /\ results'.successful = results.successful
      BY <2>1, <2>5, BumpsAre DEF CountError
    <3>2. statusCodes' = statusCodes /\ times' = times
      BY <2>5 DEF CountError
    <3>3. SumOf(statusCodes', Codes \ ErrorCodes) = well /\ SumOf(statusCodes', Codes \cap ErrorCodes) = ill
      BY <3>2
    <3>4. Extremes'
      BY <3>1, <3>2 DEF ReportInv, Extremes
    <3> HIDE DEF well, ill
    <3>5. Tallies'
      BY <2>1, <2>2, <2>3, <3>1, <3>3 DEF Tallies
    <3> QED
      BY <3>4, <3>5 DEF ReportInv
  <2>6. CASE CountHTTPError(r)
    <3>1. /\ results'.total = results.total + 1 /\ results'.failed = results.failed + 1
          /\ results'.errors = results.errors + 1 /\ results'.successful = results.successful
      BY <2>1, <2>6, BumpsAre DEF CountHTTPError
    <3>2. /\ times' = times /\ r.code \in Codes /\ r.code \in ErrorCodes
          /\ statusCodes' = [statusCodes EXCEPT ![r.code] = @ + 1]
      <4>1. r.code \in Codes /\ r.code \in Nat
        BY <2>6, ResultFields, DataAssumption DEF CountHTTPError, Codes
      <4> QED
        BY <2>6, <4>1 DEF CountHTTPError, IsHTTPError, ErrorCodes
    <3>3. /\ SumOf(statusCodes', Codes \ ErrorCodes) = well + 0
          /\ SumOf(statusCodes', Codes \cap ErrorCodes) = ill + 1
      <4>1. ASSUME NEW S, S \subseteq Codes, IsFiniteSet(S)
            PROVE  SumOf(statusCodes', S) = SumOf(statusCodes, S) + (IF r.code \in S THEN 1 ELSE 0)
        BY <2>1, <3>2, <4>1, ReceivedMore
      <4>2. r.code \notin Codes \ ErrorCodes /\ r.code \in Codes \cap ErrorCodes
        BY <3>2
      <4> QED
        BY <4>1, <4>2, CodesFinite
    <3>4. Extremes'
      BY <3>1, <3>2 DEF ReportInv, Extremes
    <3> HIDE DEF well, ill
    <3>5. Tallies'
      BY <2>1, <2>2, <2>3, <3>1, <3>3 DEF Tallies
    <3> QED
      BY <3>4, <3>5 DEF ReportInv
  <2>7. CASE CountSuccess(r)
    <3>1. /\ results'.total = results.total + 1 /\ results'.failed = results.failed
          /\ results'.errors = results.errors /\ results'.successful = results.successful + 1
      BY <2>1, <2>7, BumpsAre DEF CountSuccess
    <3>2. /\ r.code \in Codes /\ r.code \notin ErrorCodes
          /\ statusCodes' = [statusCodes EXCEPT ![r.code] = @ + 1]
      <4>1. r.code \in Codes /\ r.code \in Nat
        BY <2>7, ResultFields, DataAssumption DEF CountSuccess, Codes
      <4> QED
        BY <2>7, <4>1 DEF CountSuccess, IsHTTPError, ErrorCodes
    <3>3. /\ SumOf(statusCodes', Codes \ ErrorCodes) = well + 1
          /\ SumOf(statusCodes', Codes \cap ErrorCodes) = ill + 0
      <4>1. ASSUME NEW S, S \subseteq Codes, IsFiniteSet(S)
            PROVE  SumOf(statusCodes', S) = SumOf(statusCodes, S) + (IF r.code \in S THEN 1 ELSE 0)
        BY <2>1, <3>2, <4>1, ReceivedMore
      <4>2. r.code \in Codes \ ErrorCodes /\ r.code \notin Codes \cap ErrorCodes
        BY <3>2
      <4> QED
        BY <4>1, <4>2, CodesFinite
    <3>4. Extremes'
      BY <2>7, SuccessRecorded DEF ReportInv
    <3> HIDE DEF well, ill
    <3>5. Tallies'
      BY <2>1, <2>2, <2>3, <3>1, <3>3 DEF Tallies
    <3> QED
      BY <3>4, <3>5 DEF ReportInv
  <2> QED
    BY <1>2, <2>4, <2>5, <2>6, <2>7
<1>3. CASE Collect
  <2>1. Head(resultsChan) \in RequestResult
    BY <1>3 DEF Collect, TakeResult, TypeOK
  <2> QED
    BY <1>2, <1>3, <2>1 DEF Collect
<1>4. ASSUME NEW w \in Workers, WorkerStep(w)
      PROVE  UNCHANGED <<results, statusCodes, times>>
  BY <1>4 DEF WorkerStep, StartWorker, RampUp, SeeDone, Proceed, StartRequest, Refuse,
              ExecuteRequest, SendResult, Think, report
<1>5. ASSUME \/ BodyUnreadable \/ StartTest \/ StartTimerAndCloser \/ FinishCollecting \/ Report
             \/ Signal \/ CatchSignal \/ SignalStops \/ TimerStops \/ CloseResults \/ UNCHANGED vars
      PROVE  UNCHANGED <<results, statusCodes, times>>
  BY <1>5 DEF BodyUnreadable, StartTest, StartTimerAndCloser, FinishCollecting, Report, Signal,
              CatchSignal, SignalStops, TimerStops, CloseResults, vars, report
<1> QED
  BY <1>1, <1>3, <1>4, <1>5 DEF Next, MainStep, Ended

LEMMA ReportAgrees ==
  ASSUME TypeOK, ReportInv
  PROVE  ReportAddsUp
<1>1. /\ Received(Codes \ 400..599) = SumOf(statusCodes, Codes \ ErrorCodes)
      /\ Received(Codes \cap 400..599) = SumOf(statusCodes, Codes \cap ErrorCodes)
  BY DEF Received, SumOf, ErrorCodes
<1> DEFINE n == results.successful
<1>2. /\ n \in Nat /\ times.minimum \in Nat /\ times.maximum \in Nat /\ times.sum \in Nat
      /\ n * times.minimum <= times.sum /\ times.sum <= n * times.maximum
      /\ n # 0 => {times.minimum, times.maximum} \subseteq SuccessTimes
  BY DEF ReportInv, Extremes, TypeOK, Counters, Times
<1>3. n > 0 => times.minimum <= times.sum \div n /\ times.sum \div n <= times.maximum
  <2> HIDE DEF n
  <2> QED
    BY ONLY <1>2, Quotient
<1> QED
  BY <1>1, <1>2, <1>3 DEF ReportAddsUp, ReportInv, Tallies, Average, SuccessTimes, ErrorCodes

(* Unless a response takes longer than the hour at which the smallest       *)
(* response time starts, the report agrees with itself at every moment, for *)
(* any status codes and any order in which the answers arrive.              *)
THEOREM ReportIsConsistent == ASSUME WithinAnHour PROVE Spec => []ReportAddsUp
<1>1. Inv1 /\ ReportInv /\ [Next]_vars => ReportInv'
  BY NextReport
<1>2. Inv1 /\ ReportInv => ReportAddsUp
  BY ReportAgrees DEF Inv1
<1> QED
  BY Typed, InitReport, <1>1, <1>2, PTL DEF Spec
=============================================================================
