------------------------------- MODULE ApiLoad -------------------------------
(***************************************************************************)
(* `vpd api load`: the worker pool of cmd/api/load/load.go.                *)
(*                                                                         *)
(* runLoadTest starts one goroutine per concurrent user.  They share an    *)
(* atomic counter that limits the number of requests, a buffered channel   *)
(* of results and a `done` channel that is closed to stop the test.  Two   *)
(* goroutines close `done` (one on a signal, one after the test duration), *)
(* one closes the results channel once every worker has returned, and main *)
(* folds the results into the report it prints and saves.                  *)
(*                                                                         *)
(* Go semantics used: closing a closed channel and sending on a closed     *)
(* channel panic, and a panic in any goroutine ends the process; the end   *)
(* of main ends every goroutine; a receive from a closed channel is always *)
(* ready; select takes `default` only when no case is ready.               *)
(***************************************************************************)
EXTENDS Integers, Sequences, FiniteSets, FiniteSetsExt

CONSTANTS Workers,       \* one identity per concurrent user (--concurrency)
          BufferFactor,  \* the results channel holds BufferFactor results per worker (10 in the code)
          RequestLimits, \* the values of --requests; 0 means unlimited
          MaxCount,      \* the largest int32: the counter wraps after it
          MaxSent,       \* bound: an unlimited run starts no iteration after this many requests
          Answers,       \* what the server may answer: a status code and a response time
          Hour           \* the initial minimum response time

ASSUME WorkersAssumption == IsFiniteSet(Workers)
ASSUME BufferAssumption == BufferFactor \in Nat \ {0}
ASSUME CountAssumption == MaxCount \in Nat /\ MaxSent \in Nat
ASSUME LimitAssumption == RequestLimits \subseteq Nat
ASSUME DataAssumption == Answers \subseteq [code : Nat, duration : Nat] /\ Hour \in Nat
(* A status code has three digits. *)
ASSUME CodesAssumption == IsFiniteSet({a.code : a \in Answers})

VARIABLES
  requests,        \* --requests, fixed for the run
  hasDuration,     \* whether --duration was given, fixed for the run
  main,            \* where runLoadTest is
  worker,          \* where each worker goroutine is
  wg,              \* the WaitGroup's counter
  requestsCounter, \* the atomic int32 shared by the workers
  inHand,          \* the result a worker is about to send on resultsChan
  resultsChan,     \* the buffered results
  chanClosed,      \* close(resultsChan) has run
  done,            \* close(done) has run
  signals,         \* signals waiting in signalChan, whose capacity is 1
  handler,         \* the goroutine that waits for a signal
  timer,           \* the goroutine that sleeps for the test duration
  closer,          \* the goroutine that waits for the WaitGroup
  results,         \* the counters of the report main accumulates
  statusCodes,     \* how often each status code was received
  times,           \* the extremes and the sum of the successful response times
  skipped,         \* results main dropped because their context was over (history)
  sent,            \* calls of executeRequest so far (history)
  lateStarts,      \* of those, each worker's calls after done was closed (history)
  panicked         \* the process died of a panic

flags == <<requests, hasDuration>>
pool == <<worker, wg, requestsCounter, inHand, sent, lateStarts>>
channel == <<resultsChan, chanClosed>>
stoppers == <<done, signals, handler, timer>>
report == <<results, statusCodes, times, skipped>>
vars == <<flags, pool, channel, stoppers, report, main, closer, panicked>>

-----------------------------------------------------------------------------
(* Results and the report they are folded into *)

Capacity == Cardinality(Workers) * BufferFactor

(* A response; an error of the request's context (cancelled by done, or its *)
(* deadline passed), which main skips; or any other error, which it counts. *)
Response(a) == [err |-> "none", code |-> a.code, duration |-> a.duration]
ContextOver == [err |-> "context", code |-> 0, duration |-> 0]
RequestError == [err |-> "other", code |-> 0, duration |-> 0]
RequestResult == {Response(a) : a \in Answers} \cup {ContextOver, RequestError}

Codes == {a.code : a \in Answers}

(* TestResult's counters; failures are counted and listed in Errors *)
Counters == {"total", "successful", "failed", "errors"}
Failure == {"total", "failed", "errors"}
Success == {"total", "successful"}

Bump(s, counters) == [c \in Counters |-> IF c \in counters THEN s[c] + 1 ELSE s[c]]

(* MinResponseTime, MaxResponseTime and totalResponseTime *)
Times == [minimum : Nat, maximum : Nat, sum : Nat]

RecordTime(t, d) ==
  [minimum |-> IF d < t.minimum THEN d ELSE t.minimum,
   maximum |-> IF d > t.maximum THEN d ELSE t.maximum,
   sum     |-> t.sum + d]

(* Fault: the error range ends before its upper bound. *)
IsHTTPErrorBelow599(code) == code >= 400 /\ code < 599

IsHTTPError(code) == code >= 400 /\ code <= 599

Average == times.sum \div results.successful

(* atomic.AddInt32 wraps to the smallest int32 *)
AddInt32(n) == IF n = MaxCount THEN -MaxCount - 1 ELSE n + 1

-----------------------------------------------------------------------------
Running == main # "exited" /\ ~panicked

Init ==
  /\ requests \in RequestLimits
  /\ hasDuration \in BOOLEAN
  /\ main = "start"
  /\ worker = [w \in Workers |-> "unborn"]
  /\ wg = 0
  /\ requestsCounter = 0
  /\ inHand = [w \in Workers |-> RequestError]
  /\ resultsChan = <<>>
  /\ chanClosed = FALSE
  /\ done = FALSE
  /\ signals = 0
  /\ handler = "unborn"
  /\ timer = "unborn"
  /\ closer = "unborn"
  /\ results = [c \in Counters |-> 0]
  /\ statusCodes = [c \in Codes |-> 0]
  /\ times = [minimum |-> Hour, maximum |-> 0, sum |-> 0]
  /\ skipped = 0
  /\ sent = 0
  /\ lateStarts = [w \in Workers |-> 0]
  /\ panicked = FALSE

(* The data file cannot be read: runLoadTest returns before it starts anything. *)
BodyUnreadable ==
  /\ Running /\ main = "start"
  /\ main' = "exited"
  /\ UNCHANGED <<flags, pool, channel, stoppers, report, closer, panicked>>

StartTest ==
  /\ Running /\ main = "start"
  /\ main' = "spawn"
  /\ handler' = "wait"
  /\ UNCHANGED <<flags, pool, channel, done, signals, timer, report, closer, panicked>>

(* Fault: wg.Add moved into the goroutine, after its ramp-up, and never run. *)
StartWorkerUncounted(w) ==
  /\ Running /\ main = "spawn" /\ worker[w] = "unborn"
  /\ worker' = [worker EXCEPT ![w] = "rampUp"]
  /\ UNCHANGED <<flags, wg, requestsCounter, inHand, sent, lateStarts, channel, stoppers,
                 report, main, closer, panicked>>

StartWorker(w) ==
  /\ Running /\ main = "spawn" /\ worker[w] = "unborn"
  /\ wg' = wg + 1
  /\ worker' = [worker EXCEPT ![w] = "rampUp"]
  /\ UNCHANGED <<flags, requestsCounter, inHand, sent, lateStarts, channel, stoppers,
                 report, main, closer, panicked>>

(* Every worker has been started: the timer and the closer follow, and main *)
(* begins to collect.                                                        *)
StartTimerAndCloser ==
  /\ Running /\ main = "spawn"
  /\ \A w \in Workers : worker[w] # "unborn"
  /\ main' = "collect"
  /\ timer' = IF hasDuration THEN "sleep" ELSE "unborn"
  /\ closer' = "wait"
  /\ UNCHANGED <<flags, pool, channel, done, signals, handler, report, panicked>>

-----------------------------------------------------------------------------
(* The workers *)

RampUp(w) ==
  /\ Running /\ worker[w] = "rampUp"
  /\ worker' = [worker EXCEPT ![w] = "select"]
  /\ UNCHANGED <<flags, wg, requestsCounter, inHand, sent, lateStarts, channel, stoppers,
                 report, main, closer, panicked>>

SeeDone(w) ==
  /\ Running /\ worker[w] = "select" /\ done
  /\ worker' = [worker EXCEPT ![w] = "exited"]
  /\ wg' = wg - 1
  /\ UNCHANGED <<flags, requestsCounter, inHand, sent, lateStarts, channel, stoppers,
                 report, main, closer, panicked>>

(* select falls to default; the limit is not tested yet *)
Proceed(w) ==
  /\ Running /\ worker[w] = "select" /\ ~done
  /\ requests > 0 \/ sent < MaxSent
  /\ worker' = [worker EXCEPT ![w] = "admit"]
  /\ UNCHANGED <<flags, wg, requestsCounter, inHand, sent, lateStarts, channel, stoppers,
                 report, main, closer, panicked>>

(* Faults: the counter compared before it is incremented; the limit itself refused. *)
OverLimitStale == requests > 0 /\ requestsCounter > requests
OverLimitEarly == requests > 0 /\ AddInt32(requestsCounter) >= requests

OverLimit == requests > 0 /\ AddInt32(requestsCounter) > requests

CountRequest ==
  requestsCounter' = IF requests > 0 THEN AddInt32(requestsCounter) ELSE requestsCounter

StartRequest(w) ==
  /\ Running /\ worker[w] = "admit" /\ ~OverLimit
  /\ CountRequest
  /\ worker' = [worker EXCEPT ![w] = "request"]
  /\ sent' = sent + 1
  /\ lateStarts' = [lateStarts EXCEPT ![w] = IF done THEN @ + 1 ELSE @]
  /\ UNCHANGED <<flags, wg, inHand, channel, stoppers, report, main, closer, panicked>>

Refuse(w) ==
  /\ Running /\ worker[w] = "admit" /\ OverLimit
  /\ CountRequest
  /\ worker' = [worker EXCEPT ![w] = "exited"]
  /\ wg' = wg - 1
  /\ UNCHANGED <<flags, inHand, sent, lateStarts, channel, stoppers, report, main,
                 closer, panicked>>

(* executeRequest returns, with a result the server, the deadline or done decides *)
ExecuteRequest(w) ==
  /\ Running /\ worker[w] = "request"
  /\ \E r \in RequestResult : inHand' = [inHand EXCEPT ![w] = r]
  /\ worker' = [worker EXCEPT ![w] = "send"]
  /\ UNCHANGED <<flags, wg, requestsCounter, sent, lateStarts, channel, stoppers,
                 report, main, closer, panicked>>

(* resultsChan <- result blocks while the buffer is full and panics once it is closed *)
SendResult(w) ==
  /\ Running /\ worker[w] = "send"
  /\ \/ /\ chanClosed
        /\ panicked' = TRUE
        /\ UNCHANGED <<worker, inHand, resultsChan>>
     \/ /\ ~chanClosed /\ Len(resultsChan) < Capacity
        /\ resultsChan' = Append(resultsChan, inHand[w])
        /\ inHand' = [inHand EXCEPT ![w] = RequestError]
        /\ worker' = [worker EXCEPT ![w] = "think"]
        /\ UNCHANGED panicked
  /\ UNCHANGED <<flags, wg, requestsCounter, sent, lateStarts, chanClosed, stoppers,
                 report, main, closer>>

(* Fault: the next request follows without looking at done. *)
ThinkThenAdmit(w) ==
  /\ Running /\ worker[w] = "think"
  /\ worker' = [worker EXCEPT ![w] = "admit"]
  /\ UNCHANGED <<flags, wg, requestsCounter, inHand, sent, lateStarts, channel, stoppers,
                 report, main, closer, panicked>>

Think(w) ==
  /\ Running /\ worker[w] = "think"
  /\ worker' = [worker EXCEPT ![w] = "select"]
  /\ UNCHANGED <<flags, wg, requestsCounter, inHand, sent, lateStarts, channel, stoppers,
                 report, main, closer, panicked>>

-----------------------------------------------------------------------------
(* The goroutines that stop the test *)

(* close(done), which panics the second time *)
CloseDone ==
  IF done THEN panicked' = TRUE /\ UNCHANGED done
          ELSE done' = TRUE /\ UNCHANGED panicked

(* SIGINT or SIGTERM arrives; signal.Notify drops it when signalChan is full *)
Signal ==
  /\ Running /\ handler # "unborn" /\ signals = 0
  /\ signals' = 1
  /\ UNCHANGED <<flags, pool, channel, done, handler, timer, report, main, closer, panicked>>

CatchSignal ==
  /\ Running /\ handler = "wait" /\ signals > 0
  /\ signals' = 0
  /\ handler' = "stop"
  /\ UNCHANGED <<flags, pool, channel, done, timer, report, main, closer, panicked>>

SignalStops ==
  /\ Running /\ handler = "stop"
  /\ CloseDone
  /\ handler' = "exited"
  /\ UNCHANGED <<flags, pool, channel, signals, timer, report, main, closer>>

TimerStops ==
  /\ Running /\ timer = "sleep"
  /\ CloseDone
  /\ timer' = "exited"
  /\ UNCHANGED <<flags, pool, channel, signals, handler, report, main, closer>>

(* wg.Wait() returns and the results channel is closed *)
CloseResults ==
  /\ Running /\ closer = "wait" /\ wg = 0
  /\ closer' = "exited"
  /\ chanClosed' = TRUE
  /\ UNCHANGED <<flags, pool, resultsChan, stoppers, report, main, panicked>>

-----------------------------------------------------------------------------
(* main collects the results *)

TakeResult ==
  /\ Running /\ main = "collect" /\ resultsChan # <<>>
  /\ resultsChan' = Tail(resultsChan)
  /\ UNCHANGED <<flags, pool, chanClosed, stoppers, main, closer, panicked>>

(* The request's context was over: it is not counted at all *)
Skip(r) ==
  /\ r.err = "context"
  /\ skipped' = skipped + 1
  /\ UNCHANGED <<results, statusCodes, times>>

(* Fault: an error is listed without being counted. *)
CountErrorUntotalled(r) ==
  /\ r.err = "other"
  /\ results' = Bump(results, {"failed", "errors"})
  /\ UNCHANGED <<statusCodes, times, skipped>>

CountError(r) ==
  /\ r.err = "other"
  /\ results' = Bump(results, Failure)
  /\ UNCHANGED <<statusCodes, times, skipped>>

CountHTTPError(r) ==
  /\ r.err = "none" /\ IsHTTPError(r.code)
  /\ results' = Bump(results, Failure)
  /\ statusCodes' = [statusCodes EXCEPT ![r.code] = @ + 1]
  /\ UNCHANGED <<times, skipped>>

CountSuccess(r) ==
  /\ r.err = "none" /\ ~IsHTTPError(r.code)
  /\ results' = Bump(results, Success)
  /\ statusCodes' = [statusCodes EXCEPT ![r.code] = @ + 1]
  /\ times' = RecordTime(times, r.duration)
  /\ UNCHANGED skipped

(* Fault: main waits for the workers before it reads their results. *)
CollectAfterWait ==
  /\ TakeResult /\ chanClosed
  /\ LET r == Head(resultsChan)
     IN  Skip(r) \/ CountError(r) \/ CountHTTPError(r) \/ CountSuccess(r)

Collect ==
  /\ TakeResult
  /\ LET r == Head(resultsChan)
     IN  Skip(r) \/ CountError(r) \/ CountHTTPError(r) \/ CountSuccess(r)

(* Fault: main stops at the close, leaving what is still buffered. *)
FinishEarly ==
  /\ Running /\ main = "collect" /\ chanClosed
  /\ main' = "report"
  /\ UNCHANGED <<flags, pool, channel, stoppers, report, closer, panicked>>

FinishCollecting ==
  /\ Running /\ main = "collect" /\ resultsChan = <<>> /\ chanClosed
  /\ main' = "report"
  /\ UNCHANGED <<flags, pool, channel, stoppers, report, closer, panicked>>

(* The final statistics are computed, printed and saved; a file that cannot *)
(* be written changes nothing else.                                         *)
Report ==
  /\ Running /\ main = "report"
  /\ main' = "exited"
  /\ UNCHANGED <<flags, pool, channel, stoppers, report, closer, panicked>>

-----------------------------------------------------------------------------
WorkerStep(w) ==
  \/ StartWorker(w) \/ RampUp(w) \/ SeeDone(w) \/ Proceed(w) \/ StartRequest(w)
  \/ Refuse(w) \/ ExecuteRequest(w) \/ SendResult(w) \/ Think(w)

MainStep ==
  BodyUnreadable \/ StartTest \/ StartTimerAndCloser \/ Collect \/ FinishCollecting \/ Report

(* The process has ended, by itself or by a panic *)
Ended == ~Running /\ UNCHANGED vars

Next ==
  \/ \E w \in Workers : WorkerStep(w)
  \/ MainStep
  \/ Signal \/ CatchSignal \/ SignalStops \/ TimerStops \/ CloseResults
  \/ Ended

Spec == Init /\ [][Next]_vars

(* Every goroutine is scheduled, sleeps and requests end (a request has a  *)
(* deadline); whether and when a signal arrives is up to the user.         *)
Fairness ==
  /\ \A w \in Workers : WF_vars(WorkerStep(w))
  /\ WF_vars(MainStep)
  /\ WF_vars(CatchSignal) /\ WF_vars(SignalStops) /\ WF_vars(TimerStops)
  /\ WF_vars(CloseResults)

FairSpec == Spec /\ Fairness

-----------------------------------------------------------------------------
(* Properties *)

Located(places) == {w \in Workers : worker[w] \in places}
InHand == {"request", "send"}
Alive == {"rampUp", "select", "admit", "request", "send", "think"}
Open == Located(InHand)
Unfinished == Located(Alive)

(* The variables have the types their Go counterparts have; in particular   *)
(* the WaitGroup never goes negative, which would panic.                    *)
TypeOK ==
  /\ requests \in RequestLimits
  /\ hasDuration \in BOOLEAN
  /\ main \in {"start", "spawn", "collect", "report", "exited"}
  /\ worker \in [Workers -> {"unborn", "rampUp", "select", "admit", "request", "send",
                            "think", "exited"}]
  /\ wg \in Nat
  /\ requestsCounter \in Int
  /\ inHand \in [Workers -> RequestResult]
  /\ resultsChan \in Seq(RequestResult)
  /\ Len(resultsChan) <= Capacity
  /\ chanClosed \in BOOLEAN
  /\ done \in BOOLEAN
  /\ signals \in {0, 1}
  /\ handler \in {"unborn", "wait", "stop", "exited"}
  /\ timer \in {"unborn", "sleep", "exited"}
  /\ closer \in {"unborn", "wait", "exited"}
  /\ results \in [Counters -> Nat]
  /\ statusCodes \in [Codes -> Nat]
  /\ times \in Times
  /\ skipped \in Nat
  /\ sent \in Nat
  /\ lateStarts \in [Workers -> Nat]
  /\ panicked \in BOOLEAN

(* Every call of executeRequest is in exactly one place: with its worker,   *)
(* buffered in resultsChan, counted in the report, or skipped (load.go      *)
(* 200-201, 244-277).                                                       *)
EveryRequestAccounted ==
  sent = Cardinality(Open) + Len(resultsChan) + results.total + skipped

(* With --requests N no interleaving of the workers' test-and-increment     *)
(* (load.go 197) issues more than N requests, and the counter that the      *)
(* progress line prints is ahead of the requests by less than one per       *)
(* worker that was refused.                                                 *)
LimitRespected ==
  requests > 0 =>
    /\ sent <= requests
    /\ sent <= requestsCounter
    /\ requestsCounter <= sent + Cardinality(Workers)

(* A limited test that nobody stopped reports on exactly the N requests     *)
(* asked for, less those that timed out: no worker leaves before the limit. *)
RunsToLimit ==
  main = "report" /\ requests > 0 /\ ~done /\ Workers # {} =>
    results.total + skipped = requests

(* The only way the test dies of a panic is the double close of done by     *)
(* the signal handler and the duration timer (load.go 174, 214): the        *)
(* results channel is never closed under a worker that still has to send.   *)
PanicOnlyWhenBothStop ==
  panicked => handler = "exited" /\ timer = "exited"

(* "do not start new requests" (load.go 194): a worker that had passed the  *)
(* select when done was closed may start the request it was about to start, *)
(* and no other.                                                            *)
OneLateStartPerWorker ==
  \A w \in Workers : lateStarts[w] <= 1

(* How many responses with one of these codes the report lists. *)
Received(codes) == MapThenSumSet(LAMBDA c : statusCodes[c], codes)

(* The report agrees with itself (load.go 250-276, 282-285): every counted  *)
(* request is a success or a failure, every failure has its line in Errors, *)
(* every response its status code, the average response time lies between   *)
(* the extremes, and the extremes are times of successful responses.        *)
ReportAddsUp ==
  /\ results.total = results.successful + results.failed
  /\ results.errors = results.failed
  /\ Received(Codes \ 400..599) = results.successful
  /\ Received(Codes \cap 400..599) <= results.failed
  /\ results.successful > 0 =>
       /\ times.minimum <= Average /\ Average <= times.maximum
       /\ {times.minimum, times.maximum} \subseteq
            {a.duration : a \in {b \in Answers : b.code \notin 400..599}}

(* A test that has a limit, a duration or a caught signal ends: main        *)
(* reaches its end (or the double close kills the process), however the     *)
(* bounded channel, the workers, the closer and the collector interleave.   *)
Stops ==
  (requests > 0 \/ hasDuration \/ handler = "stop") ~> ~Running

(* The pool implements the abstract load test: the report is final only     *)
(* when every issued request has been counted or dropped, and no request is *)
(* issued afterwards.                                                       *)
Test == INSTANCE LoadReport WITH
  limit <- requests,
  issued <- sent,
  open <- sent - results.total - skipped,
  counted <- results.total,
  dropped <- skipped,
  published <- main \in {"report", "exited"}

ImplementsLoadReport == Test!Spec

(* What the code's own words promise and the code does not do *)

(* "Graceful shutdown" on signals (the comment at load.go 168): a signal    *)
(* ends the test with its report, not with a panic.                         *)
GracefulShutdown == ~panicked

(* "Progress: N requests sent" (load.go 227) tells the number of requests   *)
(* sent, give or take the one each worker is about to start or refuse.      *)
ProgressTellsRequestsSent ==
  /\ requestsCounter <= sent + Cardinality(Workers)
  /\ sent <= requestsCounter + Cardinality(Workers)
=============================================================================
