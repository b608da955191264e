------------------------------- MODULE PortScan -------------------------------
(***************************************************************************)
(* `vpd port scan`: parseRange and scanPorts of cmd/port/scan/scan.go.     *)
(*                                                                         *)
(* Main starts one goroutine per port.  A buffered channel used as a       *)
(* semaphore bounds the goroutines that dial at once, a mutex guards the   *)
(* shared slice, and a WaitGroup tells main when all are done.  append is  *)
(* two steps, the read of the slice and the write of the longer one: only  *)
(* the mutex keeps two of them from losing a port.                         *)
(***************************************************************************)
EXTENDS Integers, Sequences, FiniteSets, Functions

CONSTANTS MaxPort,    \* 65535
          Concurrent, \* --concurrent, the semaphore's capacity
          Starts,     \* values of the range's first port
          Ends        \* values of its last port

(* The text is split at its first "-": only the last port can be negative. *)
ASSUME PortAssumption == MaxPort \in Nat /\ Starts \subseteq Nat /\ Ends \subseteq Int
(* With no capacity the first send on the semaphore blocks for ever. *)
ASSUME ConcurrentAssumption == Concurrent \in Nat \ {0}

Port == 1..MaxPort

VARIABLES
  start, end, \* the range given
  answering,  \* the ports that accept connections
  main,       \* where the command is
  next,       \* the loop variable p
  sem,        \* the tokens in the semaphore channel
  wg,         \* the WaitGroup's counter
  probe,      \* where each port's goroutine is
  mu,         \* the port whose goroutine holds the mutex, 0 for none
  seen,       \* the slice an append has read
  openPorts,  \* the shared slice
  connected,  \* the ports whose dial succeeded (history)
  printed     \* the list the command prints

input == <<start, end, answering>>
vars == <<input, main, next, sem, wg, probe, mu, seen, openPorts, connected, printed>>

-----------------------------------------------------------------------------
Init ==
  /\ start \in Starts /\ end \in Ends
  /\ answering \in SUBSET Port
  /\ main = "parse"
  /\ next = 0
  /\ sem = 0
  /\ wg = 0
  /\ probe = [p \in Port |-> "none"]
  /\ mu = 0
  /\ seen = [p \in Port |-> <<>>]
  /\ openPorts = <<>>
  /\ connected = {}
  /\ printed = <<>>

InvalidRange == start < 1 \/ end > MaxPort \/ start > end

(* parseRange: an invalid range ends the command, and so does text that is *)
(* not two numbers, which is not distinguished from it.                    *)
ParseRange ==
  /\ main = "parse"
  /\ main' = IF InvalidRange THEN "fatal" ELSE "loop"
  /\ next' = IF InvalidRange THEN next ELSE start
  /\ UNCHANGED <<input, sem, wg, probe, mu, seen, openPorts, connected, printed>>

(* Fault: the goroutine itself adds to the group, too late to count. *)
AddNothing ==
  /\ main = "loop" /\ next <= end
  /\ main' = "acquire"
  /\ UNCHANGED <<input, next, sem, wg, probe, mu, seen, openPorts, connected, printed>>

AddToGroup ==
  /\ main = "loop" /\ next <= end
  /\ wg' = wg + 1
  /\ main' = "acquire"
  /\ UNCHANGED <<input, next, sem, probe, mu, seen, openPorts, connected, printed>>

(* Fault: the goroutine starts before the semaphore is taken into account. *)
StartProbeAtOnce ==
  /\ main = "acquire" /\ sem <= Concurrent
  /\ sem' = sem + 1
  /\ probe' = [probe EXCEPT ![next] = "dial"]
  /\ next' = next + 1
  /\ main' = "loop"
  /\ UNCHANGED <<input, wg, mu, seen, openPorts, connected, printed>>

(* sem <- struct{}{} blocks while the semaphore is full *)
StartProbe ==
  /\ main = "acquire" /\ sem < Concurrent
  /\ sem' = sem + 1
  /\ probe' = [probe EXCEPT ![next] = "dial"]
  /\ next' = next + 1
  /\ main' = "loop"
  /\ UNCHANGED <<input, wg, mu, seen, openPorts, connected, printed>>

(* Fault: the command does not wait for the goroutines. *)
WaitForNobody ==
  /\ main = "loop" /\ next > end
  /\ main' = "returned"
  /\ UNCHANGED <<input, next, sem, wg, probe, mu, seen, openPorts, connected, printed>>

(* The loop ends, wg.Wait() returns and scanPorts with it *)
Wait ==
  /\ main = "loop" /\ next > end /\ wg = 0
  /\ main' = "returned"
  /\ UNCHANGED <<input, next, sem, wg, probe, mu, seen, openPorts, connected, printed>>

(* Fault: the list is printed as it was appended. *)
SortNothing(s) == s

Rearranged(s) == {[i \in DOMAIN s |-> s[f[i]]] : f \in Bijection(DOMAIN s, DOMAIN s)}
SortInts(s) == CHOOSE t \in Rearranged(s) : \A i, j \in DOMAIN s : i < j => t[i] <= t[j]

PrintPorts ==
  /\ main = "returned"
  /\ printed' = SortInts(openPorts)
  /\ main' = "printed"
  /\ UNCHANGED <<input, next, sem, wg, probe, mu, seen, openPorts, connected>>

-----------------------------------------------------------------------------
(* The goroutine of a port *)

(* Fault: the token is given back only after a successful dial. *)
DialFailsKeepingToken(p) ==
  /\ probe[p] = "dial"
  /\ probe' = [probe EXCEPT ![p] = "finish"]
  /\ UNCHANGED <<input, main, next, sem, wg, mu, seen, openPorts, connected, printed>>

(* A port that accepts connections may still miss the timeout *)

DialFails(p) ==
  /\ probe[p] = "dial"
  /\ probe' = [probe EXCEPT ![p] = "release"]
  /\ UNCHANGED <<input, main, next, sem, wg, mu, seen, openPorts, connected, printed>>

DialSucceeds(p) ==
  /\ probe[p] = "dial" /\ p \in answering
  /\ probe' = [probe EXCEPT ![p] = "lock"]
  /\ connected' = connected \cup {p}
  /\ UNCHANGED <<input, main, next, sem, wg, mu, seen, openPorts, printed>>

(* Fault: the mutex is not taken. *)
LockNothing(p) ==
  /\ probe[p] = "lock"
  /\ probe' = [probe EXCEPT ![p] = "read"]
  /\ UNCHANGED <<input, main, next, sem, wg, mu, seen, openPorts, connected, printed>>

Lock(p) ==
  /\ probe[p] = "lock" /\ mu = 0
  /\ mu' = p
  /\ probe' = [probe EXCEPT ![p] = "read"]
  /\ UNCHANGED <<input, main, next, sem, wg, seen, openPorts, connected, printed>>

ReadSlice(p) ==
  /\ probe[p] = "read"
  /\ seen' = [seen EXCEPT ![p] = openPorts]
  /\ probe' = [probe EXCEPT ![p] = "write"]
  /\ UNCHANGED <<input, main, next, sem, wg, mu, openPorts, connected, printed>>

WriteSlice(p) ==
  /\ probe[p] = "write"
  /\ openPorts' = Append(seen[p], p)
  /\ seen' = [seen EXCEPT ![p] = <<>>]
  /\ probe' = [probe EXCEPT ![p] = "unlock"]
  /\ UNCHANGED <<input, main, next, sem, wg, mu, connected, printed>>

Unlock(p) ==
  /\ probe[p] = "unlock"
  /\ mu' = 0
  /\ probe' = [probe EXCEPT ![p] = "release"]
  /\ UNCHANGED <<input, main, next, sem, wg, seen, openPorts, connected, printed>>

(* The deferred calls run in reverse order: the semaphore first, then wg.Done *)
Release(p) ==
  /\ probe[p] = "release"
  /\ sem' = sem - 1
  /\ probe' = [probe EXCEPT ![p] = "finish"]
  /\ UNCHANGED <<input, main, next, wg, mu, seen, openPorts, connected, printed>>

Finish(p) ==
  /\ probe[p] = "finish"
  /\ wg' = wg - 1
  /\ probe' = [probe EXCEPT ![p] = "done"]
  /\ UNCHANGED <<input, main, next, sem, mu, seen, openPorts, connected, printed>>

-----------------------------------------------------------------------------
ProbeStep(p) ==
  \/ DialFails(p) \/ DialSucceeds(p) \/ Lock(p) \/ ReadSlice(p) \/ WriteSlice(p)
  \/ Unlock(p) \/ Release(p) \/ Finish(p)

MainStep == ParseRange \/ AddToGroup \/ StartProbe \/ Wait \/ PrintPorts

(* The command has ended *)
Ended == main \in {"fatal", "printed"} /\ UNCHANGED vars

Next == MainStep \/ (\E p \in Port : ProbeStep(p)) \/ Ended

Spec == Init /\ [][Next]_vars

(* Every goroutine is scheduled and every dial ends within its timeout *)
Fairness == WF_vars(MainStep) /\ \A p \in Port : WF_vars(ProbeStep(p))

FairSpec == Spec /\ Fairness

-----------------------------------------------------------------------------
(* Properties *)

Holding == {p \in Port : probe[p] \in {"dial", "lock", "read", "write", "unlock", "release"}}
Probing == {p \in Port : probe[p] \notin {"none", "done"}}

(* Every variable keeps its type; the semaphore and the WaitGroup never go  *)
(* below zero.                                                              *)
TypeOK ==
  /\ start \in Nat /\ end \in Int /\ answering \subseteq Port
  /\ main \in {"parse", "fatal", "loop", "acquire", "returned", "printed"}
  /\ next \in Int
  /\ sem \in Nat
  /\ wg \in Nat
  /\ probe \in [Port -> {"none", "dial", "lock", "read", "write", "unlock", "release",
                         "finish", "done"}]
  /\ mu \in 0..MaxPort
  /\ seen \in [Port -> Seq(Port)]
  /\ openPorts \in Seq(Port)
  /\ connected \subseteq Port

(* No more connections are being attempted at once than --concurrent, and   *)
(* the semaphore counts exactly the goroutines that hold a token            *)
(* (scan.go 78-86).                                                         *)
AtMostConcurrent ==
  sem = Cardinality(Holding) /\ Cardinality(Holding) <= Concurrent

(* When scanPorts returns, no port whose dial succeeded is missing and none *)
(* is listed twice, although the goroutines append to one slice; no         *)
(* goroutine is still at work on it (scan.go 76, 90-99).                    *)
NothingLost ==
  main \in {"returned", "printed"} =>
    /\ {openPorts[i] : i \in DOMAIN openPorts} = connected
    /\ Len(openPorts) = Cardinality(connected)
    /\ Probing = {}

(* The command prints the open ports in increasing order (scan.go 40-44). *)
PrintedInOrder ==
  main = "printed" =>
    /\ Len(printed) = Cardinality(connected)
    /\ \A i, j \in DOMAIN printed : i < j => printed[i] < printed[j]

(* The scan ends, whatever the order in which the probes take the semaphore *)
(* and the mutex.                                                           *)
ScanEnds == <>(main \in {"fatal", "printed"})

(* The goroutines implement the abstract scan. *)
Undecided ==
  {p \in start..end : p \in Port =>
                        probe[p] \in {"none", "dial", "lock", "read", "write"}}

Abstract == INSTANCE Scan WITH
  todo <- Undecided,
  found <- {openPorts[i] : i \in DOMAIN openPorts},
  returned <- main \in {"returned", "printed"}

ImplementsScan == Abstract!Spec
=============================================================================
