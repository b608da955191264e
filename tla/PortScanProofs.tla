---------------------------- MODULE PortScanProofs ----------------------------
(***************************************************************************)
(* Proofs about PortScan for every range, every semaphore and every set of *)
(* answering ports.  Three facts carry the rest: the semaphore and the     *)
(* WaitGroup count goroutines, the mutex has one holder, and the slice     *)
(* lists the connected ports that have been appended.                      *)
(***************************************************************************)
EXTENDS PortScan, FiniteSetTheorems, SequenceTheorems, TLAPS

ProbePlace == {"none", "dial", "lock", "read", "write", "unlock", "release", "finish", "done"}

HoldsToken == {"dial", "lock", "read", "write", "unlock", "release"}
InGroup == {"dial", "lock", "read", "write", "unlock", "release", "finish"}
HoldsMutex == {"read", "write", "unlock"}
ToAppend == {"lock", "read", "write"}
Succeeded == {"lock", "read", "write", "unlock"}

Listed == {openPorts[i] : i \in DOMAIN openPorts}
Appended == {p \in connected : probe[p] \notin ToAppend}

LoopPosition ==
  /\ main \in {"parse", "fatal"} => \A p \in Port : probe[p] = "none"
  /\ main \notin {"parse", "fatal"} =>
       /\ 1 <= start /\ end <= MaxPort /\ start <= next /\ next <= end + 1
       /\ \A p \in Port : probe[p] # "none" <=> start <= p /\ p < next
  /\ main = "acquire" => next <= end
  /\ main \in {"returned", "printed"} =>
       next > end /\ \A p \in Port : probe[p] \in {"none", "done"}

(* The members of S that f puts in some places. *)
Where(S, f, places) == {x \in S : f[x] \in places}

SemaphoreCounts == sem = Cardinality(Where(Port, probe, HoldsToken)) /\ sem <= Concurrent

GroupCounts ==
  wg = Cardinality(Where(Port, probe, InGroup)) + (IF main = "acquire" THEN 1 ELSE 0)

MutexHeld == \A p \in Port : probe[p] \in HoldsMutex <=> mu = p

SliceCurrent == \A p \in Port : probe[p] = "write" => seen[p] = openPorts

SliceLists ==
  /\ connected \subseteq answering
  /\ \A p \in Port : probe[p] \in Succeeded => p \in connected
  /\ \A p \in connected : probe[p] \notin {"none", "dial"}
  /\ Listed = Appended
  /\ Len(openPorts) = Cardinality(Appended)

Inv ==
  TypeOK /\ LoopPosition /\ SemaphoreCounts /\ GroupCounts /\ MutexHeld /\ SliceCurrent /\ SliceLists

-----------------------------------------------------------------------------
(* Counting goroutines *)

(* The number of members in a set of places is a natural number, and less   *)
(* than the number of members when one of them is elsewhere.                *)
LEMMA WhereIsNat ==
  ASSUME NEW S, IsFiniteSet(S), NEW f, NEW places
  PROVE  /\ IsFiniteSet(Where(S, f, places))
         /\ Cardinality(Where(S, f, places)) \in Nat
         /\ Cardinality(S) \in Nat
         /\ Cardinality(Where(S, f, places)) <= Cardinality(S)
         /\ \A x \in S :
              f[x] \notin places => Cardinality(Where(S, f, places)) < Cardinality(S)
<1> DEFINE T == Where(S, f, places)
<1>1. T \subseteq S /\ \A x \in S : x \in T <=> f[x] \in places
  BY DEF Where
<1> HIDE DEF T
<1>2. /\ IsFiniteSet(T)
      /\ Cardinality(T) <= Cardinality(S)
      /\ Cardinality(S) = Cardinality(T) => S = T
  BY <1>1, FS_Subset
<1>3. Cardinality(T) \in Nat /\ Cardinality(S) \in Nat
  BY <1>2, FS_CardinalityType
<1>4. \A x \in S : f[x] \notin places => Cardinality(T) < Cardinality(S)
  BY <1>1, <1>2, <1>3
<1> QED
  BY <1>2, <1>3, <1>4 DEF T

(* Moving one member changes that number by at most one, in the direction   *)
(* of the move.                                                             *)
LEMMA WhereMoves ==
  ASSUME NEW S, IsFiniteSet(S), NEW f, NEW g, NEW places, NEW x \in S,
         \A y \in S \ {x} : g[y] = f[y]
  PROVE  /\ (f[x] \in places <=> g[x] \in places) =>
               Cardinality(Where(S, g, places)) = Cardinality(Where(S, f, places))
         /\ f[x] \notin places /\ g[x] \in places =>
               Cardinality(Where(S, g, places)) = Cardinality(Where(S, f, places)) + 1
         /\ f[x] \in places /\ g[x] \notin places =>
               Cardinality(Where(S, g, places)) = Cardinality(Where(S, f, places)) - 1
<1> DEFINE F == Where(S, f, places)
           G == Where(S, g, places)
<1>1. IsFiniteSet(F)
  BY WhereIsNat
<1>2. x \in F <=> f[x] \in places
  BY DEF Where
<1>3. (f[x] \in places <=> g[x] \in places) => G = F
  BY DEF Where
<1>4. f[x] \notin places /\ g[x] \in places => G = F \cup {x}
  BY DEF Where
<1>5. f[x] \in places /\ g[x] \notin places => G = F \ {x}
  BY DEF Where
<1> HIDE DEF F, G
<1>6. x \notin F => Cardinality(F \cup {x}) = Cardinality(F) + 1
  BY <1>1, FS_AddElement
<1>7. x \in F => Cardinality(F \ {x}) = Cardinality(F) - 1
  BY <1>1, FS_RemoveElement
<1> QED
  BY <1>2, <1>3, <1>4, <1>5, <1>6, <1>7 DEF F, G

-----------------------------------------------------------------------------
(* Moving a goroutine *)

Moves(p, from, to) ==
  /\ probe[p] = from /\ probe'[p] = to
  /\ probe' \in [Port -> ProbePlace]
  /\ \A q \in Port \ {p} : probe'[q] = probe[q]

LEMMA PortFinite == IsFiniteSet(Port)
  BY PortAssumption, FS_Interval DEF Port

(* Where each step takes the goroutine of a port. *)
LEMMA ProbeMoves ==
  ASSUME probe \in [Port -> ProbePlace], NEW p \in Port
  PROVE  /\ DialFails(p) => Moves(p, "dial", "release")
         /\ DialSucceeds(p) => Moves(p, "dial", "lock")
         /\ Lock(p) => Moves(p, "lock", "read")
         /\ ReadSlice(p) => Moves(p, "read", "write")
         /\ WriteSlice(p) => Moves(p, "write", "unlock")
         /\ Unlock(p) => Moves(p, "unlock", "release")
         /\ Release(p) => Moves(p, "release", "finish")
         /\ Finish(p) => Moves(p, "finish", "done")
<1>1. ASSUME NEW from \in ProbePlace, NEW to \in ProbePlace,
             probe[p] = from, probe' = [probe EXCEPT ![p] = to]
      PROVE  Moves(p, from, to)
  BY <1>1 DEF Moves
<1>2. {"none", "dial", "lock", "read", "write", "unlock", "release", "finish", "done"}
        \subseteq ProbePlace
  BY DEF ProbePlace
<1>3. DialFails(p) => Moves(p, "dial", "release")
  BY <1>1, <1>2 DEF DialFails
<1>4. DialSucceeds(p) => Moves(p, "dial", "lock")
  BY <1>1, <1>2 DEF DialSucceeds
<1>5. Lock(p) => Moves(p, "lock", "read")
  BY <1>1, <1>2 DEF Lock
<1>6. ReadSlice(p) => Moves(p, "read", "write")
  BY <1>1, <1>2 DEF ReadSlice
<1>7. WriteSlice(p) => Moves(p, "write", "unlock")
  BY <1>1, <1>2 DEF WriteSlice
<1>8. Unlock(p) => Moves(p, "unlock", "release")
  BY <1>1, <1>2 DEF Unlock
<1>9. Release(p) => Moves(p, "release", "finish")
  BY <1>1, <1>2 DEF Release
<1>10. Finish(p) => Moves(p, "finish", "done")
  BY <1>1, <1>2 DEF Finish
<1> QED
  BY <1>3, <1>4, <1>5, <1>6, <1>7, <1>8, <1>9, <1>10

(* The loop starts the goroutine of the next port, which is not started yet. *)
LEMMA StartMoves ==
  ASSUME TypeOK, LoopPosition, StartProbe
  PROVE  next \in Port /\ next \in start..end /\ Moves(next, "none", "dial")
<1>1. next \in Nat /\ 1 <= next /\ next <= MaxPort /\ start <= next /\ next <= end
  BY PortAssumption DEF TypeOK, LoopPosition, StartProbe
<1>2. next \in Port
  BY <1>1, PortAssumption DEF Port
<1>3. probe[next] = "none"
  BY <1>1, <1>2 DEF LoopPosition, StartProbe
<1> QED
  BY <1>1, <1>2, <1>3 DEF StartProbe, Moves, TypeOK, ProbePlace

LEMMA MovesCount ==
  ASSUME NEW p \in Port, NEW from, NEW to, NEW places, Moves(p, from, to)
  PROVE  /\ Cardinality(Where(Port, probe, places)) \in Nat
         /\ Cardinality(Where(Port, probe', places)) \in Nat
         /\ (from \in places <=> to \in places) =>
              Cardinality(Where(Port, probe', places)) = Cardinality(Where(Port, probe, places))
         /\ from \notin places /\ to \in places =>
              Cardinality(Where(Port, probe', places)) = Cardinality(Where(Port, probe, places)) + 1
         /\ from \in places /\ to \notin places =>
              Cardinality(Where(Port, probe', places)) = Cardinality(Where(Port, probe, places)) - 1
<1>1. /\ probe[p] = from /\ probe'[p] = to
      /\ \A q \in Port \ {p} : probe'[q] = probe[q]
  BY DEF Moves
<1>2. /\ (probe[p] \in places <=> probe'[p] \in places) =>
           Cardinality(Where(Port, probe', places)) = Cardinality(Where(Port, probe, places))
      /\ probe[p] \notin places /\ probe'[p] \in places =>
           Cardinality(Where(Port, probe', places)) = Cardinality(Where(Port, probe, places)) + 1
      /\ probe[p] \in places /\ probe'[p] \notin places =>
           Cardinality(Where(Port, probe', places)) = Cardinality(Where(Port, probe, places)) - 1
  BY <1>1, PortFinite, WhereMoves
<1>3. /\ Cardinality(Where(Port, probe, places)) \in Nat
      /\ Cardinality(Where(Port, probe', places)) \in Nat
  BY PortFinite, WhereIsNat
<1> QED
  BY <1>1, <1>2, <1>3

-----------------------------------------------------------------------------
LEMMA InitInv == Init => Inv
<1> SUFFICES ASSUME Init PROVE Inv
  OBVIOUS
<1>1. Where(Port, probe, HoldsToken) = {} /\ Where(Port, probe, InGroup) = {}
  BY DEF Init, Where, HoldsToken, InGroup
<1>2. SemaphoreCounts /\ GroupCounts
  <2>1. /\ Cardinality(Where(Port, probe, HoldsToken)) = 0
        /\ Cardinality(Where(Port, probe, InGroup)) = 0
    BY <1>1, FS_EmptySet
  <2>2. sem = 0 /\ wg = 0 /\ main = "parse"
    BY DEF Init
  <2> QED
    BY <2>1, <2>2, ConcurrentAssumption DEF SemaphoreCounts, GroupCounts
<1>3. Appended = {} /\ Listed = {}
  BY DEF Init, Appended, Listed
<1>4. SliceLists
  BY <1>3, FS_EmptySet DEF Init, SliceLists, Succeeded
<1>5. LoopPosition /\ MutexHeld /\ SliceCurrent
  BY PortAssumption DEF Init, LoopPosition, MutexHeld, SliceCurrent, HoldsMutex, Port
<1>6. TypeOK
  <2>1. <<>> \in Seq(Port)
    OBVIOUS
  <2>2. seen \in [Port -> Seq(Port)] /\ openPorts \in Seq(Port)
    BY <2>1 DEF Init
  <2>3. start \in Nat /\ end \in Int /\ answering \subseteq Port /\ mu \in 0..MaxPort
    BY PortAssumption DEF Init
  <2> QED
    BY <2>2, <2>3 DEF Init, TypeOK
<1> QED
  BY <1>2, <1>4, <1>5, <1>6 DEF Inv

(* A WaitGroup at zero, with the loop behind it, means that every goroutine *)
(* has finished.                                                            *)
LEMMA NobodyProbing ==
  ASSUME TypeOK, GroupCounts, wg = 0, main # "acquire", NEW p \in Port
  PROVE  probe[p] \in {"none", "done"}
<1>1. IsFiniteSet(Where(Port, probe, InGroup)) /\ Cardinality(Where(Port, probe, InGroup)) = 0
  BY PortFinite, WhereIsNat DEF GroupCounts
<1>2. Where(Port, probe, InGroup) = {}
  BY <1>1, FS_EmptySet
<1> QED
  BY <1>2 DEF Where, InGroup, TypeOK

(* The loop, and how far it has come *)
LEMMA NextPosition ==
  ASSUME TypeOK, LoopPosition, GroupCounts, [Next]_vars
  PROVE  LoopPosition'
<1>1. probe \in [Port -> ProbePlace]
  BY DEF TypeOK, ProbePlace
<1>2. ASSUME NEW p \in Port, NEW from, NEW to, Moves(p, from, to),
             from \notin {"none", "done"}, to # "none",
             UNCHANGED <<start, end, main, next>>
      PROVE  LoopPosition'
  BY <1>2 DEF LoopPosition, Moves
<1>3. ASSUME NEW p \in Port, ProbeStep(p) PROVE LoopPosition'
  <2>1. UNCHANGED <<start, end, main, next>>
    BY <1>3 DEF ProbeStep, DialFails, DialSucceeds, Lock, ReadSlice, WriteSlice, Unlock, Release,
                Finish, input
  <2> QED
    BY <1>1, <1>2, <1>3, <2>1, ProbeMoves DEF ProbeStep
<1>4. CASE ParseRange
  BY <1>4, PortAssumption DEF ParseRange, InvalidRange, LoopPosition, TypeOK, input, Port
<1>5. CASE AddToGroup
  BY <1>5 DEF AddToGroup, LoopPosition, input
<1>6. CASE StartProbe
  <2>1. next \in Port /\ next \in start..end /\ Moves(next, "none", "dial")
    BY <1>6, StartMoves
  <2>2. next' = next + 1 /\ main' = "loop" /\ main = "acquire" /\ UNCHANGED <<start, end>>
    BY <1>6 DEF StartProbe, input
  <2>3. next \in Int /\ start \in Int /\ end \in Int /\ Port \subseteq Int
    BY DEF TypeOK, Port
  <2>4. \A p \in Port : probe'[p] # "none" <=> start <= p /\ p < next + 1
    BY <2>1, <2>2, <2>3 DEF LoopPosition, Moves
  <2> QED
    BY <2>1, <2>2, <2>3, <2>4 DEF LoopPosition
<1>7. CASE Wait
  BY <1>7, NobodyProbing DEF Wait, LoopPosition, input
<1>8. CASE PrintPorts
  BY <1>8 DEF PrintPorts, LoopPosition, input
<1>9. CASE UNCHANGED vars
  BY <1>9 DEF vars, LoopPosition, input
<1> QED
  BY <1>3, <1>4, <1>5, <1>6, <1>7, <1>8, <1>9 DEF Next, MainStep, Ended

(* The semaphore counts the goroutines that hold a token *)
LEMMA NextSemaphore ==
  ASSUME TypeOK, LoopPosition, SemaphoreCounts, [Next]_vars
  PROVE  SemaphoreCounts' /\ sem' \in Nat
<1> DEFINE Holders == Cardinality(Where(Port, probe, HoldsToken))
<1>1. probe \in [Port -> ProbePlace] /\ sem \in Nat /\ Concurrent \in Nat
  BY ConcurrentAssumption DEF TypeOK, ProbePlace
<1>2. sem = Holders /\ sem <= Concurrent
  BY DEF SemaphoreCounts
<1>0. "none" \notin HoldsToken /\ {"dial", "release"} \subseteq HoldsToken /\ "finish" \notin HoldsToken
  BY DEF HoldsToken
<1>3. ASSUME probe' = probe, sem' = sem PROVE SemaphoreCounts' /\ sem' \in Nat
  BY <1>1, <1>2, <1>3 DEF SemaphoreCounts
<1>4. ASSUME NEW p \in Port, NEW from, NEW to, Moves(p, from, to),
             from \in HoldsToken <=> to \in HoldsToken, sem' = sem
      PROVE  SemaphoreCounts' /\ sem' \in Nat
  <2>1. Cardinality(Where(Port, probe', HoldsToken)) = Holders
    BY <1>4, MovesCount
  <2> QED
    BY <1>1, <1>2, <1>4, <2>1 DEF SemaphoreCounts
<1>5. ASSUME NEW p \in Port, DialFails(p) PROVE SemaphoreCounts' /\ sem' \in Nat
  <2>1. Moves(p, "dial", "release") /\ sem' = sem
    BY <1>1, <1>5, ProbeMoves DEF DialFails
  <2> QED
    BY <1>4, <2>1 DEF HoldsToken
<1>6. ASSUME NEW p \in Port, DialSucceeds(p) PROVE SemaphoreCounts' /\ sem' \in Nat
  <2>1. Moves(p, "dial", "lock") /\ sem' = sem
    BY <1>1, <1>6, ProbeMoves DEF DialSucceeds
  <2> QED
    BY <1>4, <2>1 DEF HoldsToken
<1>7. ASSUME NEW p \in Port, Lock(p) PROVE SemaphoreCounts' /\ sem' \in Nat
  <2>1. Moves(p, "lock", "read") /\ sem' = sem
    BY <1>1, <1>7, ProbeMoves DEF Lock
  <2> QED
    BY <1>4, <2>1 DEF HoldsToken
<1>8. ASSUME NEW p \in Port, ReadSlice(p) PROVE SemaphoreCounts' /\ sem' \in Nat
  <2>1. Moves(p, "read", "write") /\ sem' = sem
    BY <1>1, <1>8, ProbeMoves DEF ReadSlice
  <2> QED
    BY <1>4, <2>1 DEF HoldsToken
<1>9. ASSUME NEW p \in Port, WriteSlice(p) PROVE SemaphoreCounts' /\ sem' \in Nat
  <2>1. Moves(p, "write", "unlock") /\ sem' = sem
    BY <1>1, <1>9, ProbeMoves DEF WriteSlice
  <2> QED
    BY <1>4, <2>1 DEF HoldsToken
<1>10. ASSUME NEW p \in Port, Unlock(p) PROVE SemaphoreCounts' /\ sem' \in Nat
  <2>1. Moves(p, "unlock", "release") /\ sem' = sem
    BY <1>1, <1>10, ProbeMoves DEF Unlock
  <2> QED
    BY <1>4, <2>1 DEF HoldsToken
<1>11. ASSUME NEW p \in Port, Release(p) PROVE SemaphoreCounts' /\ sem' \in Nat
  <2>1. Moves(p, "release", "finish")
    BY <1>1, <1>11, ProbeMoves
  <2>2. sem' = sem - 1
    BY <1>11 DEF Release
  <2>3. Cardinality(Where(Port, probe', HoldsToken)) = Holders - 1
    BY <1>0, <2>1, MovesCount
  <2>4. Cardinality(Where(Port, probe', HoldsToken)) \in Nat
    BY <2>1, MovesCount
  <2> QED
    BY <1>1, <1>2, <2>2, <2>3, <2>4 DEF SemaphoreCounts
<1>12. ASSUME NEW p \in Port, Finish(p) PROVE SemaphoreCounts' /\ sem' \in Nat
  <2>1. Moves(p, "finish", "done") /\ sem' = sem
    BY <1>1, <1>12, ProbeMoves DEF Finish
  <2> QED
    BY <1>4, <2>1 DEF HoldsToken
<1>13. CASE StartProbe
  <2>1. next \in Port /\ Moves(next, "none", "dial")
    BY <1>13, StartMoves
  <2>2. sem' = sem + 1 /\ sem < Concurrent
    BY <1>13 DEF StartProbe
  <2>3. Cardinality(Where(Port, probe', HoldsToken)) = Holders + 1
    BY <1>0, <2>1, MovesCount
  <2> QED
    BY <1>1, <1>2, <2>2, <2>3 DEF SemaphoreCounts
<1>14. CASE ParseRange \/ AddToGroup \/ Wait \/ PrintPorts \/ UNCHANGED vars
  BY <1>3, <1>14 DEF ParseRange, AddToGroup, Wait, PrintPorts, vars
<1> QED
  BY <1>5, <1>6, <1>7, <1>8, <1>9, <1>10, <1>11, <1>12, <1>13, <1>14
     DEF Next, MainStep, ProbeStep, Ended

(* The WaitGroup counts the goroutines that have not finished, and the one  *)
(* main is about to start.                                                  *)
LEMMA NextGroup ==
  ASSUME TypeOK, LoopPosition, GroupCounts, [Next]_vars
  PROVE  GroupCounts' /\ wg' \in Nat
<1> DEFINE Members == Cardinality(Where(Port, probe, InGroup))
<1>1. probe \in [Port -> ProbePlace] /\ wg \in Nat
  BY DEF TypeOK, ProbePlace
<1>0. "none" \notin InGroup /\ {"dial", "finish"} \subseteq InGroup /\ "done" \notin InGroup
  BY DEF InGroup
<1>2. wg = Members + (IF main = "acquire" THEN 1 ELSE 0) /\ Members \in Nat
  BY PortFinite, WhereIsNat DEF GroupCounts
<1>3. ASSUME NEW p \in Port, NEW from, NEW to, Moves(p, from, to),
             from \in InGroup, to \in InGroup, wg' = wg, main' = main
      PROVE  GroupCounts' /\ wg' \in Nat
  <2>1. Cardinality(Where(Port, probe', InGroup)) = Members
    BY <1>3, MovesCount
  <2> QED
    BY <1>1, <1>2, <1>3, <2>1 DEF GroupCounts
<1>4. ASSUME NEW p \in Port, ProbeStep(p) PROVE GroupCounts' /\ wg' \in Nat
  <2>1. main' = main
    BY <1>4 DEF ProbeStep, DialFails, DialSucceeds, Lock, ReadSlice, WriteSlice, Unlock, Release,
                Finish
  <2>2. CASE Finish(p)
    <3>1. Moves(p, "finish", "done") /\ wg' = wg - 1
      BY <1>1, <2>2, ProbeMoves DEF Finish
    <3>2. Cardinality(Where(Port, probe', InGroup)) = Members - 1
      BY <1>0, <3>1, MovesCount
    <3>3. Cardinality(Where(Port, probe', InGroup)) \in Nat
      BY <3>1, MovesCount
    <3> QED
      BY <1>2, <2>1, <3>1, <3>2, <3>3 DEF GroupCounts
  <2>3. CASE ~Finish(p)
    <3>1. wg' = wg
      BY <1>4, <2>3 DEF ProbeStep, DialFails, DialSucceeds, Lock, ReadSlice, WriteSlice, Unlock,
                        Release
    <3>2. PICK from \in InGroup, to \in InGroup : Moves(p, from, to)
      BY <1>1, <1>4, <2>3, ProbeMoves DEF ProbeStep, InGroup
    <3> QED
      BY <1>3, <2>1, <3>1, <3>2
  <2> QED
    BY <2>2, <2>3
<1>5. CASE StartProbe
  <2>1. next \in Port /\ Moves(next, "none", "dial")
    BY <1>5, StartMoves
  <2>2. main = "acquire" /\ main' = "loop" /\ wg' = wg
    BY <1>5 DEF StartProbe
  <2>3. Cardinality(Where(Port, probe', InGroup)) = Members + 1
    BY <1>0, <2>1, MovesCount
  <2> QED
    BY <1>1, <1>2, <2>2, <2>3 DEF GroupCounts
<1>6. CASE AddToGroup
  <2>1. main = "loop" /\ main' = "acquire" /\ wg' = wg + 1 /\ probe' = probe
    BY <1>6 DEF AddToGroup
  <2> QED
    BY <1>1, <1>2, <2>1 DEF GroupCounts
<1>7. CASE ParseRange \/ Wait \/ PrintPorts \/ UNCHANGED vars
  <2>1. wg' = wg /\ probe' = probe /\ (main' = "acquire" <=> main = "acquire")
    BY <1>7 DEF ParseRange, Wait, PrintPorts, vars
  <2> QED
    BY <1>1, <1>2, <2>1 DEF GroupCounts
<1> QED
  BY <1>4, <1>5, <1>6, <1>7 DEF Next, MainStep, Ended

(* The mutex has at most one holder, the goroutine between Lock and Unlock. *)
LEMMA NextMutex ==
  ASSUME TypeOK, LoopPosition, MutexHeld, [Next]_vars
  PROVE  MutexHeld'
<1>1. probe \in [Port -> ProbePlace] /\ 0 \notin Port
  BY PortAssumption DEF TypeOK, ProbePlace, Port
<1>2. ASSUME NEW p \in Port, NEW from, NEW to, Moves(p, from, to),
             from \in HoldsMutex <=> to \in HoldsMutex, mu' = mu
      PROVE  MutexHeld'
  BY <1>2 DEF MutexHeld, Moves
<1>3. ASSUME NEW p \in Port, DialFails(p) \/ DialSucceeds(p) \/ ReadSlice(p) \/ WriteSlice(p)
                             \/ Release(p) \/ Finish(p)
      PROVE  MutexHeld'
  <2>1. mu' = mu
    BY <1>3 DEF DialFails, DialSucceeds, ReadSlice, WriteSlice, Release, Finish
  <2>2. \/ Moves(p, "dial", "release") \/ Moves(p, "dial", "lock") \/ Moves(p, "read", "write")
        \/ Moves(p, "write", "unlock") \/ Moves(p, "release", "finish")
        \/ Moves(p, "finish", "done")
    BY <1>1, <1>3, ProbeMoves
  <2> QED
    BY <1>2, <2>1, <2>2 DEF HoldsMutex
<1>4. ASSUME NEW p \in Port, Lock(p) PROVE MutexHeld'
  <2>1. Moves(p, "lock", "read")
    BY <1>1, <1>4, ProbeMoves
  <2>2. mu = 0 /\ mu' = p
    BY <1>4 DEF Lock
  <2> QED
    BY <1>1, <2>1, <2>2 DEF MutexHeld, Moves, HoldsMutex
<1>5. ASSUME NEW p \in Port, Unlock(p) PROVE MutexHeld'
  <2>1. Moves(p, "unlock", "release")
    BY <1>1, <1>5, ProbeMoves
  <2>2. mu' = 0
    BY <1>5 DEF Unlock
  <2> QED
    BY <1>1, <2>1, <2>2 DEF MutexHeld, Moves, HoldsMutex
<1>6. CASE StartProbe
  <2>1. next \in Port /\ Moves(next, "none", "dial") /\ mu' = mu
    BY <1>6, StartMoves DEF StartProbe
  <2> QED
    BY <1>2, <2>1 DEF HoldsMutex
<1>7. CASE ParseRange \/ AddToGroup \/ Wait \/ PrintPorts \/ UNCHANGED vars
  BY <1>7 DEF ParseRange, AddToGroup, Wait, PrintPorts, vars, MutexHeld
<1> QED
  BY <1>3, <1>4, <1>5, <1>6, <1>7 DEF Next, MainStep, ProbeStep, Ended

(* Between the read and the write of the slice it does not change: what a   *)
(* goroutine has read is still the slice it appends to.                     *)
LEMMA NextCurrent ==
  ASSUME TypeOK, LoopPosition, MutexHeld, SliceCurrent, [Next]_vars
  PROVE  SliceCurrent'
<1>1. probe \in [Port -> ProbePlace] /\ seen \in [Port -> Seq(Port)]
  BY DEF TypeOK, ProbePlace
<1>2. ASSUME NEW p \in Port, NEW from, NEW to, Moves(p, from, to), to # "write",
             seen' = seen, openPorts' = openPorts
      PROVE  SliceCurrent'
  BY <1>2 DEF SliceCurrent, Moves
<1>3. ASSUME NEW p \in Port, DialFails(p) \/ DialSucceeds(p) \/ Lock(p) \/ Unlock(p)
                             \/ Release(p) \/ Finish(p)
      PROVE  SliceCurrent'
  <2>1. seen' = seen /\ openPorts' = openPorts
    BY <1>3 DEF DialFails, DialSucceeds, Lock, Unlock, Release, Finish
  <2>2. \/ Moves(p, "dial", "release") \/ Moves(p, "dial", "lock") \/ Moves(p, "lock", "read")
        \/ Moves(p, "unlock", "release") \/ Moves(p, "release", "finish")
        \/ Moves(p, "finish", "done")
    BY <1>1, <1>3, ProbeMoves
  <2> QED
    BY <1>2, <2>1, <2>2
<1>4. ASSUME NEW p \in Port, ReadSlice(p) PROVE SliceCurrent'
  <2>1. Moves(p, "read", "write")
    BY <1>1, <1>4, ProbeMoves
  <2>2. /\ openPorts' = openPorts /\ seen'[p] = openPorts
        /\ \A q \in Port \ {p} : seen'[q] = seen[q]
    BY <1>1, <1>4 DEF ReadSlice
  <2> QED
    BY <2>1, <2>2 DEF SliceCurrent, Moves
<1>5. ASSUME NEW p \in Port, WriteSlice(p) PROVE SliceCurrent'
  <2>1. Moves(p, "write", "unlock")
    BY <1>1, <1>5, ProbeMoves
  <2>2. \A q \in Port \ {p} : probe[q] # "write"
    BY <2>1 DEF MutexHeld, Moves, HoldsMutex
  <2> QED
    BY <2>1, <2>2 DEF SliceCurrent, Moves
<1>6. CASE StartProbe
  <2>1. next \in Port /\ Moves(next, "none", "dial") /\ seen' = seen /\ openPorts' = openPorts
    BY <1>6, StartMoves DEF StartProbe
  <2> QED
    BY <1>2, <2>1
<1>7. CASE ParseRange \/ AddToGroup \/ Wait \/ PrintPorts \/ UNCHANGED vars
  BY <1>7 DEF ParseRange, AddToGroup, Wait, PrintPorts, vars, SliceCurrent
<1> QED
  BY <1>3, <1>4, <1>5, <1>6, <1>7 DEF Next, MainStep, ProbeStep, Ended

(* The slice lists, once each, the connected ports whose goroutine has      *)
(* appended.                                                                *)
LEMMA WriteAppends ==
  ASSUME TypeOK, SliceCurrent, SliceLists, NEW p \in Port, WriteSlice(p)
  PROVE  /\ Appended' = Appended \cup {p} /\ p \notin Appended
         /\ Listed' = Listed \cup {p}
         /\ Len(openPorts') = Len(openPorts) + 1
         /\ openPorts' \in Seq(Port)
<1>1. probe \in [Port -> ProbePlace] /\ openPorts \in Seq(Port) /\ connected \subseteq Port
  BY DEF TypeOK, ProbePlace
<1>2. Moves(p, "write", "unlock") /\ connected' = connected
  BY <1>1, ProbeMoves DEF WriteSlice
<1>3. openPorts' = Append(openPorts, p)
  BY <1>2 DEF WriteSlice, SliceCurrent, Moves
<1>4. p \in connected
  BY <1>2 DEF SliceLists, Moves, Succeeded
<1>5. Appended' = Appended \cup {p} /\ p \notin Appended
  BY <1>1, <1>2, <1>4 DEF Appended, Moves, ToAppend
<1>6. /\ Len(openPorts') = Len(openPorts) + 1 /\ openPorts' \in Seq(Port)
      /\ \A i \in 1..Len(openPorts) : openPorts'[i] = openPorts[i]
      /\ openPorts'[Len(openPorts) + 1] = p
  BY <1>1, <1>3, AppendProperties
<1>7. /\ DOMAIN openPorts = 1..Len(openPorts) /\ DOMAIN openPorts' = 1..Len(openPorts')
      /\ Len(openPorts) \in Nat
  BY <1>1, <1>6, LenProperties
<1>8. Listed' = Listed \cup {p}
  BY <1>6, <1>7 DEF Listed
<1> QED
  BY <1>5, <1>6, <1>8

LEMMA NextLists ==
  ASSUME TypeOK, LoopPosition, SliceCurrent, SliceLists, [Next]_vars
  PROVE  SliceLists'
<1>1. probe \in [Port -> ProbePlace] /\ connected \subseteq Port
  BY DEF TypeOK, ProbePlace
<1>2. ASSUME NEW p \in Port, NEW from, NEW to, Moves(p, from, to),
             from \in ToAppend <=> to \in ToAppend, to \in Succeeded => from \in Succeeded,
             to \notin {"none", "dial"},
             UNCHANGED <<openPorts, connected, answering>>
      PROVE  SliceLists'
  <2>1. Appended' = Appended
    BY <1>1, <1>2 DEF Appended, Moves
  <2>2. Listed' = Listed
    BY <1>2 DEF Listed
  <2> QED
    BY <1>1, <1>2, <2>1, <2>2 DEF SliceLists, Moves
<1>3. ASSUME NEW p \in Port, DialFails(p) \/ Lock(p) \/ ReadSlice(p) \/ Unlock(p)
                             \/ Release(p) \/ Finish(p)
      PROVE  SliceLists'
  <2>1. UNCHANGED <<openPorts, connected, answering>>
    BY <1>3 DEF DialFails, Lock, ReadSlice, Unlock, Release, Finish, input
  <2>2. \/ Moves(p, "dial", "release") \/ Moves(p, "lock", "read") \/ Moves(p, "read", "write")
        \/ Moves(p, "unlock", "release") \/ Moves(p, "release", "finish")
        \/ Moves(p, "finish", "done")
    BY <1>1, <1>3, ProbeMoves
  <2> QED
    BY <1>2, <2>1, <2>2 DEF ToAppend, Succeeded
<1>4. ASSUME NEW p \in Port, DialSucceeds(p) PROVE SliceLists'
  <2>1. Moves(p, "dial", "lock")
    BY <1>1, <1>4, ProbeMoves
  <2>2. /\ connected' = connected \cup {p} /\ p \in answering
        /\ openPorts' = openPorts /\ answering' = answering
    BY <1>4 DEF DialSucceeds, input
  <2>3. Appended' = Appended
    BY <1>1, <2>1, <2>2 DEF Appended, Moves, ToAppend, SliceLists
  <2>4. Listed' = Listed
    BY <2>2 DEF Listed
  <2> QED
    BY <1>1, <2>1, <2>2, <2>3, <2>4 DEF SliceLists, Moves
<1>5. ASSUME NEW p \in Port, WriteSlice(p) PROVE SliceLists'
  <2>1. Moves(p, "write", "unlock") /\ UNCHANGED <<connected, answering>>
    BY <1>1, <1>5, ProbeMoves DEF WriteSlice, input
  <2>2. /\ Appended' = Appended \cup {p} /\ p \notin Appended
        /\ Listed' = Listed \cup {p}
        /\ Len(openPorts') = Len(openPorts) + 1
    BY <1>5, WriteAppends
  <2>3. IsFiniteSet(Appended)
    BY <1>1, PortFinite, FS_Subset DEF Appended
  <2>4. Cardinality(Appended \cup {p}) = Cardinality(Appended) + 1
    BY <2>2, <2>3, FS_AddElement
  <2>5. Listed' = Appended' /\ Len(openPorts') = Cardinality(Appended')
    BY <2>2, <2>4 DEF SliceLists
  <2>6. \A q \in Port : probe'[q] \in Succeeded => q \in connected
    BY <2>1 DEF SliceLists, Moves, Succeeded
  <2>7. \A q \in connected : probe'[q] \notin {"none", "dial"}
    BY <1>1, <2>1 DEF SliceLists, Moves
  <2> QED
    BY <2>1, <2>5, <2>6, <2>7 DEF SliceLists
<1>6. CASE StartProbe
  <2>1. next \in Port /\ Moves(next, "none", "dial") /\ UNCHANGED <<openPorts, connected, answering>>
    BY <1>6, StartMoves DEF StartProbe, input
  <2>2. next \notin connected
    BY <2>1 DEF SliceLists, Moves
  <2>3. Appended' = Appended
    BY <1>1, <2>1, <2>2 DEF Appended, Moves
  <2>4. Listed' = Listed
    BY <2>1 DEF Listed
  <2> QED
    BY <1>1, <2>1, <2>2, <2>3, <2>4 DEF SliceLists, Moves, Succeeded
<1>7. CASE ParseRange \/ AddToGroup \/ Wait \/ PrintPorts \/ UNCHANGED vars
  <2>1. UNCHANGED <<openPorts, connected, answering, probe>>
    BY <1>7 DEF ParseRange, AddToGroup, Wait, PrintPorts, vars, input
  <2>2. Appended' = Appended /\ Listed' = Listed
    BY <2>1 DEF Appended, Listed
  <2> QED
    BY <2>1, <2>2 DEF SliceLists
<1> QED
  BY <1>3, <1>4, <1>5, <1>6, <1>7 DEF Next, MainStep, ProbeStep, Ended

LEMMA NextTyped ==
  ASSUME TypeOK, LoopPosition, SliceCurrent, SliceLists, [Next]_vars, sem' \in Nat, wg' \in Nat
  PROVE  TypeOK'
<1>1. probe \in [Port -> ProbePlace]
  BY DEF TypeOK, ProbePlace
<1>2. ASSUME NEW p \in Port, ProbeStep(p) PROVE TypeOK'
  <2>1. probe' \in [Port -> ProbePlace]
    BY <1>1, <1>2, ProbeMoves DEF ProbeStep, Moves
  <2>2. UNCHANGED <<start, end, answering, main, next>>
    BY <1>2 DEF ProbeStep, DialFails, DialSucceeds, Lock, ReadSlice, WriteSlice, Unlock, Release,
                Finish, input
  <2>3. mu' \in 0..MaxPort
    BY <1>2, PortAssumption DEF ProbeStep, DialFails, DialSucceeds, Lock, ReadSlice, WriteSlice,
                                Unlock, Release, Finish, TypeOK, Port
  <2>4. connected' \subseteq Port
    BY <1>2 DEF ProbeStep, DialFails, DialSucceeds, Lock, ReadSlice, WriteSlice, Unlock, Release,
                Finish, TypeOK
  <2>5. openPorts' \in Seq(Port)
    BY <1>2, WriteAppends DEF ProbeStep, DialFails, DialSucceeds, Lock, ReadSlice, Unlock,
                              Release, Finish, TypeOK
  <2>6. seen' \in [Port -> Seq(Port)]
    <3>1. <<>> \in Seq(Port)
      OBVIOUS
    <3> QED
      BY <1>2, <3>1 DEF ProbeStep, DialFails, DialSucceeds, Lock, ReadSlice, WriteSlice, Unlock,
                        Release, Finish, TypeOK
  <2> QED
    BY <2>1, <2>2, <2>3, <2>4, <2>5, <2>6 DEF TypeOK, ProbePlace
<1>3. CASE MainStep \/ UNCHANGED vars
  <2>1. probe' \in [Port -> ProbePlace]
    BY <1>1, <1>3, StartMoves DEF MainStep, ParseRange, AddToGroup, Wait, PrintPorts, vars, Moves
  <2>2. UNCHANGED <<start, end, answering, mu, seen, openPorts, connected>>
    BY <1>3 DEF MainStep, ParseRange, AddToGroup, StartProbe, Wait, PrintPorts, vars, input
  <2>3. next' \in Int /\ main' \in {"parse", "fatal", "loop", "acquire", "returned", "printed"}
    BY <1>3 DEF MainStep, ParseRange, AddToGroup, StartProbe, Wait, PrintPorts, vars, TypeOK
  <2> QED
    BY <2>1, <2>2, <2>3 DEF TypeOK, ProbePlace
<1> QED
  BY <1>2, <1>3 DEF Next, Ended

LEMMA NextInv == Inv /\ [Next]_vars => Inv'
  BY NextPosition, NextSemaphore, NextGroup, NextMutex, NextCurrent, NextLists, NextTyped DEF Inv

LEMMA Invariant == Spec => []Inv
  BY InitInv, NextInv, PTL DEF Spec

(* Every variable keeps its type: the semaphore and the WaitGroup are never *)
(* decremented below zero.                                                  *)
THEOREM TypeCorrect == Spec => []TypeOK
  BY Invariant, PTL DEF Inv

(* The semaphore holds one token for each goroutine between its start and   *)
(* its deferred release, and never more than --concurrent.                  *)
THEOREM ConcurrencyBounded == Spec => []AtMostConcurrent
<1>1. Inv => AtMostConcurrent
  <2>1. Holding = Where(Port, probe, HoldsToken)
    BY DEF Holding, Where, HoldsToken
  <2> QED
    BY <2>1 DEF Inv, SemaphoreCounts, AtMostConcurrent
<1> QED
  BY <1>1, Invariant, PTL

(* However the goroutines interleave at the mutex, the slice scanPorts      *)
(* returns lists every port that answered the dial, and each once.          *)
THEOREM NoPortLost == Spec => []NothingLost
<1>1. Inv => NothingLost
  <2> SUFFICES ASSUME Inv, main \in {"returned", "printed"}
               PROVE  Listed = connected /\ Len(openPorts) = Cardinality(connected) /\ Probing = {}
    BY DEF NothingLost, Listed
  <2>1. \A p \in Port : probe[p] \in {"none", "done"}
    BY DEF Inv, LoopPosition
  <2>2. Appended = connected
    BY <2>1 DEF Inv, TypeOK, Appended, ToAppend
  <2> QED
    BY <2>1, <2>2 DEF Inv, SliceLists, Probing
<1> QED
  BY <1>1, Invariant, PTL

-----------------------------------------------------------------------------
(* sort.Ints *)

(* The place of the i-th number among all of them, equal ones in their order *)
NotAfter(s, j, i) == s[j] < s[i] \/ (s[j] = s[i] /\ j <= i)
Rank(s) == [i \in DOMAIN s |-> Cardinality({j \in DOMAIN s : NotAfter(s, j, i)})]

LEMMA UpTo ==
  ASSUME NEW n \in Nat
  PROVE  IsFiniteSet(1..n) /\ Cardinality(1..n) = n
BY FS_Interval

LEMMA RankIsBijection ==
  ASSUME NEW s \in Seq(Int)
  PROVE  /\ Rank(s) \in Bijection(DOMAIN s, DOMAIN s)
         /\ \A i, j \in DOMAIN s : s[i] < s[j] => Rank(s)[i] < Rank(s)[j]
<1> DEFINE D == DOMAIN s
           Upto(i) == {j \in D : NotAfter(s, j, i)}
<1>1. /\ Len(s) \in Nat /\ D = 1..Len(s) /\ IsFiniteSet(D) /\ Cardinality(D) = Len(s)
      /\ \A i \in D : s[i] \in Int /\ i \in Int
  <2>1. Len(s) \in Nat /\ D = 1..Len(s) /\ \A i \in D : s[i] \in Int /\ i \in Int
    OBVIOUS
  <2>2. IsFiniteSet(1..Len(s)) /\ Cardinality(1..Len(s)) = Len(s)
    BY <2>1, UpTo
  <2> HIDE DEF D
  <2> QED
    BY <2>1, <2>2
<1> HIDE DEF D
<1>2. ASSUME NEW i \in D
      PROVE  IsFiniteSet(Upto(i)) /\ Cardinality(Upto(i)) \in D
  <2>1. IsFiniteSet(Upto(i)) /\ Cardinality(Upto(i)) <= Len(s)
    BY <1>1, FS_Subset
  <2>2. i \in Upto(i)
    BY <1>1 DEF NotAfter
  <2>3. Cardinality(Upto(i)) \in Nat /\ Cardinality(Upto(i)) # 0
    BY <2>1, <2>2, FS_CardinalityType, FS_EmptySet
  <2> HIDE DEF Upto
  <2> QED
    BY <1>1, <2>1, <2>3
<1>3. ASSUME NEW i \in D, NEW j \in D, NotAfter(s, i, j), i # j
      PROVE  Cardinality(Upto(i)) < Cardinality(Upto(j))
  <2>1. Upto(i) \subseteq Upto(j)
    BY <1>1, <1>3 DEF NotAfter
  <2>2. j \in Upto(j) /\ j \notin Upto(i)
    BY <1>1, <1>3 DEF NotAfter
  <2>3. Cardinality(Upto(i)) <= Cardinality(Upto(j)) /\ Cardinality(Upto(i)) # Cardinality(Upto(j))
    BY <1>2, <2>1, <2>2, FS_Subset
  <2>4. Cardinality(Upto(i)) \in Int /\ Cardinality(Upto(j)) \in Int
    BY <1>1, <1>2
  <2> HIDE DEF Upto
  <2> QED
    BY <2>3, <2>4
<1>4. \A i \in D : Rank(s)[i] = Cardinality(Upto(i))
  BY DEF Rank, D
<1>5. Rank(s) \in [D -> D]
  BY <1>2, <1>4 DEF Rank, D
<1>6. \A i, j \in D : NotAfter(s, i, j) /\ i # j => Rank(s)[i] < Rank(s)[j]
  BY <1>3, <1>4
<1>7. \A i, j \in D : Rank(s)[i] \in Int /\ (i = j \/ NotAfter(s, i, j) \/ NotAfter(s, j, i))
  BY <1>1, <1>5 DEF NotAfter
<1>8. Rank(s) \in Injection(D, D)
  BY <1>5, <1>6, <1>7 DEF Injection, IsInjective
<1>9. Rank(s) \in Surjection(D, D)
  BY <1>1, <1>8, FS_Injection
<1>10. \A i, j \in D : s[i] < s[j] => NotAfter(s, i, j) /\ i # j
  BY <1>1 DEF NotAfter
<1> QED
  BY <1>6, <1>8, <1>9, <1>10 DEF Bijection, D

LEMMA Sorts ==
  ASSUME NEW s \in Seq(Int)
  PROVE  /\ SortInts(s) \in Rearranged(s)
         /\ \A i, j \in DOMAIN s : i < j => SortInts(s)[i] <= SortInts(s)[j]
<1> DEFINE D == DOMAIN s
           f == [k \in D |-> CHOOSE i \in D : Rank(s)[i] = k]
           t == [k \in D |-> s[f[k]]]
<1>1. D \subseteq Int /\ \A i \in D : s[i] \in Int
  OBVIOUS
<1>2. /\ Rank(s) \in [D -> D]
      /\ \A i, j \in D : Rank(s)[i] = Rank(s)[j] => i = j
      /\ \A k \in D : \E i \in D : Rank(s)[i] = k
      /\ \A i, j \in D : s[i] < s[j] => Rank(s)[i] < Rank(s)[j]
  BY RankIsBijection DEF Bijection, Injection, IsInjective, Surjection
<1> HIDE DEF D
<1>3. \A k \in D : f[k] \in D /\ Rank(s)[f[k]] = k
  BY <1>2
<1>4. f \in Bijection(D, D)
  <2>1. f \in [D -> D]
    BY <1>3
  <2>2. \A k, l \in D : f[k] = f[l] => k = l
    BY <1>3
  <2>3. \A i \in D : \E k \in D : f[k] = i
    BY <1>2, <1>3
  <2> HIDE DEF f
  <2> QED
    BY <2>1, <2>2, <2>3 DEF Bijection, Injection, IsInjective, Surjection
<1>5. t \in Rearranged(s)
  <2> HIDE DEF f
  <2> QED
    BY <1>4 DEF Rearranged, D
<1>6. ASSUME NEW k \in D, NEW l \in D, k < l
      PROVE  t[k] <= t[l]
  <2>1. ~(s[f[l]] < s[f[k]])
    <3> HIDE DEF f
    <3>1. f[k] \in D /\ f[l] \in D /\ Rank(s)[f[k]] = k /\ Rank(s)[f[l]] = l
      BY <1>3
    <3>2. s[f[l]] < s[f[k]] => l < k
      BY <1>2, <3>1
    <3>3. ~(l < k)
      BY <1>1, <1>6
    <3> QED
      BY <3>2, <3>3
  <2>2. s[f[k]] \in Int /\ s[f[l]] \in Int
    BY <1>1, <1>3
  <2>3. t[k] = s[f[k]] /\ t[l] = s[f[l]]
    OBVIOUS
  <2> HIDE DEF f, t
  <2> QED
    BY <2>1, <2>2, <2>3
<1> HIDE DEF t
<1> QED
  BY <1>5, <1>6 DEF SortInts, D

(* The list is printed when no goroutine is left to change the slice. *)
PrintedIs == main = "printed" => printed = SortInts(openPorts)

LEMMA NextPrinted == Inv /\ PrintedIs /\ [Next]_vars => PrintedIs'
<1> SUFFICES ASSUME Inv, PrintedIs, [Next]_vars, main' = "printed"
             PROVE  printed' = SortInts(openPorts')
  BY DEF PrintedIs
<1>1. CASE PrintPorts
  BY <1>1 DEF PrintPorts
<1>2. CASE ~PrintPorts
  <2>1. UNCHANGED <<printed, main>> 
    BY <1>2 DEF Next, MainStep, ProbeStep, ParseRange, AddToGroup, StartProbe, Wait, DialFails,
         DialSucceeds, Lock, ReadSlice, WriteSlice, Unlock, Release, Finish, Ended, vars, input
  <2>2. \A p \in Port : probe[p] \in {"none", "done"}
    BY <2>1 DEF Inv, LoopPosition
  <2>3. UNCHANGED openPorts
    BY <1>2, <2>2 DEF Next, MainStep, ProbeStep, ParseRange, AddToGroup, StartProbe, Wait, DialFails,
         DialSucceeds, Lock, ReadSlice, WriteSlice, Unlock, Release, Finish, Ended, vars, input
  <2> QED
    BY <2>1, <2>3 DEF PrintedIs
<1> QED
  BY <1>1, <1>2

LEMMA InOrder ==
  ASSUME Inv, PrintedIs
  PROVE  PrintedInOrder
<1> SUFFICES ASSUME main = "printed"
             PROVE  /\ Len(printed) = Cardinality(connected)
                    /\ \A i, j \in DOMAIN printed : i < j => printed[i] < printed[j]
  BY DEF PrintedInOrder
<1>1. openPorts \in Seq(Port) /\ openPorts \in Seq(Int)
  <2>1. Port \subseteq Int
    BY PortAssumption DEF Port
  <2>2. openPorts \in Seq(Port)
    BY DEF Inv, TypeOK
  <2> QED
    BY <2>1, <2>2, SeqMonotonic
<1>2. /\ printed \in Rearranged(openPorts)
      /\ \A i, j \in DOMAIN openPorts : i < j => printed[i] <= printed[j]
  BY <1>1, Sorts DEF PrintedIs
<1>3. PICK f \in Bijection(DOMAIN openPorts, DOMAIN openPorts) :
        printed = [i \in DOMAIN openPorts |-> openPorts[f[i]]]
  BY <1>2 DEF Rearranged
<1>4. Listed = connected /\ Len(openPorts) = Cardinality(connected)
  <2>1. \A p \in Port : probe[p] \in {"none", "done"}
    BY DEF Inv, LoopPosition
  <2> QED
    BY <2>1 DEF Inv, SliceLists, TypeOK, Appended, ToAppend
<1>5. /\ Len(openPorts) \in Nat /\ DOMAIN openPorts = 1..Len(openPorts)
      /\ IsFiniteSet(DOMAIN openPorts) /\ Cardinality(DOMAIN openPorts) = Len(openPorts)
      /\ \A i \in DOMAIN openPorts : openPorts[i] \in Int
  <2>1. /\ Len(openPorts) \in Nat /\ DOMAIN openPorts = 1..Len(openPorts)
        /\ \A i \in DOMAIN openPorts : openPorts[i] \in Int
    BY <1>1
  <2> QED
    BY <2>1, UpTo
<1>6. openPorts \in Injection(DOMAIN openPorts, Listed)
  <2>1. openPorts \in Surjection(DOMAIN openPorts, Listed)
    BY <1>1 DEF Surjection, Listed
  <2> QED
    BY <1>4, <1>5, <2>1, FS_SurjSameCardinalityImpliesInj
<1>7. Len(printed) = Len(openPorts)
  <2>1. \A i \in DOMAIN openPorts : openPorts[f[i]] \in Int
    BY <1>5 DEF Bijection, Injection
  <2>2. printed \in [1..Len(openPorts) -> Int]
    BY <1>3, <1>5, <2>1
  <2> QED
    BY <1>5, <2>2
<1>8. ASSUME NEW i \in DOMAIN openPorts, NEW j \in DOMAIN openPorts, i < j
      PROVE  printed[i] < printed[j]
  <2>1. /\ f[i] \in DOMAIN openPorts /\ f[j] \in DOMAIN openPorts /\ f[i] # f[j]
    BY <1>5, <1>8 DEF Bijection, Injection, IsInjective
  <2>2. openPorts[f[i]] # openPorts[f[j]]
    BY <1>6, <2>1 DEF Injection, IsInjective
  <2>3. printed[i] \in Int /\ printed[j] \in Int /\ printed[i] # printed[j] /\ printed[i] <= printed[j]
    BY <1>2, <1>3, <1>5, <1>8, <2>1, <2>2
  <2> QED
    BY <2>3
<1> QED
  BY <1>3, <1>4, <1>7, <1>8

(* The command prints the open ports in increasing order, each once. *)
THEOREM InOrderPrinted == Spec => []PrintedInOrder
<1>1. Init => PrintedIs
  BY DEF Init, PrintedIs
<1> QED
  BY <1>1, Invariant, NextPrinted, InOrder, PTL DEF Spec

-----------------------------------------------------------------------------
(* Refinement: the goroutines implement Scan *)

Returned(m) == m \in {"returned", "printed"}

Pending == {"none", "dial", "lock", "read", "write"}

(* A step that decides no port. *)
LEMMA Stutter ==
  ASSUME UNCHANGED <<start, end, answering, openPorts>>, Returned(main') <=> Returned(main),
         \A p \in Port : probe'[p] \in Pending <=> probe[p] \in Pending
  PROVE  UNCHANGED Abstract!vars
<1>1. Undecided' = Undecided
  BY DEF Undecided, Pending
<1> QED
  BY <1>1 DEF Abstract!vars, Returned

(* The step that decides a port takes it from the undecided ones. *)
LEMMA Decides ==
  ASSUME Inv, NEW p \in Port, NEW from, NEW to, Moves(p, from, to),
         from \in Pending \ {"none"}, to \notin Pending, UNCHANGED <<start, end>>
  PROVE  p \in Undecided /\ Undecided' = Undecided \ {p}
<1>1. main \notin {"parse", "fatal"} /\ start <= p /\ p < next /\ next <= end + 1
  BY DEF Inv, LoopPosition, Moves
<1>2. p \in start..end
  BY <1>1 DEF Inv, TypeOK, Port
<1> QED
  BY <1>2 DEF Undecided, Pending, Moves

LEMMA NextRefines ==
  ASSUME Inv, [Next]_vars
  PROVE  [Abstract!Next]_(Abstract!vars)
<1>1. probe \in [Port -> ProbePlace] /\ TypeOK
  BY DEF Inv, TypeOK, ProbePlace
<1>2. ASSUME NEW p \in Port, WriteSlice(p) PROVE \E q \in Undecided : Abstract!Find(q)
  <2>1. Moves(p, "write", "unlock") /\ UNCHANGED <<start, end, answering, main>>
    BY <1>1, <1>2, ProbeMoves DEF WriteSlice, input
  <2>2. p \in Undecided /\ Undecided' = Undecided \ {p}
    BY <2>1, Decides DEF Pending
  <2>3. p \in answering
    BY <2>1 DEF Inv, SliceLists, Succeeded, Moves
  <2>4. Listed' = Listed \cup {p}
    BY <1>2, WriteAppends DEF Inv
  <2>5. Abstract!Find(p)
    BY <2>1, <2>2, <2>3, <2>4 DEF Abstract!Find, Listed
  <2> QED
    BY <2>2, <2>5
<1>3. ASSUME NEW p \in Port, DialFails(p) PROVE \E q \in Undecided : Abstract!Miss(q)
  <2>1. Moves(p, "dial", "release") /\ UNCHANGED <<start, end, answering, main, openPorts>>
    BY <1>1, <1>3, ProbeMoves DEF DialFails, input
  <2>2. p \in Undecided /\ Undecided' = Undecided \ {p}
    BY <2>1, Decides DEF Pending
  <2>3. Abstract!Miss(p)
    BY <2>1, <2>2 DEF Abstract!Miss
  <2> QED
    BY <2>2, <2>3
<1>4. ASSUME NEW p \in Port, DialSucceeds(p) \/ Lock(p) \/ ReadSlice(p) \/ Unlock(p)
                             \/ Release(p) \/ Finish(p)
      PROVE  UNCHANGED Abstract!vars
  <2>1. UNCHANGED <<start, end, answering, openPorts, main>>
    BY <1>4 DEF DialSucceeds, Lock, ReadSlice, Unlock, Release, Finish, input
  <2>2. \/ Moves(p, "dial", "lock") \/ Moves(p, "lock", "read") \/ Moves(p, "read", "write")
        \/ Moves(p, "unlock", "release") \/ Moves(p, "release", "finish")
        \/ Moves(p, "finish", "done")
    BY <1>1, <1>4, ProbeMoves
  <2>3. \A q \in Port : probe'[q] \in Pending <=> probe[q] \in Pending
    BY <2>2 DEF Moves, Pending
  <2> QED
    BY <2>1, <2>3, Stutter DEF Returned
<1>5. CASE Wait
  <2>1. /\ main = "loop" /\ main' = "returned" /\ next > end
        /\ UNCHANGED <<start, end, answering, openPorts, probe>>
    BY <1>5 DEF Wait, input
  <2>2. \A p \in Port : probe[p] \in {"none", "done"}
    BY <1>5, NobodyProbing DEF Inv, Wait
  <2>3. \A p \in start..end : p \in Port /\ start <= p /\ p < next
    BY <2>1, PortAssumption DEF Inv, LoopPosition, TypeOK, Port
  <2>4. Undecided = {}
    BY <2>1, <2>2, <2>3 DEF Inv, LoopPosition, Undecided
  <2>5. Undecided' = Undecided
    BY <2>1 DEF Undecided
  <2>6. ~Returned(main) /\ Returned(main')
    BY <2>1 DEF Returned
  <2> QED
    BY <2>1, <2>4, <2>5, <2>6 DEF Abstract!Next, Abstract!Return, Returned
<1>6. CASE StartProbe
  <2>1. /\ next \in Port /\ Moves(next, "none", "dial")
        /\ UNCHANGED <<start, end, answering, openPorts>>
        /\ main = "acquire" /\ main' = "loop"
    BY <1>1, <1>6, StartMoves DEF Inv, StartProbe, input
  <2>2. \A q \in Port : probe'[q] \in Pending <=> probe[q] \in Pending
    BY <2>1 DEF Moves, Pending
  <2> QED
    BY <2>1, <2>2, Stutter DEF Returned
<1>7. CASE ParseRange \/ AddToGroup \/ PrintPorts \/ UNCHANGED vars
  <2>1. UNCHANGED <<start, end, answering, openPorts, probe>>
    BY <1>7 DEF ParseRange, AddToGroup, PrintPorts, vars, input
  <2>2. Returned(main') <=> Returned(main)
    BY <1>7 DEF ParseRange, AddToGroup, PrintPorts, vars, Returned
  <2> QED
    BY <2>1, <2>2, Stutter
<1> QED
  BY <1>2, <1>3, <1>4, <1>5, <1>6, <1>7 DEF Next, MainStep, ProbeStep, Ended, Abstract!Next

(* The goroutines, the semaphore and the mutex implement Scan: each port of *)
(* the range is decided once, only an answering port is found, and the scan *)
(* returns when none is undecided.                                          *)
THEOREM ProbesImplementScan == Spec => ImplementsScan
<1>1. Init => Abstract!Init
  <2> SUFFICES ASSUME Init PROVE Abstract!Init
    OBVIOUS
  <2>1. start \in Nat /\ end \in Int /\ answering \subseteq Nat
    BY PortAssumption DEF Init, Port
  <2>2. Undecided \subseteq Nat
    BY <2>1 DEF Undecided
  <2>3. Listed = {} /\ ~Returned(main)
    BY DEF Init, Listed, Returned
  <2> QED
    BY <2>1, <2>2, <2>3 DEF Abstract!Init, Listed, Returned
<1>2. Inv /\ [Next]_vars => [Abstract!Next]_(Abstract!vars)
  BY NextRefines
<1> QED
  BY <1>1, <1>2, Invariant, PTL DEF Spec, ImplementsScan, Abstract!Spec
=============================================================================
