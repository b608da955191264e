--------------------------- MODULE VaultUnsealProofs ---------------------------
(* Proofs about KubeConfig and VaultUnseal for any number of processes, pods, *)
(* names, servers, keys and restarts.                                         *)
EXTENDS VaultUnseal, SequenceTheorems, FiniteSetTheorems, TLAPS

-----------------------------------------------------------------------------
(* The kubeconfig file *)

LEMMA NewConfigUsable == NewConfig \in Config /\ Usable(NewConfig)
BY DEF NewConfig, Config, Usable, ContextsOf

(* A merge and a removal keep a configuration usable and change only what *)
(* they name.                                                             *)
LEMMA MergedConfig ==
  ASSUME NEW old \in Config, NEW new \in Config
  PROVE  Merged(old, new) \in Config
<1> DEFINE m == Merged(old, new)
<1>1. /\ m.contexts \in [Name -> Name \union {None}]
      /\ m.clusters \in [Name -> Server \union {None}]
  BY DEF Merged, Overlay, Config
<1> QED
  BY <1>1 DEF Merged, Config

LEMMA MergedUsable ==
  ASSUME NEW old \in Config, NEW new \in Config, Usable(old), Usable(new)
  PROVE  Usable(Merged(old, new))
<1> DEFINE m == Merged(old, new)
<1>1. /\ m.contexts = Overlay(old.contexts, new.contexts)
      /\ m.clusters = Overlay(old.clusters, new.clusters)
      /\ m.current = IF old.current = None THEN new.current ELSE old.current
  BY DEF Merged
<1>4. ContextsOf(m) = ContextsOf(old) \union ContextsOf(new)
  BY <1>1 DEF ContextsOf, Overlay
<1>5. ClustersOf(m) = ClustersOf(old) \union ClustersOf(new)
  BY <1>1 DEF ClustersOf, Overlay
<1>6. m.current \in ContextsOf(m) \union {None}
  BY <1>1, <1>4 DEF Usable
<1>7. ASSUME NEW n \in ContextsOf(m) PROVE m.contexts[n] \in ClustersOf(m)
  <2>1. m.contexts[n] = IF new.contexts[n] = None THEN old.contexts[n] ELSE new.contexts[n]
    BY <1>1 DEF Overlay, ContextsOf
  <2>2. CASE new.contexts[n] = None
    BY <1>4, <1>5, <2>1, <2>2 DEF Usable, ContextsOf
  <2>3. CASE new.contexts[n] # None
    BY <1>5, <2>1, <2>3 DEF Usable, ContextsOf
  <2> QED
    BY <2>2, <2>3
<1> QED
  BY <1>6, <1>7 DEF Usable

LEMMA WithoutConfig ==
  ASSUME NEW c \in Config, NEW n \in Name
  PROVE  Without(c, n) \in Config
BY DEF Without, Config

LEMMA WithoutUsable ==
  ASSUME NEW c \in Config, NEW n \in Name, Usable(c)
  PROVE  Usable(Without(c, n))
<1> DEFINE w == Without(c, n)
<1>1. /\ w.contexts = [c.contexts EXCEPT ![n] = None]
      /\ w.clusters = c.clusters
      /\ w.current = IF c.current = n THEN None ELSE c.current
  BY DEF Without
<1>4. ContextsOf(w) = ContextsOf(c) \ {n} /\ ClustersOf(w) = ClustersOf(c)
  BY <1>1 DEF ContextsOf, ClustersOf, Config
<1>5. \A o \in ContextsOf(w) : w.contexts[o] = c.contexts[o]
  BY <1>1, <1>4 DEF ContextsOf, Config
<1> QED
  BY <1>1, <1>4, <1>5 DEF Usable

(* c is old changed for the names only. *)
ChangesOnly(old, c, names) ==
  /\ \A n \in Name \ names : c.contexts[n] = old.contexts[n] /\ c.clusters[n] = old.clusters[n]
  /\ c.current # old.current => old.current = None \/ old.current \notin ContextsOf(c)

LEMMA MergedChangesOnly ==
  ASSUME NEW old, NEW new
  PROVE  ChangesOnly(old, Merged(old, new), ContextsOf(new) \union ClustersOf(new))
BY DEF ChangesOnly, Merged, Overlay, ContextsOf, ClustersOf

LEMMA WithoutChangesOnly ==
  ASSUME NEW c \in Config, NEW n \in Name
  PROVE  ChangesOnly(c, Without(c, n), {n})
<1>1. n \notin ContextsOf(Without(c, n))
  BY DEF Without, ContextsOf, Config
<1> QED
  BY <1>1 DEF ChangesOnly, Without, Config

Working == {"write", "writing"}

(* A command that has run alone finds the file as it read or truncated it. *)
AloneSoFar(a) ==
  at[a] \in Working /\ alone[a] # None =>
    /\ \A b \in Admin \ {a} : at[b] \notin Working
    /\ at[a] = "writing" => config = Empty
    /\ ChangesOnly(alone[a], made[a], touched[a])

(* What a command is about to write can be used unless the damage is done. *)
MadeUsable == \A a \in Admin : Usable(made[a]) \/ damaged

KubeInv ==
  /\ KubeTypeOK
  /\ AlwaysUsable
  /\ MadeUsable
  /\ \A a \in Admin : AloneSoFar(a)

LEMMA KubeInvInit == KubeInit => KubeInv
<1> SUFFICES ASSUME KubeInit PROVE KubeInv
  OBVIOUS
<1>1. KubeTypeOK
  BY InputAssumption, NewConfigUsable DEF KubeInit, KubeTypeOK
<1> QED
  BY <1>1, NewConfigUsable DEF KubeInit, KubeInv, MadeUsable, AlwaysUsable, AloneSoFar, Working

LEMMA FoundConfig ==
  ASSUME KubeInv, config # Broken
  PROVE  Found \in Config /\ (Usable(Found) \/ damaged)
BY NewConfigUsable DEF KubeInv, KubeTypeOK, AlwaysUsable, Unusable, Found

LEMMA MakeKeeps ==
  ASSUME KubeInv, NEW a \in Admin, NEW c \in Config, NEW names \in SUBSET Name,
         at[a] = "start", config # Broken, Make(a, c, names), config' = config,
         damaged' \in BOOLEAN, damaged => damaged', Usable(c) \/ damaged',
         ChangesOnly(Found, c, names)
  PROVE  KubeInv'
<1> USE DEF KubeInv
<1>1. Found \in Config
  BY FoundConfig
<1>2. KubeTypeOK'
  BY <1>1 DEF KubeTypeOK, Make, Proceed
<1>3. AlwaysUsable'
  BY DEF AlwaysUsable, Unusable, Usable, ContextsOf, ClustersOf
<1>4. MadeUsable'
  BY DEF KubeTypeOK, Make, MadeUsable, Usable, ContextsOf, ClustersOf
<1>5. ASSUME NEW b \in Admin PROVE AloneSoFar(b)'
  <2>1. CASE \E d \in Admin \ {a} : at[d] \in Working
    BY <2>1 DEF KubeTypeOK, Make, Working, AloneSoFar
  <2>2. CASE \A d \in Admin \ {a} : at[d] \notin Working
    <3>1. /\ at' = [at EXCEPT ![a] = "write"]
          /\ made' = [made EXCEPT ![a] = c]
          /\ touched' = [touched EXCEPT ![a] = names]
          /\ alone' = [alone EXCEPT ![a] = Found]
      BY <2>2 DEF Make, Proceed, Working
    <3>2. CASE b = a
      BY <2>2, <3>1, <3>2 DEF KubeTypeOK, AloneSoFar, Working, ChangesOnly, ContextsOf
    <3>3. CASE b # a
      BY <2>2, <3>1, <3>3 DEF KubeTypeOK, AloneSoFar, Working
    <3> QED
      BY <3>2, <3>3
  <2> QED
    BY <2>1, <2>2
<1> QED
  BY <1>2, <1>3, <1>4, <1>5

LEMMA WriterKeeps ==
  ASSUME KubeInv, NEW a \in Admin, Truncate(a) \/ Write(a) \/ Torn(a)
  PROVE  KubeInv'
<1> USE DEF KubeInv
<1>1. at[a] \in Working /\ at' \in [Admin -> {"start", "write", "writing", "ok", "fatal"}]
      /\ \A b \in Admin \ {a} : at'[b] = at[b]
  BY DEF Truncate, Write, Torn, Proceed, Working, KubeTypeOK
<1>2. UNCHANGED <<made, touched, alone>>
  BY DEF Truncate, Write, Torn
<1>3. /\ config' \in {config, Empty, Broken} \union Config
      /\ damaged' \in BOOLEAN /\ (damaged => damaged')
      /\ config' \in {Empty, made[a]} \/ (config' \in Unusable => damaged')
  BY DEF Truncate, Write, Torn, Cut, KubeTypeOK
<1>4. KubeTypeOK'
  BY <1>1, <1>2, <1>3 DEF KubeTypeOK
<1>5. AlwaysUsable'
  <2>1. Empty \notin Unusable
    BY FileAssumption DEF Unusable
  <2>2. made[a] \in Unusable => damaged
    BY DEF MadeUsable, Unusable
  <2>3. config' \in Unusable => damaged'
    BY <1>3, <2>1, <2>2
  <2> QED
    BY <2>3 DEF AlwaysUsable, Unusable, Usable, ContextsOf, ClustersOf
<1>6. MadeUsable'
  BY <1>2, <1>3 DEF MadeUsable, Usable, ContextsOf, ClustersOf
<1>7. ASSUME NEW b \in Admin PROVE AloneSoFar(b)'
  <2>1. CASE b = a
    <3>1. at'[a] \in {"writing", "ok", "fatal"} /\ (at'[a] = "writing" => config' = Empty)
      BY DEF Truncate, Write, Torn, Proceed, KubeTypeOK
    <3> QED
      BY <1>1, <1>2, <2>1, <3>1 DEF AloneSoFar, Working, ChangesOnly, ContextsOf
  <2>2. CASE b # a
    BY <1>1, <1>2, <2>2 DEF AloneSoFar
  <2> QED
    BY <2>1, <2>2
<1> QED
  BY <1>4, <1>5, <1>6, <1>7

LEMMA KubeInvNext == KubeInv /\ [KubeNext]_kubeVars => KubeInv'
<1> SUFFICES ASSUME KubeInv, [KubeNext]_kubeVars PROVE KubeInv'
  OBVIOUS
<1>1. CASE UNCHANGED kubeVars
  BY <1>1 DEF kubeVars, KubeInv, KubeTypeOK, AlwaysUsable, MadeUsable, AloneSoFar, Unusable,
              Usable, ContextsOf, ClustersOf, ChangesOnly
<1>2. ASSUME NEW a \in Admin, Refuse(a) PROVE KubeInv'
  BY <1>2 DEF Refuse, Proceed, KubeInv, KubeTypeOK, AlwaysUsable, MadeUsable, AloneSoFar,
              Working, Unusable, Usable, ContextsOf, ClustersOf, ChangesOnly
<1>3. ASSUME NEW a \in Admin, NEW new \in Input, AddContext(a, new) PROVE KubeInv'
  <2>1. Found \in Config /\ new \in Config /\ (Usable(Found) \/ damaged) /\ damaged \in BOOLEAN
    BY <1>3, FoundConfig, InputAssumption DEF AddContext, KubeInv, KubeTypeOK
  <2>2. damaged' = (damaged \/ new \in Unusable)
    BY <1>3 DEF AddContext
  <2>3. Merged(Found, new) \in Config
    BY <2>1, MergedConfig
  <2>4. Usable(Merged(Found, new)) \/ damaged'
    BY <2>1, <2>2, MergedUsable DEF Unusable
  <2>5. ChangesOnly(Found, Merged(Found, new), ContextsOf(new) \union ClustersOf(new))
    BY MergedChangesOnly
  <2>6. ContextsOf(new) \union ClustersOf(new) \in SUBSET Name
    BY DEF ContextsOf, ClustersOf
  <2>7. /\ at[a] = "start" /\ config # Broken /\ config' = config
        /\ Make(a, Merged(Found, new), ContextsOf(new) \union ClustersOf(new))
    BY <1>3 DEF AddContext
  <2> QED
    BY <2>1, <2>2, <2>3, <2>4, <2>5, <2>6, <2>7, MakeKeeps
<1>4. ASSUME NEW a \in Admin, NEW n \in Name, RemoveContext(a, n) PROVE KubeInv'
  <2>1. Found \in Config /\ (Usable(Found) \/ damaged) /\ damaged \in BOOLEAN
    BY <1>4, FoundConfig DEF RemoveContext, KubeInv, KubeTypeOK
  <2>2. Without(Found, n) \in Config /\ (Usable(Without(Found, n)) \/ damaged)
    BY <2>1, WithoutConfig, WithoutUsable
  <2>3. ChangesOnly(Found, Without(Found, n), {n})
    BY <2>1, WithoutChangesOnly
  <2>4. /\ at[a] = "start" /\ config # Broken /\ UNCHANGED <<config, damaged>>
        /\ Make(a, Without(Found, n), {n})
    BY <1>4 DEF RemoveContext
  <2> QED
    BY <2>1, <2>2, <2>3, <2>4, MakeKeeps
<1> QED
  BY <1>1, <1>2, <1>3, <1>4, WriterKeeps DEF KubeNext

LEMMA AlwaysKube == KubeSpec => []KubeInv
BY KubeInvInit, KubeInvNext, PTL DEF KubeSpec

(* However add-context and remove-context commands overlap, cut off or not, *)
(* they make a configuration that nobody can use only of one that nobody    *)
(* could use: a file of the user's, or what is left of a write that was cut *)
(* off or mixed with another.                                               *)
THEOREM FileUsable == KubeSpec => []AlwaysUsable
BY AlwaysKube, PTL DEF KubeInv

(* A command that had the file to itself changes only what it was asked to. *)
THEOREM NamesChangedOnly == KubeSpec => OnlyNamedEntriesChange
<1>1. KubeInv /\ [KubeNext]_kubeVars => [WritesNamedOnly]_kubeVars
  <2> SUFFICES ASSUME KubeInv, KubeNext, NEW a \in Admin,
                      at[a] = "writing", at'[a] = "ok", alone[a] # None
               PROVE  config' # Broken /\ ChangesOnly(alone[a], config', touched[a])
    BY DEF WritesNamedOnly, NamedOnly, ChangesOnly
  <2>1. Write(a)
    BY DEF KubeNext, Refuse, Truncate, Write, Torn, AddContext, RemoveContext, Make, Proceed,
           KubeInv, KubeTypeOK
  <2>2. config = Empty /\ ChangesOnly(alone[a], made[a], touched[a])
    BY DEF KubeInv, AloneSoFar, Working
  <2>3. config' = made[a] /\ made[a] \in Config
    BY <2>1, <2>2 DEF Write, KubeInv, KubeTypeOK
  <2> QED
    BY <2>2, <2>3, FileAssumption
<1> QED
  BY <1>1, AlwaysKube, PTL DEF KubeSpec, OnlyNamedEntriesChange

-----------------------------------------------------------------------------
(* Vault: the inductive invariant *)

Commands ==
  /\ pc \in [Process -> Ended \union {"start", "list", "list to init", "init", "save",
                                      "saving", "unseal", "wait"}]
  /\ namespace \in [Process -> Namespace \union {None}]
  /\ todo \in [Process -> Seq(PodName)]
  /\ keys \in [Process -> Keys]
  /\ given \in [Process -> Nat]
  /\ scope \in [Process -> SUBSET PodName]
  /\ went \in [Process -> SUBSET Place]
  /\ bounced \in [Process -> SUBSET Pod]

Shared ==
  /\ vault \in [Place -> Keys \union {None}]
  /\ \A s \in Place : vault[s] # None => /\ vault[s].origin = s
                                         /\ vault[s].threshold \in 1..vault[s].shares
  /\ keyFile \in KeyText \union {None, Empty, Garbage}
  /\ sealed \subseteq Pod
  /\ progress \in [Pod -> SUBSET Key]
  /\ restarts \in 0..MaxRestarts
  /\ saved \in [Place -> {"none", "held", "written", "logged", "lost", "replaced"}]

Typed == Shared /\ Commands

(* The pods a command has still to unseal: one, or the end of a list *)
Ends(s) == {SubSeq(Pods[s], i, Len(Pods[s])) : i \in 1..Len(Pods[s])}
Rest == {<<>>} \union {<<d>> : d \in PodName} \union UNION {Ends(s) : s \in Place}

Saving == {"save", "saving"}
AtPod == {"unseal", "wait"}

(* What a command has where *)
Local(p) ==
  /\ todo[p] \in Rest
  /\ todo[p] = <<>> <=> pc[p] \notin {"init"} \union Saving \union AtPod
  /\ pc[p] \in {"start", "fatal", "list", "list to init"} => scope[p] = {}
  /\ pc[p] \in {"list to init", "init"} => keys[p].threshold \in 1..keys[p].shares
  /\ pc[p] \in {"list"} \union Saving \union AtPod =>
       keys[p].origin \in Place /\ vault[keys[p].origin] # None
  /\ pc[p] \notin AtPod \/ went[p] = {} => given[p] = 0
  /\ given[p] <= keys[p].shares
  /\ pc[p] = "wait" => given[p] >= ToGive(keys[p])

(* A sealed pod waits for more keys; that of a Vault without keys has none. *)
Waiting(d) ==
  /\ IsFiniteSet(progress[d])
  /\ progress[d] # {} => /\ d \in sealed /\ vault[d[1]] # None
                         /\ Cardinality(progress[d]) < vault[d[1]].threshold

(* The keys that a command has given for the pod in work *)
Gave(p) == {keys[p].origin} \X (1..given[p])

(* Unless the pod forgot them, the keys that a command has given arrived,   *)
(* if its calls went to one place, and the pods it is done with were        *)
(* unsealed at a place that its calls went to.                              *)
Arrived(p) ==
  /\ \A s \in Place :
       /\ pc[p] \in AtPod /\ went[p] = {s}
       /\ <<s, Head(todo[p])>> \in sealed \ bounced[p]
       => Gave(p) \subseteq progress[<<s, Head(todo[p])>>]
  /\ \A d \in scope[p] : d \in ToSet(todo[p]) \/ \E s \in went[p] : <<s, d>> \notin sealed \ bounced[p]

(* The keys of an init are with one command until they are written. *)
Custody ==
  /\ KeysKept
  /\ \A s \in Place : vault[s] = None => saved[s] = "none"
  /\ keyFile \in KeyText => vault[keyFile.origin] # None
  /\ \A p \in Process : pc[p] \in Saving =>
       saved[keys[p].origin] = "held" /\ vault[keys[p].origin] = keys[p]
  /\ \A p, q \in Process : pc[p] \in Saving /\ pc[q] \in Saving /\ keys[p].origin = keys[q].origin
                             => p = q

VaultInv ==
  /\ Typed
  /\ \A d \in Pod : Waiting(d)
  /\ \A p \in Process : Local(p) /\ Arrived(p)
  /\ Custody

-----------------------------------------------------------------------------
(* Lists of pods *)

LEMMA EndIsSeq ==
  ASSUME NEW s \in Place, NEW i \in 1..Len(Pods[s])
  PROVE  SubSeq(Pods[s], i, Len(Pods[s])) \in Seq(PodName) \ {<<>>}
<1>1. Pods[s] \in Seq(PodName) /\ Len(Pods[s]) \in Nat
  BY PodAssumption, LenProperties
<1>2. \A j \in i..Len(Pods[s]) : Pods[s][j] \in PodName
  BY <1>1, ElementOfSeq
<1>3. /\ SubSeq(Pods[s], i, Len(Pods[s])) \in Seq(PodName)
      /\ Len(SubSeq(Pods[s], i, Len(Pods[s]))) = Len(Pods[s]) - i + 1
  BY <1>1, <1>2, SubSeqProperties
<1>4. Len(Pods[s]) - i + 1 # 0
  BY <1>1
<1> QED
  BY <1>3, <1>4, EmptySeq

LEMMA RestIsSeq == <<>> \in Rest /\ Rest \subseteq Seq(PodName)
<1>1. ASSUME NEW q \in Rest PROVE q \in Seq(PodName)
  <2>1. CASE \E s \in Place : q \in Ends(s)
    BY <2>1, EndIsSeq DEF Ends
  <2>2. CASE q = <<>>
    BY <2>2, EmptySeq
  <2>3. CASE \E d \in PodName : q = <<d>>
    BY <2>3
  <2> QED
    BY <2>1, <2>2, <2>3 DEF Rest
<1>2. <<>> \in Rest
  BY DEF Rest
<1> QED
  BY <1>1, <1>2

LEMMA PodsRest ==
  ASSUME NEW s \in Place, Pods[s] # <<>>
  PROVE  Pods[s] \in Rest /\ Pods[s] \in Seq(PodName)
<1>1. Pods[s] \in Seq(PodName)
  BY PodAssumption
<1>2. Len(Pods[s]) \in Nat \ {0}
  BY <1>1, EmptySeq
<1>3. 1 \in 1..Len(Pods[s])
  BY <1>2
<1>4. Pods[s] = SubSeq(Pods[s], 1, Len(Pods[s]))
  BY <1>1, SubSeqFull
<1>5. Pods[s] \in Ends(s)
  BY <1>3, <1>4 DEF Ends
<1> QED
  BY <1>1, <1>5 DEF Rest

(* The first pod is done with: what is left is a rest again. *)
LEMMA RestTail ==
  ASSUME NEW q \in Rest, q # <<>>
  PROVE  /\ Head(q) \in PodName
         /\ Tail(q) \in Rest
         /\ ToSet(q) \subseteq {Head(q)} \union ToSet(Tail(q))
         /\ Tail(q) = <<>> <=> Len(q) = 1
<1>1. q \in Seq(PodName)
  BY RestIsSeq
<1>2. /\ Head(q) \in PodName /\ Tail(q) \in Seq(PodName) /\ Len(Tail(q)) = Len(q) - 1
      /\ \A i \in 1..Len(Tail(q)) : Tail(q)[i] = q[i + 1]
  BY <1>1, HeadTailProperties
<1>3. Tail(q) \in Rest
  <2>1. CASE \E d \in PodName : q = <<d>>
    BY <2>1, RestIsSeq
  <2>2. CASE \E s \in Place : q \in Ends(s)
    <3>1. PICK s \in Place : q \in Ends(s)
      BY <2>2
    <3>2. PICK i \in 1..Len(Pods[s]) : q = SubSeq(Pods[s], i, Len(Pods[s]))
      BY <3>1 DEF Ends
    <3>3. Pods[s] \in Seq(PodName) /\ Len(Pods[s]) \in Nat
      BY PodAssumption, LenProperties
    <3>4. Tail(q) = SubSeq(Pods[s], i + 1, Len(Pods[s]))
      BY <3>2, <3>3, HeadTailOfSubSeq
    <3>5. CASE i = Len(Pods[s])
      <4>1. i + 1 \in Int /\ Len(Pods[s]) \in Int /\ Len(Pods[s]) < i + 1
        BY <3>3, <3>5
      <4>2. SubSeq(Pods[s], i + 1, Len(Pods[s])) = <<>>
        BY <4>1, SubSeqEmpty
      <4>3. Tail(q) = <<>>
        BY <3>4, <4>2
      <4> QED
        BY <4>3, RestIsSeq
    <3>6. CASE i # Len(Pods[s])
      <4>1. i + 1 \in 1..Len(Pods[s])
        BY <3>3, <3>6
      <4>2. Tail(q) \in Ends(s)
        BY <3>4, <4>1 DEF Ends
      <4> QED
        BY <4>2 DEF Rest
    <3> QED
      BY <3>5, <3>6
  <2> QED
    BY <2>1, <2>2 DEF Rest
<1>4. ToSet(q) \subseteq {Head(q)} \union ToSet(Tail(q))
  <2>1. DOMAIN q = 1..Len(q) /\ DOMAIN Tail(q) = 1..Len(Tail(q)) /\ Len(q) \in Nat
    BY <1>1, <1>2, LenProperties
  <2>2. ASSUME NEW i \in DOMAIN q PROVE q[i] \in {Head(q)} \union ToSet(Tail(q))
    <3>1. CASE i = 1
      BY <1>1, <3>1
    <3>2. CASE i # 1
      <4>1. i - 1 \in DOMAIN Tail(q) /\ q[i] = Tail(q)[i - 1]
        BY <1>2, <2>1, <3>2
      <4> QED
        BY <4>1 DEF ToSet
    <3> QED
      BY <3>1, <3>2
  <2> QED
    BY <2>2 DEF ToSet
<1>5. Tail(q) = <<>> <=> Len(q) = 1
  <2>1. Tail(q) # <<>> => Len(Tail(q)) \in Nat \ {0}
    BY <1>2, EmptySeq
  <2>2. Tail(q) = <<>> => Len(Tail(q)) = 0
    BY EmptySeq
  <2>3. Len(q) \in Nat
    BY <1>1, LenProperties
  <2> QED
    BY <1>2, <2>1, <2>2, <2>3
<1> QED
  BY <1>2, <1>3, <1>4, <1>5

-----------------------------------------------------------------------------
(* Giving a key *)

LEMMA NotEnough ==
  ASSUME NEW n \in Nat, NEW t \in Nat, ~(n >= t)
  PROVE  n < t
OBVIOUS

(* The key that p gives is one, and its place and the Vault there are. *)
LEMMA KeyGiven ==
  ASSUME VaultInv, NEW p \in Process, CallsUnseal(p)
  PROVE  /\ Here(p) \in Place /\ vault[Here(p)] \in Keys /\ vault'= vault
         /\ PodHere(p) \in Pod /\ PodHere(p)[1] = Here(p)
         /\ keys[p].origin \in Place /\ given[p] \in Nat
         /\ WithKey(p) \in SUBSET Key /\ IsFiniteSet(WithKey(p))
         /\ Gave(p) \subseteq progress[PodHere(p)] =>
              {keys[p].origin} \X (1..given[p] + 1) \subseteq WithKey(p)
<1> USE DEF VaultInv, Typed
<1>1. /\ Here(p) \in Place /\ vault[Here(p)] # None /\ vault' = vault /\ PodHere(p) \in Pod
      /\ pc[p] = "unseal"
  BY DEF CallsUnseal
<1>2. PodHere(p)[1] = Here(p)
  BY DEF PodHere
<1>3. keys[p].origin \in Place /\ given[p] \in Nat
  BY <1>1 DEF Local, AtPod, Commands
<1>4. given[p] + 1 \in Nat
  BY ONLY <1>3
<1>5. <<keys[p].origin, given[p] + 1>> \in Key
  BY <1>3, <1>4 DEF Key
<1>6. progress[PodHere(p)] \in SUBSET Key /\ IsFiniteSet(progress[PodHere(p)])
  BY <1>1 DEF Shared, Waiting
<1>7. WithKey(p) \in SUBSET Key /\ IsFiniteSet(WithKey(p))
  BY <1>5, <1>6, FS_AddElement DEF WithKey
<1>8. 1..given[p] + 1 = (1..given[p]) \union {given[p] + 1}
  BY ONLY <1>3
<1>9. {keys[p].origin} \X (1..given[p] + 1) = Gave(p) \union {<<keys[p].origin, given[p] + 1>>}
  BY <1>8 DEF Gave
<1> QED
  BY <1>1, <1>2, <1>3, <1>7, <1>9 DEF WithKey, Shared

LEMMA TakeKeyEffect ==
  ASSUME VaultInv, NEW p \in Process, CallsUnseal(p), TakeKey(p)
  PROVE  /\ sealed' \subseteq sealed
         /\ progress' \in [Pod -> SUBSET Key]
         /\ \A e \in Pod \ {PodHere(p)} : progress'[e] = progress[e] /\ (e \in sealed <=> e \in sealed')
         /\ PodHere(p) \notin sealed' => progress'[PodHere(p)] = {}
         /\ PodHere(p) \in sealed' =>
              /\ progress'[PodHere(p)] = WithKey(p)
              /\ Cardinality(progress'[PodHere(p)]) < vault[Here(p)].threshold
         /\ IsFiniteSet(progress'[PodHere(p)])
<1> DEFINE d == PodHere(p)
<1>1. /\ d \in Pod /\ WithKey(p) \in SUBSET Key /\ IsFiniteSet(WithKey(p))
      /\ vault[Here(p)] \in Keys
  BY KeyGiven
<1>2. progress \in [Pod -> SUBSET Key] /\ Waiting(d) /\ d[1] = Here(p)
  BY <1>1, KeyGiven DEF VaultInv, Typed, Shared
<1> HIDE DEF d
<1>3. CASE d \notin sealed
  <2>1. UNCHANGED <<sealed, progress>>
    BY <1>3 DEF TakeKey, d
  <2> QED
    BY <1>1, <1>2, <1>3, <2>1 DEF Waiting, d
<1>4. CASE d \in sealed /\ Enough(p)
  <2>1. progress' = [progress EXCEPT ![d] = {}] /\ sealed' = sealed \ {d}
    BY <1>4 DEF TakeKey, d
  <2> QED
    BY <1>1, <1>2, <2>1, FS_EmptySet DEF d
<1>5. CASE d \in sealed /\ ~Enough(p)
  <2>1. progress' = [progress EXCEPT ![d] = WithKey(p)] /\ sealed' = sealed
    BY <1>5 DEF TakeKey, d
  <2>2. Cardinality(WithKey(p)) \in Nat /\ vault[Here(p)].threshold \in Nat
    BY <1>1, FS_CardinalityType DEF Keys
  <2>3. Cardinality(WithKey(p)) < vault[Here(p)].threshold
    BY <1>5, <2>2, NotEnough DEF Enough
  <2>4. /\ progress'[d] = WithKey(p) /\ progress' \in [Pod -> SUBSET Key]
        /\ \A e \in Pod \ {d} : progress'[e] = progress[e]
    BY <1>1, <1>2, <2>1
  <2> QED
    BY <1>1, <1>5, <2>1, <2>3, <2>4 DEF d
<1> QED
  BY <1>3, <1>4, <1>5

-----------------------------------------------------------------------------
(* A step of a process *)

(* The other commands are where they were; their pods may forget keys. *)
Others(p) ==
  \A q \in Process \ {p} :
    /\ pc'[q] = pc[q] /\ todo'[q] = todo[q] /\ keys'[q] = keys[q] /\ given'[q] = given[q]
    /\ scope'[q] = scope[q] /\ went'[q] = went[q] /\ bounced[q] \subseteq bounced'[q]

(* Unless a pod forgets the Vaults go forward. *)
Forward(p) ==
  /\ \A s \in Place : vault[s] # None => vault'[s] = vault[s]
  /\ sealed' \subseteq sealed
  /\ \A d \in sealed' : \/ progress[d] \subseteq progress'[d]
                        \/ \A q \in Process \ {p} : pc[q] \in AtPod => d \in bounced'[q]

LEMMA ForgetEffect ==
  ASSUME Commands, NEW p \in Process, Forget(p),
         bounced' \in [Process -> SUBSET Pod],
         \A q \in Process \ {p} : bounced[q] \subseteq bounced'[q]
  PROVE  /\ Commands' /\ Others(p)
         /\ pc'[p] = "fatal" /\ Local(p)' /\ Arrived(p)'
<1>1. NoKeys \in Keys /\ NoKeys.shares = 0
  BY DEF NoKeys, KeysFor, Keys
<1>2. <<>> \in Seq(PodName)
  OBVIOUS
<1>3. Commands' /\ Others(p)
  BY <1>1, <1>2 DEF Commands, Forget, Goto, Others, Ended
<1>4. /\ pc'[p] = "fatal" /\ todo'[p] = <<>> /\ keys'[p] = NoKeys
      /\ given'[p] = 0 /\ scope'[p] = {}
  BY DEF Commands, Forget, Goto
<1>5. Local(p)'
  BY <1>1, <1>4, RestIsSeq DEF Local, Saving, AtPod
<1>6. Arrived(p)'
  BY <1>4 DEF Arrived, AtPod
<1> QED
  BY <1>3, <1>4, <1>5, <1>6

LEMMA FatalEffect ==
  ASSUME Commands, NEW p \in Process, Fatal(p)
  PROVE  /\ Commands' /\ Others(p)
         /\ pc'[p] = "fatal" /\ Local(p)' /\ Arrived(p)'
<1>1. /\ bounced' \in [Process -> SUBSET Pod]
      /\ \A q \in Process \ {p} : bounced[q] \subseteq bounced'[q]
  BY DEF Commands, Fatal
<1> QED
  BY <1>1, ForgetEffect DEF Fatal

LEMMA BounceEffect ==
  ASSUME Commands, NEW d \in Pod
  PROVE  /\ Bounce(d) \in [Process -> SUBSET Pod]
         /\ \A q \in Process : /\ bounced[q] \subseteq Bounce(d)[q]
                               /\ pc[q] \notin {"start", "fatal"} => d \in Bounce(d)[q]
BY DEF Commands, Bounce

LEMMA TextKeys ==
  ASSUME NEW f \in KeyText
  PROVE  ExtractVaultKeys(f) \in Keys /\ ExtractVaultKeys(f).origin = f.origin
BY DEF KeyText, Keys, ExtractVaultKeys

LEMMA JsonIsText ==
  ASSUME NEW k \in Keys, k.origin \in Place
  PROVE  Json(k) \in KeyText /\ Json(k).origin = k.origin
BY DEF KeyText, Keys, Json

(* What users keep are texts of keys that were made. *)
LEMMA KeptOfKeys ==
  ASSUME NEW k \in Keys, k.origin \in Place, NEW f \in Kept(k)
  PROVE  f \in KeyText /\ f.origin = k.origin
<1>1. Json(k) \in KeyText /\ Json(k).origin = k.origin
  BY JsonIsText
<1>2. CASE f \in {Json(k), [Json(k) EXCEPT !.threshold = 0]}
  BY <1>1, <1>2 DEF KeyText, Json
<1>3. ASSUME NEW n \in {1, k.shares},
             f = [form |-> "text", origin |-> k.origin, shares |-> n, threshold |-> 0]
      PROVE  f \in KeyText /\ f.origin = k.origin
  BY <1>3 DEF KeyText, Keys
<1> QED
  BY <1>2, <1>3 DEF Kept

LEMMA KeptIsText ==
  ASSUME Shared, NEW f \in AllKept
  PROVE  f \in KeyText /\ vault[f.origin] # None
<1>1. PICK s \in Place : vault[s] # None /\ f \in Kept(vault[s])
  BY DEF AllKept
<1>2. vault[s] \in Keys /\ vault[s].origin = s
  BY <1>1 DEF Shared
<1> QED
  BY <1>1, <1>2, KeptOfKeys

LEMMA ToGiveBound ==
  ASSUME NEW k \in Keys
  PROVE  ToGive(k) \in Nat /\ ToGive(k) <= k.shares
BY DEF Keys, ToGive

LEMMA StartInitUnsealKeeps ==
  ASSUME VaultInv, NEW p \in Process, NEW f \in Flags, StartInitUnseal(p, f)
  PROVE  Commands' /\ Others(p) /\ Local(p)' /\ Arrived(p)'
<1> USE DEF VaultInv, Typed
<1>1. CASE Fatal(p)
  BY <1>1, FatalEffect
<1>2. CASE ~Fatal(p)
  <2>1. f[1] \in Nat /\ f[2] \in Nat /\ Valid(f)
    BY <1>2, FlagAssumption DEF StartInitUnseal
  <2>2. f[2] \in 1..f[1]
    BY <2>1 DEF Valid
  <2>3. KeysFor(None, f) \in Keys /\ KeysFor(None, f).shares = f[1] /\ KeysFor(None, f).threshold = f[2]
    BY <2>1 DEF KeysFor, Keys
  <2>4. PICK n \in Namespace : namespace' = [namespace EXCEPT ![p] = n]
    BY <1>2 DEF StartInitUnseal
  <2>5. /\ pc[p] = "start" /\ pc' = [pc EXCEPT ![p] = "list to init"]
        /\ keys' = [keys EXCEPT ![p] = KeysFor(None, f)]
        /\ UNCHANGED <<todo, given, scope, went, bounced>>
    BY <1>2 DEF StartInitUnseal, Goto, history
  <2>6. Commands' /\ Others(p)
    BY <2>3, <2>4, <2>5 DEF Commands, Others
  <2>7. pc'[p] = "list to init" /\ keys'[p] = KeysFor(None, f)
    BY <2>5 DEF Commands
  <2>8. todo[p] = <<>> /\ given[p] = 0 /\ scope[p] = {}
    BY <2>5 DEF Local, Saving, AtPod
  <2>11. /\ todo'[p] = <<>> /\ given'[p] = 0 /\ scope'[p] = {} /\ 0 <= keys'[p].shares
         /\ keys'[p].threshold \in 1..keys'[p].shares
    <3>1. f[1] >= 0
      BY ONLY <2>1
    <3> HIDE DEF VaultInv
    <3> QED
      BY <2>2, <2>3, <2>5, <2>7, <2>8, <3>1
  <2>9. Local(p)'
    <3> HIDE DEF VaultInv
    <3> QED
      BY <2>7, <2>11, RestIsSeq DEF Local, Saving, AtPod
  <2>10. Arrived(p)'
    BY <2>5, <2>7, <2>8 DEF Arrived, AtPod
  <2> QED
    BY <2>6, <2>9, <2>10
<1> QED
  BY <1>1, <1>2

LEMMA StartUnsealKeeps ==
  ASSUME VaultInv, NEW p \in Process, StartUnseal(p)
  PROVE  Commands' /\ Others(p) /\ Local(p)' /\ Arrived(p)'
<1> USE DEF VaultInv, Typed
<1>1. CASE Fatal(p)
  BY <1>1, FatalEffect
<1>2. CASE ~Fatal(p)
  <2>1. PICK f \in {keyFile} \union AllKept :
          /\ f \notin {None, Empty, Garbage}
          /\ keys' = [keys EXCEPT ![p] = ExtractVaultKeys(f)]
          /\ \E n \in Namespace : namespace' = [namespace EXCEPT ![p] = n]
          /\ UNCHANGED <<given, went, bounced>>
          /\ \/ /\ Goto(p, "list")
                /\ UNCHANGED <<todo, scope>>
             \/ \E d \in PodName : /\ Goto(p, "unseal")
                                   /\ todo' = [todo EXCEPT ![p] = <<d>>]
                                   /\ scope' = [scope EXCEPT ![p] = {d}]
    BY <1>2 DEF StartUnseal
  <2>2. f \in KeyText /\ vault[f.origin] # None
    BY <2>1, KeptIsText DEF Shared, Custody
  <2>3. ExtractVaultKeys(f) \in Keys /\ ExtractVaultKeys(f).origin = f.origin /\ f.origin \in Place
    BY <2>2, TextKeys DEF KeyText
  <2>4. vault' = vault /\ pc[p] = "start"
    BY DEF StartUnseal, cluster
  <2>5. todo[p] = <<>> /\ given[p] = 0 /\ scope[p] = {}
    BY <2>4 DEF Local, Saving, AtPod
  <2>10. ExtractVaultKeys(f).shares \in Nat
    BY <2>3 DEF Keys
  <2>11. given' = given /\ went' = went /\ bounced' = bounced /\ keys'[p] = ExtractVaultKeys(f)
    BY <2>1 DEF Commands
  <2>12. namespace' \in [Process -> Namespace \union {None}]
    BY <2>1 DEF Commands
  <2>6. /\ given'[p] = 0 /\ given' = given /\ went' = went /\ bounced' = bounced
        /\ keys'[p] = ExtractVaultKeys(f) /\ keys'[p].shares \in Nat
        /\ namespace' \in [Process -> Namespace \union {None}]
    BY <2>5, <2>10, <2>11, <2>12
  <2>7. 0 <= keys'[p].shares
    BY <2>6
  <2>8. CASE Goto(p, "list") /\ UNCHANGED <<todo, scope>>
    <3>1. Commands' /\ Others(p) /\ pc'[p] = "list"
      BY <2>1, <2>3, <2>6, <2>8 DEF Commands, Others, Goto
    <3>2. Local(p)'
      BY <2>2, <2>3, <2>4, <2>5, <2>6, <2>7, <2>8, <3>1, RestIsSeq DEF Local, Saving, AtPod
    <3>3. Arrived(p)'
      BY <2>5, <2>8, <3>1 DEF Arrived, AtPod
    <3> QED
      BY <3>1, <3>2, <3>3
  <2>9. ASSUME NEW d \in PodName, Goto(p, "unseal"), todo' = [todo EXCEPT ![p] = <<d>>],
               scope' = [scope EXCEPT ![p] = {d}]
        PROVE  Commands' /\ Others(p) /\ Local(p)' /\ Arrived(p)'
    <3>1. <<d>> \in Seq(PodName) /\ <<d>> # <<>> /\ <<d>> \in Rest
      BY DEF Rest
    <3>2. pc'[p] = "unseal" /\ todo'[p] = <<d>> /\ scope'[p] = {d} /\ Commands' /\ Others(p)
      BY <2>1, <2>3, <2>6, <2>9, <3>1 DEF Commands, Others, Goto
    <3>3. Local(p)'
      BY <2>2, <2>3, <2>4, <2>6, <2>7, <3>1, <3>2 DEF Local, Saving, AtPod
    <3>4. d \in ToSet(<<d>>)
      BY DEF ToSet
    <3>5. Gave(p)' = {}
      BY <2>6 DEF Gave
    <3>6. Arrived(p)'
      BY <3>2, <3>4, <3>5 DEF Arrived
    <3> QED
      BY <3>2, <3>3, <3>6
  <2> QED
    BY <2>1, <2>8, <2>9
<1> QED
  BY <1>1, <1>2

LEMMA GetPodsKeeps ==
  ASSUME VaultInv, NEW p \in Process, GetPods(p)
  PROVE  Commands' /\ Others(p) /\ Local(p)' /\ Arrived(p)'
<1> USE DEF VaultInv, Typed
<1> DEFINE s == IF pc[p] = "list" THEN "unseal" ELSE "init"
           list == Pods[Here(p)]
<1>1. /\ pc[p] \in {"list", "list to init"} /\ vault' = vault
      /\ Here(p) \in Place /\ list # <<>>
      /\ went' = [went EXCEPT ![p] = @ \union {Here(p)}]
      /\ pc' = [pc EXCEPT ![p] = s] /\ todo' = [todo EXCEPT ![p] = list]
      /\ scope' = [scope EXCEPT ![p] = ToSet(list)]
      /\ UNCHANGED <<namespace, keys, given, bounced>>
  BY DEF GetPods, Reaches, Goto, cluster
<1>2. list \in Rest /\ list \in Seq(PodName)
  BY <1>1, PodsRest
<1>3. ToSet(list) \subseteq PodName
  BY <1>1 DEF PodName
<1> HIDE DEF list
<1>4. Commands' /\ Others(p)
  BY <1>1, <1>2, <1>3 DEF Commands, Others
<1>5. /\ pc'[p] = s /\ todo'[p] = list /\ scope'[p] = ToSet(list) /\ given'[p] = 0
      /\ keys'[p] = keys[p] /\ given[p] <= keys[p].shares /\ given[p] = 0
  BY <1>1 DEF Commands, Local, AtPod
<1>6. /\ pc[p] = "list" => keys[p].origin \in Place /\ vault[keys[p].origin] # None
      /\ pc[p] = "list to init" => keys[p].threshold \in 1..keys[p].shares
  BY DEF Local
<1>7. Local(p)'
  <2>1. CASE pc[p] = "list"
    <3>1. pc'[p] = "unseal"
      BY <1>5, <2>1
    <3> HIDE DEF VaultInv
    <3> QED
      BY <1>1, <1>2, <1>5, <1>6, <2>1, <3>1 DEF Local, Saving, AtPod
  <2>2. CASE pc[p] = "list to init"
    <3>1. pc'[p] = "init"
      BY <1>5, <2>2
    <3> HIDE DEF VaultInv
    <3> QED
      BY <1>1, <1>2, <1>5, <1>6, <2>2, <3>1 DEF Local, Saving, AtPod
  <2> QED
    BY <1>1, <2>1, <2>2
<1>8. Gave(p)' = {}
  BY <1>5 DEF Gave
<1>9. Arrived(p)'
  BY <1>5, <1>8 DEF Arrived
<1> QED
  BY <1>4, <1>7, <1>9

LEMMA VaultInitKeeps ==
  ASSUME VaultInv, NEW p \in Process, VaultInit(p)
  PROVE  Commands' /\ Others(p) /\ Local(p)' /\ Arrived(p)'
<1> USE DEF VaultInv, Typed
<1>1. CASE Fatal(p)
  BY <1>1, FatalEffect
<1>2. CASE ~Fatal(p)
  <2> DEFINE s == Here(p)
             new == [keys[p] EXCEPT !.origin = s]
  <2>1. /\ pc[p] = "init" /\ s \in Place /\ vault' = [vault EXCEPT ![s] = new]
        /\ pc' = [pc EXCEPT ![p] = "save"] /\ keys' = [keys EXCEPT ![p] = new]
        /\ went' = [went EXCEPT ![p] = @ \union {s}]
        /\ UNCHANGED <<sealed, namespace, todo, given, scope, bounced>>
    BY <1>2 DEF VaultInit, Goto, Reaches
  <2>2. new \in Keys /\ new.origin = s /\ new.shares = keys[p].shares
    BY <2>1 DEF Commands, Keys
  <2>3. new # None
    BY <2>2, NoneAssumption
  <2> HIDE DEF new, s
  <2>4. Commands' /\ Others(p)
    BY <2>1, <2>2 DEF Commands, Others
  <2>5. /\ pc'[p] = "save" /\ keys'[p] = new /\ vault'[s] # None
        /\ todo'[p] = todo[p] /\ given'[p] = given[p] /\ scope'[p] = scope[p]
    BY <2>1, <2>3 DEF Commands, Shared
  <2>6. todo[p] \in Rest /\ todo[p] # <<>> /\ given[p] = 0 /\ given[p] <= new.shares
    BY <2>1, <2>2 DEF Local, AtPod
  <2>7. Local(p)'
    BY <2>1, <2>2, <2>5, <2>6 DEF Local, Saving, AtPod
  <2>8. Arrived(p)'
    <3>1. went[p] \subseteq went'[p]
      BY <2>1 DEF Commands
    <3> QED
      BY <2>1, <2>5, <3>1 DEF Arrived, AtPod
  <2> QED
    BY <2>4, <2>7, <2>8
<1> QED
  BY <1>1, <1>2

LEMMA SaveKeeps ==
  ASSUME VaultInv, NEW p \in Process, OpenKeyFile(p) \/ WriteKeyFile(p)
  PROVE  Commands' /\ Others(p) /\ Local(p)' /\ Arrived(p)'
<1> USE DEF VaultInv, Typed
<1>1. /\ pc[p] \in Saving /\ UNCHANGED <<vault, sealed, progress>>
      /\ \E s \in {"saving", "unseal"} : pc' = [pc EXCEPT ![p] = s]
      /\ UNCHANGED <<namespace, todo, keys, given, scope, went, bounced>>
  BY DEF OpenKeyFile, WriteKeyFile, Goto, cluster, history, Saving
<1>2. Commands' /\ Others(p) /\ pc'[p] \in {"saving", "unseal"}
  BY <1>1 DEF Commands, Others
<1>3. given[p] = 0 /\ keys[p].origin \in Place /\ vault[keys[p].origin] # None
  BY <1>1 DEF Local, Saving, AtPod
<1>4. Local(p)'
  BY <1>1, <1>2, <1>3 DEF Local, Saving, AtPod
<1>5. Gave(p)' = {}
  BY <1>1, <1>3 DEF Gave
<1>6. Arrived(p)'
  BY <1>1, <1>2, <1>5 DEF Arrived
<1> QED
  BY <1>2, <1>4, <1>6

LEMMA GiveKeyKeeps ==
  ASSUME VaultInv, NEW p \in Process, GiveKey(p)
  PROVE  Commands' /\ Others(p) /\ Local(p)' /\ Arrived(p)'
<1> USE DEF VaultInv, Typed
<1>1. CASE Fatal(p)
  BY <1>1, FatalEffect
<1>2. CASE ~Fatal(p)
  <2> DEFINE d == PodHere(p)
  <2>1. /\ CallsUnseal(p) /\ TakeKey(p)
        /\ pc[p] = "unseal" /\ given[p] < ToGive(keys[p])
        /\ given' = [given EXCEPT ![p] = @ + 1]
        /\ went' = [went EXCEPT ![p] = @ \union {Here(p)}]
        /\ UNCHANGED <<vault, pc, namespace, todo, keys, scope, bounced>>
    BY <1>2 DEF GiveKey, CallsUnseal, Reaches
  <2>2. /\ Here(p) \in Place /\ given[p] \in Nat
        /\ Gave(p) \subseteq progress[d] => {keys[p].origin} \X (1..given[p] + 1) \subseteq WithKey(p)
    BY <2>1, KeyGiven
  <2>3. given[p] + 1 \in Nat
    BY ONLY <2>2
  <2>4. Commands' /\ Others(p)
    BY <2>1, <2>2, <2>3 DEF Commands, Others
  <2>5. given'[p] = given[p] + 1 /\ went'[p] = went[p] \union {Here(p)} /\ keys[p] \in Keys
    BY <2>1 DEF Commands
  <2>6. given[p] + 1 <= keys[p].shares
    <3>1. ToGive(keys[p]) \in Nat /\ ToGive(keys[p]) <= keys[p].shares /\ keys[p].shares \in Nat
      BY <2>5, ToGiveBound DEF Keys
    <3> QED
      BY <2>1, <2>2, <3>1
  <2>7. Local(p)'
    BY <2>1, <2>5, <2>6 DEF Local, Saving, AtPod
  <2>8. sealed' \subseteq sealed /\ (d \in sealed' => progress'[d] = WithKey(p))
    BY <2>1, TakeKeyEffect
  <2>9. Gave(p)' = {keys[p].origin} \X (1..given[p] + 1)
    BY <2>1, <2>5 DEF Gave
  <2>10. ASSUME NEW s \in Place, went'[p] = {s},
                <<s, Head(todo[p])>> \in sealed' \ bounced[p]
         PROVE  Gave(p)' \subseteq progress'[<<s, Head(todo[p])>>]
    <3>1. s = Here(p) /\ (went[p] = {s} \/ went[p] = {})
      BY <2>5, <2>10
    <3>2. d = <<s, Head(todo[p])>>
      BY <3>1 DEF PodHere
    <3>3. CASE went[p] = {s}
      <4>1. Gave(p) \subseteq progress[d]
        BY <2>1, <2>8, <2>10, <3>2, <3>3 DEF Arrived, AtPod
      <4> QED
        BY <2>2, <2>8, <2>9, <2>10, <3>2, <4>1
    <3>4. CASE went[p] = {}
      <4>1. given[p] = 0
        BY <3>4 DEF Local
      <4>2. Gave(p) = {}
        BY <4>1 DEF Gave
      <4> QED
        BY <2>2, <2>8, <2>9, <2>10, <3>2, <4>2
    <3> QED
      BY <3>1, <3>3, <3>4
  <2>11. \A e \in scope[p] : e \in ToSet(todo[p]) \/ \E s \in went'[p] : <<s, e>> \notin sealed' \ bounced[p]
    BY <2>5, <2>8 DEF Arrived
  <2>12. Arrived(p)'
    <3> HIDE DEF VaultInv
    <3> QED
      BY <2>1, <2>10, <2>11 DEF Arrived
  <2> QED
    BY <2>4, <2>7, <2>12
<1> QED
  BY <1>1, <1>2

LEMMA KeyRefusedKeeps ==
  ASSUME VaultInv, NEW p \in Process, KeyRefused(p)
  PROVE  Commands' /\ Others(p) /\ Local(p)' /\ Arrived(p)'
<1>1. PodHere(p) \in Pod /\ bounced' = [Bounce(PodHere(p)) EXCEPT ![p] = {}] /\ Forget(p)
  BY DEF KeyRefused, CallsUnseal
<1>2. Commands
  BY DEF VaultInv, Typed
<1>3. /\ bounced' \in [Process -> SUBSET Pod]
      /\ \A q \in Process \ {p} : bounced[q] \subseteq bounced'[q]
  BY <1>1, <1>2, BounceEffect
<1> QED
  BY <1>1, <1>2, <1>3, ForgetEffect

LEMMA AllGivenKeeps ==
  ASSUME VaultInv, NEW p \in Process, AllGiven(p)
  PROVE  Commands' /\ Others(p) /\ Local(p)' /\ Arrived(p)'
<1> USE DEF VaultInv, Typed
<1>1. /\ pc[p] = "unseal" /\ given[p] >= ToGive(keys[p]) /\ UNCHANGED <<vault, sealed, progress>>
      /\ pc' = [pc EXCEPT ![p] = "wait"]
      /\ UNCHANGED <<namespace, todo, keys, given, scope, went, bounced>>
  BY DEF AllGiven, Goto, cluster, history
<1>2. Commands' /\ Others(p) /\ pc'[p] = "wait"
  BY <1>1 DEF Commands, Others
<1>3. Local(p)'
  BY <1>1, <1>2 DEF Local, Saving, AtPod
<1>4. Arrived(p)'
  BY <1>1, <1>2 DEF Arrived, Gave, AtPod
<1> QED
  BY <1>2, <1>3, <1>4

LEMMA WaitKeeps ==
  ASSUME VaultInv, NEW p \in Process, WaitForPodReady(p)
  PROVE  Commands' /\ Others(p) /\ Local(p)' /\ Arrived(p)'
<1> USE DEF VaultInv, Typed
<1> DEFINE s == IF Len(todo[p]) = 1 THEN "ok" ELSE "unseal"
           t == Tail(todo[p])
<1>1. /\ pc[p] = "wait" /\ PodHere(p) \notin sealed /\ Here(p) \in Place
      /\ UNCHANGED <<vault, sealed, progress>>
      /\ went' = [went EXCEPT ![p] = @ \union {Here(p)}] /\ pc' = [pc EXCEPT ![p] = s]
      /\ todo' = [todo EXCEPT ![p] = t] /\ given' = [given EXCEPT ![p] = 0]
      /\ UNCHANGED <<namespace, keys, scope, bounced>>
  BY DEF WaitForPodReady, NextPod, Reaches, Goto, cluster
<1>2. /\ todo[p] \in Rest /\ todo[p] # <<>>
      /\ keys[p].origin \in Place /\ vault[keys[p].origin] # None
  BY <1>1 DEF Local, Saving, AtPod
<1>3. /\ t \in Rest /\ ToSet(todo[p]) \subseteq {Head(todo[p])} \union ToSet(t)
      /\ t = <<>> <=> s = "ok"
  BY <1>2, RestTail
<1>4. t \in Seq(PodName) /\ s \in {"ok", "unseal"}
  BY <1>3, RestIsSeq
<1> HIDE DEF s, t
<1>5. Commands' /\ Others(p)
  BY <1>1, <1>4 DEF Commands, Others, Ended
<1>6. /\ pc'[p] = s /\ todo'[p] = t /\ given'[p] = 0 /\ keys[p].shares \in Nat
      /\ went'[p] = went[p] \union {Here(p)}
  BY <1>1 DEF Commands, Keys
<1>7. 0 <= keys[p].shares
  BY <1>6
<1>8. Local(p)'
  <2> HIDE DEF VaultInv
  <2>1. pc'[p] \in {"ok", "unseal"} /\ (todo'[p] = <<>> <=> pc'[p] = "ok")
    BY <1>3, <1>4, <1>6
  <2> QED
    BY <1>1, <1>2, <1>3, <1>6, <1>7, <2>1 DEF Local, Saving, AtPod
<1>9. Gave(p)' = {}
  BY <1>6 DEF Gave
<1>10. ASSUME NEW d \in scope[p]
       PROVE  d \in ToSet(t) \/ \E r \in went'[p] : <<r, d>> \notin sealed \ bounced[p]
  <2>1. CASE d = Head(todo[p])
    BY <1>1, <1>6, <2>1 DEF PodHere
  <2>2. CASE d # Head(todo[p])
    BY <1>3, <1>6, <2>2 DEF Arrived
  <2> QED
    BY <2>1, <2>2
<1>11. Arrived(p)'
  <2> HIDE DEF VaultInv
  <2> QED
    BY <1>1, <1>6, <1>9, <1>10 DEF Arrived
<1> QED
  BY <1>5, <1>8, <1>11

LEMMA OwnPart ==
  ASSUME VaultInv, NEW p \in Process, VaultStep(p)
  PROVE  Commands' /\ Others(p) /\ Local(p)' /\ Arrived(p)'
<1>1. CASE Fails(p)
  BY <1>1, FatalEffect DEF Fails, VaultInv, Typed
<1> QED
  BY <1>1, StartInitUnsealKeeps, StartUnsealKeeps, GetPodsKeeps, VaultInitKeeps, SaveKeeps,
     GiveKeyKeeps, KeyRefusedKeeps, AllGivenKeeps, WaitKeeps DEF VaultStep

(* The others find at least what they left, unless a pod forgot it. *)
LEMMA OthersPart ==
  ASSUME VaultInv, NEW p \in Process, Others(p), Forward(p), NEW q \in Process \ {p}
  PROVE  Local(q)' /\ Arrived(q)'
<1>1. /\ pc'[q] = pc[q] /\ todo'[q] = todo[q] /\ keys'[q] = keys[q] /\ given'[q] = given[q]
      /\ scope'[q] = scope[q] /\ went'[q] = went[q] /\ bounced[q] \subseteq bounced'[q]
  BY DEF Others
<1>2. Local(q) /\ Arrived(q)
  BY DEF VaultInv
<1>3. keys[q].origin \in Place /\ vault[keys[q].origin] # None => vault'[keys[q].origin] # None
  BY DEF Forward
<1>4. Local(q)'
  BY <1>1, <1>2, <1>3 DEF Local
<1>5. ASSUME NEW s \in Place, pc[q] \in AtPod, went[q] = {s},
             <<s, Head(todo[q])>> \in sealed' \ bounced'[q]
      PROVE  Gave(q) \subseteq progress'[<<s, Head(todo[q])>>]
  <2> DEFINE d == <<s, Head(todo[q])>>
  <2>1. d \in sealed \ bounced[q]
    BY <1>1, <1>5 DEF Forward
  <2>2. Gave(q) \subseteq progress[d]
    BY <1>2, <1>5, <2>1 DEF Arrived
  <2>3. progress[d] \subseteq progress'[d]
    BY <1>5 DEF Forward
  <2> QED
    BY <2>2, <2>3
<1>6. sealed' \subseteq sealed
  BY DEF Forward
<1>7. Arrived(q)'
  BY <1>1, <1>2, <1>5, <1>6 DEF Arrived, Gave
<1> QED
  BY <1>4, <1>7

-----------------------------------------------------------------------------
(* The Vaults and the key file *)

LEMMA FateType ==
  ASSUME Shared, NEW p \in Process, Fate(p, "held") \/ Fate(p, "written") \/ Fate(p, "logged")
                                    \/ Fate(p, "lost") \/ Fate(p, "replaced")
  PROVE  saved' \in [Place -> {"none", "held", "written", "logged", "lost", "replaced"}]
BY DEF Shared, Fate

LEMMA SharedPart ==
  ASSUME VaultInv, NEW p \in Process, VaultStep(p)
  PROVE  Shared' /\ Forward(p) /\ \A d \in Pod : Waiting(d)'
<1> USE DEF VaultInv, Typed
<1>1. ASSUME UNCHANGED cluster, keyFile' \in KeyText \union {None, Empty, Garbage},
             saved' \in [Place -> {"none", "held", "written", "logged", "lost", "replaced"}]
      PROVE  Shared' /\ Forward(p) /\ \A d \in Pod : Waiting(d)'
  BY <1>1 DEF Shared, Forward, Waiting, cluster
<1>2. CASE VaultInit(p)
  <2> DEFINE s == Here(p)
             new == [keys[p] EXCEPT !.origin = s]
  <2>1. /\ pc[p] = "init" /\ s \in Place /\ vault[s] = None /\ vault' = [vault EXCEPT ![s] = new]
        /\ UNCHANGED <<sealed, progress, restarts, keyFile>>
        /\ \E f \in {"held", "lost"} : saved' = [saved EXCEPT ![s] = f]
    BY <1>2 DEF VaultInit
  <2>2. /\ new \in Keys /\ new.origin = s /\ new.shares = keys[p].shares
        /\ new.threshold = keys[p].threshold
    BY <2>1 DEF Commands, Keys
  <2>3. new.threshold \in 1..new.shares
    BY <2>1, <2>2 DEF Local
  <2> HIDE DEF new, s
  <2>4. Shared'
    BY <2>1, <2>2, <2>3 DEF Shared
  <2>5. Forward(p)
    BY <2>1 DEF Forward, Shared
  <2>6. ASSUME NEW d \in Pod PROVE Waiting(d)'
    <3>1. d[1] \in Place
      BY DEF Pod
    <3> QED
      BY <2>1, <3>1 DEF Waiting, Shared
  <2> QED
    BY <2>4, <2>5, <2>6
<1>3. CASE OpenKeyFile(p)
  BY <1>1, <1>3, FateType DEF OpenKeyFile, Shared
<1>4. CASE WriteKeyFile(p)
  <2>1. pc[p] = "saving" /\ UNCHANGED cluster
    BY <1>4 DEF WriteKeyFile
  <2>2. Json(keys[p]) \in KeyText
    BY <2>1, JsonIsText DEF Commands, Local, Saving
  <2>3. keyFile' \in KeyText \union {None, Empty, Garbage}
    BY <1>4, <2>2 DEF WriteKeyFile, Shared
  <2> QED
    BY <1>1, <1>4, <2>1, <2>3, FateType DEF WriteKeyFile
<1>5. CASE GiveKey(p)
  <2> DEFINE d == PodHere(p)
  <2>1. CallsUnseal(p) /\ TakeKey(p) /\ UNCHANGED <<vault, restarts, keyFile, saved>>
    BY <1>5 DEF GiveKey, CallsUnseal
  <2>2. Here(p) \in Place /\ d \in Pod /\ d[1] = Here(p) /\ WithKey(p) \in SUBSET Key
    BY <2>1, KeyGiven
  <2>3. vault[Here(p)] # None
    BY <2>1 DEF CallsUnseal
  <2>4. /\ sealed' \subseteq sealed
        /\ progress' \in [Pod -> SUBSET Key]
        /\ \A e \in Pod \ {d} : progress'[e] = progress[e] /\ (e \in sealed <=> e \in sealed')
        /\ d \notin sealed' => progress'[d] = {}
        /\ d \in sealed' => /\ progress'[d] = WithKey(p)
                            /\ Cardinality(progress'[d]) < vault[Here(p)].threshold
        /\ IsFiniteSet(progress'[d])
    BY <2>1, TakeKeyEffect
  <2>5. progress[d] \subseteq WithKey(p)
    BY DEF WithKey
  <2> HIDE DEF d
  <2>6. Shared'
    BY <2>1, <2>4 DEF Shared
  <2>7. Forward(p)
    BY <2>1, <2>2, <2>4, <2>5 DEF Forward, Shared
  <2>8. ASSUME NEW e \in Pod PROVE Waiting(e)'
    <3>1. CASE e = d
      BY <2>1, <2>2, <2>3, <2>4, <3>1 DEF Waiting
    <3>2. CASE e # d
      BY <2>1, <2>4, <3>2 DEF Waiting
    <3> QED
      BY <3>1, <3>2
  <2> QED
    BY <2>6, <2>7, <2>8
<1>6. CASE KeyRefused(p)
  <2> DEFINE d == PodHere(p)
  <2>1. /\ d \in Pod /\ UNCHANGED <<vault, sealed, restarts, keyFile, saved>>
        /\ progress' = [progress EXCEPT ![d] = {}]
        /\ bounced' = [Bounce(d) EXCEPT ![p] = {}]
    BY <1>6 DEF KeyRefused, CallsUnseal
  <2> HIDE DEF d
  <2>2. Shared'
    BY <2>1 DEF Shared
  <2>3. ASSUME NEW q \in Process \ {p}, pc[q] \in AtPod PROVE d \in bounced'[q]
    BY <2>1, <2>3, BounceEffect DEF AtPod
  <2>4. Forward(p)
    BY <2>1, <2>3 DEF Forward, Shared
  <2>5. ASSUME NEW e \in Pod PROVE Waiting(e)'
    <3>1. CASE e = d
      BY <2>1, <3>1, FS_EmptySet DEF Waiting, Shared
    <3>2. CASE e # d
      BY <2>1, <3>2 DEF Waiting, Shared
    <3> QED
      BY <3>1, <3>2
  <2> QED
    BY <2>2, <2>4, <2>5
<1>7. CASE Fails(p)
  BY <1>1, <1>7, FateType DEF Fails, Shared
<1>8. CASE \/ \E f \in Flags : StartInitUnseal(p, f)
           \/ StartUnseal(p) \/ GetPods(p) \/ AllGiven(p) \/ WaitForPodReady(p)
  <2>1. UNCHANGED <<cluster, keyFile, saved>>
    BY <1>8 DEF StartInitUnseal, StartUnseal, GetPods, AllGiven, WaitForPodReady, NextPod
  <2> QED
    BY <1>1, <2>1 DEF Shared
<1> QED
  BY <1>2, <1>3, <1>4, <1>5, <1>6, <1>7, <1>8 DEF VaultStep

(* A command that is not saving has no part in who has the keys. *)
LEMMA CustodyKept ==
  ASSUME VaultInv, NEW p \in Process, Others(p), UNCHANGED <<vault, keyFile, saved>>,
         pc[p] \notin Saving, pc'[p] \notin Saving
  PROVE  Custody'
<1> USE DEF VaultInv
<1>1. \A q \in Process : pc'[q] \in Saving => pc[q] \in Saving /\ keys'[q] = keys[q]
  BY DEF Others
<1>2. \A q \in Process : pc[q] \in Saving => pc'[q] \in Saving /\ keys'[q] = keys[q]
  BY DEF Others
<1>3. KeysKept'
  <2>1. \A s \in Place :
          /\ saved[s] = "written" => keyFile = Json(vault[s])
          /\ saved[s] = "held" => \E q \in Process : pc[q] \in Saving /\ keys[q] = vault[s]
    BY DEF Custody, KeysKept, Saving
  <2> HIDE DEF VaultInv
  <2>2. \A s \in Place :
          /\ saved'[s] = "written" => keyFile' = Json(vault'[s])
          /\ saved'[s] = "held" => \E q \in Process : pc'[q] \in Saving /\ keys'[q] = vault'[s]
    BY <1>2, <2>1
  <2> QED
    BY <2>2 DEF KeysKept, Saving
<1>4. \A q \in Process : pc'[q] \in Saving =>
         saved'[keys'[q].origin] = "held" /\ vault'[keys'[q].origin] = keys'[q]
  BY <1>1 DEF Custody
<1>5. \A q, r \in Process : pc'[q] \in Saving /\ pc'[r] \in Saving
                            /\ keys'[q].origin = keys'[r].origin => q = r
  <2>1. \A q, r \in Process : pc[q] \in Saving /\ pc[r] \in Saving /\ keys[q].origin = keys[r].origin
                               => q = r
    BY DEF Custody
  <2> HIDE DEF VaultInv
  <2>2. ASSUME NEW q \in Process, NEW r \in Process, pc'[q] \in Saving, pc'[r] \in Saving,
               keys'[q].origin = keys'[r].origin
        PROVE  q = r
    <3>1. /\ pc[q] \in Saving /\ keys'[q] = keys[q]
          /\ pc[r] \in Saving /\ keys'[r] = keys[r]
      BY <1>1, <2>2
    <3> QED
      BY <2>1, <2>2, <3>1
  <2> QED
    BY <2>2
<1>6. /\ \A s \in Place : vault'[s] = None => saved'[s] = "none"
      /\ keyFile' \in KeyText => vault'[keyFile'.origin] # None
  BY DEF Custody
<1> HIDE DEF VaultInv
<1> QED
  BY <1>3, <1>4, <1>5, <1>6 DEF Custody

(* A command that saves its keys goes on, or has done with them. *)
LEMMA CustodySaved ==
  ASSUME VaultInv, NEW p \in Process, Others(p), UNCHANGED vault, pc[p] \in Saving,
         NEW fate \in {"held", "written", "logged", "lost", "replaced"}, Fate(p, fate),
         keyFile' \in {keyFile, Empty, Garbage, Json(keys[p])},
         fate = "held" <=> pc'[p] \in Saving,
         fate = "held" => keys'[p] = keys[p],
         fate = "written" => keyFile' = Json(keys[p])
  PROVE  Custody'
<1> USE DEF VaultInv, Typed
<1> DEFINE o == keys[p].origin
<1>1. /\ o \in Place /\ vault[o] = keys[p] /\ vault[o] # None /\ saved[o] = "held"
      /\ keys[p] \in Keys
  BY DEF Local, Custody, Commands
<1>2. saved'[o] = fate /\ \A s \in Place \ {o} :
        saved'[s] = IF saved[s] = "written" /\ keyFile' # keyFile THEN "replaced" ELSE saved[s]
  BY <1>1 DEF Fate
<1>3. \A s \in Place : vault[s] # None => vault[s].origin = s
  BY DEF Shared
<1>4. \A q \in Process \ {p} : /\ pc'[q] = pc[q] /\ keys'[q] = keys[q]
                               /\ pc[q] \in Saving => keys[q].origin # o /\ keys[q].origin \in Place
  BY DEF Others, Custody, Local
<1> HIDE DEF o
<1>5. ASSUME NEW s \in Place, saved'[s] = "written" PROVE keyFile' = Json(vault'[s])
  <2>1. CASE s = o
    BY <1>1, <1>2, <1>5, <2>1
  <2>2. CASE s # o
    <3>1. saved[s] = "written" /\ keyFile' = keyFile
      BY <1>2, <1>5, <2>2
    <3> QED
      BY <3>1 DEF Custody, KeysKept
  <2> QED
    BY <2>1, <2>2
<1>6. ASSUME NEW s \in Place, saved'[s] = "held"
      PROVE  \E q \in Process : pc'[q] \in Saving /\ keys'[q] = vault'[s]
  <2>1. CASE s = o
    BY <1>1, <1>2, <1>6, <2>1
  <2>2. CASE s # o
    <3>1. saved[s] = "held"
      BY <1>2, <1>6, <2>2
    <3>2. vault[s] # None
      BY <3>1 DEF Custody
    <3>3. PICK q \in Process : pc[q] \in Saving /\ keys[q] = vault[s]
      BY <3>1 DEF Custody, KeysKept, Saving
    <3>4. q # p
      BY <1>1, <1>3, <2>2, <3>2, <3>3
    <3> QED
      BY <1>4, <3>3, <3>4
  <2> QED
    BY <2>1, <2>2
<1>7. KeysKept'
  BY <1>5, <1>6 DEF KeysKept, Saving
<1>8. \A s \in Place : vault'[s] = None => saved'[s] = "none"
  BY <1>1, <1>2 DEF Custody
<1>9. keyFile' \in KeyText => vault'[keyFile'.origin] # None
  <2>1. Empty \notin KeyText /\ Garbage \notin KeyText
    BY TextAssumption
  <2>2. Json(keys[p]).origin = o
    BY DEF Json, o
  <2> QED
    BY <1>1, <2>1, <2>2 DEF Custody
<1>10. ASSUME NEW q \in Process, pc'[q] \in Saving
       PROVE  saved'[keys'[q].origin] = "held" /\ vault'[keys'[q].origin] = keys'[q]
  <2>1. CASE q = p
    BY <1>1, <1>2, <1>10, <2>1 DEF o
  <2>2. CASE q # p
    <3>1. pc[q] \in Saving /\ keys'[q] = keys[q] /\ keys[q].origin \in Place \ {o}
      BY <1>4, <1>10, <2>2
    <3>2. saved[keys[q].origin] = "held" /\ vault[keys[q].origin] = keys[q]
      BY <3>1 DEF Custody
    <3> QED
      BY <1>2, <3>1, <3>2
  <2> QED
    BY <2>1, <2>2
<1>11. ASSUME NEW q \in Process, NEW r \in Process, pc'[q] \in Saving, pc'[r] \in Saving,
              keys'[q].origin = keys'[r].origin
       PROVE  q = r
  <2>1. \A t \in Process : pc'[t] \in Saving => pc[t] \in Saving /\ keys'[t] = keys[t]
    BY <1>4
  <2> QED
    BY <1>11, <2>1 DEF Custody
<1> QED
  BY <1>7, <1>8, <1>9, <1>10, <1>11 DEF Custody

(* A Vault is initialised: nobody had keys of it before. *)
LEMMA CustodyMade ==
  ASSUME VaultInv, NEW p \in Process, VaultInit(p), Commands', Others(p)
  PROVE  Custody'
<1> DEFINE s == Here(p)
           new == [keys[p] EXCEPT !.origin = s]
<1>1. /\ pc[p] = "init" /\ s \in Place /\ vault[s] = None /\ vault' = [vault EXCEPT ![s] = new]
      /\ keyFile' = keyFile
      /\ \/ /\ pc' = [pc EXCEPT ![p] = "save"] /\ keys' = [keys EXCEPT ![p] = new]
            /\ saved' = [saved EXCEPT ![s] = "held"]
         \/ Fatal(p) /\ saved' = [saved EXCEPT ![s] = "lost"]
  <2>1. /\ pc[p] = "init" /\ s \in Place
        /\ vault[s] = None /\ vault' = [vault EXCEPT ![s] = new] /\ keyFile' = keyFile
    BY DEF VaultInit
  <2>2. \/ /\ Goto(p, "save") /\ keys' = [keys EXCEPT ![p] = new]
           /\ saved' = [saved EXCEPT ![s] = "held"]
        \/ Fatal(p) /\ saved' = [saved EXCEPT ![s] = "lost"]
    BY Zenon DEF VaultInit
  <2> HIDE DEF s, new
  <2> QED
    BY <2>1, <2>2 DEF Goto
<1>2. new \in Keys /\ new.origin = s
  <2>1. keys[p] \in Keys /\ s \in Place
    BY <1>1 DEF VaultInv, Typed, Commands
  <2> HIDE DEF s
  <2> QED
    BY <2>1 DEF Keys
<1> USE DEF VaultInv, Typed
<1>3. new # None
  BY <1>2, NoneAssumption
<1>4. saved[s] = "none" /\ s \in DOMAIN saved
  BY <1>1 DEF Custody, Shared
<1>5. PICK fate \in {"held", "lost"} :
        /\ saved' = [saved EXCEPT ![s] = fate]
        /\ fate = "held" => pc'[p] \in Saving /\ keys'[p] = new
        /\ fate = "lost" => pc'[p] \notin Saving
  <2>1. CASE Fatal(p) /\ saved' = [saved EXCEPT ![s] = "lost"]
    BY <2>1, FatalEffect DEF Saving
  <2>2. CASE /\ pc' = [pc EXCEPT ![p] = "save"] /\ keys' = [keys EXCEPT ![p] = new]
             /\ saved' = [saved EXCEPT ![s] = "held"]
    BY <2>2 DEF Saving, Commands
  <2> QED
    BY <1>1, <2>1, <2>2
<1>6. \A q \in Process \ {p} : /\ pc'[q] = pc[q] /\ keys'[q] = keys[q]
                               /\ pc[q] \in Saving => keys[q].origin # s /\ keys[q].origin \in Place
  BY <1>1 DEF Others, Local
<1>7. pc[p] \notin Saving
  BY <1>1 DEF Saving
<1> HIDE DEF s, new
<1>8. /\ vault'[s] = new /\ \A t \in Place \ {s} : vault'[t] = vault[t]
      /\ saved'[s] = fate /\ \A t \in Place \ {s} : saved'[t] = saved[t]
  BY <1>1, <1>5 DEF Shared
<1>9. ASSUME NEW t \in Place
      PROVE  /\ saved'[t] = "written" => keyFile' = Json(vault'[t])
             /\ saved'[t] = "held" => \E q \in Process : pc'[q] \in Saving /\ keys'[q] = vault'[t]
             /\ vault'[t] = None => saved'[t] = "none"
  <2>1. CASE t = s
    BY <1>3, <1>5, <1>8, <2>1
  <2>2. CASE t # s
    <3>1. /\ saved[t] = "written" => keyFile = Json(vault[t])
          /\ saved[t] = "held" => \E q \in Process : pc[q] \in Saving /\ keys[q] = vault[t]
          /\ vault[t] = None => saved[t] = "none"
      BY DEF Custody, KeysKept, Saving
    <3> QED
      BY <1>1, <1>6, <1>7, <1>8, <2>2, <3>1
  <2> QED
    BY <2>1, <2>2
<1>10. KeysKept'
  BY <1>9 DEF KeysKept, Saving
<1>11. keyFile' \in KeyText => vault'[keyFile'.origin] # None
  <2>1. keyFile \in KeyText => keyFile.origin \in Place /\ vault[keyFile.origin] # None
    BY DEF Custody, KeyText
  <2> QED
    BY <1>1, <1>3, <1>8, <2>1
<1>12. ASSUME NEW q \in Process, pc'[q] \in Saving
       PROVE  saved'[keys'[q].origin] = "held" /\ vault'[keys'[q].origin] = keys'[q]
  <2>1. CASE q = p
    BY <1>2, <1>5, <1>8, <1>12, <2>1
  <2>2. CASE q # p
    <3>1. pc[q] \in Saving /\ keys'[q] = keys[q] /\ keys[q].origin \in Place \ {s}
      BY <1>6, <1>12, <2>2
    <3>2. saved[keys[q].origin] = "held" /\ vault[keys[q].origin] = keys[q]
      BY <3>1 DEF Custody
    <3> QED
      BY <1>8, <3>1, <3>2
  <2> QED
    BY <2>1, <2>2
<1>13. ASSUME NEW q \in Process, NEW r \in Process, pc'[q] \in Saving, pc'[r] \in Saving,
              keys'[q].origin = keys'[r].origin
       PROVE  q = r
  <2>1. \A t \in Process \ {p} : pc'[t] \in Saving =>
           pc[t] \in Saving /\ keys'[t] = keys[t] /\ keys[t].origin # s
    BY <1>6
  <2>2. pc'[p] \in Saving => keys'[p].origin = s
    BY <1>2, <1>5
  <2>3. CASE q # p /\ r # p
    BY <1>13, <2>1, <2>3 DEF Custody
  <2>4. CASE q = p \/ r = p
    BY <1>13, <2>1, <2>2, <2>4
  <2> QED
    BY <2>3, <2>4
<1> QED
  BY <1>9, <1>10, <1>11, <1>12, <1>13 DEF Custody

(* Who has the keys of an init *)
LEMMA CustodyPart ==
  ASSUME VaultInv, NEW p \in Process, VaultStep(p), Commands', Others(p)
  PROVE  Custody'
<1> USE DEF VaultInv, Typed
<1>1. CASE VaultInit(p)
  BY <1>1, CustodyMade
<1>2. CASE OpenKeyFile(p)
  <2>1. /\ pc[p] = "save" /\ UNCHANGED <<vault, keys>>
        /\ \/ keyFile' = Empty /\ Fate(p, "held") /\ pc' = [pc EXCEPT ![p] = "saving"]
           \/ keyFile' = keyFile /\ Fate(p, "logged") /\ pc' = [pc EXCEPT ![p] = "unseal"]
    BY <1>2 DEF OpenKeyFile, Goto, cluster
  <2>2. pc[p] \in Saving
    BY <2>1 DEF Saving
  <2>3. CASE keyFile' = Empty /\ Fate(p, "held") /\ pc' = [pc EXCEPT ![p] = "saving"]
    <3>1. pc'[p] \in Saving
      BY <2>3 DEF Commands, Saving
    <3> QED
      BY <2>1, <2>2, <2>3, <3>1, CustodySaved
  <2>4. CASE keyFile' = keyFile /\ Fate(p, "logged") /\ pc' = [pc EXCEPT ![p] = "unseal"]
    <3>1. pc'[p] \notin Saving
      BY <2>4 DEF Commands, Saving
    <3> QED
      BY <2>1, <2>2, <2>4, <3>1, CustodySaved
  <2> QED
    BY <2>1, <2>3, <2>4
<1>3. CASE WriteKeyFile(p)
  <2>1. /\ pc[p] = "saving" /\ UNCHANGED vault /\ pc' = [pc EXCEPT ![p] = "unseal"]
        /\ \/ keyFile' = Json(keys[p]) /\ Fate(p, "written")
           \/ keyFile' = Garbage /\ Fate(p, "replaced")
           \/ keyFile' \in {keyFile, Garbage} /\ Fate(p, "logged")
    BY <1>3 DEF WriteKeyFile, Goto, cluster
  <2>2. pc[p] \in Saving /\ pc'[p] \notin Saving
    BY <2>1 DEF Saving, Commands
  <2>3. CASE keyFile' = Json(keys[p]) /\ Fate(p, "written")
    BY <2>1, <2>2, <2>3, CustodySaved
  <2>4. CASE keyFile' = Garbage /\ Fate(p, "replaced")
    BY <2>1, <2>2, <2>4, CustodySaved
  <2>5. CASE keyFile' \in {keyFile, Garbage} /\ Fate(p, "logged")
    BY <2>1, <2>2, <2>5, CustodySaved
  <2> QED
    BY <2>1, <2>3, <2>4, <2>5
<1>4. CASE Fails(p)
  <2>1. /\ pc'[p] = "fatal" /\ UNCHANGED vault
        /\ keyFile' \in {keyFile} \union (IF pc[p] = "saving" THEN {Garbage} ELSE {})
        /\ IF pc[p] \in Saving THEN Fate(p, "lost") ELSE UNCHANGED saved
    BY <1>4, FatalEffect DEF Fails, cluster, Saving
  <2>2. pc'[p] \notin Saving
    BY <2>1 DEF Saving
  <2>3. CASE pc[p] \in Saving
    BY <2>1, <2>2, <2>3, CustodySaved
  <2>4. CASE pc[p] \notin Saving
    <3>1. keyFile' = keyFile
      BY <2>1, <2>4 DEF Saving
    <3> QED
      BY <2>1, <2>2, <2>4, <3>1, CustodyKept
  <2> QED
    BY <2>3, <2>4
<1>5. CASE (\E f \in Flags : StartInitUnseal(p, f)) \/ StartUnseal(p) \/ GetPods(p)
  <2>1. UNCHANGED <<vault, keyFile, saved>> /\ pc[p] \notin Saving
    BY <1>5 DEF StartInitUnseal, StartUnseal, GetPods, cluster, Saving
  <2>2. Fatal(p) => pc'[p] = "fatal"
    BY FatalEffect
  <2>3. \A t : Goto(p, t) => pc'[p] = t
    BY DEF Goto, Commands
  <2>4. pc'[p] \in {"fatal", "list to init", "list", "unseal", "init"}
    BY <1>5, <2>2, <2>3 DEF StartInitUnseal, StartUnseal, GetPods
  <2>5. pc'[p] \notin Saving
    BY <2>4 DEF Saving
  <2> QED
    BY <2>1, <2>5, CustodyKept
<1>6. CASE GiveKey(p) \/ KeyRefused(p) \/ AllGiven(p) \/ WaitForPodReady(p)
  <2>1. UNCHANGED <<vault, keyFile, saved>> /\ pc[p] \in AtPod
    BY <1>6 DEF GiveKey, KeyRefused, CallsUnseal, AllGiven, WaitForPodReady, NextPod, cluster, AtPod
  <2>2. pc'[p] \in {"fatal", "unseal", "wait", "ok"}
    BY <1>6 DEF GiveKey, KeyRefused, CallsUnseal, AllGiven, WaitForPodReady, NextPod, Commands,
                Fatal, Forget, Goto
  <2>3. pc[p] \notin Saving /\ pc'[p] \notin Saving
    BY <2>1, <2>2 DEF Saving, AtPod
  <2> QED
    BY <2>1, <2>3, CustodyKept
<1> QED
  BY <1>1, <1>2, <1>3, <1>4, <1>5, <1>6 DEF VaultStep

LEMMA StepKeeps ==
  ASSUME VaultInv, NEW p \in Process, VaultStep(p)
  PROVE  VaultInv'
<1>1. Commands' /\ Others(p) /\ Local(p)' /\ Arrived(p)'
  BY OwnPart
<1>2. Shared' /\ Forward(p) /\ \A d \in Pod : Waiting(d)'
  BY SharedPart
<1>3. \A q \in Process : Local(q)' /\ Arrived(q)'
  BY <1>1, <1>2, OthersPart
<1>4. Custody'
  BY <1>1, CustodyPart
<1> QED
  BY <1>1, <1>2, <1>3, <1>4 DEF VaultInv, Typed

LEMMA RestartKeeps ==
  ASSUME VaultInv, NEW d \in Pod, Restart(d)
  PROVE  VaultInv'
<1> USE DEF VaultInv, Typed
<1>1. /\ restarts < MaxRestarts /\ restarts' = restarts + 1
      /\ sealed' = sealed \union {d} /\ progress' = [progress EXCEPT ![d] = {}]
      /\ bounced' = Bounce(d)
      /\ UNCHANGED <<vault, pc, namespace, todo, keys, given, keyFile, scope, went, saved>>
  BY DEF Restart, command
<1>2. restarts' \in 0..MaxRestarts
  BY <1>1, RestartAssumption DEF Shared
<1>3. Shared'
  BY <1>1, <1>2 DEF Shared
<1>4. /\ bounced' \in [Process -> SUBSET Pod]
      /\ \A p \in Process : /\ bounced[p] \subseteq bounced'[p]
                            /\ pc[p] \notin {"start", "fatal"} => d \in bounced'[p]
  BY <1>1, BounceEffect
<1>5. Commands'
  BY <1>1, <1>4 DEF Commands
<1>6. ASSUME NEW e \in Pod PROVE Waiting(e)'
  <2>1. CASE e = d
    BY <1>1, <2>1, FS_EmptySet DEF Waiting, Shared
  <2>2. CASE e # d
    BY <1>1, <2>2 DEF Waiting, Shared
  <2> QED
    BY <2>1, <2>2
<1>7. ASSUME NEW p \in Process PROVE Local(p)'
  BY <1>1 DEF Local
<1>8. ASSUME NEW p \in Process PROVE Arrived(p)'
  <2>1. ASSUME NEW s \in Place, pc[p] \in AtPod, went[p] = {s},
               <<s, Head(todo[p])>> \in sealed' \ bounced'[p]
        PROVE  Gave(p) \subseteq progress'[<<s, Head(todo[p])>>]
    <3>1. <<s, Head(todo[p])>> \in sealed \ bounced[p] /\ <<s, Head(todo[p])>> # d
      BY <1>1, <1>4, <2>1 DEF AtPod
    <3>2. Gave(p) \subseteq progress[<<s, Head(todo[p])>>]
      BY <2>1, <3>1 DEF Arrived
    <3> QED
      BY <1>1, <3>1, <3>2 DEF Shared
  <2>2. ASSUME NEW e \in scope[p]
        PROVE  e \in ToSet(todo[p]) \/ \E s \in went[p] : <<s, e>> \notin sealed' \ bounced'[p]
    <3>1. pc[p] \notin {"start", "fatal"}
      BY <2>2 DEF Local
    <3> QED
      BY <1>1, <1>4, <2>2, <3>1 DEF Arrived
  <2> QED
    BY <1>1, <2>1, <2>2 DEF Arrived, Gave
<1>9. Custody'
  BY <1>1 DEF Custody, KeysKept
<1> QED
  BY <1>3, <1>5, <1>6, <1>7, <1>8, <1>9

LEMMA VaultInvInit ==
  ASSUME Init
  PROVE  VaultInv
<1>1. PICK f \in [Place -> {g \in Flags : Valid(g)} \union {None}] :
        vault = [s \in Place |-> IF f[s] = None THEN None ELSE KeysFor(s, f[s])]
  BY DEF Init
<1>2. ASSUME NEW s \in Place, vault[s] # None
      PROVE  vault[s] \in Keys /\ vault[s].origin = s /\ vault[s].threshold \in 1..vault[s].shares
  <2>1. f[s] \in Flags /\ Valid(f[s]) /\ vault[s] = KeysFor(s, f[s])
    BY <1>1, <1>2
  <2>2. f[s][1] \in Nat /\ f[s][2] \in Nat
    BY <2>1, FlagAssumption
  <2>3. f[s][2] \in 1..f[s][1]
    BY <2>1, <2>2 DEF Valid
  <2>4. KeysFor(s, f[s]) \in Keys
    BY <2>2 DEF KeysFor, Keys
  <2> QED
    BY <2>1, <2>3, <2>4 DEF KeysFor
<1>3. /\ keyFile \in AllKept \union {None} /\ sealed \subseteq Pod
      /\ \A d \in Pod : vault[d[1]] = None => d \in sealed
      /\ progress = [d \in Pod |-> {}] /\ restarts = 0 /\ saved = [s \in Place |-> "none"]
  BY DEF Init
<1>4. ASSUME NEW k \in AllKept PROVE k \in KeyText /\ vault[k.origin] # None
  <2>1. PICK s \in Place : vault[s] # None /\ k \in Kept(vault[s])
    BY DEF AllKept
  <2>2. k \in KeyText /\ k.origin = s
    BY <1>2, <2>1, KeptOfKeys
  <2> QED
    BY <2>1, <2>2
<1>5. None \notin KeyText
  BY TextAssumption
<1>6. keyFile \in KeyText \union {None} /\ (keyFile \in KeyText => vault[keyFile.origin] # None)
  BY <1>3, <1>4, <1>5
<1>7. vault \in [Place -> Keys \union {None}]
  BY <1>1, <1>2
<1>8. Shared
  BY <1>2, <1>3, <1>6, <1>7, RestartAssumption DEF Shared
<1>9. /\ pc = [p \in Process |-> "start"] /\ namespace = [p \in Process |-> None]
      /\ todo = [p \in Process |-> <<>>] /\ keys = [p \in Process |-> NoKeys]
      /\ given = [p \in Process |-> 0] /\ bounced = [p \in Process |-> {}]
      /\ scope = [p \in Process |-> {}] /\ went = [p \in Process |-> {}]
  BY DEF Init
<1>10. NoKeys \in Keys /\ NoKeys.shares = 0
  BY DEF NoKeys, KeysFor, Keys
<1>11. <<>> \in Seq(PodName) /\ <<>> \in Rest
  BY RestIsSeq
<1>12. Commands
  BY <1>9, <1>10, <1>11 DEF Commands
<1>13. \A d \in Pod : Waiting(d)
  BY <1>3, FS_EmptySet DEF Waiting
<1>14. \A p \in Process : Local(p) /\ Arrived(p)
  BY <1>9, <1>10, <1>11 DEF Local, Arrived, Saving, AtPod
<1>15. Custody
  BY <1>3, <1>6, <1>9 DEF Custody, KeysKept, Saving
<1> QED
  BY <1>8, <1>12, <1>13, <1>14, <1>15 DEF VaultInv, Typed

LEMMA AlwaysVault == Spec => []VaultInv
<1>1. Init => VaultInv
  BY VaultInvInit
<1>2. VaultInv /\ [Next]_vars => VaultInv'
  <2> SUFFICES ASSUME VaultInv, [Next]_vars PROVE VaultInv'
    OBVIOUS
  <2>1. CASE UNCHANGED vaultVars
    <3>1. /\ UNCHANGED <<vault, sealed, progress, restarts, keyFile, saved>>
          /\ UNCHANGED <<pc, namespace, todo, keys, given, scope, went, bounced>>
      BY <2>1 DEF vaultVars, cluster, command, history
    <3>2. Typed'
      BY <3>1 DEF VaultInv, Typed, Shared, Commands
    <3>3. \A d \in Pod : Waiting(d)'
      BY <3>1 DEF VaultInv, Waiting
    <3>4. \A p \in Process : Local(p)' /\ Arrived(p)'
      BY <3>1 DEF VaultInv, Local, Arrived, Gave
    <3>5. Custody'
      BY <3>1 DEF VaultInv, Custody, KeysKept
    <3> QED
      BY <3>2, <3>3, <3>4, <3>5 DEF VaultInv
  <2>2. CASE ~UNCHANGED vaultVars
    BY <2>2, StepKeeps, RestartKeeps DEF Next, vars
  <2> QED
    BY <2>1, <2>2
<1> QED
  BY <1>1, <1>2, PTL DEF Spec

LEMMA SpecHasKube == Spec => KubeSpec
<1>1. Init => KubeInit
  BY DEF Init
<1>2. [Next]_vars => [KubeNext]_kubeVars
  BY DEF Next, vars, kubeVars
<1> QED
  BY <1>1, <1>2, PTL DEF Spec, KubeSpec

(* What a command has to unseal is one pod or the end of the list that      *)
(* kubectl gave, it never gives more keys than it has, and a pod that has   *)
(* been given keys waits for more.                                          *)
THEOREM VaultTypes == Spec => []TypeOK
<1>1. VaultInv /\ KubeInv => TypeOK
  <2> SUFFICES ASSUME VaultInv, KubeInv PROVE TypeOK
    OBVIOUS
  <2>1. Typed /\ (\A d \in Pod : Waiting(d)) /\ (\A p \in Process : Local(p))
    BY DEF VaultInv
  <2>2. \A p \in Process : given[p] \in 0..keys[p].shares
    <3> SUFFICES ASSUME NEW p \in Process PROVE given[p] \in 0..keys[p].shares
      OBVIOUS
    <3>1. given[p] \in Nat /\ keys[p].shares \in Nat
      BY <2>1 DEF Typed, Commands, Keys
    <3>2. given[p] <= keys[p].shares
      BY <2>1 DEF Local
    <3> DEFINE m == given[p]
               n == keys[p].shares
    <3>3. m \in Nat /\ n \in Nat /\ m <= n
      BY <3>1, <3>2
    <3> HIDE DEF m, n, VaultInv, KubeInv
    <3>4. m \in 0..n
      BY <3>3
    <3> QED
      BY <3>4 DEF m, n
  <2>3. \A p \in Process :
          \/ todo[p] = <<>>
          \/ \E d \in PodName : todo[p] = <<d>>
          \/ \E s \in Place : \E i \in 1..Len(Pods[s]) : todo[p] = SubSeq(Pods[s], i, Len(Pods[s]))
    <3> SUFFICES ASSUME NEW p \in Process
                 PROVE  \/ todo[p] = <<>>
                        \/ \E d \in PodName : todo[p] = <<d>>
                        \/ \E s \in Place : \E i \in 1..Len(Pods[s]) :
                              todo[p] = SubSeq(Pods[s], i, Len(Pods[s]))
      OBVIOUS
    <3>1. todo[p] \in Rest
      BY <2>1 DEF Local
    <3> HIDE DEF VaultInv, KubeInv
    <3> QED
      BY <3>1 DEF Rest, Ends
  <2>4. \A p \in Process : scope[p] \subseteq PodName /\ went[p] \subseteq Place /\ bounced[p] \subseteq Pod
    BY <2>1 DEF Typed, Commands
  <2>5. \A d \in Pod : progress[d] # {} => /\ d \in sealed /\ vault[d[1]] # None
                                           /\ Cardinality(progress[d]) < vault[d[1]].threshold
    BY <2>1 DEF Waiting
  <2>6. KubeTypeOK
    BY DEF KubeInv
  <2>7. /\ vault \in [Place -> Keys \union {None}]
        /\ \A s \in Place : vault[s] # None => /\ vault[s].origin = s
                                               /\ vault[s].threshold \in 1..vault[s].shares
        /\ keyFile \in KeyText \union {None, Empty, Garbage}
        /\ sealed \subseteq Pod
        /\ restarts \in 0..MaxRestarts
        /\ saved \in [Place -> {"none", "held", "written", "logged", "lost", "replaced"}]
    BY <2>1 DEF Typed, Shared
  <2>8. /\ pc \in [Process -> Ended \union {"start", "list", "list to init", "init", "save",
                                            "saving", "unseal", "wait"}]
        /\ namespace \in [Process -> Namespace \union {None}]
        /\ keys \in [Process -> Keys]
    BY <2>1 DEF Typed, Commands
  <2>9. \A p \in Process :
          /\ \/ todo[p] = <<>>
             \/ \E d \in PodName : todo[p] = <<d>>
             \/ \E s \in Place : \E i \in 1..Len(Pods[s]) : todo[p] = SubSeq(Pods[s], i, Len(Pods[s]))
          /\ given[p] \in 0..keys[p].shares
          /\ scope[p] \subseteq PodName /\ went[p] \subseteq Place /\ bounced[p] \subseteq Pod
    BY ONLY <2>2, <2>3, <2>4
  <2> QED
    BY <2>5, <2>6, <2>7, <2>8, <2>9 DEF TypeOK
<1> QED
  BY <1>1, AlwaysVault, SpecHasKube, AlwaysKube, PTL

(* The keys of an init are with the command that ran it until they are in   *)
(* the key file, and stay whole there until another Vault's replace them:   *)
(* of all commands only one saves the keys of a Vault, because that has     *)
(* been initialised once.                                                   *)
THEOREM KeysAreKept == Spec => []KeysKept
<1>1. VaultInv => KeysKept
  BY DEF VaultInv, Custody
<1> QED
  BY <1>1, AlwaysVault, PTL

(* Keys 1..given of a Vault have arrived at its pod, if that is still       *)
(* sealed and has not forgotten any, and fewer keys than the threshold      *)
(* have: so a command that gave the threshold finds it unsealed.            *)
THEOREM EnoughKeys == Spec => []EnoughKeysUnseal
<1>1. VaultInv => EnoughKeysUnseal
  <2> SUFFICES ASSUME VaultInv, NEW p \in Process, NEW s \in Place, pc[p] = "wait",
                      went[p] = {s}, keys[p].origin = s,
                      keys[p].shares >= vault[s].threshold,
                      keys[p].threshold >= vault[s].threshold,
                      <<s, Head(todo[p])>> \in sealed \ bounced[p]
               PROVE  FALSE
    BY DEF EnoughKeysUnseal
  <2> DEFINE d == <<s, Head(todo[p])>>
             n == given[p]
  <2>1. vault[s] # None /\ n >= ToGive(keys[p]) /\ {s} \X (1..n) \subseteq progress[d]
    <3>1. Local(p) /\ Arrived(p) /\ pc[p] \in AtPod
      BY DEF VaultInv, AtPod
    <3>2. vault[s] # None /\ n >= ToGive(keys[p])
      BY <3>1 DEF Local
    <3>3. Gave(p) \subseteq progress[d]
      BY <3>1 DEF Arrived
    <3> QED
      BY <3>2, <3>3 DEF Gave
  <2>2. d \in Pod /\ d[1] = s
    BY DEF VaultInv, Typed, Shared
  <2>3. vault[s] \in Keys /\ keys[p] \in Keys /\ vault[s].threshold >= 1
    <3>1. vault[s] \in Keys /\ vault[s].threshold \in 1..vault[s].shares
      BY <2>1 DEF VaultInv, Typed, Shared
    <3>2. keys[p] \in Keys
      BY DEF VaultInv, Typed, Commands
    <3> HIDE DEF d, n
    <3> QED
      BY <3>1, <3>2 DEF Keys
  <2>4. /\ vault[s].threshold \in Nat /\ keys[p].shares \in Nat /\ keys[p].threshold \in Nat
        /\ n \in Nat
    BY <2>3 DEF VaultInv, Typed, Commands, Keys
  <2>5. n >= vault[s].threshold
    BY <2>1, <2>4 DEF ToGive
  <2>6. IsFiniteSet(progress[d]) /\ (progress[d] # {} => Cardinality(progress[d]) < vault[s].threshold)
    BY <2>2 DEF VaultInv, Waiting
  <2> HIDE DEF d, n
  <2>7. IsFiniteSet(1..n) /\ Cardinality(1..n) = n
    <3>1. n \in Int /\ 1 \in Int /\ n >= 0
      BY <2>4
    <3>2. IsFiniteSet(1..n) /\ Cardinality(1..n) = IF 1 > n THEN 0 ELSE n - 1 + 1
      BY ONLY <3>1, FS_Interval
    <3> QED
      BY ONLY <3>1, <3>2
  <2>8. Cardinality({s} \X (1..n)) = n
    <3>1. IsFiniteSet({s}) /\ Cardinality({s}) = 1
      BY FS_Singleton
    <3>2. Cardinality({s} \X (1..n)) = Cardinality({s}) * Cardinality(1..n)
      BY <2>7, <3>1, FS_Product
    <3> QED
      BY <2>4, <2>7, <3>1, <3>2
  <2>9. n <= Cardinality(progress[d]) /\ Cardinality(progress[d]) \in Nat
    BY <2>1, <2>6, <2>8, FS_Subset, FS_CardinalityType
  <2>10. CASE progress[d] = {}
    BY <2>3, <2>4, <2>5, <2>9, <2>10, FS_EmptySet
  <2>11. CASE progress[d] # {}
    BY <2>4, <2>5, <2>6, <2>9, <2>11
  <2> QED
    BY <2>10, <2>11
<1> QED
  BY <1>1, AlwaysVault, PTL

(* A pod that a command is for is still to be unsealed, or has been seen    *)
(* unsealed at a place that a call went to and stays so unless it restarts; *)
(* a command that reports success has none left.                            *)
THEOREM SuccessIsUnsealed == Spec => []SuccessMeansUnsealed
<1>1. VaultInv => SuccessMeansUnsealed
  <2> SUFFICES ASSUME VaultInv, NEW p \in Process, pc[p] = "ok", NEW d \in scope[p]
               PROVE  \E s \in went[p] : <<s, d>> \notin sealed \ bounced[p]
    BY DEF SuccessMeansUnsealed
  <2>1. todo[p] = <<>>
    BY DEF VaultInv, Local, Saving, AtPod
  <2>2. ToSet(<<>>) = {}
    BY DEF ToSet
  <2> QED
    BY <2>1, <2>2 DEF VaultInv, Arrived
<1> QED
  BY <1>1, AlwaysVault, PTL
=============================================================================
