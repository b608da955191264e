----------------------------- MODULE VaultUnseal ------------------------------
(***************************************************************************)
(* `vpd vault init-unseal` and `vpd vault unseal`: processes that drive    *)
(* HashiCorp Vaults through kubectl (utils/vault/vault.go, cmd/vault).     *)
(*                                                                         *)
(* Every step is a kubectl call.  It goes to the namespace of the command  *)
(* on the server that the kubeconfig file names at that moment, and        *)
(* add-context and remove-context may change the file in between           *)
(* (KubeConfig).  Pods of the same names may run there as well, with a     *)
(* Vault of their own.  A call that fails ends the command, whether or not *)
(* it had its effect.  Pods restart at any time and are sealed then.       *)
(***************************************************************************)
EXTENDS KubeConfig, Naturals, Sequences, FiniteSets, SequencesExt

CONSTANTS Process,     \* processes, each of which runs one command
          Namespace,
          Pods,        \* at every place, the server pods as kubectl lists them
          Flags,       \* pairs of --key-shares and --key-threshold
          MaxRestarts, \* bound of the model: restarts in a behaviour
          Garbage      \* a key file that cannot be parsed

(* The Vaults, each in a namespace of a cluster; its pods have the name of  *)
(* their place and their own.                                               *)
Place == Server \X Namespace
PodName == UNION {ToSet(Pods[s]) : s \in Place}
Pod == {d \in Place \X PodName : d[2] \in ToSet(Pods[d[1]])}

ASSUME PodAssumption == Pods \in [Place -> Seq(PodName)]
ASSUME FlagAssumption == Flags \subseteq Nat \X Nat
ASSUME RestartAssumption == MaxRestarts \in Nat

(* The keys of a Vault are numbered; origin is None until they are made. *)
Keys == [origin : Place \union {None}, shares : Nat, threshold : Nat]
Key == Place \X Nat
KeyText == [form : {"json", "text"}, origin : Place, shares : Nat, threshold : Nat]

ASSUME NoneAssumption == None \notin Keys \union Place \union Namespace
ASSUME TextAssumption == {None, Empty, Garbage} \cap KeyText = {}

VARIABLES
  vault,     \* None, or the keys that the Vault was initialised with
  sealed,    \* the pods that are
  progress,  \* the keys a sealed pod has been given
  keyFile,   \* vault_keys.json, if all commands name the same directory
  pc,
  namespace, \* --namespace of a command
  todo,      \* the pods it has still to unseal, the first one in work
  keys,      \* the keys it has
  given,     \* how many of them it gave for the pod in work
  scope,     \* the pods it is for (history)
  went,      \* the places its calls reached (history)
  bounced,   \* pods that have forgotten keys since it began: they have
             \* restarted, or refused a key of another Vault (history)
  restarts,  \* restarts so far
  saved      \* what became of the keys of an init: "none", "held" by its
             \* command, "written", "logged", "lost", or "replaced" by the
             \* keys of another Vault (history)

cluster == <<vault, sealed, progress, restarts>>
command == <<pc, namespace, todo, keys, given>>
history == <<scope, went, bounced>>
vaultVars == <<cluster, command, history, keyFile, saved>>
vars == <<kubeVars, vaultVars>>

-----------------------------------------------------------------------------
(* Key files *)

Json(k) ==
  [form |-> "json", origin |-> k.origin, shares |-> k.shares, threshold |-> k.threshold]

(* The JSON of an init, or the text of one: the text has no threshold, so *)
(* all its keys are applied; in JSON a missing threshold is 0.            *)
ExtractVaultKeys(f) ==
  [origin |-> f.origin, shares |-> f.shares,
   threshold |-> IF f.form = "text" THEN f.shares ELSE f.threshold]

(* What a user may have kept of the keys of a Vault. *)
Kept(k) ==
  {Json(k), [Json(k) EXCEPT !.threshold = 0]}
  \union {[form |-> "text", origin |-> k.origin, shares |-> n, threshold |-> 0] :
            n \in {1, k.shares}}
AllKept == UNION {Kept(vault[s]) : s \in {t \in Place : vault[t] # None}}

(* Fault: one key fewer than the threshold is applied. *)
ToGiveTooFew(k) == IF k.shares < k.threshold THEN k.shares ELSE k.threshold - 1

(* The loop of UnsealPod *)
ToGive(k) == IF k.shares < k.threshold THEN k.shares ELSE k.threshold

(* Fault: the threshold is not compared with the number of shares. *)
ValidUnordered(f) == f[1] >= 1 /\ f[2] >= 1

Valid(f) == f[1] >= 1 /\ f[2] >= 1 /\ f[2] <= f[1]
KeysFor(s, f) == [origin |-> s, shares |-> f[1], threshold |-> f[2]]
NoKeys == KeysFor(None, <<0, 0>>)

-----------------------------------------------------------------------------
Ended == {"ok", "fatal"}
Running(p) == pc[p] \notin Ended \union {"start"}

Init ==
  /\ KubeInit
  /\ \E f \in [Place -> {g \in Flags : Valid(g)} \union {None}] :
       vault = [s \in Place |-> IF f[s] = None THEN None ELSE KeysFor(s, f[s])]
  /\ keyFile \in AllKept \union {None}
  /\ sealed \in {S \in SUBSET Pod : \A d \in Pod : vault[d[1]] = None => d \in S}
  /\ progress = [d \in Pod |-> {}]
  /\ pc = [p \in Process |-> "start"]
  /\ namespace = [p \in Process |-> None]
  /\ todo = [p \in Process |-> <<>>]
  /\ keys = [p \in Process |-> NoKeys]
  /\ given = [p \in Process |-> 0]
  /\ scope = [p \in Process |-> {}]
  /\ went = [p \in Process |-> {}]
  /\ bounced = [p \in Process |-> {}]
  /\ restarts = 0
  /\ saved = [s \in Place |-> "none"]

Goto(p, s) == pc' = [pc EXCEPT ![p] = s]

(* The process ends with an error and forgets. *)
Forget(p) ==
  /\ Goto(p, "fatal")
  /\ namespace' = [namespace EXCEPT ![p] = None]
  /\ todo' = [todo EXCEPT ![p] = <<>>]
  /\ keys' = [keys EXCEPT ![p] = NoKeys]
  /\ given' = [given EXCEPT ![p] = 0]
  /\ scope' = [scope EXCEPT ![p] = {}]
  /\ went' = [went EXCEPT ![p] = {}]
Fatal(p) ==
  /\ Forget(p)
  /\ bounced' = [bounced EXCEPT ![p] = {}]

(* vaultInitUnseal checks its flags first. *)
StartInitUnseal(p, f) ==
  /\ pc[p] = "start"
  /\ \/ /\ Valid(f)
        /\ keys' = [keys EXCEPT ![p] = KeysFor(None, f)]
        /\ \E n \in Namespace : namespace' = [namespace EXCEPT ![p] = n]
        /\ Goto(p, "list to init")
        /\ UNCHANGED <<todo, given, history>>
     \/ /\ ~Valid(f)
        /\ Fatal(p)
  /\ UNCHANGED <<cluster, keyFile, saved>>

(* vaultUnseal: the keys come from the file or from 1Password, which may   *)
(* hold any of the same forms, of this Vault or of another one; neither or *)
(* both is an error, as are keys that cannot be read or parsed.            *)
StartUnseal(p) ==
  /\ pc[p] = "start"
  /\ \/ Fatal(p)
     \/ \E f \in {keyFile} \union AllKept :
          /\ f \notin {None, Empty, Garbage}
          /\ keys' = [keys EXCEPT ![p] = ExtractVaultKeys(f)]
          /\ \E n \in Namespace : namespace' = [namespace EXCEPT ![p] = n]
          /\ UNCHANGED <<given, went, bounced>>
          /\ \/ /\ Goto(p, "list")
                /\ UNCHANGED <<todo, scope>>
             \/ \E d \in PodName : /\ Goto(p, "unseal")           \* --pod
                                   /\ todo' = [todo EXCEPT ![p] = <<d>>]
                                   /\ scope' = [scope EXCEPT ![p] = {d}]
  /\ UNCHANGED <<cluster, keyFile, saved>>

(* Where a call of p goes now; it fails if no server can be found. *)
Here(p) == <<CurrentServer, namespace[p]>>
Reaches(p) ==
  /\ Here(p) \in Place
  /\ went' = [went EXCEPT ![p] = @ \union {Here(p)}]

(* Without a pod in the namespace the command ends: Fails. *)
GetPods(p) ==
  /\ pc[p] \in {"list", "list to init"}
  /\ Reaches(p) /\ Pods[Here(p)] # <<>>
  /\ todo' = [todo EXCEPT ![p] = Pods[Here(p)]]
  /\ scope' = [scope EXCEPT ![p] = ToSet(Pods[Here(p)])]
  /\ Goto(p, IF pc[p] = "list" THEN "unseal" ELSE "init")
  /\ UNCHANGED <<cluster, keyFile, saved, namespace, keys, given, bounced>>

(* The pod in work, or the one of its name where the calls go now *)
PodHere(p) == <<Here(p), Head(todo[p])>>

(* Fault: init's error is not looked at and its output is saved. *)
VaultInitUnchecked(p) ==
  /\ pc[p] = "init" /\ Reaches(p) /\ PodHere(p) \in Pod
  /\ LET s == Here(p)
         new == IF vault[s] = None THEN [keys[p] EXCEPT !.origin = s] ELSE KeysFor(s, <<0, 0>>)
     IN  /\ vault' = IF vault[s] = None THEN [vault EXCEPT ![s] = new] ELSE vault
         /\ saved' = IF vault[s] = None THEN [saved EXCEPT ![s] = "held"] ELSE saved
         /\ keys' = [keys EXCEPT ![p] = new]
  /\ Goto(p, "save")
  /\ UNCHANGED <<sealed, progress, restarts, keyFile, namespace, todo, given, scope, bounced>>

(* An initialised Vault refuses (Fails); the answer may get lost. *)
VaultInit(p) ==
  /\ pc[p] = "init" /\ Here(p) \in Place /\ PodHere(p) \in Pod
  /\ LET s == Here(p)
         new == [keys[p] EXCEPT !.origin = s]
     IN  /\ vault[s] = None
         /\ vault' = [vault EXCEPT ![s] = new]
         /\ \/ /\ Goto(p, "save")
               /\ Reaches(p)
               /\ keys' = [keys EXCEPT ![p] = new]
               /\ saved' = [saved EXCEPT ![s] = "held"]
               /\ UNCHANGED <<namespace, todo, given, scope, bounced>>
            \/ /\ Fatal(p)
               /\ saved' = [saved EXCEPT ![s] = "lost"]
  /\ UNCHANGED <<sealed, progress, restarts, keyFile>>

(* What becomes of the keys of p's init, and of those that were in the file. *)
Fate(p, fate) ==
  saved' = [s \in Place |->
    IF s = keys[p].origin THEN fate
    ELSE IF saved[s] = "written" /\ keyFile' # keyFile THEN "replaced" ELSE saved[s]]

(* os.WriteFile truncates first.  An error is a warning, and the keys are  *)
(* in the log then.                                                        *)
OpenKeyFile(p) ==
  /\ pc[p] = "save"
  /\ \/ /\ keyFile' = Empty
        /\ Fate(p, "held")
        /\ Goto(p, "saving")
     \/ /\ UNCHANGED keyFile
        /\ Fate(p, "logged")
        /\ Goto(p, "unseal")
  /\ UNCHANGED <<cluster, namespace, todo, keys, given, history>>

(* What another init-unseal has written since the truncation may stay at   *)
(* the end of the file, which is no JSON then.                             *)
WriteKeyFile(p) ==
  /\ pc[p] = "saving"
  /\ \/ /\ keyFile' = Json(keys[p])
        /\ Fate(p, "written")
     \/ /\ keyFile # Empty
        /\ keyFile' = Garbage
        /\ Fate(p, "replaced")
     \/ /\ keyFile' \in {keyFile, Garbage}
        /\ Fate(p, "logged")
  /\ Goto(p, "unseal")
  /\ UNCHANGED <<cluster, namespace, todo, keys, given, history>>

-----------------------------------------------------------------------------
(* UnsealPod *)

WithKey(p) == progress[PodHere(p)] \union {<<keys[p].origin, given[p] + 1>>}
Enough(p) == Cardinality(WithKey(p)) >= vault[Here(p)].threshold

CallsUnseal(p) ==
  /\ pc[p] = "unseal" /\ given[p] < ToGive(keys[p])
  /\ Here(p) \in Place /\ PodHere(p) \in Pod /\ vault[Here(p)] # None
  /\ UNCHANGED <<vault, restarts, keyFile, saved>>

(* A pod that is not sealed takes a key without a change; keys are counted *)
(* once, whoever gave them, until the threshold is met.                    *)
TakeKey(p) ==
  \/ /\ PodHere(p) \notin sealed
     /\ UNCHANGED <<sealed, progress>>
  \/ /\ PodHere(p) \in sealed /\ ~Enough(p)
     /\ progress' = [progress EXCEPT ![PodHere(p)] = WithKey(p)]
     /\ UNCHANGED sealed
  \/ /\ PodHere(p) \in sealed /\ Enough(p)
     /\ \A k \in WithKey(p) : k[1] = Here(p)
     /\ progress' = [progress EXCEPT ![PodHere(p)] = {}]
     /\ sealed' = sealed \ {PodHere(p)}

(* The answer may be lost: the command ends although the key was taken. *)
GiveKey(p) ==
  /\ CallsUnseal(p)
  /\ TakeKey(p)
  /\ \/ /\ Reaches(p)
        /\ given' = [given EXCEPT ![p] = @ + 1]
        /\ UNCHANGED <<pc, namespace, todo, keys, scope, bounced>>
     \/ Fatal(p)

(* Pod d forgets the keys it was given while commands were at work. *)
Bounce(d) ==
  [q \in Process |-> IF pc[q] \in {"start", "fatal"} THEN bounced[q] ELSE bounced[q] \union {d}]

(* With a key of another Vault among them the pod refuses the last one and *)
(* forgets them all.                                                       *)
KeyRefused(p) ==
  /\ CallsUnseal(p)
  /\ PodHere(p) \in sealed /\ Enough(p)
  /\ \E k \in WithKey(p) : k[1] # Here(p)
  /\ progress' = [progress EXCEPT ![PodHere(p)] = {}]
  /\ Forget(p)
  /\ bounced' = [Bounce(PodHere(p)) EXCEPT ![p] = {}]
  /\ UNCHANGED sealed

AllGiven(p) ==
  /\ pc[p] = "unseal" /\ given[p] >= ToGive(keys[p])
  /\ Goto(p, "wait")
  /\ UNCHANGED <<cluster, keyFile, saved, namespace, todo, keys, given, history>>

NextPod(p) ==
  /\ todo' = [todo EXCEPT ![p] = Tail(@)]
  /\ given' = [given EXCEPT ![p] = 0]
  /\ Goto(p, IF Len(todo[p]) = 1 THEN "ok" ELSE "unseal")
  /\ UNCHANGED <<cluster, keyFile, saved, namespace, keys, scope, bounced>>

(* Fault: kubectl wait's result is not looked at. *)
WaitUnchecked(p) ==
  /\ pc[p] = "wait" /\ Reaches(p)
  /\ NextPod(p)

(* A pod is ready only when it is unsealed: that of the name where the     *)
(* call goes.                                                              *)
WaitForPodReady(p) ==
  /\ pc[p] = "wait" /\ Reaches(p)
  /\ PodHere(p) \in Pod \ sealed
  /\ NextPod(p)

(* A kubectl call fails or finds no server or no pod, kubectl wait gives    *)
(* up after 60 s, or the process is killed, perhaps while it writes.        *)
Fails(p) ==
  /\ Running(p)
  /\ Fatal(p)
  /\ keyFile' \in {keyFile} \union (IF pc[p] = "saving" THEN {Garbage} ELSE {})
  /\ IF pc[p] \in {"save", "saving"} THEN Fate(p, "lost") ELSE UNCHANGED saved
  /\ UNCHANGED cluster

(* The pod restarts, or somebody resets its unsealing. *)
Restart(d) ==
  /\ restarts < MaxRestarts
  /\ restarts' = restarts + 1
  /\ sealed' = sealed \union {d}
  /\ progress' = [progress EXCEPT ![d] = {}]
  /\ bounced' = Bounce(d)
  /\ UNCHANGED <<vault, command, keyFile, scope, went, saved>>

-----------------------------------------------------------------------------
VaultStep(p) ==
  \/ \E f \in Flags : StartInitUnseal(p, f)
  \/ StartUnseal(p) \/ GetPods(p) \/ VaultInit(p) \/ OpenKeyFile(p) \/ WriteKeyFile(p)
  \/ GiveKey(p) \/ KeyRefused(p) \/ AllGiven(p) \/ WaitForPodReady(p) \/ Fails(p)

Next ==
  \/ (\E p \in Process : VaultStep(p)) /\ UNCHANGED kubeVars
  \/ (\E d \in Pod : Restart(d)) /\ UNCHANGED kubeVars
  \/ KubeNext /\ UNCHANGED vaultVars

Spec == Init /\ [][Next]_vars

-----------------------------------------------------------------------------
(* Every variable has its type: what a command has still to unseal is one  *)
(* pod or the end of a list, and a pod that has been given keys waits for  *)
(* more.                                                                   *)
TypeOK ==
  /\ KubeTypeOK
  /\ vault \in [Place -> Keys \union {None}]
  /\ \A s \in Place : vault[s] # None => /\ vault[s].origin = s
                                         /\ vault[s].threshold \in 1..vault[s].shares
  /\ keyFile \in KeyText \union {None, Empty, Garbage}
  /\ sealed \subseteq Pod
  /\ \A d \in Pod : progress[d] # {} => /\ d \in sealed /\ vault[d[1]] # None
                                        /\ Cardinality(progress[d]) < vault[d[1]].threshold
  /\ pc \in [Process -> Ended \union {"start", "list", "list to init", "init", "save",
                                      "saving", "unseal", "wait"}]
  /\ namespace \in [Process -> Namespace \union {None}]
  /\ keys \in [Process -> Keys]
  /\ \A p \in Process :
       /\ \/ todo[p] = <<>>
          \/ \E d \in PodName : todo[p] = <<d>>
          \/ \E s \in Place : \E i \in 1..Len(Pods[s]) : todo[p] = SubSeq(Pods[s], i, Len(Pods[s]))
       /\ given[p] \in 0..keys[p].shares
       /\ scope[p] \subseteq PodName /\ went[p] \subseteq Place /\ bounced[p] \subseteq Pod
  /\ restarts \in 0..MaxRestarts
  /\ saved \in [Place -> {"none", "held", "written", "logged", "lost", "replaced"}]

(* The unseal keys that an init-unseal made are not lost while it went on: *)
(* until it has written or logged them it holds them itself, and what it   *)
(* has written stays whole in the key file, whatever other commands of     *)
(* either kind do.  Only an answer that never arrived, a process that died *)
(* before the file was written, or the init-unseal of another Vault with   *)
(* the same --path loses them: one for the same Vault is refused before it *)
(* gets to the file, however the two overlap.                              *)
KeysKept ==
  \A s \in Place :
    /\ saved[s] = "written" => keyFile = Json(vault[s])
    /\ saved[s] = "held" => \E p \in Process : pc[p] \in {"save", "saving"} /\ keys[p] = vault[s]

(* A command that has the keys of a Vault, at least as many as it asks     *)
(* for, and has given one of its pods as many as it gives, finds it        *)
(* unsealed, whatever right keys other commands gave it in between and     *)
(* wherever theirs went.  Not so if the pod has restarted, or has refused  *)
(* another command's keys of another Vault and forgotten all it had.  All  *)
(* its calls must have gone there; the kubeconfig file may lead them       *)
(* elsewhere.                                                              *)
EnoughKeysUnseal ==
  \A p \in Process, s \in Place :
    /\ pc[p] = "wait" /\ went[p] = {s} /\ keys[p].origin = s
    /\ keys[p].shares >= vault[s].threshold /\ keys[p].threshold >= vault[s].threshold
    => <<s, Head(todo[p])>> \notin sealed \ bounced[p]

(* When a command has reported success every pod it was for is unsealed at *)
(* a place its calls went to, unless that pod restarted after the command  *)
(* began, even when its keys were too few or not the right ones and        *)
(* another command unsealed the pod.  If the kubeconfig file did not       *)
(* change under the command, that is the only place there is; if it did,   *)
(* the pod that got the keys may still be sealed.                          *)
SuccessMeansUnsealed ==
  \A p \in Process : pc[p] = "ok" =>
    \A d \in scope[p] : \E s \in went[p] : <<s, d>> \notin sealed \ bounced[p]
=============================================================================
