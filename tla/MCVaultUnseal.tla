----------------------------- MODULE MCVaultUnseal -----------------------------
(* Instance of VaultUnseal: any two of two Vault commands and two commands    *)
(* that change the kubeconfig file; Vaults in two namespaces of a server and  *)
(* one on another server, with pods of the same name.                         *)
EXTENDS VaultUnseal, TLC

CONSTANTS d1, d2, c1, c2, s1, s2, n1, n2

MCPods == [s \in Place |->
  CASE s = <<s1, n1>> -> <<d1, d2>> [] s = <<s2, n2>> -> <<>> [] OTHER -> <<d1>>]
MCFlags == {<<3, 2>>, <<1, 2>>}

(* Two files that name their context and cluster alike, as generated ones    *)
(* often do, so that merging one redirects the other, and one whose context  *)
(* needs their cluster.                                                      *)
MCInput ==
  {[contexts |-> (c1 :> c1 @@ c2 :> None), clusters |-> (c1 :> s @@ c2 :> None), current |-> c1] :
     s \in Server}
  \union {[contexts |-> (c1 :> None @@ c2 :> c1), clusters |-> (c1 :> None @@ c2 :> None),
           current |-> c2]}
MCSymmetry == Permutations(Process) \union Permutations(Admin)

-----------------------------------------------------------------------------
(* Bounds *)

Initialised == {s \in Place : vault[s] # None}

(* The commands that were not refused at once: those for a Vault that have   *)
(* not ended with an error, and those for the file that have not or have     *)
(* read it                                                                   *)
AtVault == {p \in Process : pc[p] # "fatal"}
AtFile == {a \in Admin : at[a] # "fatal" \/ touched[a] # {}}
Both == Cardinality(AtVault) + Cardinality(AtFile)

(* The pods are all sealed or, if one Vault command runs, all unsealed to    *)
(* begin with, and the key file is whole; no pod restarts before a command   *)
(* begins.                                                                   *)
SmallStart ==
  /\ restarts = 0
  /\ keyFile \in {None} \union {Json(vault[s]) : s \in Initialised}
  /\ sealed \in {Pod, {d \in Pod : d[1] \notin Initialised}}
  /\ AtFile = {} => sealed = Pod

(* Two of the four commands are refused at once, before the other two begin. *)
TwoOfFour ==
  /\ Both > 2 => /\ \A p \in AtVault : pc[p] = "start"
                 /\ \A a \in AtFile : at[a] = "start"
  /\ Both > 1 /\ (\A p \in AtVault : pc[p] = "start") => SmallStart

(* Two Vault commands are at work on the first server; a Vault command and   *)
(* one that changes the file, in the first namespace; and two that change    *)
(* the file, without a Vault.                                                *)
WhoIsWhere ==
  CASE Both > 2 \/ Both < 2 -> TRUE
    [] AtFile = {} -> Initialised \subseteq {s1} \X Namespace /\ CurrentServer = s1
    [] AtVault = {} -> Initialised = {}
    [] OTHER -> /\ Initialised \subseteq Server \X {n1}
                /\ \A p \in AtVault : namespace[p] # n2

(* A Vault command finds no server in any file that names none: one of them  *)
(* is enough.                                                               *)
OneWithoutServer ==
  AtVault # {} /\ damaged /\ CurrentServer = None => config \in Input \union {Empty, Broken}

(* The restart of a pod whose Vault has no keys yet changes nothing. *)
RestartsMatter == \A p \in Process : \A d \in bounced[p] : d[1] \in Initialised

Bounds == TwoOfFour /\ WhoIsWhere /\ OneWithoutServer /\ RestartsMatter
=============================================================================
