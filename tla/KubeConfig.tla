------------------------------ MODULE KubeConfig ------------------------------
(***************************************************************************)
(* `vpd k8s add-context` and `remove-context`: processes that read the     *)
(* kubeconfig file, change what they read and write the whole file back    *)
(* (cmd/k8s/add_context and cmd/k8s/remove_context).                       *)
(*                                                                         *)
(* clientcmd.WriteToFile takes no lock and is os.WriteFile underneath: the *)
(* file is truncated, then written.  clientcmd.LoadFromFile checks nothing *)
(* but the syntax: an empty file reads as a configuration without entries, *)
(* and the beginning of a text as what it still holds.                     *)
(***************************************************************************)
CONSTANTS Admin,   \* processes, each of which runs one command
          Name,    \* names of contexts and of clusters
          Server,  \* what a cluster entry points to
          Input,   \* the configurations that are merged
          Empty,   \* an empty file
          Broken,  \* a file that does not parse
          None

(* Users (AuthInfos) are treated as clusters are and left out. *)
Config == [contexts : [Name -> Name \union {None}],   \* the context's cluster
           clusters : [Name -> Server \union {None}],
           current : Name \union {None}]
NewConfig == [contexts |-> [n \in Name |-> None], clusters |-> [n \in Name |-> None],
              current |-> None]

ContextsOf(c) == {n \in Name : c.contexts[n] # None}
ClustersOf(c) == {n \in Name : c.clusters[n] # None}

(* A configuration that somebody could use: its current context and the   *)
(* clusters of its contexts exist.                                        *)
Usable(c) == /\ c.current \in ContextsOf(c) \union {None}
             /\ \A n \in ContextsOf(c) : c.contexts[n] \in ClustersOf(c)
Unusable == {c \in Config : ~Usable(c)}

ASSUME InputAssumption == Input \subseteq Config
ASSUME FileAssumption == {None, Empty, Broken} \cap Config = {}

VARIABLES
  config,  \* the file
  at,      \* where each process is
  made,    \* the configuration it is about to write
  touched, \* the names its command is about (history)
  alone,   \* the configuration it found, while it has run alone (history)
  damaged  \* an unusable configuration came from the user, or from a
           \* write that was cut off or mixed with another (history)

kubeVars == <<config, at, made, touched, alone, damaged>>

-----------------------------------------------------------------------------
KubeInit ==
  /\ config \in Input \union {None}
  /\ at = [a \in Admin |-> "start"]
  /\ made = [a \in Admin |-> NewConfig]
  /\ touched = [a \in Admin |-> {}]
  /\ alone = [a \in Admin |-> None]
  /\ damaged = (config \in Unusable)

(* What clientcmd reads *)
Found == IF config \in {None, Empty} THEN NewConfig ELSE config

Overlay(old, new) == [n \in Name |-> IF new[n] = None THEN old[n] ELSE new[n]]

(* Fault: the new file's current context is always taken. *)
MergedSwitching(old, new) ==
  [contexts |-> Overlay(old.contexts, new.contexts),
   clusters |-> Overlay(old.clusters, new.clusters),
   current |-> new.current]

(* The entries of the new file replace those of the same name; an existing *)
(* current context stays.                                                  *)
Merged(old, new) ==
  [contexts |-> Overlay(old.contexts, new.contexts),
   clusters |-> Overlay(old.clusters, new.clusters),
   current |-> IF old.current = None THEN new.current ELSE old.current]

(* Fault: the current context stays when it is the one removed. *)
WithoutContextOnly(c, n) == [c EXCEPT !.contexts[n] = None]

(* The cluster and the user of the context stay. *)
Without(c, n) ==
  [contexts |-> [c.contexts EXCEPT ![n] = None],
   clusters |-> c.clusters,
   current |-> IF c.current = n THEN None ELSE c.current]

(* A list of entries that is cut off: some are missing, and the last one   *)
(* may have lost a part of its name or of its value.                       *)
Partial(g, f) == \E n \in Name : \A m \in Name \ {n} : g[m] \in {f[m], None}

(* What may be read of the beginning of c's text, in which the clusters    *)
(* come before the contexts and these before the current context.         *)
Cut(c) == {l \in Config :
  \/ /\ Partial(l.clusters, c.clusters)
     /\ ContextsOf(l) = {} /\ l.current = None
  \/ /\ l.clusters = c.clusters
     /\ Partial(l.contexts, c.contexts) /\ l.current = None
  \/ /\ l.clusters = c.clusters /\ l.contexts = c.contexts
     /\ c.current = None => l.current = None}

Proceed(a, s) ==
  at' = [at EXCEPT ![a] = s]

Make(a, c, names) ==
  /\ made' = [made EXCEPT ![a] = c]
  /\ touched' = [touched EXCEPT ![a] = names]
  /\ alone' = IF \E b \in Admin \ {a} : at[b] \in {"write", "writing"}
              THEN [b \in Admin |-> None]
              ELSE [alone EXCEPT ![a] = Found]
  /\ Proceed(a, "write")

(* logger.Fatalf: the home directory, the given file, a file that does not *)
(* parse, or one that cannot be opened for writing                         *)
Refuse(a) ==
  /\ at[a] \in {"start", "write"}
  /\ Proceed(a, "fatal")
  /\ UNCHANGED <<config, made, touched, alone, damaged>>

(* Nobody checks that what is merged can be used. *)
AddContext(a, new) ==
  /\ at[a] = "start" /\ config # Broken
  /\ Make(a, Merged(Found, new), ContextsOf(new) \union ClustersOf(new))
  /\ damaged' = (damaged \/ new \in Unusable)
  /\ UNCHANGED config

(* A name that is not there is an error. *)
RemoveContext(a, n) ==
  /\ at[a] = "start" /\ config \notin {Broken, None}
  /\ n \in ContextsOf(Found)
  /\ Make(a, Without(Found, n), {n})
  /\ UNCHANGED <<config, damaged>>

Truncate(a) ==
  /\ at[a] = "write"
  /\ config' = Empty
  /\ Proceed(a, "writing")
  /\ UNCHANGED <<made, touched, alone, damaged>>

(* What another process has written since the truncation may stay at the  *)
(* end of the file, which may then read as anything.                      *)
Write(a) ==
  /\ at[a] = "writing"
  /\ config' \in {made[a]} \union (IF config = Empty THEN {} ELSE Config \union {Broken})
  /\ damaged' = (damaged \/ config' \in Unusable \ {made[a]})
  /\ Proceed(a, "ok")
  /\ UNCHANGED <<made, touched, alone>>

(* The write fails, or the process is killed while it writes. *)
Torn(a) ==
  /\ at[a] = "writing"
  /\ config' \in {config, Broken} \union (IF config = Empty THEN Cut(made[a]) ELSE Config)
  /\ damaged' = (damaged \/ config' \in Unusable)
  /\ Proceed(a, "fatal")
  /\ UNCHANGED <<made, touched, alone>>

KubeNext == \E a \in Admin :
  \/ Refuse(a) \/ Truncate(a) \/ Write(a) \/ Torn(a)
  \/ \E new \in Input : AddContext(a, new)
  \/ \E n \in Name : RemoveContext(a, n)

KubeSpec == KubeInit /\ [][KubeNext]_kubeVars

(* The server that the current context names, for the programs that read   *)
(* the file: clientcmd's loading rules refuse a context or a cluster that  *)
(* is not there.                                                           *)
CurrentServer ==
  IF config = Broken \/ Found.current \notin ContextsOf(Found) THEN None
  ELSE LET cluster == Found.contexts[Found.current]
       IN  IF cluster \in ClustersOf(Found) THEN Found.clusters[cluster] ELSE None

-----------------------------------------------------------------------------
(* Every variable has its type. *)
KubeTypeOK ==
  /\ config \in Config \union {None, Empty, Broken}
  /\ at \in [Admin -> {"start", "write", "writing", "ok", "fatal"}]
  /\ made \in [Admin -> Config]
  /\ touched \in [Admin -> SUBSET Name]
  /\ alone \in [Admin -> Config \union {None}]
  /\ damaged \in BOOLEAN

(* The commands themselves never spoil the file: however they overlap,     *)
(* whatever one of them reads while another is writing and whichever of    *)
(* them writes last, the current context exists, and so does the cluster   *)
(* of every context, although remove-context never looks at clusters and   *)
(* add-context keeps the old current context.  Only the user's files or a  *)
(* write that was cut off or mixed bring in what cannot be used.           *)
AlwaysUsable == config \in Unusable => damaged

(* A command during which no other one worked on the file changes nothing  *)
(* but the entries it was asked to: other contexts and clusters stay as    *)
(* they were, and the current context changes only if there was none or it *)
(* is the one removed.                                                     *)
NamedOnly(a) ==
  at[a] = "writing" /\ at'[a] = "ok" /\ alone[a] # None =>
    /\ config' # Broken
    /\ \A n \in Name \ touched[a] :
         /\ config'.contexts[n] = alone[a].contexts[n]
         /\ config'.clusters[n] = alone[a].clusters[n]
    /\ config'.current # alone[a].current =>
         \/ alone[a].current = None
         \/ alone[a].current \notin ContextsOf(config')
WritesNamedOnly == \A a \in Admin : NamedOnly(a)
OnlyNamedEntriesChange == [][WritesNamedOnly]_kubeVars
=============================================================================
