--------------------------------- MODULE Scan ---------------------------------
(***************************************************************************)
(* What a port scan promises, however its probes are scheduled: every port *)
(* of the range is decided once, a port is found only if it can answer,    *)
(* and the scan returns once no port is undecided.  PortScan implements it.*)
(***************************************************************************)
EXTENDS Naturals

VARIABLES todo,      \* ports not decided yet
          found,     \* ports found open
          answering, \* ports that accept connections
          returned   \* the result is final

vars == <<todo, found, answering, returned>>

Init ==
  /\ todo \subseteq Nat
  /\ found = {}
  /\ answering \subseteq Nat
  /\ returned = FALSE

Find(p) ==
  /\ p \in todo \cap answering
  /\ todo' = todo \ {p}
  /\ found' = found \cup {p}
  /\ UNCHANGED <<answering, returned>>

Miss(p) ==
  /\ p \in todo
  /\ todo' = todo \ {p}
  /\ UNCHANGED <<found, answering, returned>>

Return ==
  /\ ~returned /\ todo = {}
  /\ returned' = TRUE
  /\ UNCHANGED <<todo, found, answering>>

Next == Return \/ \E p \in todo : Find(p) \/ Miss(p)

Spec == Init /\ [][Next]_vars
=============================================================================
