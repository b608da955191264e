------------------------------ MODULE LoadReport ------------------------------
(***************************************************************************)
(* What a load test promises, whatever its workers do: requests are issued *)
(* within the limit, each one ends up counted in the report or dropped     *)
(* because its context was over, none twice, and the report is published   *)
(* only when nothing is open any more, after which nothing is issued.      *)
(* cmd/api/load/load.go implements it (see ApiLoad).                       *)
(***************************************************************************)
EXTENDS Naturals

VARIABLES limit,     \* the number of requests asked for, 0 for no limit
          issued,    \* requests started
          open,      \* of those, neither counted nor dropped yet
          counted,   \* requests in the report
          dropped,   \* requests whose context was over
          published  \* the report is final

vars == <<limit, issued, open, counted, dropped, published>>

Init ==
  /\ limit \in Nat
  /\ issued = 0 /\ open = 0 /\ counted = 0 /\ dropped = 0
  /\ published = FALSE

Issue ==
  /\ ~published
  /\ limit = 0 \/ issued < limit
  /\ issued' = issued + 1
  /\ open' = open + 1
  /\ UNCHANGED <<limit, counted, dropped, published>>

Count ==
  /\ ~published /\ open > 0
  /\ open' = open - 1
  /\ counted' = counted + 1
  /\ UNCHANGED <<limit, issued, dropped, published>>

Drop ==
  /\ ~published /\ open > 0
  /\ open' = open - 1
  /\ dropped' = dropped + 1
  /\ UNCHANGED <<limit, issued, counted, published>>

Publish ==
  /\ ~published /\ open = 0
  /\ published' = TRUE
  /\ UNCHANGED <<limit, issued, open, counted, dropped>>

Next == Issue \/ Count \/ Drop \/ Publish

Spec == Init /\ [][Next]_vars
=============================================================================
