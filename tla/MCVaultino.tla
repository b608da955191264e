------------------------------ MODULE MCVaultino ------------------------------
(* Instance of Vaultino: two processes, three commands in a behaviour.      *)
EXTENDS Vaultino, TLC

MCCut == [format |-> None, value |-> None]
MCText == {[format |-> "json", value |-> "a"], [format |-> "env", value |-> "b"], MCCut}
MCSymmetry == Permutations(Password) \union Permutations(Process)
=============================================================================
