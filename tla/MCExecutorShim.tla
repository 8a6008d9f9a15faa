---------------------------- MODULE MCExecutorShim ----------------------------
(* Instances of ExecutorShim for TLC. *)
EXTENDS ExecutorShim

CONSTANT l1

Flat == [l \in Loops |-> 0]

(* Sound with Flat and Asking = {l1}: the other loops are alike. *)
Symmetric == Permutations(Loops \ {l1})

=============================================================================
