------------------------- MODULE MCExecutorRegistry -------------------------
(* Instances of ExecutorRegistry for TLC. *)
EXTENDS ExecutorRegistry

CONSTANTS m1, s1, s2

=============================================================================
