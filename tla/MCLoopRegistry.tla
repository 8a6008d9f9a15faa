---------------------------- MODULE MCLoopRegistry ----------------------------
(* Instances of LoopRegistry for TLC. *)
EXTENDS LoopRegistry, TLC

CONSTANTS p1, p2, p3

Some == {p1}
NoProcs == {}

(* Sound where no process is singled out. *)
Symmetric == Permutations(Procs)

=============================================================================
