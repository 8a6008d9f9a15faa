-------------------------- MODULE MCDaemonSupervisor --------------------------
(* Instances of DaemonSupervisor for TLC. *)
EXTENDS DaemonSupervisor

CONSTANT l1

(* l1 goes before l2 and l3. *)
Priority == [l \in Loops |-> IF l = l1 THEN 1 ELSE 0]
Flat == [l \in Loops |-> 0]

(* Sound with Priority: the loops but l1 are alike. *)
Symmetric == Permutations(Loops \ {l1})

=============================================================================
