-------------------------- MODULE MCAgentSupervisor --------------------------
(* Instances of AgentSupervisor for TLC. *)
EXTENDS AgentSupervisor

CONSTANT Watched  \* bound: the tasks whose end is followed

(* A watched task that runs is settled in the end, and one that waits is   *)
(* too unless a later task of a higher priority overtakes it (Settles).    *)
(* Tasks differ in their number and priority only; the third of four may   *)
(* find both slots taken and be overtaken by the fourth.                   *)
WatchedSettle == \A t \in Watched : Settles(t)

=============================================================================
