------------------------------ MODULE MCTaskStore ------------------------------
(* Instances of TaskStore for TLC. *)
EXTENDS TaskStore

=============================================================================
