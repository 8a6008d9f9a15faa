-------------------------- MODULE MCSandboxRegistry --------------------------
(* Instances of SandboxRegistry for TLC. *)
EXTENDS SandboxRegistry

=============================================================================
