------------------------------ MODULE MCPtyBridge ------------------------------
(* Instances of PtyBridge for TLC. *)
EXTENDS PtyBridge

=============================================================================
