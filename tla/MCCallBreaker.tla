----------------------------- MODULE MCCallBreaker -----------------------------
(* Instance of CallBreaker for TLC: more coroutines than probes. *)
EXTENDS CallBreaker

=============================================================================
