--------------------------- MODULE FailureBreaker ---------------------------
(***************************************************************************)
(* ConsecutiveFailureCircuitBreaker, as operators on its state.            *)
(*                                                                         *)
(* "elapsed" is OPEN with its cooldown over and its timer not yet run:     *)
(* either the timer or the next canExecute() moves it on to HALF_OPEN.     *)
(*                                                                         *)
(* The code also keeps _activeProbes, which starts at 0 and which no line  *)
(* increments: the probe limit of HALF_OPEN never refuses anything, and    *)
(* the model leaves the counter out.                                       *)
(***************************************************************************)
EXTENDS Integers

CONSTANT FailureThreshold  \* options.failureThreshold

ASSUME BreakerAssumption == FailureThreshold \in Nat \ {0}

CircuitStates == {"closed", "open", "elapsed", "half-open"}

(* The counter is only compared with the threshold, so the model stops     *)
(* counting there.                                                         *)
Breakers == [state : CircuitStates, failures : 0 .. FailureThreshold]

Closed == [state |-> "closed", failures |-> 0]

(* canExecute(): its answer, and the breaker after the call. *)
CanExecute(b) == b.state # "open"

Checked(b) == IF b.state = "elapsed" THEN [b EXCEPT !.state = "half-open"] ELSE b

(* recordSuccess(): the counter is reset in every state. *)
Succeeded(b) ==
  [state    |-> IF b.state = "half-open" THEN "closed" ELSE b.state,
   failures |-> 0]

(* Mutant of Failed: the circuit trips one failure late. *)
FailedTripsLate(b) ==
  LET n == IF b.failures < FailureThreshold THEN b.failures + 1 ELSE b.failures
      trips == \/ b.state = "half-open"
               \/ b.state = "closed" /\ b.failures = FailureThreshold
  IN  [state |-> IF trips THEN "open" ELSE b.state, failures |-> n]

(* recordFailure(). *)
Failed(b) ==
  LET n == IF b.failures < FailureThreshold THEN b.failures + 1 ELSE b.failures
      trips == \/ b.state = "half-open"
               \/ b.state = "closed" /\ n = FailureThreshold
  IN  [state |-> IF trips THEN "open" ELSE b.state, failures |-> n]

=============================================================================
