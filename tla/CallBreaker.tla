----------------------------- MODULE CallBreaker -----------------------------
(***************************************************************************)
(* The circuit breaker around calls of external services (Python).         *)
(*                                                                         *)
(* Several coroutines share one breaker.  call() has three blocks under    *)
(* the breaker's lock: admission, success and failure.  None of them       *)
(* awaits, so each is one step; between admission and outcome the          *)
(* coroutine awaits the service, and the breaker may change any number of  *)
(* times.  A coroutine cancelled at that await runs no further block:      *)
(* CancelledError is no Exception.                                         *)
(***************************************************************************)
EXTENDS Integers, FiniteSets

CONSTANTS
  Calls,             \* coroutines that use the breaker, one call at a time
  FailureThreshold,
  HalfOpenMaxCalls

ASSUME CallsFinite == IsFiniteSet(Calls)
ASSUME LimitsAssumption == /\ FailureThreshold \in Nat \ {0}
                           /\ HalfOpenMaxCalls \in Nat \ {0}

VARIABLES
  state,          \* _state
  failures,       \* _failures, which is only compared: it stops at the threshold
  cooled,         \* recovery_timeout has passed since _last_failure_time
  halfOpenCalls,  \* _half_open_calls
  call,           \* where each coroutine is: not in call(), awaiting the
                  \* service as a probe of the last HALF_OPEN period, or
                  \* awaiting it since before that
  lost            \* history: probes of that period that were cancelled

vars == <<state, failures, cooled, halfOpenCalls, call, lost>>

Awaiting(c) == call[c] # "idle"

Probes == {c \in Calls : call[c] = "probe"}

Init ==
  /\ state = "CLOSED"
  /\ failures = 0
  /\ cooled = FALSE
  /\ halfOpenCalls = 0
  /\ call = [c \in Calls |-> "idle"]
  /\ lost = 0

-----------------------------------------------------------------------------
(* Admission.  A refused call raises CircuitOpenError and changes nothing. *)

AdmitClosed(c) ==
  /\ call[c] = "idle"
  /\ state = "CLOSED"
  /\ call' = [call EXCEPT ![c] = "earlier"]
  /\ UNCHANGED <<state, failures, cooled, halfOpenCalls, lost>>

(* Mutant of AdmitFirstProbe: the count of the last period is kept. *)
FirstProbeKeepsCount(c) ==
  /\ call[c] = "idle"
  /\ state = "OPEN" /\ cooled
  /\ halfOpenCalls < HalfOpenMaxCalls
  /\ state' = "HALF_OPEN"
  /\ halfOpenCalls' = halfOpenCalls + 1
  /\ call' = [d \in Calls |-> IF d = c THEN "probe"
                              ELSE IF Awaiting(d) THEN "earlier" ELSE "idle"]
  /\ lost' = 0
  /\ UNCHANGED <<failures, cooled>>

(* The first call after the recovery timeout opens a HALF_OPEN period.     *)
AdmitFirstProbe(c) ==
  /\ call[c] = "idle"
  /\ state = "OPEN" /\ cooled
  /\ state' = "HALF_OPEN"
  /\ halfOpenCalls' = 1
  /\ call' = [d \in Calls |-> IF d = c THEN "probe"
                              ELSE IF Awaiting(d) THEN "earlier" ELSE "idle"]
  /\ lost' = 0
  /\ UNCHANGED <<failures, cooled>>

AdmitProbe(c) ==
  /\ call[c] = "idle"
  /\ state = "HALF_OPEN" /\ halfOpenCalls < HalfOpenMaxCalls
  /\ halfOpenCalls' = halfOpenCalls + 1
  /\ call' = [call EXCEPT ![c] = "probe"]
  /\ UNCHANGED <<state, failures, cooled, lost>>

-----------------------------------------------------------------------------
(* Outcomes.  Whatever the state is by now, and whenever the call began.   *)

(* Mutant of Succeed: closes, and keeps the failures. *)
SucceedKeepsFailures(c) ==
  /\ Awaiting(c)
  /\ call' = [call EXCEPT ![c] = "idle"]
  /\ state' = "CLOSED"
  /\ UNCHANGED <<failures, cooled, halfOpenCalls, lost>>

Succeed(c) ==
  /\ Awaiting(c)
  /\ call' = [call EXCEPT ![c] = "idle"]
  /\ state' = "CLOSED"
  /\ failures' = 0
  /\ cooled' = FALSE
  /\ UNCHANGED <<halfOpenCalls, lost>>

(* Mutant of Fail: only a CLOSED circuit trips. *)
FailTripsClosedOnly(c) ==
  /\ Awaiting(c)
  /\ call' = [call EXCEPT ![c] = "idle"]
  /\ failures' = IF failures < FailureThreshold THEN failures + 1 ELSE failures
  /\ state' = IF failures' = FailureThreshold /\ state = "CLOSED"
              THEN "OPEN" ELSE state
  /\ cooled' = FALSE
  /\ UNCHANGED <<halfOpenCalls, lost>>

Fail(c) ==
  /\ Awaiting(c)
  /\ call' = [call EXCEPT ![c] = "idle"]
  /\ failures' = IF failures < FailureThreshold THEN failures + 1 ELSE failures
  /\ state' = IF failures' = FailureThreshold THEN "OPEN" ELSE state
  /\ cooled' = FALSE
  /\ UNCHANGED <<halfOpenCalls, lost>>

Cancel(c) ==
  /\ Awaiting(c)
  /\ call' = [call EXCEPT ![c] = "idle"]
  /\ lost' = IF call[c] = "probe" THEN lost + 1 ELSE lost
  /\ UNCHANGED <<state, failures, cooled, halfOpenCalls>>

(* The clock: the comparison with recovery_timeout turns true. *)
Elapse ==
  /\ state = "OPEN" /\ ~cooled
  /\ cooled' = TRUE
  /\ UNCHANGED <<state, failures, halfOpenCalls, call, lost>>

Return(c) == Succeed(c) \/ Fail(c) \/ Cancel(c)

Next ==
  \/ \E c \in Calls :
       \/ AdmitClosed(c) \/ AdmitFirstProbe(c) \/ AdmitProbe(c)
       \/ Return(c)
  \/ Elapse

Spec == Init /\ [][Next]_vars

(* A service call ends, by an answer, an error or a cancellation; nobody   *)
(* has to make another call.                                               *)
FairSpec == Spec /\ \A c \in Calls : WF_vars(Return(c))

-----------------------------------------------------------------------------
TypeOK ==
  /\ state \in {"CLOSED", "OPEN", "HALF_OPEN"}
  /\ failures \in 0 .. FailureThreshold
  /\ cooled \in BOOLEAN
  /\ halfOpenCalls \in 0 .. HalfOpenMaxCalls
  /\ call \in [Calls -> {"idle", "probe", "earlier"}]
  /\ lost \in Nat

(* The circuit is closed exactly while the failures counted are below the  *)
(* threshold, however late the calls of an earlier state return.  On this  *)
(* rests that one failing probe opens the circuit again (line 62).         *)
ClosedBelowThreshold == (state = "CLOSED") <=> (failures < FailureThreshold)

(* In HALF_OPEN every call that was counted is still under way or was      *)
(* cancelled: any other outcome has left HALF_OPEN.  So the limit of line  *)
(* 45 can shut the circuit for good only when that many calls were         *)
(* cancelled.                                                              *)
ProbesAccounted ==
  state = "HALF_OPEN" => halfOpenCalls = lost + Cardinality(Probes)

(* A HALF_OPEN period ends, unless every call it admitted was cancelled.   *)
PeriodEnds ==
  state = "HALF_OPEN" ~> (state # "HALF_OPEN" \/ halfOpenCalls = lost)

=============================================================================
