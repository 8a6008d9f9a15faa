-------------------------- MODULE CallBreakerProofs --------------------------
(***************************************************************************)
(* What holds of CallBreaker for any number of coroutines, any threshold   *)
(* and any limit of probes.                                                *)
(***************************************************************************)
EXTENDS CallBreaker, TLAPS, FiniteSetTheorems

(* The three invariants support each other: the count stays in its range   *)
(* because it is a count, and a probe that fails leaves HALF_OPEN because  *)
(* the failures are still at the threshold.                                *)
IInv == TypeOK /\ ClosedBelowThreshold /\ ProbesAccounted

(* The probes under way are a finite set with a natural cardinality. *)
LEMMA ProbesFinite == IsFiniteSet(Probes) /\ Cardinality(Probes) \in Nat
  <1>1. Probes \subseteq Calls
    BY DEF Probes
  <1>2. IsFiniteSet(Probes)
    BY <1>1, CallsFinite, FS_Subset
  <1> QED
    BY <1>2, FS_CardinalityType

(* A coroutine that becomes a probe adds one to the count. *)
LEMMA ProbeAdded ==
  ASSUME TypeOK, NEW c \in Calls, call[c] # "probe",
         call' = [call EXCEPT ![c] = "probe"]
  PROVE  Cardinality(Probes') = Cardinality(Probes) + 1
  <1>1. Probes' = Probes \cup {c}
    BY DEF Probes, TypeOK
  <1>2. c \notin Probes
    BY DEF Probes
  <1> QED
    BY <1>1, <1>2, ProbesFinite, FS_AddElement

(* A coroutine that returns is one probe less, if it was one. *)
LEMMA ProbeReturned ==
  ASSUME TypeOK, NEW c \in Calls,
         call' = [call EXCEPT ![c] = "idle"]
  PROVE  Cardinality(Probes') =
           IF call[c] = "probe" THEN Cardinality(Probes) - 1
                                ELSE Cardinality(Probes)
  <1>1. CASE call[c] = "probe"
    <2>1. Probes' = Probes \ {c}
      BY <1>1 DEF Probes, TypeOK
    <2>2. c \in Probes
      BY <1>1 DEF Probes
    <2> QED
      BY <1>1, <2>1, <2>2, ProbesFinite, FS_RemoveElement
  <1>2. CASE call[c] # "probe"
    <2>1. Probes' = Probes
      BY <1>2 DEF Probes, TypeOK
    <2> QED
      BY <1>2, <2>1
  <1> QED
    BY <1>1, <1>2

(* The coroutine that opens a HALF_OPEN period is its only probe. *)
LEMMA FirstProbeAlone ==
  ASSUME NEW c \in Calls,
         call' = [d \in Calls |-> IF d = c THEN "probe"
                                  ELSE IF Awaiting(d) THEN "earlier" ELSE "idle"]
  PROVE  Cardinality(Probes') = 1
  <1>1. Probes' = {c}
    BY DEF Probes
  <1> QED
    BY <1>1, FS_Singleton

(* The invariant holds at first. *)
LEMMA Initially == Init => IInv
  <1> SUFFICES ASSUME Init PROVE IInv
    OBVIOUS
  <1>1. TypeOK
    <2>1. cooled \in BOOLEAN
      BY DEF Init
    <2> QED
      BY <2>1, LimitsAssumption DEF Init, TypeOK
  <1>2. ClosedBelowThreshold /\ ProbesAccounted
    BY LimitsAssumption DEF Init, ClosedBelowThreshold, ProbesAccounted
  <1> QED
    BY <1>1, <1>2 DEF IInv

(* Every step keeps the invariant, one action at a time. *)
LEMMA Inductive == IInv /\ [Next]_vars => IInv'
  <1> SUFFICES ASSUME IInv, [Next]_vars
               PROVE  IInv'
    OBVIOUS
  <1> USE LimitsAssumption
  <1>1. ASSUME NEW c \in Calls, AdmitClosed(c)
        PROVE  IInv'
    BY <1>1 DEF AdmitClosed, IInv, TypeOK, ClosedBelowThreshold, ProbesAccounted
  <1>2. ASSUME NEW c \in Calls, AdmitFirstProbe(c)
        PROVE  IInv'
    <2>1. Cardinality(Probes') = 1
      BY <1>2, FirstProbeAlone DEF AdmitFirstProbe
    <2>2. TypeOK' /\ ClosedBelowThreshold'
      BY <1>2 DEF AdmitFirstProbe, IInv, TypeOK, ClosedBelowThreshold
    <2>3. ProbesAccounted'
      BY <1>2, <2>1 DEF AdmitFirstProbe, ProbesAccounted
    <2> QED
      BY <2>2, <2>3 DEF IInv
  <1>3. ASSUME NEW c \in Calls, AdmitProbe(c)
        PROVE  IInv'
    <2>1. Cardinality(Probes') = Cardinality(Probes) + 1
      BY <1>3, ProbeAdded DEF AdmitProbe, IInv
    <2>2. TypeOK' /\ ClosedBelowThreshold'
      BY <1>3 DEF AdmitProbe, IInv, TypeOK, ClosedBelowThreshold
    <2>3. ProbesAccounted'
      BY <1>3, <2>1, ProbesFinite DEF AdmitProbe, IInv, TypeOK, ProbesAccounted
    <2> QED
      BY <2>2, <2>3 DEF IInv
  <1>4. ASSUME NEW c \in Calls, Succeed(c)
        PROVE  IInv'
    <2>1. TypeOK'
      <3>1. cooled' \in BOOLEAN
        BY <1>4 DEF Succeed
      <3> QED
        BY <1>4, <3>1 DEF Succeed, IInv, TypeOK
    <2>2. ClosedBelowThreshold' /\ ProbesAccounted'
      BY <1>4 DEF Succeed, ClosedBelowThreshold, ProbesAccounted
    <2> QED
      BY <2>1, <2>2 DEF IInv
  <1>5. ASSUME NEW c \in Calls, Fail(c)
        PROVE  IInv'
    <2>1. /\ failures \in 0 .. FailureThreshold
          /\ failures' \in 0 .. FailureThreshold
      BY <1>5 DEF Fail, IInv, TypeOK
    <2>2. TypeOK'
      <3>1. cooled' \in BOOLEAN
        BY <1>5 DEF Fail
      <3> QED
        BY <1>5, <2>1, <3>1 DEF Fail, IInv, TypeOK
    <2> SUFFICES ClosedBelowThreshold' /\ ProbesAccounted'
      BY <2>2 DEF IInv
    <2>3. CASE failures' = FailureThreshold
      BY <1>5, <2>1, <2>3 DEF Fail, ClosedBelowThreshold, ProbesAccounted
    <2>4. CASE failures' # FailureThreshold
      <3>1. failures < FailureThreshold /\ failures' < FailureThreshold
        BY <1>5, <2>1, <2>4 DEF Fail
      <3>2. state = "CLOSED" /\ state' = "CLOSED"
        BY <1>5, <2>4, <3>1 DEF Fail, IInv, ClosedBelowThreshold
      <3> QED
        BY <3>1, <3>2 DEF ClosedBelowThreshold, ProbesAccounted
    <2> QED
      BY <2>3, <2>4
  <1>6. ASSUME NEW c \in Calls, Cancel(c)
        PROVE  IInv'
    <2>1. Cardinality(Probes') = IF call[c] = "probe" THEN Cardinality(Probes) - 1
                                                      ELSE Cardinality(Probes)
      BY <1>6, ProbeReturned DEF Cancel, IInv
    <2>2. TypeOK' /\ ClosedBelowThreshold'
      BY <1>6 DEF Cancel, IInv, TypeOK, ClosedBelowThreshold
    <2>3. ProbesAccounted'
      BY <1>6, <2>1, ProbesFinite DEF Cancel, IInv, TypeOK, ProbesAccounted
    <2> QED
      BY <2>2, <2>3 DEF IInv
  <1>7. CASE Elapse
    BY <1>7 DEF Elapse, IInv, TypeOK, ClosedBelowThreshold, ProbesAccounted, Probes
  <1>8. CASE UNCHANGED vars
    BY <1>8 DEF vars, IInv, TypeOK, ClosedBelowThreshold, ProbesAccounted, Probes
  <1> QED
    BY <1>1, <1>2, <1>3, <1>4, <1>5, <1>6, <1>7, <1>8 DEF Next, Return

(* The inductive invariant holds in every behaviour. *)
LEMMA Invariant == Spec => []IInv
  BY Initially, Inductive, PTL DEF Spec

(* The variables keep their types; above all the count of probes never     *)
(* passes half_open_max_calls.                                             *)
THEOREM TypeCorrect == Spec => []TypeOK
  BY Invariant, PTL DEF IInv

(* The circuit is closed exactly while the failures are below the          *)
(* threshold, whatever the order in which calls return.                    *)
THEOREM ClosedIffBelow == Spec => []ClosedBelowThreshold
  BY Invariant, PTL DEF IInv

(* In HALF_OPEN every counted call is under way or was cancelled. *)
THEOREM ProbesCounted == Spec => []ProbesAccounted
  BY Invariant, PTL DEF IInv

=============================================================================
