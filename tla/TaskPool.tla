------------------------------ MODULE TaskPool ------------------------------
(***************************************************************************)
(* What the agent supervisor promises its callers, without queues, child   *)
(* processes, timers or records: a pool of bounded capacity in which a     *)
(* task waits, is active and is settled, once and in this order, and in    *)
(* which the task that starts is always the one that should start first.   *)
(* Every step is one callback of the supervisor: tasks leave the pool and  *)
(* waiting tasks take their places in the same step.                       *)
(***************************************************************************)
EXTENDS Integers, FiniteSets

CONSTANTS Tasks,      \* task identifiers, in the order of submission
          Capacity,   \* tasks active at once
          Priorities  \* priorities of tasks

VARIABLES waiting, active, settled, prio

poolVars == <<waiting, active, settled, prio>>

Before(t, u) == prio'[t] > prio'[u] \/ (prio'[t] = prio'[u] /\ t < u)

(* From waiting tasks w and active tasks a, the tasks of B start: they fit *)
(* and each comes before every task left waiting.                          *)
StartFrom(B, w, a) ==
  /\ waiting' = w \ B
  /\ active' = a \cup B
  /\ Cardinality(active') <= Capacity
  /\ \A b \in B, u \in waiting' : Before(b, u)

(* A new task of priority p. *)
Enters(t, p) ==
  /\ t \notin waiting \cup active \cup settled
  /\ prio' = [prio EXCEPT ![t] = p]

PoolInit ==
  /\ waiting = {} /\ active = {} /\ settled = {}
  /\ prio \in [Tasks -> Priorities]

(* A new task enters with priority p. *)
Admit(t, p) ==
  /\ Enters(t, p)
  /\ \E B \in SUBSET (waiting \cup {t}) : StartFrom(B, waiting \cup {t}, active)
  /\ UNCHANGED settled

(* A new task enters and one task that was to start, there being room for  *)
(* it, is given up instead: it comes before those left waiting, and those  *)
(* that start come before it.                                              *)
AdmitLosing(t, p) ==
  /\ Enters(t, p)
  /\ \E x \in waiting \cup {t} :
       /\ settled' = settled \cup {x}
       /\ \A u \in waiting' : Before(x, u)
       /\ \E B \in SUBSET ((waiting \cup {t}) \ {x}) :
            /\ StartFrom(B, (waiting \cup {t}) \ {x}, active)
            /\ \A b \in B : Before(b, x)
       /\ Cardinality(active') < Capacity

(* Active tasks of F end and others take their places. *)
Finish(F) ==
  /\ settled' = settled \cup F
  /\ UNCHANGED prio
  /\ \E B \in SUBSET waiting : StartFrom(B, waiting, active \ F)

(* Waiting tasks of D are given up. *)
Drop(D) ==
  /\ settled' = settled \cup D
  /\ waiting' = waiting \ D
  /\ UNCHANGED <<active, prio>>

PoolNext ==
  \/ \E t \in Tasks, p \in Priorities : Admit(t, p) \/ AdmitLosing(t, p)
  \/ \E F \in SUBSET active : Finish(F)
  \/ \E D \in SUBSET waiting : Drop(D)

PoolSpec == PoolInit /\ [][PoolNext]_poolVars

=============================================================================
