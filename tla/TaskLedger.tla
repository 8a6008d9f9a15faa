------------------------------ MODULE TaskLedger ------------------------------
(***************************************************************************)
(* What a persistent list of task records promises its readers: records    *)
(* are entered in the order of their ids and only move forward.  All of    *)
(* them are lost at once when the file becomes unreadable; otherwise only  *)
(* what a failed save has left behind may fall back to what it was.  After *)
(* either the ids of the records that are gone are given out again.        *)
(***************************************************************************)
EXTENDS Integers

CONSTANT Ids

VARIABLES
  ledger,  \* the state that a reader sees of every id
  saved,   \* the last save did not fail
  unreadable  \* a restart would find nothing

(* "over" is completed or cancelled.  A task that was failed by a timeout  *)
(* may still report that it completed.                                     *)
Forward == {<<"queued", "running">>, <<"queued", "over">>,
            <<"running", "over">>, <<"running", "failed">>, <<"failed", "over">>}

(* One or more steps forward. *)
Later == Forward \cup {<<"queued", "failed">>}
           \cup {<<"none", s>> : s \in {"queued", "running", "failed", "over"}}

Enter(t) ==
  /\ \A u \in Ids : ledger[u] = "none" <=> u >= t
  /\ ledger' = [ledger EXCEPT ![t] = "queued"]

Advance(t, s) ==
  /\ <<ledger[t], s>> \in Forward
  /\ ledger' = [ledger EXCEPT ![t] = s]

LoseAll ==
  /\ unreadable'
  /\ ledger' = [t \in Ids |-> "none"]

FallBack ==
  /\ ~saved
  /\ \A t \in Ids :
       ledger'[t] = ledger[t] \/ <<ledger'[t], ledger[t]>> \in Later

Next ==
  \/ \E t \in Ids : Enter(t)
  \/ \E t \in Ids :
       \E s \in {"running", "failed", "over"} : Advance(t, s)
  \/ LoseAll \/ FallBack

=============================================================================
