---------------------------- MODULE ExecutorShim ----------------------------
(***************************************************************************)
(* The executor shim: tools/ralph-external/executor-shim.mjs above a       *)
(* DaemonSupervisor.                                                       *)
(*                                                                         *)
(* A mission is a loop of the same id.  Its state changes when an operator *)
(* asks for it and when the supervisor reports on the loop; the reports    *)
(* come from inside the supervisor's callbacks, so an action here is an    *)
(* action of DaemonSupervisor together with what the shim's listeners do,  *)
(* or an operator's request with everything it calls.                      *)
(*                                                                         *)
(* The pool of a local executor has no other caller.  Questions come from  *)
(* handleStdoutChunk(), which is public and left to the owner of the       *)
(* terminal to call.  The envelopes on the sockets are left out, each says *)
(* the state that is assigned here; so is shutdown(), which the process    *)
(* does not outlive.                                                       *)
(***************************************************************************)
EXTENDS DaemonSupervisor

CONSTANT Asking   \* bound: loops that ask questions

ASSUME ShimAssumption == Asking \subseteq Loops

VARIABLES
  mission,   \* _missions: the state of each, or "unknown"
  linked,    \* _loopToMission: the loops whose reports find their mission
  asked      \* missions with a pendingHitl

missionVars == <<mission, linked, asked>>
shimVars == <<vars, missionVars>>

Terminal == {"done", "failed", "aborted"}
Open(l) == mission[l] \notin Terminal \cup {"unknown"}

MissionInit ==
  /\ Init
  /\ mission = [l \in Loops |-> "unknown"]
  /\ linked = {} /\ asked = {}

-----------------------------------------------------------------------------
(* loop:started: a loop that gets a task in this step is running, whatever *)
(* its mission was.                                                        *)
Starts(l) == entry'[l] \notin {NoTask, entry[l]}

Hears(told) ==
  mission' = [l \in Loops |-> IF l \in linked /\ Starts(l) THEN "running" ELSE told[l]]

(* loop:completed and loop:failed: no later report finds the mission. *)
Reported(ls, outcome) ==
  /\ Hears([l \in Loops |-> IF l \in ls \cap linked THEN outcome ELSE mission[l]])
  /\ linked' = linked \ ls
  /\ UNCHANGED asked

LoopCompleted(t) == Completed(t) /\ Reported(LoopOf(t), "done")
LoopFailed(t) == GivesUp(t) /\ Reported(LoopOf(t), "failed")

(* The supervisor's other steps report nothing on the loop they are about, *)
(* a child ended by a signal included, but they may start loops.           *)
SupervisorStep ==
  /\ \/ \E t \in Tasks : OrphanEnds(t) \/ Cancelled(t) \/ Timeout(t) \/ Restarts(t)
     \/ CooldownElapses
     \/ HalfOpens
  /\ Hears(mission)
  /\ UNCHANGED <<linked, asked>>

-----------------------------------------------------------------------------
(* Mutant of Dispatch: a known mission is accepted again. *)
DispatchAgain(l) ==
  /\ ~Open(l)
  /\ Submit(l)
  /\ linked' = linked \cup {l}
  /\ mission' = [mission EXCEPT ![l] = IF Starts(l) THEN "running" ELSE "assigned"]
  /\ UNCHANGED asked

(* Mutant of Dispatch: the loop is linked after it is submitted. *)
DispatchLinksLate(l) ==
  /\ mission[l] = "unknown"
  /\ Submit(l)
  /\ linked' = linked \cup {l}
  /\ mission' = [mission EXCEPT ![l] = "assigned"]
  /\ UNCHANGED asked

(* dispatch(): the mission is recorded, linked and submitted.  One that    *)
(* the supervisor refuses is forgotten again, which changes nothing.       *)
Dispatch(l) ==
  /\ mission[l] = "unknown"
  /\ Submit(l)
  /\ linked' = linked \cup {l}
  /\ mission' = [mission EXCEPT ![l] = IF Starts(l) THEN "running" ELSE "assigned"]
  /\ UNCHANGED asked

(* killProcessGroup() of a loop whose process is not known does nothing. *)
Signal(l) == IF l \in knownPid THEN KillProcessGroup(l) ELSE UNCHANGED vars

(* pauseMission() *)
Pause(l) ==
  /\ Open(l)
  /\ Signal(l)
  /\ Hears([mission EXCEPT ![l] = "paused"])
  /\ UNCHANGED <<linked, asked>>

(* resumeMission() *)
Resume(l) ==
  /\ mission[l] = "paused"
  /\ Signal(l)
  /\ Hears([mission EXCEPT ![l] = "running"])
  /\ UNCHANGED <<linked, asked>>

(* cancel() of a loop that runs sends SIGTERM, or finds no process. *)
SendsSigterm(l) ==
  /\ l \notin ToSet(queue) /\ entry[l] \notin ToSet(waiting)
  /\ UNCHANGED vars

(* Mutant of Abort: a queued loop is not cancelled. *)
AbortLeavesQueued(l) ==
  /\ Open(l)
  /\ IF entry[l] \in ToSet(waiting) THEN CancelWaiting(l) ELSE UNCHANGED vars
  /\ Hears([mission EXCEPT ![l] = "aborted"])
  /\ UNCHANGED <<linked, asked>>

(* Mutant of Abort: the mission is unlinked as in the loop's reports. *)
AbortUnlinks(l) ==
  /\ Open(l)
  /\ CancelQueued(l) \/ CancelWaiting(l) \/ SendsSigterm(l)
  /\ Hears([mission EXCEPT ![l] = "aborted"])
  /\ linked' = linked \ {l}
  /\ UNCHANGED asked

(* abortMission(): the loop is cancelled, and the mission counts as        *)
(* aborted before its child has ended.                                     *)
Abort(l) ==
  /\ Open(l)
  /\ CancelQueued(l) \/ CancelWaiting(l) \/ SendsSigterm(l)
  /\ Hears([mission EXCEPT ![l] = "aborted"])
  /\ UNCHANGED <<linked, asked>>

(* handleStdoutChunk() with an output that looks like a question. *)
Ask(l) ==
  /\ l \in Asking /\ l \in linked \ asked /\ mission[l] = "running"
  /\ asked' = asked \cup {l}
  /\ mission' = [mission EXCEPT ![l] = "hitl-required"]
  /\ UNCHANGED <<vars, linked>>

(* submitHitlResponse() does not look at the state of the mission. *)
Answer(l) ==
  /\ l \in asked
  /\ asked' = asked \ {l}
  /\ mission' = [mission EXCEPT ![l] = "running"]
  /\ UNCHANGED <<vars, linked>>

MissionNext ==
  \/ \E l \in Loops : Dispatch(l)
  \/ \E l \in Loops : Pause(l)
  \/ \E l \in Loops : Resume(l)
  \/ \E l \in Loops : Abort(l)
  \/ \E l \in Loops : Ask(l)
  \/ \E l \in Loops : Answer(l)
  \/ \E t \in Tasks : LoopCompleted(t)
  \/ \E t \in Tasks : LoopFailed(t)
  \/ SupervisorStep

MissionSpec == MissionInit /\ [][MissionNext]_shimVars

-----------------------------------------------------------------------------
(* Type invariant. *)
MissionTypeOK ==
  /\ TypeOK
  /\ mission \in [Loops -> {"unknown", "assigned", "running", "paused", "hitl-required"} \cup Terminal]
  /\ linked \subseteq Loops /\ asked \subseteq Loops

(* The supervisor works for missions the shim knows and will hear of: a    *)
(* loop that is queued or has an entry is linked, and a queued one belongs *)
(* to a mission that is not over. (dispatch, abortMission, the listeners)  *)
LoopsReport ==
  \A l \in Loops :
    /\ l \in ToSet(queue) => l \in linked /\ Open(l)
    /\ entry[l] # NoTask => l \in linked

(* An accepted mission is not lost before it starts: one that is assigned  *)
(* waits in the supervisor's queue. (dispatch, loop:started)               *)
AssignedIsQueued ==
  \A l \in Loops : mission[l] = "assigned" => l \in ToSet(queue)

(* Whatever is paused, restarted and timed out, a mission never has two    *)
(* agents: at most one process, alive or waiting in the pool, is its own.  *)
(* (dispatch, killProcessGroup, the restart in task:failed)                *)
OneAgentPerMission ==
  \A l \in Loops : Cardinality({t \in live \cup ToSet(waiting) : Owner(t) = l}) <= 1

(* A mission that is over stays so, with two exceptions: the answer to a   *)
(* question that was still open revives it, and so does an aborted child   *)
(* that ends by itself before or instead of dying of SIGTERM.              *)
(* (abortMission, loop:started, loop:completed, loop:failed)               *)
EndedStaysEnded ==
  [][\A l \in Loops :
       mission[l] \in Terminal /\ mission'[l] # mission[l] =>
         \/ l \in asked
         \/ mission[l] = "aborted" /\ entry[l] \in live \ live']_shimVars

=============================================================================
