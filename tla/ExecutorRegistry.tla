-------------------------- MODULE ExecutorRegistry --------------------------
(***************************************************************************)
(* The mission records aiwg serve keeps about one executor:                *)
(* ExecutorRegistry (executor-registry.ts) behind the routes and the       *)
(* socket handler of serve.ts.                                             *)
(*                                                                         *)
(* The server is one event loop: a message, a close event or a route runs  *)
(* to its end, except the dispatch route, which awaits the executor's      *)
(* answer and can be called again meanwhile, for the same mission too.     *)
(*                                                                         *)
(* The executor is another process; here it is any one that keeps the      *)
(* executor contract (docs/contracts/executor.v1.md).  It says what        *)
(* happens to its missions over a WebSocket, in order, and forgets what it *)
(* said; a socket that breaks may take the tail of what was on its way     *)
(* with it, and the server reads the rest before it sees the close.        *)
(***************************************************************************)
EXTENDS Naturals, Sequences

CONSTANTS Missions,   \* the mission ids clients dispatch
          Sockets,    \* bound: connections open or closing at a time
          NoSocket,
          Waits,      \* the states of a mission that waits: a part of WaitStates
          Commands,   \* what operators ask for: a part of CommandStates
          MaxRequests, \* bound: dispatches of one mission in progress at a time
          MaxFlight,  \* bound: events on their way in one socket
          MaxFaults   \* bound: broken sockets, lost requests, restarts, removals

WaitStates == {"paused", "hitl-required", "suspended"}
CommandStates == {"paused", "running", "aborted"}

ASSUME ExecutorAssumption ==
  /\ NoSocket \notin Sockets
  /\ Waits \subseteq WaitStates /\ Commands \subseteq CommandStates
  /\ MaxRequests \in Nat /\ MaxFlight \in Nat /\ MaxFaults \in Nat

VARIABLES
  registered,       \* the registry holds a registration of the executor
  known,            \* the identity store holds its token
  connected,        \* ExecutorRegistration.connected
  wsConn,           \* ExecutorRegistration.wsConn
  currentMissions,  \* ExecutorRegistration.currentMissions
  record,           \* the state of a MissionRecord, "none" without one
  forward,          \* how many requests of dispatch routes are at each stage
  sock,             \* a connection: "free", "open", or "closing"
  up,               \* the events on their way to the server in it
  link,             \* the connection the executor uses
  mission,          \* the state of a mission at the executor
  faults            \* how many faults have happened

registration == <<registered, connected, wsConn, currentMissions>>
network == <<sock, up, link>>
vars == <<registration, known, record, forward, network, mission, faults>>

Terminal == {"done", "failed", "aborted"}
States == {"assigned", "running"} \cup WaitStates \cup Terminal

Stages == {"sent", "accepted", "refused"}
Idle == [stage \in Stages |-> 0]

(* A mission event names one mission; executor.resync names those owned.   *)
Events == [of : SUBSET Missions, to : States \cup {"resync"}]

Owned == {m \in Missions : mission[m] \notin {"none"} \cup Terminal}

Init ==
  /\ registered = FALSE /\ known = FALSE /\ connected = FALSE
  /\ wsConn = NoSocket /\ currentMissions = {}
  /\ record = [m \in Missions |-> "none"]
  /\ forward = [m \in Missions |-> Idle]
  /\ sock = [s \in Sockets |-> "free"]
  /\ up = [s \in Sockets |-> <<>>]
  /\ link = NoSocket
  /\ mission = [m \in Missions |-> "none"]
  /\ faults = 0

Fault == faults < MaxFaults /\ faults' = faults + 1

-----------------------------------------------------------------------------
(* Registration and the socket handler. *)

(* POST /api/v1/executors/register *)
Register ==
  /\ registered' = TRUE /\ known' = TRUE /\ connected' = FALSE
  /\ wsConn' = IF registered THEN wsConn ELSE NoSocket
  /\ currentMissions' = IF registered THEN currentMissions ELSE {}
  /\ UNCHANGED <<record, forward, network, mission, faults>>

(* DELETE /api/v1/executors/:id *)
Deregister ==
  /\ registered /\ Fault
  /\ registered' = FALSE /\ connected' = FALSE
  /\ wsConn' = NoSocket /\ currentMissions' = {}
  /\ sock' = IF wsConn = NoSocket THEN sock ELSE [sock EXCEPT ![wsConn] = "closing"]
  /\ UNCHANGED <<known, record, forward, up, link, mission>>

(* The executor connects, and its first message is a resync. A token that  *)
(* only the identity store knows is accepted, and setConnected() then      *)
(* finds no registration to mark.                                          *)
Connect(s) ==
  /\ known /\ link = NoSocket /\ sock[s] = "free"
  /\ sock' = [sock EXCEPT ![s] = "open"]
  /\ up' = [up EXCEPT ![s] = <<[of |-> Owned, to |-> "resync"]>>]
  /\ link' = s
  /\ connected' = registered
  /\ wsConn' = IF registered THEN s ELSE wsConn
  /\ UNCHANGED <<registered, known, currentMissions, record, forward, mission, faults>>

(* The state handleEvent() gives a mission it has a record of. *)
Handled(e, m) ==
  IF e.to # "resync" THEN e.to
  ELSE IF record[m] \in Terminal THEN record[m] ELSE "running"

(* handleEvent() *)
Handle(e) ==
  LET found == {m \in e.of : record[m] # "none"} IN
  /\ record' = [m \in Missions |-> IF m \in found THEN Handled(e, m) ELSE record[m]]
  /\ currentMissions' =
       IF e.to \in Terminal THEN currentMissions \ found ELSE currentMissions

(* A message of a socket; without a registration it is read and ignored. *)
Deliver(s) ==
  /\ up[s] # <<>>
  /\ up' = [up EXCEPT ![s] = Tail(up[s])]
  /\ IF registered THEN Handle(Head(up[s])) ELSE UNCHANGED <<record, currentMissions>>
  /\ UNCHANGED <<registered, known, connected, wsConn, forward, sock, link, mission, faults>>

(* Mutant of CloseSeen: the handle is not cleared. *)
CloseSeenKeepsHandle(s) ==
  /\ sock[s] = "closing" /\ link # s /\ up[s] = <<>>
  /\ sock' = [sock EXCEPT ![s] = "free"]
  /\ connected' = FALSE
  /\ UNCHANGED <<registered, known, wsConn, currentMissions, record, forward, up, link, mission, faults>>

(* The close event of a socket, whichever the registration refers to. *)
CloseSeen(s) ==
  /\ sock[s] = "closing" /\ link # s /\ up[s] = <<>>
  /\ sock' = [sock EXCEPT ![s] = "free"]
  /\ connected' = FALSE /\ wsConn' = NoSocket
  /\ UNCHANGED <<registered, known, currentMissions, record, forward, up, link, mission, faults>>

-----------------------------------------------------------------------------
(* The dispatch route and the operator's routes. *)

(* Up to the request to the executor.  Nothing looks for another dispatch  *)
(* of the same id.                                                         *)
Dispatch(m) ==
  /\ registered /\ connected
  /\ forward[m]["sent"] + forward[m]["accepted"] + forward[m]["refused"] < MaxRequests
  /\ forward' = [forward EXCEPT ![m]["sent"] = @ + 1]
  /\ UNCHANGED <<registration, known, record, network, mission, faults>>

(* A request leaves a stage: it is over. *)
Over(m, stage) ==
  /\ forward[m][stage] > 0
  /\ forward' = [forward EXCEPT ![m][stage] = @ - 1]

Moved(count, from, to) == [count EXCEPT ![from] = @ - 1, ![to] = @ + 1]

(* The executor has answered a request. *)
Answers(m, stage) ==
  /\ forward[m]["sent"] > 0
  /\ forward' = [forward EXCEPT ![m] = Moved(forward[m], "sent", stage)]

(* The answer was 2xx: assignMission(). *)
Answered(m) ==
  /\ Over(m, "accepted")
  /\ record' = [record EXCEPT ![m] = "assigned"]
  /\ currentMissions' = IF registered THEN currentMissions \cup {m} ELSE currentMissions
  /\ UNCHANGED <<registered, known, connected, wsConn, network, mission, faults>>

(* Mutant of RecordFailed: failMission() leaves the mission in the set. *)
RecordFailedCounted(m) ==
  /\ record' = [record EXCEPT ![m] = "failed"]
  /\ currentMissions' = IF registered THEN currentMissions \cup {m} ELSE currentMissions

(* assignMission() and failMission(): the count is as without the mission. *)
RecordFailed(m) ==
  /\ record' = [record EXCEPT ![m] = "failed"]
  /\ currentMissions' = currentMissions \ {m}

(* The executor refused, or could not be reached, before or after it took  *)
(* the mission.                                                            *)
ForwardFailed(m) ==
  /\ \/ Over(m, "refused") /\ UNCHANGED faults
     \/ \E stage \in {"sent", "accepted"} : Over(m, stage) /\ Fault
  /\ RecordFailed(m)
  /\ UNCHANGED <<registered, known, connected, wsConn, network, mission>>

(* POST /api/v1/missions/:id/pause, resume and abort: transitionMission(). *)
(* What the command pushed to the executor leads to is Reports.            *)
Operator(m, state) ==
  /\ record[m] \notin {"none"} \cup Terminal
  /\ record' = [record EXCEPT ![m] = state]
  /\ UNCHANGED <<registration, known, forward, network, mission, faults>>

(* Everything but the identity store is in memory. *)
ServerRestarts ==
  /\ Fault
  /\ registered' = FALSE /\ connected' = FALSE
  /\ wsConn' = NoSocket /\ currentMissions' = {}
  /\ record' = [m \in Missions |-> "none"]
  /\ forward' = [m \in Missions |-> Idle]
  /\ sock' = [s \in Sockets |-> "free"]
  /\ up' = [s \in Sockets |-> <<>>]
  /\ link' = NoSocket
  /\ UNCHANGED <<known, mission>>

-----------------------------------------------------------------------------
(* The executor. *)

(* What the executor says is lost when it has no connection. *)
Say(m, state) ==
  IF link = NoSocket THEN UNCHANGED up
  ELSE /\ Len(up[link]) < MaxFlight
       /\ up' = [up EXCEPT ![link] = Append(@, [of |-> {m}, to |-> state])]

(* It takes a mission it does not have, and says so at once. *)
Accepts(m) ==
  /\ mission[m] = "none" /\ Answers(m, "accepted")
  /\ mission' = [mission EXCEPT ![m] = "assigned"]
  /\ Say(m, "assigned")
  /\ UNCHANGED <<registration, known, record, sock, link, faults>>

(* It refuses one it has, or has no room for. *)
Refuses(m) ==
  /\ Answers(m, "refused")
  /\ UNCHANGED <<registration, known, record, network, mission, faults>>

(* The states a mission may take next: the contract's state machine. *)
After(state) ==
  {next \in {"running"} \cup Waits \cup Terminal :
     \/ state = "running" /\ next # "running"
     \/ state \in {"assigned"} \cup Waits /\ next \in {"running", "failed", "aborted"}}

Reports(m) == \E state \in After(mission[m]) :
  /\ mission' = [mission EXCEPT ![m] = state]
  /\ Say(m, state)
  /\ UNCHANGED <<registration, known, record, forward, sock, link, faults>>

(* The executor's side of a connection is gone: it broke, or the server    *)
(* closed it.                                                              *)
LinkBreaks(s) ==
  /\ link = s
  /\ IF sock[s] = "open" THEN Fault ELSE UNCHANGED faults
  /\ link' = NoSocket
  /\ sock' = [sock EXCEPT ![s] = "closing"]
  /\ \E n \in 0..Len(up[s]) : up' = [up EXCEPT ![s] = SubSeq(up[s], 1, n)]
  /\ UNCHANGED <<registration, known, record, forward, mission>>

(* It forgets the missions it has not saved. *)
ExecutorRestarts == \E kept \in SUBSET Missions :
  /\ link = NoSocket /\ Fault
  /\ mission' = [m \in Missions |-> IF m \in kept THEN mission[m] ELSE "none"]
  /\ UNCHANGED <<registration, known, record, forward, network>>

-----------------------------------------------------------------------------
Server ==
  \/ Register \/ Deregister \/ ServerRestarts
  \/ \E s \in Sockets : Connect(s) \/ Deliver(s) \/ CloseSeen(s)
  \/ \E m \in Missions : Dispatch(m) \/ Answered(m) \/ ForwardFailed(m)
  \/ \E m \in Missions, state \in Commands : Operator(m, state)

Executor ==
  \/ \E m \in Missions : Accepts(m) \/ Refuses(m) \/ Reports(m)
  \/ \E s \in Sockets : LinkBreaks(s)
  \/ ExecutorRestarts

Next == Server \/ Executor

Spec == Init /\ [][Next]_vars

-----------------------------------------------------------------------------
(* The fields of the registration, the records and the wire have the       *)
(* values their types allow, and no socket holds more than its bound.      *)
TypeOK ==
  /\ registered \in BOOLEAN /\ known \in BOOLEAN /\ connected \in BOOLEAN
  /\ wsConn \in Sockets \cup {NoSocket} /\ link \in Sockets \cup {NoSocket}
  /\ currentMissions \subseteq Missions
  /\ record \in [Missions -> States \cup {"none"}]
  /\ mission \in [Missions -> States \cup {"none"}]
  /\ forward \in [Missions -> [Stages -> Nat]]
  /\ sock \in [Sockets -> {"free", "open", "closing"}]
  /\ up \in [Sockets -> Seq(Events)]
  /\ faults \in 0..MaxFaults

(* A mission that is recorded done or failed does not count as active      *)
(* (active_mission_count is the size of currentMissions), however events,  *)
(* answers to overlapping dispatches and removals of the registration      *)
(* interleave.                                                             *)
EndedNotCounted ==
  \A m \in currentMissions : record[m] \notin {"done", "failed"}

(* The registration's handle is the newest connection the server accepted, *)
(* never one whose close it has seen, and an executor that missions are    *)
(* dispatched to has one: what the server pushes goes to the connection    *)
(* the executor reads.                                                     *)
HandleIsCurrent ==
  /\ connected => wsConn # NoSocket
  /\ wsConn # NoSocket =>
       registered /\ sock[wsConn] # "free" /\ link \in {wsConn, NoSocket}

=============================================================================
