--------------------------- MODULE PtyBridgeProofs ---------------------------
(***************************************************************************)
(* The invariants of PtyBridge, for any number of browsers, sessions and   *)
(* reconnections.                                                          *)
(***************************************************************************)
EXTENDS PtyBridge, TLAPS

(* A browser is listed only once it has connected, and never in a session  *)
(* later than the one it founded.  With this the browser whose leaving     *)
(* goes unnoticed is known to be the founder of the session it stays in.   *)
Placed ==
  /\ \A c \in Clients : ws[c] = "new" => founded[c] = 0
  /\ \A s \in Sessions : \A c \in clients[s] :
       ws[c] # "new" /\ founded[c] \in {0, s}

IInv == TypeOK /\ NoDeadSession /\ FailedSpawnForgotten /\ OnlyLostLinger /\ Placed

(* kill() yields a link state, and takes no bridge to or from its end. *)
LEMMA KilledLinks ==
  ASSUME NEW l \in LinkStates
  PROVE  /\ Killed(l) \in LinkStates
         /\ Killed(l) \in {"none", "gone"} <=> l \in {"none", "gone"}
  BY DEF Killed, LinkStates

(* After a deletion nothing is registered, so what is said of the          *)
(* registered session holds; the links stay link states.                   *)
LEMMA Deleted ==
  ASSUME NEW lk \in [Sessions -> LinkStates], Delete(lk)
  PROVE  /\ registered' = 0
         /\ link' \in [Sessions -> LinkStates]
         /\ NoDeadSession' /\ FailedSpawnForgotten' /\ OnlyLostLinger'
  BY KilledLinks DEF Delete, NoDeadSession, FailedSpawnForgotten, OnlyLostLinger

(* A rejected spawn keeps the invariant, whatever the step did to links.   *)
LEMMA FailedSpawn ==
  ASSUME IInv, NEW s \in Sessions, NEW lk \in [Sessions -> LinkStates],
         SpawnFails(s, lk)
  PROVE  IInv'
  <1>1. /\ registered' = 0
        /\ link' \in [Sessions -> LinkStates]
        /\ NoDeadSession' /\ FailedSpawnForgotten' /\ OnlyLostLinger'
    BY Deleted DEF SpawnFails
  <1>2. TypeOK'
    <2>1. registered' \in 0 .. made'
      BY <1>1, PtyAssumption DEF SpawnFails, IInv, TypeOK
    <2>2. spawn' \in [Sessions -> {"none", "pending", "local", "ok", "failed"}]
      BY DEF SpawnFails, IInv, TypeOK
    <2>3. ws' \in [Clients -> {"new", "open", "closed", "lost"}]
      BY DEF SpawnFails, IInv, TypeOK
    <2> QED
      BY <1>1, <2>1, <2>2, <2>3 DEF SpawnFails, IInv, TypeOK
  <1>3. Placed'
    BY DEF SpawnFails, IInv, TypeOK, Placed
  <1> QED
    BY <1>1, <1>2, <1>3 DEF IInv

(* So does giving a bridge up, if that leaves its link to be judged by the *)
(* spawn: the session then has a local shell coming, and no other changes. *)
LEMMA GivenUp ==
  ASSUME IInv, NEW s \in Sessions, NEW lk \in [Sessions -> LinkStates],
         \A t \in Sessions \ {s} : lk[t] = link[t],
         GivesUp(s, lk)
  PROVE  IInv'
  <1>1. CASE SpawnFails(s, lk)
    BY <1>1, FailedSpawn
  <1>2. CASE ~SpawnFails(s, lk)
    <2>1. /\ spawn' = [spawn EXCEPT ![s] = "local"]
          /\ link' = lk
          /\ UNCHANGED <<made, registered, pty, exited, attempts, clients, ws, founded>>
      BY <1>2 DEF GivesUp
    <2>2. TypeOK'
      <3>1. spawn' \in [Sessions -> {"none", "pending", "local", "ok", "failed"}]
        BY <2>1 DEF IInv, TypeOK
      <3>2. link' \in [Sessions -> LinkStates]
        BY <2>1
      <3> QED
        BY <2>1, <3>1, <3>2 DEF IInv, TypeOK
    <2>3. registered # 0 => registered \in Sessions
      BY PtyAssumption DEF IInv, TypeOK, Sessions
    <2>4. NoDeadSession'
      BY <2>1, <2>3 DEF IInv, TypeOK, NoDeadSession
    <2>5. FailedSpawnForgotten'
      BY <2>1, <2>3 DEF IInv, TypeOK, FailedSpawnForgotten
    <2> QED
      BY <2>1, <2>2, <2>4, <2>5 DEF IInv, OnlyLostLinger, Placed
  <1> QED
    BY <1>1, <1>2

(* The invariant holds at first. *)
LEMMA Initially == Init => IInv
  BY PtyAssumption
  DEF Init, IInv, TypeOK, NoDeadSession, FailedSpawnForgotten, OnlyLostLinger,
      Placed, LinkStates, Sessions

(* Every step keeps the invariant, one action at a time. *)
LEMMA Inductive == IInv /\ [Next]_vars => IInv'
  <1> SUFFICES ASSUME IInv, [Next]_vars
               PROVE  IInv'
    OBVIOUS
  <1> USE PtyAssumption DEF IInv
  <1>1. ASSUME NEW c \in Clients, Found(c)
        PROVE  IInv'
    <2>1. made + 1 \in Sessions /\ made' = made + 1
      BY <1>1 DEF Found, TypeOK, Sessions
    <2>2. TypeOK'
      BY <1>1, <2>1 DEF Found, TypeOK, LinkStates
    <2>3. NoDeadSession' /\ FailedSpawnForgotten'
      BY <1>1, <2>1 DEF Found, TypeOK, NoDeadSession, FailedSpawnForgotten
    <2>4. OnlyLostLinger'
      BY <1>1, <2>1 DEF Found, TypeOK, OnlyLostLinger
    <2>5. Placed'
      BY <1>1, <2>1 DEF Found, TypeOK, Placed
    <2> QED
      BY <2>2, <2>3, <2>4, <2>5
  <1>2. ASSUME NEW c \in Clients, Join(c)
        PROVE  IInv'
    <2>1. registered \in Sessions
      BY <1>2 DEF Join, TypeOK, Sessions
    <2>2. TypeOK'
      BY <1>2, <2>1 DEF Join, TypeOK
    <2>3. NoDeadSession' /\ FailedSpawnForgotten'
      BY <1>2 DEF Join, NoDeadSession, FailedSpawnForgotten
    <2>4. c \notin clients[registered]
      BY <1>2, <2>1 DEF Join, Placed
    <2>5. OnlyLostLinger'
      BY <1>2, <2>1, <2>4 DEF Join, TypeOK, OnlyLostLinger
    <2>6. Placed'
      BY <1>2, <2>1 DEF Join, TypeOK, Placed
    <2> QED
      BY <2>2, <2>3, <2>5, <2>6
  <1>3. ASSUME NEW c \in Clients, Leave(c)
        PROVE  IInv'
    <2>1. TypeOK'
      BY <1>3 DEF Leave, TypeOK
    <2>2. NoDeadSession' /\ FailedSpawnForgotten'
      BY <1>3 DEF Leave, NoDeadSession, FailedSpawnForgotten
    <2>3. OnlyLostLinger'
      <3>1. SUFFICES ASSUME registered # 0, NEW d \in clients'[registered]
                     PROVE  \/ ws'[d] = "open"
                            \/ ws'[d] = "lost" /\ founded[d] = registered
        BY <1>3 DEF Leave, OnlyLostLinger
      <3>2. registered \in Sessions
        BY <3>1 DEF TypeOK, Sessions
      <3>3. d \in clients[registered] /\ d \in Clients
        BY <1>3, <3>1, <3>2 DEF Leave, TypeOK
      <3>4. CASE d # c
        BY <1>3, <3>1, <3>3, <3>4 DEF Leave, TypeOK, OnlyLostLinger
      <3>5. CASE d = c
        <4>1. ~Wired(c)
          BY <1>3, <3>1, <3>2, <3>5 DEF Leave
        <4>2. founded[c] = registered
          BY <3>2, <3>3, <3>5, <4>1 DEF Wired, Placed, Sessions
        <4> QED
          BY <1>3, <3>5, <4>1, <4>2 DEF Leave, TypeOK
      <3> QED
        BY <3>4, <3>5
    <2>4. Placed'
      BY <1>3 DEF Leave, TypeOK, Placed
    <2> QED
      BY <2>1, <2>2, <2>3, <2>4
  <1>4. ASSUME NEW c \in Clients, AskClose(c)
        PROVE  IInv'
    <2>1. registered \in Sessions
      BY <1>4 DEF AskClose, TypeOK, Sessions
    <2>2. TypeOK'
      BY <1>4, <2>1, KilledLinks DEF AskClose, TypeOK
    <2>3. NoDeadSession'
      BY <1>4, <2>1, KilledLinks DEF AskClose, TypeOK, NoDeadSession
    <2> QED
      BY <1>4, <2>2, <2>3
      DEF AskClose, FailedSpawnForgotten, OnlyLostLinger, Placed
  <1>5. ASSUME NEW s \in Sessions, Import(s)
        PROVE  IInv'
    <2>1. CASE Imported(s)
      <3>1. TypeOK'
        BY <2>1 DEF Imported, TypeOK, LinkStates
      <3>2. NoDeadSession'
        BY <2>1 DEF Imported, TypeOK, NoDeadSession
      <3> QED
        BY <2>1, <3>1, <3>2
        DEF Imported, FailedSpawnForgotten, OnlyLostLinger, Placed
    <2>2. CASE ImportFails(s)
      <3>1. [link EXCEPT ![s] = "gone"] \in [Sessions -> LinkStates]
        BY DEF TypeOK, LinkStates
      <3>2. \A t \in Sessions \ {s} : [link EXCEPT ![s] = "gone"][t] = link[t]
        BY DEF TypeOK
      <3> QED
        BY <2>2, <3>1, <3>2, GivenUp DEF ImportFails
    <2> QED
      BY <1>5, <2>1, <2>2 DEF Import
  <1>6. ASSUME NEW s \in Sessions, Opened(s) \/ Retry(s)
        PROVE  IInv'
    <2>1. TypeOK'
      BY <1>6 DEF Opened, Retry, TypeOK, LinkStates
    <2>2. NoDeadSession'
      <3>1. CASE Opened(s)
        BY <3>1 DEF Opened, TypeOK, NoDeadSession
      <3>2. CASE Retry(s)
        BY <3>2 DEF Retry, TypeOK, NoDeadSession
      <3> QED
        BY <1>6, <3>1, <3>2
    <2> QED
      BY <1>6, <2>1, <2>2
      DEF Opened, Retry, FailedSpawnForgotten, OnlyLostLinger, Placed
  <1>7. ASSUME NEW s \in Sessions, ShellStarted(s)
        PROVE  IInv'
    <2>1. TypeOK'
      BY <1>7 DEF ShellStarted, TypeOK, LinkStates
    <2>2. NoDeadSession'
      BY <1>7 DEF ShellStarted, TypeOK, NoDeadSession
    <2>3. FailedSpawnForgotten'
      BY <1>7 DEF ShellStarted, TypeOK, FailedSpawnForgotten
    <2> QED
      BY <1>7, <2>1, <2>2, <2>3 DEF ShellStarted, OnlyLostLinger, Placed
  <1>8. ASSUME NEW s \in Sessions, SessionKilled(s)
        PROVE  IInv'
    <2>1. TypeOK'
      BY <1>8 DEF SessionKilled, TypeOK
    <2>2. \A t \in Sessions : exited[t] => exited'[t]
      BY <1>8 DEF SessionKilled, TypeOK
    <2>3. registered # 0 => registered \in Sessions
      BY DEF TypeOK, Sessions
    <2>4. NoDeadSession'
      <3>1. UNCHANGED <<registered, link, spawn, pty>>
        BY <1>8 DEF SessionKilled
      <3> QED
        BY <2>2, <2>3, <3>1 DEF NoDeadSession
    <2> QED
      BY <1>8, <2>1, <2>4
      DEF SessionKilled, FailedSpawnForgotten, OnlyLostLinger, Placed
  <1>9. ASSUME NEW s \in Sessions, SpawnTimeout(s)
        PROVE  IInv'
    BY <1>9, GivenUp DEF SpawnTimeout, TypeOK
  <1>10. ASSUME NEW s \in Sessions, Disconnected(s)
         PROVE  IInv'
    <2> DEFINE NoRetry == exited[s] \/ attempts[s] = MaxReconnect
    <2>r. registered # 0 => registered \in Sessions
      BY DEF TypeOK, Sessions
    <2>1. CASE NoRetry
      <3>1. TypeOK'
        BY <1>10, <2>1 DEF Disconnected, TypeOK, LinkStates
      <3>2. NoDeadSession'
        <4>1. \A t \in Sessions : exited'[t] = (t = s \/ exited[t])
          BY <1>10, <2>1 DEF Disconnected, TypeOK
        <4>2. \A t \in Sessions : t # s => link'[t] = link[t]
          BY <1>10, <2>1 DEF Disconnected, TypeOK
        <4> QED
          BY <1>10, <2>r, <4>1, <4>2 DEF Disconnected, NoDeadSession
      <3> QED
        BY <1>10, <3>1, <3>2
        DEF Disconnected, FailedSpawnForgotten, OnlyLostLinger, Placed
    <2>2. CASE ~NoRetry
      <3>1. attempts[s] + 1 \in 0 .. MaxReconnect
        <4>1. attempts[s] # MaxReconnect
          BY <2>2
        <4> QED
          BY <4>1 DEF TypeOK
      <3>2. TypeOK'
        BY <1>10, <2>2, <3>1 DEF Disconnected, TypeOK, LinkStates
      <3>3. NoDeadSession'
        <4>1. \A t \in Sessions : link'[t] = IF t = s THEN "waiting" ELSE link[t]
          BY <1>10, <2>2 DEF Disconnected, TypeOK
        <4>2. exited' = exited
          BY <1>10, <2>2 DEF Disconnected
        <4> QED
          BY <1>10, <2>r, <4>1, <4>2 DEF Disconnected, NoDeadSession
      <3> QED
        BY <1>10, <3>2, <3>3
        DEF Disconnected, FailedSpawnForgotten, OnlyLostLinger, Placed
    <2> QED
      BY <2>1, <2>2
  <1>11. ASSUME NEW s \in Sessions, ClosedEarly(s)
         PROVE  IInv'
    <2>1. [link EXCEPT ![s] = "gone"] \in [Sessions -> LinkStates]
      BY DEF TypeOK, LinkStates
    <2> QED
      BY <1>11, <2>1, FailedSpawn DEF ClosedEarly
  <1>12. CASE Evict
    <2>1. /\ registered' = 0
          /\ link' \in [Sessions -> LinkStates]
          /\ NoDeadSession' /\ FailedSpawnForgotten' /\ OnlyLostLinger'
      BY <1>12, Deleted DEF Evict, TypeOK
    <2> QED
      BY <1>12, <2>1 DEF Evict, TypeOK, Placed
  <1>13. ASSUME NEW s \in Sessions, Local(s)
         PROVE  IInv'
    <2>1. CASE LocalStarts(s)
      <3>1. TypeOK'
        BY <2>1 DEF LocalStarts, TypeOK
      <3>2. NoDeadSession'
        BY <2>1 DEF LocalStarts, TypeOK, NoDeadSession
      <3>3. FailedSpawnForgotten'
        BY <2>1 DEF LocalStarts, TypeOK, FailedSpawnForgotten
      <3> QED
        BY <2>1, <3>1, <3>2, <3>3 DEF LocalStarts, OnlyLostLinger, Placed
    <2>2. CASE LocalFails(s)
      BY <2>2, FailedSpawn DEF LocalFails, TypeOK
    <2> QED
      BY <1>13, <2>1, <2>2 DEF Local
  <1>14. ASSUME NEW s \in Sessions, LocalExits(s)
         PROVE  IInv'
    <2>1. TypeOK'
      BY <1>14 DEF LocalExits, TypeOK
    <2>2. registered # 0 => registered \in Sessions
      BY DEF TypeOK, Sessions
    <2>3. NoDeadSession'
      BY <1>14, <2>2 DEF LocalExits, TypeOK, NoDeadSession
    <2> QED
      BY <1>14, <2>1, <2>3
      DEF LocalExits, FailedSpawnForgotten, OnlyLostLinger, Placed
  <1>15. CASE UNCHANGED vars
    BY <1>15 DEF vars, TypeOK, NoDeadSession, FailedSpawnForgotten, OnlyLostLinger, Placed
  <1> QED
    BY <1>1, <1>2, <1>3, <1>4, <1>5, <1>6, <1>7, <1>8, <1>9, <1>10, <1>11, <1>12,
       <1>13, <1>14, <1>15 DEF Next

(* The inductive invariant holds in every behaviour. *)
LEMMA Invariant == Spec => []IInv
  BY Initially, Inductive, PTL DEF Spec

(* The variables keep their types; above all no bridge reconnects more     *)
(* than MAX_RECONNECT times.                                               *)
THEOREM TypeCorrect == Spec => []TypeOK
  BY Invariant, PTL DEF IInv

(* A session offered as alive has a socket, a timer that will make one, or *)
(* a local shell.                                                          *)
THEOREM SessionsAlive == Spec => []NoDeadSession
  BY Invariant, PTL DEF IInv

(* A session whose spawn failed is not registered. *)
THEOREM FailuresForgotten == Spec => []FailedSpawnForgotten
  BY Invariant, PTL DEF IInv

(* Only a founder that left during its spawn stays listed after it left.   *)
THEOREM LingerersLost == Spec => []OnlyLostLinger
  BY Invariant, PTL DEF IInv

=============================================================================
