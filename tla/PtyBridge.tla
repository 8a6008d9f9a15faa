------------------------------ MODULE PtyBridge ------------------------------
(***************************************************************************)
(* Terminal sessions of the serve process: PtySessionRegistry, spawnPty(), *)
(* spawnSandboxWsPty() and handlePtyConnection().                          *)
(*                                                                         *)
(* A browser connects under a session id.  The first one creates a session *)
(* and spawns its bridge: a socket to the sandbox on which a shell is      *)
(* started, with a limited number of reconnections.  Later browsers join.  *)
(* Without a sandbox, and after most failures of a bridge to a sandbox     *)
(* that was detected, the session gets a local shell instead; a bridge     *)
(* that was given up is not closed.                                        *)
(* The registry maps the id to the session it has now; the callbacks of a  *)
(* bridge, a failed spawn and a closing browser look the session up by id, *)
(* and so may meet a later session than their own.                         *)
(*                                                                         *)
(* Ids do not affect each other, so the model has one.  The sandbox is the *)
(* environment: any message may come on an open socket, and any socket may *)
(* close.  Terminal data and the deprecated REST sessions are left out.    *)
(***************************************************************************)
EXTENDS Integers

CONSTANTS
  Clients,       \* browser connections, each made once
  MaxReconnect,  \* MAX_RECONNECT
  MaxSessions    \* bound: session objects created

ASSUME PtyAssumption == MaxReconnect \in Nat /\ MaxSessions \in Nat

Sessions == 1 .. MaxSessions

VARIABLES
  made,        \* session objects created so far
  registered,  \* the session the registry has under the id, 0 if none
  link,        \* the bridge's socket and retry timer, see LinkStates
  spawn,       \* the promise of spawnPty(); "local": it awaits node-pty
  pty,         \* session.pty: the bridge, or the local shell or its remains
  exited,      \* session.exited
  attempts,    \* reconnectAttempt
  clients,     \* session.clients
  ws,          \* browser sockets; "lost" is closed, and nobody noticed
  founded      \* the session that a browser's connection created, or 0

vars == <<made, registered, link, spawn, pty, pty, exited, attempts, clients, ws, founded>>

LinkStates ==
  {"none",       \* no bridge was made
   "import",     \* modules are being imported; there is no socket
   "connecting",
   "open",       \* start_shell was sent
   "attached",   \* shell_started was received
   "aborted",    \* closed by the bridge before it was open
   "closing",    \* closed by the bridge; messages still arrive
   "waiting",    \* the retry timer is armed
   "gone"}       \* neither socket nor timer

(* kill(): sock?.close().  It cannot stop a retry timer. *)
Killed(l) ==
  CASE l = "connecting"          -> "aborted"
    [] l \in {"open", "attached"} -> "closing"
    [] OTHER                      -> l

(* registry.delete(id), in a step that has brought the links to lk: the    *)
(* session's pty is killed, which for a shell is a signal.                 *)
Delete(lk) ==
  /\ registered' = 0
  /\ link' = [s \in Sessions |-> IF s = registered /\ pty[s] = "bridge"
                                 THEN Killed(lk[s]) ELSE lk[s]]

(* The handlers of a browser's socket are installed when its connection    *)
(* is set up, which for a founder takes until the spawn is over.           *)
Wired(c) == founded[c] \notin {s \in Sessions : spawn[s] # "ok"}

Init ==
  /\ made = 0
  /\ registered = 0
  /\ link = [s \in Sessions |-> "none"]
  /\ spawn = [s \in Sessions |-> "none"]
  /\ pty = [s \in Sessions |-> "none"]
  /\ exited = [s \in Sessions |-> FALSE]
  /\ attempts = [s \in Sessions |-> 0]
  /\ clients = [s \in Sessions |-> {}]
  /\ ws = [c \in Clients |-> "new"]
  /\ founded = [c \in Clients |-> 0]

-----------------------------------------------------------------------------
(* Browsers. *)

(* handlePtyConnection() with no session under the id, up to its await:    *)
(* for a sandbox that was named or detected, or else for a local shell.    *)
Found(c) ==
  /\ ws[c] = "new"
  /\ registered = 0
  /\ made < MaxSessions
  /\ made' = made + 1
  /\ registered' = made + 1
  /\ \/ /\ link' = [link EXCEPT ![made + 1] = "import"]
        /\ spawn' = [spawn EXCEPT ![made + 1] = "pending"]
     \/ spawn' = [spawn EXCEPT ![made + 1] = "local"] /\ UNCHANGED link
  /\ clients' = [clients EXCEPT ![made + 1] = {c}]
  /\ ws' = [ws EXCEPT ![c] = "open"]
  /\ founded' = [founded EXCEPT ![c] = made + 1]
  /\ UNCHANGED <<pty, exited, attempts>>

(* ... with a session: it is joined, or the browser is told that it exited *)
(* and its socket is closed.                                               *)
Join(c) ==
  /\ ws[c] = "new"
  /\ registered # 0
  /\ IF exited[registered]
       THEN ws' = [ws EXCEPT ![c] = "closed"] /\ UNCHANGED clients
       ELSE /\ ws' = [ws EXCEPT ![c] = "open"]
            /\ clients' = [clients EXCEPT ![registered] = @ \cup {c}]
  /\ UNCHANGED <<made, registered, link, spawn, pty, exited, attempts, founded>>

(* Mutant of Leave: the client stays listed. *)
LeaveUnnoticed(c) ==
  /\ ws[c] = "open"
  /\ ws' = [ws EXCEPT ![c] = IF Wired(c) THEN "closed" ELSE "lost"]
  /\ UNCHANGED <<made, registered, link, spawn, pty, exited, attempts, clients, founded>>

(* A browser's socket closes: onClose() removes it from the session that   *)
(* has the id.  Without handlers nothing happens, then or later.           *)
Leave(c) ==
  /\ ws[c] = "open"
  /\ ws' = [ws EXCEPT ![c] = IF Wired(c) THEN "closed" ELSE "lost"]
  /\ clients' = [s \in Sessions |-> IF s = registered /\ Wired(c)
                                    THEN clients[s] \ {c} ELSE clients[s]]
  /\ UNCHANGED <<made, registered, link, spawn, pty, exited, attempts, founded>>

(* A browser sends 'close': if the session that has the id has a bridge    *)
(* for its pty, that is killed.  A shell is sent a signal, no more.        *)
AskClose(c) ==
  /\ ws[c] = "open" /\ Wired(c)
  /\ registered # 0 /\ pty[registered] = "bridge"
  /\ link' = [link EXCEPT ![registered] = Killed(@)]
  /\ UNCHANGED <<made, registered, spawn, pty, exited, attempts, clients, ws, founded>>

-----------------------------------------------------------------------------
(* The bridge. *)

(* Mutant of SpawnFails: the session stays registered. *)
SpawnFailsKeepsSession(s, lk) ==
  /\ spawn[s] \in {"pending", "local"}
  /\ spawn' = [spawn EXCEPT ![s] = "failed"]
  /\ ws' = [c \in Clients |-> IF founded[c] = s /\ ws[c] = "open"
                              THEN "closed" ELSE ws[c]]
  /\ link' = lk
  /\ UNCHANGED <<registered, made, pty, exited, attempts, clients, founded>>

(* The spawn is rejected, in a step that has brought the links to lk: the  *)
(* founder gets an error and its socket is closed, and the session that    *)
(* has the id is deleted, whichever it is.                                 *)
SpawnFails(s, lk) ==
  /\ spawn[s] \in {"pending", "local"}
  /\ spawn' = [spawn EXCEPT ![s] = "failed"]
  /\ ws' = [c \in Clients |-> IF founded[c] = s /\ ws[c] = "open"
                              THEN "closed" ELSE ws[c]]
  /\ Delete(lk)
  /\ UNCHANGED <<made, pty, exited, attempts, clients, founded>>

(* The bridge is given up: spawnPty() rejects if the sandbox was named,    *)
(* and turns to node-pty if it was detected.                               *)
GivesUp(s, lk) ==
  \/ SpawnFails(s, lk)
  \/ /\ spawn' = [spawn EXCEPT ![s] = "local"]
     /\ link' = lk
     /\ UNCHANGED <<made, registered, pty, exited, attempts, clients, ws, founded>>

(* The imports are done: the first connect(). *)
Imported(s) ==
  /\ link[s] = "import"
  /\ link' = [link EXCEPT ![s] = "connecting"]
  /\ pty' = [pty EXCEPT ![s] = "bridge"]
  /\ UNCHANGED <<made, registered, spawn, exited, attempts, clients, ws, founded>>

(* There is no usable ws package, or no agent was chosen among several. *)
ImportFails(s) ==
  /\ link[s] = "import"
  /\ GivesUp(s, [link EXCEPT ![s] = "gone"])

(* node-pty is there: the local shell becomes the session's pty, even of a *)
(* session that was deleted meanwhile.                                     *)
LocalStarts(s) ==
  /\ spawn[s] = "local"
  /\ spawn' = [spawn EXCEPT ![s] = "ok"]
  /\ pty' = [pty EXCEPT ![s] = "shell"]
  /\ UNCHANGED <<made, registered, link, exited, attempts, clients, ws, founded>>

(* It is missing, or the command cannot be started. *)
LocalFails(s) ==
  /\ spawn[s] = "local"
  /\ SpawnFails(s, link)

(* onExit() of the local shell. *)
LocalExits(s) ==
  /\ pty[s] = "shell"
  /\ pty' = [pty EXCEPT ![s] = "ended"]
  /\ exited' = [exited EXCEPT ![s] = TRUE]
  /\ UNCHANGED <<made, registered, link, spawn, attempts, clients, ws, founded>>

(* 'open': subscribe and start_shell are sent. *)
Opened(s) ==
  /\ link[s] = "connecting"
  /\ link' = [link EXCEPT ![s] = "open"]
  /\ UNCHANGED <<made, registered, spawn, pty, exited, attempts, clients, ws, founded>>

(* 'shell_started'. *)
ShellStarted(s) ==
  /\ link[s] \in {"open", "closing"}
  /\ link' = [link EXCEPT ![s] = IF @ = "open" THEN "attached" ELSE @]
  /\ spawn' = [spawn EXCEPT ![s] = IF @ = "pending" THEN "ok" ELSE @]
  /\ UNCHANGED <<made, registered, pty, exited, attempts, clients, ws, founded>>

(* 'session_killed' or 'session_detached' of the agent.  The answer to     *)
(* kill_session is one; the socket has been subscribed to the agent since  *)
(* it opened, so those of other sessions come as well.                     *)
SessionKilled(s) ==
  /\ link[s] \in {"open", "attached", "closing"}
  /\ exited' = [exited EXCEPT ![s] = TRUE]
  /\ UNCHANGED <<made, registered, link, spawn, pty, attempts, clients, ws, founded>>

(* Mutant of SpawnTimeout: the timer covers the connection only. *)
ConnectTimeout(s) ==
  /\ spawn[s] = "pending" /\ link[s] = "connecting"
  /\ GivesUp(s, link)

(* The 15 s timer of the first connect().  It leaves the socket alone. *)
SpawnTimeout(s) ==
  /\ spawn[s] = "pending" /\ link[s] # "import"
  /\ GivesUp(s, link)

(* Mutant of Disconnected: retries run out and the session is not told.    *)
DisconnectedSilently(s) ==
  /\ spawn[s] # "pending"
  /\ link[s] \in {"connecting", "open", "attached", "closing", "aborted"}
  /\ IF exited[s] \/ attempts[s] = MaxReconnect
       THEN /\ link' = [link EXCEPT ![s] = "gone"]
            /\ UNCHANGED <<attempts, exited>>
       ELSE /\ attempts' = [attempts EXCEPT ![s] = @ + 1]
            /\ link' = [link EXCEPT ![s] = "waiting"]
            /\ UNCHANGED exited
  /\ UNCHANGED <<made, registered, spawn, pty, clients, ws, founded>>

(* 'close' after the spawn is over, for whatever reason: back off and      *)
(* reconnect, unless the session has exited.  Without a retry left it      *)
(* exits now.                                                              *)
Disconnected(s) ==
  /\ spawn[s] # "pending"
  /\ link[s] \in {"connecting", "open", "attached", "closing", "aborted"}
  /\ IF exited[s] \/ attempts[s] = MaxReconnect
       THEN /\ link' = [link EXCEPT ![s] = "gone"]
            /\ exited' = [exited EXCEPT ![s] = TRUE]
            /\ UNCHANGED attempts
       ELSE /\ attempts' = [attempts EXCEPT ![s] = @ + 1]
            /\ link' = [link EXCEPT ![s] = "waiting"]
            /\ UNCHANGED exited
  /\ UNCHANGED <<made, registered, spawn, pty, clients, ws, founded>>

(* 'close' while the spawn is pending.  Of the bridge's errors only this   *)
(* one begins with 'Sandbox ', for which spawnPty() always rejects.        *)
ClosedEarly(s) ==
  /\ spawn[s] = "pending"
  /\ link[s] \in {"connecting", "open", "closing", "aborted"}
  /\ SpawnFails(s, [link EXCEPT ![s] = "gone"])

(* The retry timer: connect(). *)
Retry(s) ==
  /\ link[s] = "waiting"
  /\ link' = [link EXCEPT ![s] = "connecting"]
  /\ UNCHANGED <<made, registered, spawn, pty, exited, attempts, clients, ws, founded>>

-----------------------------------------------------------------------------
(* Mutant of Evict: a session that exited waits for its browsers. *)
EvictOrphans ==
  /\ registered # 0
  /\ clients[registered] = {}
  /\ Delete(link)
  /\ UNCHANGED <<made, spawn, pty, exited, attempts, clients, ws, founded>>

(* evictExpired(): a session without browsers for 30 s, or one that exited. *)
Evict ==
  /\ registered # 0
  /\ clients[registered] = {} \/ exited[registered]
  /\ Delete(link)
  /\ UNCHANGED <<made, spawn, pty, exited, attempts, clients, ws, founded>>

Import(s) == Imported(s) \/ ImportFails(s)
Local(s) == LocalStarts(s) \/ LocalFails(s)

Next ==
  \/ \E c \in Clients : Found(c) \/ Join(c) \/ Leave(c) \/ AskClose(c)
  \/ \E s \in Sessions :
       \/ Import(s) \/ Local(s) \/ LocalExits(s)
       \/ Opened(s) \/ ShellStarted(s) \/ SessionKilled(s)
       \/ SpawnTimeout(s) \/ Disconnected(s) \/ ClosedEarly(s) \/ Retry(s)
  \/ Evict

Spec == Init /\ [][Next]_vars

(* Imports end and timers fire; sockets and browsers owe nothing.  A       *)
(* browser may come and go for ever faster than the 30 s of the eviction,  *)
(* which is then not owed: it need not be enabled continuously.            *)
FairSpec ==
  /\ Spec
  /\ \A s \in Sessions : WF_vars(Import(s)) /\ WF_vars(Local(s)) /\ WF_vars(SpawnTimeout(s))
  /\ WF_vars(Evict)

-----------------------------------------------------------------------------
TypeOK ==
  /\ made \in 0 .. MaxSessions
  /\ registered \in 0 .. made
  /\ link \in [Sessions -> LinkStates]
  /\ spawn \in [Sessions -> {"none", "pending", "local", "ok", "failed"}]
  /\ pty \in [Sessions -> {"none", "bridge", "shell", "ended"}]
  /\ exited \in [Sessions -> BOOLEAN]
  /\ attempts \in [Sessions -> 0 .. MaxReconnect]
  /\ clients \in [Sessions -> SUBSET Clients]
  /\ ws \in [Clients -> {"new", "open", "closed", "lost"}]
  /\ founded \in [Clients -> 0 .. made]

(* A session that the registry offers as alive has something that can      *)
(* speak or exit: a bridge with a socket, or a timer that will make one, a *)
(* local shell, or one being started.  No order of kills, timeouts,        *)
(* retries and fallbacks leaves browsers on a session without.             *)
NoDeadSession ==
  registered # 0 /\ ~exited[registered] =>
    \/ link[registered] \notin {"none", "gone"}
    \/ spawn[registered] = "local" \/ pty[registered] = "shell"

(* A session whose spawn failed is not registered, although the failure    *)
(* deletes by id and may hit another session.                              *)
FailedSpawnForgotten ==
  registered # 0 => spawn[registered] \in {"pending", "local", "ok"}

(* A browser that is gone stays listed only if it founded the session and  *)
(* left before the spawn was over, when no handler was there to notice.    *)
OnlyLostLinger ==
  registered # 0 =>
    \A c \in clients[registered] :
      ws[c] = "open" \/ (ws[c] = "lost" /\ founded[c] = registered)

(* handlePtyConnection() returns or rejects: no spawn is pending for ever, *)
(* neither on the bridge nor on the local shell it falls back to.          *)
SpawnSettles ==
  \A s \in Sessions :
    spawn[s] \in {"pending", "local"} ~> spawn[s] \in {"ok", "failed"}

(* A session that exited goes away, whoever still has it open; one that    *)
(* every browser has left goes away or is joined again.                    *)
UnusedIsEvicted ==
  \A s \in Sessions :
    /\ registered = s /\ exited[s] ~> registered # s
    /\ registered = s /\ (\A c \in clients[s] : ws[c] = "closed")
         ~> (registered # s \/ \E c \in clients[s] : ws[c] = "open")

(* What the close handler assumes ("already torn down intentionally"): the *)
(* bridge of a session that was deleted stays down.                        *)
TornDownStaysDown ==
  \A s \in Sessions :
    s <= made /\ s # registered =>
      link[s] \notin {"waiting", "connecting", "open", "attached"}

=============================================================================
