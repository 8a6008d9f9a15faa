--------------------------- MODULE SandboxRegistry ---------------------------
(***************************************************************************)
(* The registry of sandboxes that aiwg serve keeps in memory               *)
(* (src/serve/sandbox-registry.ts), with the WebSocket on which a sandbox  *)
(* pushes its events and the routes by which the dashboard forgets         *)
(* sandboxes and answers their questions (src/cli/handlers/serve.ts).      *)
(*                                                                         *)
(* A sandbox registers over HTTP and gets an id and a token; with them it  *)
(* opens event sockets.  It sends on the one it opened last; an older one  *)
(* may still be open at the server, with events that were not read yet.    *)
(* Events of one socket are read in order, those of two in any order, and  *)
(* what was not read when a socket closes is lost.                         *)
(*                                                                         *)
(* Of an entry the model keeps its agent (one of each sandbox) with the    *)
(* session count.  Names, metrics, provisioning steps and inventories are  *)
(* left out, and the agent's status, which no property is about.           *)
(***************************************************************************)
EXTENDS Integers, FiniteSets, Sequences

CONSTANTS
  Sandboxes,    \* the sandboxes that may register
  Unstable,     \* those that send no instance_id
  Nobody,       \* no sandbox
  Hitls,        \* questions to a human
  Says,         \* bound: what agents say: a part of AgentEvents
  MaxEntries,   \* bound: sandbox ids in use at a time
  MaxSockets,   \* bound: sockets open for an id
  MaxFlight,    \* bound: unread events of a socket
  MaxSessions,  \* bound: sessions of an agent, in fact and as counted
  MaxCalls      \* bound: answers to a question on their way

(* "agent.set" is agent.connected or agent.provisioning: both set a new    *)
(* entry of the agent, without a count.                                    *)
AgentEvents == {"agent.set", "session.start", "session.end", "agent.sessions"}

ASSUME RegistryAssumption ==
  /\ Unstable \subseteq Sandboxes /\ Nobody \notin Sandboxes
  /\ Says \subseteq AgentEvents /\ Hitls \cap AgentEvents = {}
  /\ MaxEntries \in Nat /\ MaxSockets \in Nat /\ MaxFlight \in Nat
  /\ MaxSessions \in Nat /\ MaxCalls \in Nat

Ids == 1 .. MaxEntries
Numbers == 1 .. MaxSockets
None == 0
Unknown == -1

(* An event is of an agent, or asks a question.  live is the number of     *)
(* sessions when it was sent; only agent.sessions tells it.                *)
Events == [what : AgentEvents \cup Hitls, live : 0 .. MaxSessions]

NoLink == [id |-> None, sock |-> None]

VARIABLES
  sandboxes,   \* the sandbox registered under each id, or Nobody
  byInstance,  \* byInstanceId, None where it has no entry
  recent,      \* sandboxes whose lastRegistrationTime is within DEBOUNCE_MS
  connected,   \* ids whose entry says connected
  count,       \* sessionCount of the agent of an entry, Unknown without agent
  hitl,        \* hitlRequests: the id a pending question belongs to
  sockets,     \* open event sockets of each id
  unread,      \* the events of each socket that were not read yet
  calls,       \* answers that the sandbox has not acknowledged yet
  holds,       \* the id that a sandbox was given last
  link,        \* the socket that a sandbox sends on
  live,        \* the sessions that its agent really has
  drifted,     \* history: ids whose entry has missed or mistaken an event
  asked,       \* history: a question is "new", then "sent", then "taken"
  left         \* history: why a question has left the queue

registry == <<sandboxes, byInstance, recent, connected>>
questions == <<hitl, left, calls, asked>>
agents == <<count, live, drifted>>
network == <<sockets, unread, link>>
vars == <<registry, questions, agents, network, holds>>

Silence == [k \in Numbers |-> <<>>]

Init ==
  /\ sandboxes = [d \in Ids |-> Nobody]
  /\ byInstance = [x \in Sandboxes |-> None]
  /\ recent = {} /\ connected = {}
  /\ count = [d \in Ids |-> Unknown]
  /\ hitl = [h \in Hitls |-> None] /\ left = [h \in Hitls |-> {}]
  /\ sockets = [d \in Ids |-> {}] /\ unread = [d \in Ids |-> Silence]
  /\ calls = [h \in Hitls |-> 0]
  /\ holds = [x \in Sandboxes |-> None] /\ link = [x \in Sandboxes |-> NoLink]
  /\ live = [x \in Sandboxes |-> 0] /\ drifted = {}
  /\ asked = [h \in Hitls |-> "new"]

-----------------------------------------------------------------------------
(* register() *)

(* An id nobody uses any more is as good as a new one. *)
FreeIds == {d \in Ids : /\ sandboxes[d] = Nobody /\ sockets[d] = {}
                        /\ \A x \in Sandboxes : holds[x] # d
                        /\ \A h \in Hitls : hitl[h] # d}

(* The sandbox learns its id, unless the answer is lost. *)
Answer(x, d) == holds' \in {holds, [holds EXCEPT ![x] = d]}

(* Within the window a registration changes nothing. *)
RegisterAgain(x) ==
  /\ byInstance[x] # None /\ x \in recent
  /\ Answer(x, byInstance[x])
  /\ UNCHANGED <<registry, questions, agents, network>>

(* After it the entry is updated, and disconnected. *)
Upsert(x) ==
  /\ byInstance[x] # None /\ x \notin recent
  /\ recent' = recent \cup {x}
  /\ connected' = connected \ {byInstance[x]}
  /\ Answer(x, byInstance[x])
  /\ UNCHANGED <<sandboxes, byInstance, questions, agents, network>>

(* Mutant of RegisterNew: the index is consulted within the window only. *)
RegisterNewAfterWindow(x) ==
  /\ byInstance[x] = None \/ x \notin recent
  /\ \E d \in FreeIds :
       /\ sandboxes' = [sandboxes EXCEPT ![d] = x]
       /\ Answer(x, d)
       /\ byInstance' = [byInstance EXCEPT ![x] = IF x \in Unstable THEN None ELSE d]
  /\ recent' = recent \cup ({x} \ Unstable)
  /\ UNCHANGED <<connected, questions, agents, network>>

RegisterNew(x) ==
  /\ byInstance[x] = None
  /\ \E d \in FreeIds :
       /\ sandboxes' = [sandboxes EXCEPT ![d] = x]
       /\ Answer(x, d)
       /\ byInstance' = [byInstance EXCEPT ![x] = IF x \in Unstable THEN None ELSE d]
  /\ recent' = recent \cup ({x} \ Unstable)
  /\ UNCHANGED <<connected, questions, agents, network>>

WindowPasses(x) ==
  /\ x \in recent /\ recent' = recent \ {x}
  /\ UNCHANGED <<sandboxes, byInstance, connected, questions, agents, network, holds>>

(* deregister() of the ids D.  No socket is closed; what was sent in them   *)
(* and is not read yet will be dropped, as the token is no longer good.    *)
Removed(D) ==
  LET gone == {sandboxes[d] : d \in D} \ Unstable
  IN  /\ sandboxes' = [d \in Ids |-> IF d \in D THEN Nobody ELSE sandboxes[d]]
      /\ byInstance' = [x \in Sandboxes |-> IF x \in gone THEN None ELSE byInstance[x]]
      /\ recent' = recent \ gone
      /\ connected' = connected \ D
      /\ count' = [d \in Ids |-> IF d \in D THEN Unknown ELSE count[d]]
      /\ unread' = [d \in Ids |-> IF d \in D THEN Silence ELSE unread[d]]
      /\ drifted' = drifted \ D
      /\ UNCHANGED <<questions, live, sockets, link, holds>>

Registered == {d \in Ids : sandboxes[d] # Nobody}

(* By the sandbox itself or by the dashboard. *)
Deregister(d) == d \in Registered /\ Removed({d})

ClearOffline == Registered \ connected # {} /\ Removed(Registered \ connected)

(* serve ends and is started again: only the sandboxes remember. *)
Restart ==
  /\ sandboxes' = [d \in Ids |-> Nobody]
  /\ byInstance' = [x \in Sandboxes |-> None]
  /\ recent' = {} /\ connected' = {}
  /\ count' = [d \in Ids |-> Unknown]
  /\ hitl' = [h \in Hitls |-> None] /\ calls' = [h \in Hitls |-> 0]
  /\ left' = [h \in Hitls |-> IF hitl[h] # None THEN left[h] \cup {"restarted"} ELSE left[h]]
  /\ sockets' = [d \in Ids |-> {}] /\ unread' = [d \in Ids |-> Silence]
  /\ link' = [x \in Sandboxes |-> NoLink]
  /\ drifted' = {}
  /\ UNCHANGED <<live, asked, holds>>

-----------------------------------------------------------------------------
(* The event sockets. *)

(* The id and the token of sandbox x are still good. *)
Authentic(x) == holds[x] # None /\ sandboxes[holds[x]] = x

Open(x) ==
  /\ Authentic(x)
  /\ \E k \in Numbers \ sockets[holds[x]] :
       /\ sockets' = [sockets EXCEPT ![holds[x]] = @ \cup {k}]
       /\ link' = [link EXCEPT ![x] = [id |-> holds[x], sock |-> k]]
  /\ connected' = connected \cup {holds[x]}
  /\ UNCHANGED <<sandboxes, byInstance, recent, questions, agents, unread, holds>>

(* The sandbox gives its socket up, or loses it, unnoticed by the server. *)
LinkBreaks(x) ==
  /\ link[x] # NoLink
  /\ link' = [link EXCEPT ![x] = NoLink]
  /\ UNCHANGED <<registry, questions, agents, sockets, unread, holds>>

(* Socket k of an id is closed, with the events in it that were not read. *)
Closed(d, k) ==
  /\ k \in sockets[d]
  /\ sockets' = [sockets EXCEPT ![d] = @ \ {k}]
  /\ unread' = [unread EXCEPT ![d][k] = <<>>]
  /\ drifted' = IF unread[d][k] # <<>> THEN drifted \cup {d} ELSE drifted
  /\ link' = [x \in Sandboxes |->
                IF link[x] = [id |-> d, sock |-> k] THEN NoLink ELSE link[x]]
  /\ UNCHANGED <<sandboxes, byInstance, recent, questions, count, live, holds>>

(* Mutant of Close: the last socket of an id closes unseen. *)
CloseUnseen(d, k) ==
  /\ Closed(d, k)
  /\ connected' = IF sockets[d] # {k} THEN connected \ {d} ELSE connected

(* The entry is marked disconnected, whichever of its sockets it is. *)
Close(d, k) ==
  /\ Closed(d, k)
  /\ connected' = connected \ {d}

-----------------------------------------------------------------------------
(* What a sandbox sends. *)

(* The event goes into the socket in use.  The entries of the sandbox that *)
(* have another socket, or none, miss it; and nothing keeps the order of   *)
(* events that are on their way in two sockets.                            *)
Say(x, event) ==
  LET d == link[x].id  k == link[x].sock
      heard == d # None /\ sandboxes[d] = x
      alone == heard /\ \A j \in Numbers \ {k} : unread[d][j] = <<>>
  IN
  /\ heard => Len(unread[d][k]) < MaxFlight
  /\ unread' = IF heard THEN [unread EXCEPT ![d][k] = Append(@, event)]
                        ELSE unread
  /\ drifted' = drifted \cup {c \in Ids : sandboxes[c] = x /\ ~(c = d /\ alone)}

AgentSays(x, what, n) ==
  /\ what \in Says
  /\ live' = [live EXCEPT ![x] = n]
  /\ Say(x, [what |-> what, live |-> n])
  /\ UNCHANGED <<registry, questions, count, sockets, link, holds>>

(* An agent that starts, or one that is announced again. *)
AgentAnnounced(x) == \E n \in {0, live[x]} : AgentSays(x, "agent.set", n)

SessionStarts(x) == live[x] < MaxSessions /\ AgentSays(x, "session.start", live[x] + 1)

SessionEnds(x) == live[x] > 0 /\ AgentSays(x, "session.end", live[x] - 1)

SessionsListed(x) == AgentSays(x, "agent.sessions", live[x])

Ask(h, x) ==
  /\ asked[h] = "new"
  /\ asked' = [asked EXCEPT ![h] = "sent"]
  /\ Say(x, [what |-> h, live |-> live[x]])
  /\ UNCHANGED <<hitl, left, calls, registry, count, live, sockets, link, holds>>

-----------------------------------------------------------------------------
(* handleEvent() *)

(* Mutant of Counted: the list is replaced, not the count. *)
CountedByStepsOnly(c, event) ==
  CASE event.what = "agent.set" -> 0
    [] event.what = "session.start" /\ c # Unknown -> c + 1
    [] event.what = "session.end" /\ c > 0 -> c - 1
    [] OTHER -> c

(* The session count after an event: none in a new entry, otherwise        *)
(* stepped or replaced.                                                    *)
Counted(c, event) ==
  CASE event.what = "agent.set" -> 0
    [] event.what = "session.start" /\ c # Unknown -> c + 1
    [] event.what = "session.end" /\ c > 0 -> c - 1
    [] event.what = "agent.sessions" /\ c # Unknown -> event.live
    [] OTHER -> c

(* The event tells all there is to know, and is the last word but for what *)
(* follows in the same socket.                                             *)
TellsAll(d, k, event) ==
  /\ link[sandboxes[d]] = [id |-> d, sock |-> k]
  /\ \A j \in Numbers \ {k} : unread[d][j] = <<>>
  /\ \/ event.what = "agent.set" /\ event.live = 0
     \/ event.what = "agent.sessions" /\ count[d] # Unknown

(* An agent is announced while sessions of it run, or is not known.        *)
Mistaken(d, event) ==
  \/ event.what = "agent.set" /\ event.live > 0
  \/ event.what \in {"session.start", "session.end"} /\ count[d] = Unknown

(* The next event of a socket is read.                                     *)
Deliver(d, k) ==
  /\ unread[d][k] # <<>>
  /\ LET event == Head(unread[d][k]) IN
     /\ unread' = [unread EXCEPT ![d][k] = Tail(@)]
     /\ Counted(count[d], event) <= MaxSessions
     /\ count' = [count EXCEPT ![d] = Counted(@, event)]
     /\ drifted' = IF TellsAll(d, k, event) THEN drifted \ {d}
                   ELSE IF Mistaken(d, event) THEN drifted \cup {d} ELSE drifted
     /\ hitl' = [h \in Hitls |-> IF h = event.what THEN d ELSE hitl[h]]
     /\ asked' = [h \in Hitls |-> IF h = event.what THEN "taken" ELSE asked[h]]
  /\ UNCHANGED <<registry, left, calls, live, sockets, link, holds>>

-----------------------------------------------------------------------------
(* The questions' routes and their expiry. *)

(* respond, up to the call of the sandbox. *)
Respond(h) ==
  /\ hitl[h] # None /\ sandboxes[hitl[h]] # Nobody
  /\ calls[h] < MaxCalls
  /\ calls' = [calls EXCEPT ![h] = @ + 1]
  /\ UNCHANGED <<hitl, left, asked, registry, agents, network, holds>>

Leaves(h, why) ==
  /\ hitl' = [hitl EXCEPT ![h] = None]
  /\ left' = [left EXCEPT ![h] = @ \cup {why}]

Returns(h) == calls[h] > 0 /\ calls' = [calls EXCEPT ![h] = @ - 1]

(* The sandbox has acknowledged the answer. *)
RespondEnds(h) ==
  /\ Returns(h) /\ Leaves(h, "responded")
  /\ UNCHANGED <<asked, registry, agents, network, holds>>

(* Mutant of RespondFails: the question is removed all the same. *)
RespondFailsRemoves(h) ==
  /\ Returns(h)
  /\ hitl' = [hitl EXCEPT ![h] = None]
  /\ UNCHANGED <<left, asked, registry, agents, network, holds>>

(* It has refused it, was not reached, or its acknowledgement is lost. *)
RespondFails(h) ==
  /\ Returns(h)
  /\ UNCHANGED <<hitl, left, asked, registry, agents, network, holds>>

(* dismiss, which tells nobody. *)
Dismiss(h) ==
  /\ hitl[h] # None /\ Leaves(h, "dismissed")
  /\ UNCHANGED <<calls, asked, registry, agents, network, holds>>

(* checkHitlExpiry(), for a question with an expiry. *)
Expire(h) ==
  /\ hitl[h] # None /\ Leaves(h, "timed_out")
  /\ UNCHANGED <<calls, asked, registry, agents, network, holds>>

Next ==
  \/ \E x \in Sandboxes :
       \/ RegisterAgain(x) \/ Upsert(x) \/ RegisterNew(x) \/ WindowPasses(x)
       \/ Open(x) \/ LinkBreaks(x)
       \/ AgentAnnounced(x) \/ SessionStarts(x) \/ SessionEnds(x) \/ SessionsListed(x)
  \/ \E d \in Ids, k \in Numbers : Close(d, k) \/ Deliver(d, k)
  \/ \E d \in Ids : Deregister(d)
  \/ ClearOffline \/ Restart
  \/ \E h \in Hitls, x \in Sandboxes : Ask(h, x)
  \/ \E h \in Hitls :
       Respond(h) \/ RespondEnds(h) \/ RespondFails(h) \/ Dismiss(h) \/ Expire(h)

Spec == Init /\ [][Next]_vars

-----------------------------------------------------------------------------
(* Type invariant. *)
TypeOK ==
  /\ sandboxes \in [Ids -> Sandboxes \cup {Nobody}]
  /\ byInstance \in [Sandboxes -> Ids \cup {None}]
  /\ recent \subseteq Sandboxes \ Unstable
  /\ connected \subseteq Registered
  /\ count \in [Ids -> 0 .. MaxSessions \cup {Unknown}]
  /\ hitl \in [Hitls -> Ids \cup {None}]
  /\ left \in [Hitls -> SUBSET {"responded", "dismissed", "timed_out", "restarted"}]
  /\ sockets \in [Ids -> SUBSET Numbers]
  /\ unread \in [Ids -> [Numbers -> Seq(Events)]]
  /\ calls \in [Hitls -> 0 .. MaxCalls]
  /\ holds \in [Sandboxes -> Ids \cup {None}]
  /\ link \in [Sandboxes -> [id : Ids, sock : Numbers] \cup {NoLink}]
  /\ live \in [Sandboxes -> 0 .. MaxSessions] /\ drifted \subseteq Ids
  /\ asked \in [Hitls -> {"new", "sent", "taken"}]

(* The same sandbox never has two entries, however often it registers, is  *)
(* forgotten, or misses the answer to its registration; and the index      *)
(* finds the one it has.  (register, deregister, clearOffline)             *)
OneEntryPerInstance ==
  \A x \in Sandboxes \ Unstable, d \in Ids : sandboxes[d] = x <=> byInstance[x] = d

(* A sandbox that is shown as connected has an event socket open, whatever *)
(* sockets of it were opened, closed late or left from before.             *)
(* (handleSandboxWs, setConnected)                                         *)
ConnectedHasSocket == \A d \in connected : sockets[d] # {}

(* Once what was sent has been read, the session count of an entry is the  *)
(* number of sessions, but for the causes of drift that Say, Closed and    *)
(* Mistaken name: an event was lost, or was on its way in one socket while *)
(* another had some, or came without an agent, or an agent was announced   *)
(* while sessions of it ran.  The next full list repairs the count.        *)
(* (handleEvent)                                                           *)
CountExact ==
  \A d \in Registered \ drifted :
    count[d] # Unknown /\ unread[d] = Silence => count[d] = live[sandboxes[d]]

(* A question that was taken into the queue stays there until the sandbox  *)
(* has acknowledged an answer, it is dismissed, it expires or the server   *)
(* is restarted: through failing and concurrent answers, and with its      *)
(* sandbox forgotten or registered anew. (the routes under /api/hitl)      *)
QuestionsKept ==
  \A h \in Hitls : asked[h] = "taken" /\ left[h] = {} => hitl[h] # None

=============================================================================
