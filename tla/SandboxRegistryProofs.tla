------------------------ MODULE SandboxRegistryProofs ------------------------
(***************************************************************************)
(* The invariants of SandboxRegistry, for any sandboxes, questions and     *)
(* bounds.                                                                 *)
(***************************************************************************)
EXTENDS SandboxRegistry, SequenceTheorems, TLAPS

(* A sandbox without an instance_id is never indexed. *)
Unindexed == \A x \in Unstable : byInstance[x] = None

(* Only an entry has an agent, and events that wait for it. *)
AgentsPlaced ==
  \A d \in Ids : sandboxes[d] = Nobody => count[d] = Unknown /\ unread[d] = Silence

(* A sandbox uses an open socket; a socket that is not open holds nothing. *)
LinksOpen ==
  /\ \A x \in Sandboxes : link[x] # NoLink => link[x].sock \in sockets[link[x].id]
  /\ \A d \in Ids, k \in Numbers : k \notin sockets[d] => unread[d][k] = <<>>

(* An event that is read when the count is c leaves it at what it was      *)
(* when it was sent, or announces an agent.                                *)
Fits(c, event) == event.what = "agent.set" \/ Counted(c, event) = event.live

Final(events) == events[Len(events)]

Chained(events) ==
  \A i \in 1 .. Len(events) - 1 : Fits(events[i].live, events[i + 1])

(* In a socket each event fits the one before, and the last one in the     *)
(* socket in use tells how many sessions there are.                        *)
Orderly(d, k) ==
  /\ Chained(unread[d][k])
  /\ \A x \in Sandboxes :
       sandboxes[d] = x /\ link[x] = [id |-> d, sock |-> k] /\ unread[d][k] # <<>> =>
         Final(unread[d][k]).live = live[x]

InOrder == \A d \in Ids, k \in Numbers : Orderly(d, k)

(* Of an entry that has missed nothing, the unread events are in one       *)
(* socket, and the count together with them gives the number of sessions.  *)
Agreed(d) ==
  /\ \A j, k \in Numbers : unread[d][j] # <<>> /\ unread[d][k] # <<>> => j = k
  /\ count[d] # Unknown /\ unread[d] = Silence => count[d] = live[sandboxes[d]]
  /\ \A k \in Numbers : unread[d][k] # <<>> =>
       /\ Final(unread[d][k]).live = live[sandboxes[d]]
       /\ count[d] # Unknown => Fits(count[d], unread[d][k][1])

Agreement == \A d \in Registered \ drifted : Agreed(d)

IInv == /\ TypeOK /\ OneEntryPerInstance /\ ConnectedHasSocket /\ QuestionsKept
        /\ Unindexed /\ AgentsPlaced /\ LinksOpen /\ InOrder /\ Agreement

(* No socket has anything unread. *)
LEMMA SilenceTyped ==
  Silence \in [Numbers -> Seq(Events)] /\ \A k \in Numbers : Silence[k] = <<>> /\ Len(Silence[k]) = 0
  BY DEF Silence

(* A socket without unread events is in order. *)
LEMMA EmptyChained == Chained(<<>>)
  BY DEF Chained

LEMMA EmptyOrderly ==
  ASSUME NEW d \in Ids, NEW k \in Numbers, unread'[d][k] = <<>>
  PROVE  Orderly(d, k)'
  BY EmptyChained DEF Orderly

(* What a step leaves of a socket and its sandbox stays in order. *)
LEMMA SameOrderly ==
  ASSUME NEW d \in Ids, NEW k \in Numbers, Orderly(d, k),
         sandboxes'[d] = sandboxes[d], unread'[d][k] = unread[d][k], live' = live,
         \A x \in Sandboxes :
           link'[x] = [id |-> d, sock |-> k] => link[x] = [id |-> d, sock |-> k]
  PROVE  Orderly(d, k)'
  BY DEF Orderly

(* An entry agrees as before when nothing of it changes. *)
LEMMA SameAgreed ==
  ASSUME NEW d \in Ids, Agreed(d), sandboxes'[d] = sandboxes[d],
         unread'[d] = unread[d], count'[d] = count[d],
         live'[sandboxes[d]] = live[sandboxes[d]]
  PROVE  Agreed(d)'
  BY DEF Agreed

(* The invariant holds at first. *)
LEMMA Initially == Init => IInv
  <1> SUFFICES ASSUME Init PROVE IInv
    OBVIOUS
  <1> USE RegistryAssumption, SilenceTyped DEF Init, Ids, None, Unknown
  <1>1. TypeOK
    <2>1. unread \in [Ids -> [Numbers -> Seq(Events)]]
      OBVIOUS
    <2>2. live \in [Sandboxes -> 0 .. MaxSessions] /\ calls \in [Hitls -> 0 .. MaxCalls]
      OBVIOUS
    <2> QED BY <2>1, <2>2 DEF TypeOK, Registered
  <1>2. OneEntryPerInstance /\ ConnectedHasSocket /\ QuestionsKept
    BY DEF OneEntryPerInstance, ConnectedHasSocket, QuestionsKept
  <1>3. Unindexed /\ AgentsPlaced /\ LinksOpen /\ InOrder /\ Agreement
    <2>1. \A d \in Ids, k \in Numbers : unread[d][k] = <<>>
      OBVIOUS
    <2>2. InOrder
      BY <2>1, EmptyChained DEF InOrder, Orderly
    <2>3. Registered = {}
      BY DEF Registered
    <2>4. Unindexed /\ AgentsPlaced
      BY DEF Unindexed, AgentsPlaced
    <2>5. LinksOpen
      BY <2>1 DEF LinksOpen
    <2> QED BY <2>2, <2>3, <2>4, <2>5 DEF Agreement
  <1> QED BY <1>1, <1>2, <1>3 DEF IInv

(* What a sandbox holds after a registration, whether it got the answer. *)
LEMMA Answers ==
  ASSUME TypeOK, NEW x \in Sandboxes, NEW d \in Ids, Answer(x, d)
  PROVE  holds' \in [Sandboxes -> Ids \cup {None}]
  BY DEF Answer, TypeOK

(* Registrations of a known sandbox leave entries and sockets as they are. *)
LEMMA RegistersKnown ==
  ASSUME IInv, NEW x \in Sandboxes, RegisterAgain(x) \/ Upsert(x)
  PROVE  IInv'
  <1> USE RegistryAssumption DEF IInv, Ids, None, Unknown
  <1> DEFINE d == byInstance[x]
  <1>1. x \notin Unstable /\ d \in Ids /\ sandboxes[d] = x
    BY DEF RegisterAgain, Upsert, Unindexed, OneEntryPerInstance, TypeOK
  <1>2. /\ UNCHANGED <<sandboxes, byInstance, questions, agents, network>>
        /\ Answer(x, d) /\ connected' \subseteq connected
        /\ recent' \subseteq recent \cup {x}
    BY DEF RegisterAgain, Upsert, registry
  <1>3. holds' \in [Sandboxes -> Ids \cup {None}]
    BY <1>1, <1>2, Answers
  <1>4. TypeOK'
    BY <1>1, <1>2, <1>3 DEF TypeOK, Registered, questions, agents, network
  <1>5. OneEntryPerInstance' /\ ConnectedHasSocket' /\ QuestionsKept' /\ Unindexed'
    BY <1>2
    DEF OneEntryPerInstance, ConnectedHasSocket, QuestionsKept, Unindexed, questions,
        network
  <1>6. AgentsPlaced' /\ LinksOpen' /\ InOrder' /\ Agreement'
    BY <1>2
    DEF AgentsPlaced, LinksOpen, InOrder, Orderly, Agreement, Agreed, Registered, agents,
        network
  <1> QED
    BY <1>4, <1>5, <1>6

(* A sandbox that the server does not know gets a fresh id. *)
LEMMA RegistersNew ==
  ASSUME IInv, NEW x \in Sandboxes, RegisterNew(x)
  PROVE  IInv'
  <1> USE RegistryAssumption DEF IInv, Ids, None, Unknown
  <1>1. PICK d \in FreeIds :
          /\ sandboxes' = [sandboxes EXCEPT ![d] = x]
          /\ Answer(x, d)
          /\ byInstance' = [byInstance EXCEPT ![x] = IF x \in Unstable THEN None ELSE d]
    BY DEF RegisterNew
  <1>2. /\ d \in Ids /\ sandboxes[d] = Nobody /\ sockets[d] = {} /\ count[d] = Unknown
        /\ unread[d] = Silence
    BY <1>1 DEF FreeIds, AgentsPlaced
  <1>3. /\ recent' = recent \cup ({x} \ Unstable)
        /\ UNCHANGED <<connected, questions, agents, network>>
        /\ byInstance[x] = None
    BY DEF RegisterNew
  <1>4. TypeOK'
    <2>1. holds' \in [Sandboxes -> Ids \cup {None}]
      BY <1>1, <1>2, Answers
    <2>2. byInstance' \in [Sandboxes -> Ids \cup {None}]
      BY <1>1, <1>2 DEF TypeOK
    <2>3. connected' \subseteq Registered'
      BY <1>1, <1>2, <1>3 DEF TypeOK, Registered
    <2> QED
      BY <1>1, <1>2, <1>3, <2>1, <2>2, <2>3 DEF TypeOK, questions, agents, network
  <1>5. OneEntryPerInstance'
    BY <1>1, <1>2, <1>3 DEF OneEntryPerInstance, TypeOK
  <1>6. ConnectedHasSocket' /\ QuestionsKept'
    BY <1>3 DEF ConnectedHasSocket, QuestionsKept, questions, network
  <1>7. Unindexed'
    BY <1>1 DEF Unindexed, TypeOK
  <1>8. AgentsPlaced'
    BY <1>1, <1>2, <1>3 DEF AgentsPlaced, TypeOK, agents, network
  <1>9. LinksOpen'
    BY <1>3 DEF LinksOpen, network
  <1>10. \A k \in Numbers : unread[d][k] = <<>>
    BY <1>2 DEF LinksOpen
  <1>11. \A e \in Ids : e # d => sandboxes'[e] = sandboxes[e]
    BY <1>1, <1>2 DEF TypeOK
  <1>12. InOrder'
    BY <1>3, <1>10, <1>11, EmptyOrderly, SameOrderly DEF InOrder, network, agents
  <1>13. Agreement'
    <2> SUFFICES ASSUME NEW e \in Registered' \ drifted PROVE Agreed(e)'
      BY <1>3 DEF Agreement, agents
    <2>1. CASE e = d
      BY <1>2, <1>3, <1>10, <2>1 DEF Agreed, agents, network
    <2>2. CASE e # d
      <3>1. e \in Registered \ drifted /\ sandboxes'[e] = sandboxes[e]
        BY <1>11, <2>2 DEF Registered
      <3> QED BY <1>3, <3>1 DEF Agreement, Agreed, agents, network
    <2> QED BY <2>1, <2>2
  <1> QED
    BY <1>4, <1>5, <1>6, <1>7, <1>8, <1>9, <1>12, <1>13

(* Any set of registered ids is removed at once. *)
LEMMA Removes ==
  ASSUME IInv, NEW D \in SUBSET Ids, D \subseteq Registered, Removed(D)
  PROVE  IInv'
  <1> USE RegistryAssumption DEF IInv, Ids, None, Unknown
  <1> DEFINE gone == {sandboxes[d] : d \in D} \ Unstable
  <1>1. /\ sandboxes' = [d \in Ids |-> IF d \in D THEN Nobody ELSE sandboxes[d]]
        /\ byInstance' = [x \in Sandboxes |-> IF x \in gone THEN None ELSE byInstance[x]]
        /\ recent' = recent \ gone /\ connected' = connected \ D
        /\ count' = [d \in Ids |-> IF d \in D THEN Unknown ELSE count[d]]
        /\ unread' = [d \in Ids |-> IF d \in D THEN Silence ELSE unread[d]]
        /\ drifted' = drifted \ D
        /\ UNCHANGED <<questions, live, sockets, link, holds>>
    BY DEF Removed
  <1>2. TypeOK'
    <2>1. connected' \subseteq Registered'
      BY <1>1 DEF TypeOK, Registered
    <2>2. unread' \in [Ids -> [Numbers -> Seq(Events)]]
      BY <1>1, SilenceTyped DEF TypeOK
    <2> QED
      BY <1>1, <2>1, <2>2 DEF TypeOK, questions
  <1>3. OneEntryPerInstance'
    <2> SUFFICES ASSUME NEW x \in Sandboxes \ Unstable, NEW d \in Ids
                 PROVE  sandboxes'[d] = x <=> byInstance'[x] = d
      BY DEF OneEntryPerInstance
    <2>1. sandboxes[d] = x <=> byInstance[x] = d
      BY DEF OneEntryPerInstance
    <2>2. x \in gone => byInstance[x] \in D
      BY DEF OneEntryPerInstance
    <2>3. d \in D /\ sandboxes[d] = x => x \in gone
      OBVIOUS
    <2>4. x # Nobody /\ d # 0
      OBVIOUS
    <2>5. sandboxes'[d] = IF d \in D THEN Nobody ELSE sandboxes[d]
      BY <1>1
    <2>6. byInstance'[x] = IF x \in gone THEN None ELSE byInstance[x]
      BY <1>1
    <2> HIDE DEF gone
    <2> QED
      BY <2>1, <2>2, <2>3, <2>4, <2>5, <2>6
  <1>4. ConnectedHasSocket' /\ QuestionsKept'
    BY <1>1 DEF ConnectedHasSocket, QuestionsKept, questions
  <1>5. Unindexed' /\ AgentsPlaced'
    BY <1>1 DEF Unindexed, AgentsPlaced, Registered
  <1>6. LinksOpen'
    BY <1>1, SilenceTyped DEF LinksOpen
  <1>7. InOrder'
    <2> SUFFICES ASSUME NEW d \in Ids, NEW k \in Numbers PROVE Orderly(d, k)'
      BY DEF InOrder
    <2>1. CASE d \in D
      <3>1. unread'[d][k] = <<>>
        BY <1>1, <2>1, SilenceTyped
      <3> QED BY <3>1, EmptyOrderly
    <2>2. CASE d \notin D
      <3>1. sandboxes'[d] = sandboxes[d] /\ unread'[d] = unread[d]
        BY <1>1, <2>2
      <3>2. Orderly(d, k) /\ live' = live /\ link' = link
        BY <1>1 DEF InOrder
      <3> QED BY <3>1, <3>2, SameOrderly
    <2> QED BY <2>1, <2>2
  <1>8. Agreement'
    <2> SUFFICES ASSUME NEW e \in Registered' \ drifted' PROVE Agreed(e)'
      BY DEF Agreement
    <2>1. e \in Ids \ D /\ e \in Registered \ drifted
      BY <1>1 DEF Registered
    <2> QED BY <1>1, <2>1 DEF Agreement, Agreed
  <1> QED
    BY <1>2, <1>3, <1>4, <1>5, <1>6, <1>7, <1>8

(* A restart of the server forgets everything. *)
LEMMA Restarts ==
  ASSUME IInv, Restart
  PROVE  IInv'
  <1> USE RegistryAssumption, SilenceTyped DEF IInv, Ids, None, Unknown, Restart
  <1>1. TypeOK'
    <2>1. unread' \in [Ids -> [Numbers -> Seq(Events)]]
      OBVIOUS
    <2>2. left' \in [Hitls -> SUBSET {"responded", "dismissed", "timed_out", "restarted"}]
      BY DEF TypeOK
    <2> QED BY <2>1, <2>2 DEF TypeOK, Registered
  <1>2. OneEntryPerInstance' /\ ConnectedHasSocket' /\ QuestionsKept'
    <2>1. OneEntryPerInstance' /\ ConnectedHasSocket'
      BY DEF OneEntryPerInstance, ConnectedHasSocket
    <2>2. ASSUME NEW h \in Hitls, asked[h] = "taken", left'[h] = {} PROVE FALSE
      <3>1. left'[h] = IF hitl[h] # None THEN left[h] \cup {"restarted"} ELSE left[h]
        OBVIOUS
      <3>2. "restarted" \in left'[h] \/ hitl[h] = None
        BY <3>1
      <3> QED BY <2>2, <3>1, <3>2 DEF QuestionsKept
    <2> QED BY <2>1, <2>2 DEF QuestionsKept
  <1>3. Unindexed' /\ AgentsPlaced' /\ LinksOpen' /\ InOrder' /\ Agreement'
    <2>1. \A d \in Ids, k \in Numbers : unread'[d][k] = <<>>
      OBVIOUS
    <2>2. Unindexed' /\ AgentsPlaced'
      BY DEF Unindexed, AgentsPlaced
    <2>3. LinksOpen'
      BY <2>1 DEF LinksOpen
    <2>4. InOrder'
      BY <2>1, EmptyOrderly DEF InOrder
    <2>5. Registered' = {}
      BY DEF Registered
    <2> QED BY <2>2, <2>3, <2>4, <2>5 DEF Agreement
  <1> QED BY <1>1, <1>2, <1>3

(* What a sandbox opens is empty. *)
LEMMA Opens ==
  ASSUME IInv, NEW x \in Sandboxes, Open(x)
  PROVE  IInv'
  <1> USE RegistryAssumption DEF IInv, Ids, None, Unknown
  <1> DEFINE d == holds[x]
  <1>1. d \in Registered /\ sandboxes[d] = x
    BY DEF Open, Authentic, Registered, TypeOK
  <1>2. PICK k \in Numbers \ sockets[d] :
          /\ sockets' = [sockets EXCEPT ![d] = @ \cup {k}]
          /\ link' = [link EXCEPT ![x] = [id |-> d, sock |-> k]]
    BY DEF Open
  <1>3. /\ UNCHANGED <<sandboxes, byInstance, recent, questions, agents, unread, holds>>
        /\ connected' = connected \cup {d}
    BY DEF Open
  <1>4. d \in Ids /\ unread[d][k] = <<>>
    BY <1>1 DEF Registered, LinksOpen
  <1>5. TypeOK'
    <2>1. sockets' \in [Ids -> SUBSET Numbers]
      BY <1>2, <1>4 DEF TypeOK
    <2>2. link' \in [Sandboxes -> [id : Ids, sock : Numbers] \cup {NoLink}]
      BY <1>2, <1>4 DEF TypeOK
    <2>3. connected' \subseteq Registered'
      BY <1>1, <1>3 DEF TypeOK, Registered
    <2> QED BY <1>3, <2>1, <2>2, <2>3 DEF TypeOK, questions, agents
  <1>6. OneEntryPerInstance' /\ QuestionsKept' /\ Unindexed' /\ AgentsPlaced'
    BY <1>3
    DEF OneEntryPerInstance, QuestionsKept, Unindexed, AgentsPlaced, questions, agents
  <1>7. k \in sockets'[d] /\ \A e \in Ids : sockets[e] \subseteq sockets'[e]
    BY <1>2, <1>4 DEF TypeOK
  <1>8. ConnectedHasSocket'
    <2> SUFFICES ASSUME NEW e \in connected' PROVE sockets'[e] # {}
      BY DEF ConnectedHasSocket
    <2>1. e = d \/ (e \in Ids /\ sockets[e] # {})
      BY <1>3 DEF ConnectedHasSocket, TypeOK, Registered
    <2> QED BY <1>7, <2>1
  <1>9. LinksOpen'
    <2>1. \A y \in Sandboxes : y # x => link'[y] = link[y]
      BY <1>2 DEF TypeOK
    <2>2. link'[x].id = d /\ link'[x].sock = k
      BY <1>2 DEF TypeOK
    <2> HIDE DEF d
    <2>3. ASSUME NEW y \in Sandboxes, link'[y] # NoLink
          PROVE  link'[y].sock \in sockets'[link'[y].id]
      <3>1. CASE y = x
        BY <1>7, <2>2, <3>1
      <3>2. CASE y # x
        <4>1. link[y].id \in Ids /\ link[y].sock \in sockets[link[y].id]
          BY <2>1, <2>3, <3>2 DEF LinksOpen, TypeOK
        <4> QED BY <1>7, <2>1, <3>2, <4>1
      <3> QED BY <3>1, <3>2
    <2> QED BY <1>3, <1>7, <2>3 DEF LinksOpen
  <1>10. InOrder'
    <2> SUFFICES ASSUME NEW e \in Ids, NEW j \in Numbers PROVE Orderly(e, j)'
      BY DEF InOrder
    <2>1. CASE e = d /\ j = k
      BY <1>3, <1>4, <2>1, EmptyOrderly
    <2>2. CASE ~(e = d /\ j = k)
      <3>1. ASSUME NEW y \in Sandboxes, link'[y] = [id |-> e, sock |-> j]
            PROVE  link[y] = [id |-> e, sock |-> j]
        BY <1>2, <2>2, <3>1 DEF TypeOK
      <3> QED BY <1>3, <3>1, SameOrderly DEF InOrder, agents
    <2> QED BY <2>1, <2>2
  <1>11. Agreement'
    BY <1>3 DEF Agreement, Agreed, Registered, agents
  <1> QED BY <1>5, <1>6, <1>8, <1>9, <1>10, <1>11

(* Losing a socket unnoticed, and the passing of the window. *)
LEMMA Breaks ==
  ASSUME IInv, NEW x \in Sandboxes, LinkBreaks(x) \/ WindowPasses(x)
  PROVE  IInv'
  <1> USE RegistryAssumption DEF IInv, Ids, None, Unknown
  <1>1. /\ UNCHANGED <<sandboxes, byInstance, connected, questions, agents, sockets,
                       unread, holds>>
        /\ recent' \subseteq recent
        /\ \/ link' = link
           \/ link' = [link EXCEPT ![x] = NoLink]
    BY DEF LinkBreaks, WindowPasses, registry, network
  <1>2. /\ \A y \in Sandboxes : link'[y] = link[y] \/ link'[y] = NoLink
        /\ link' \in [Sandboxes -> [id : Ids, sock : Numbers] \cup {NoLink}]
    BY <1>1 DEF TypeOK
  <1>3. TypeOK'
    BY <1>1, <1>2 DEF TypeOK, Registered, questions, agents
  <1>4. /\ OneEntryPerInstance' /\ ConnectedHasSocket' /\ QuestionsKept' /\ Unindexed'
        /\ AgentsPlaced'
    BY <1>1
    DEF OneEntryPerInstance, ConnectedHasSocket, QuestionsKept, Unindexed, AgentsPlaced,
        questions, agents
  <1>5. LinksOpen'
    BY <1>1, <1>2 DEF LinksOpen
  <1>6. InOrder'
    <2> SUFFICES ASSUME NEW e \in Ids, NEW j \in Numbers PROVE Orderly(e, j)'
      BY DEF InOrder
    <2>1. \A y \in Sandboxes :
            link'[y] = [id |-> e, sock |-> j] => link[y] = [id |-> e, sock |-> j]
      BY <1>2 DEF NoLink
    <2> QED BY <1>1, <2>1, SameOrderly DEF InOrder, agents
  <1>7. Agreement'
    BY <1>1 DEF Agreement, Agreed, Registered, agents
  <1> QED BY <1>3, <1>4, <1>5, <1>6, <1>7

(* A socket that closes loses what is in it. *)
LEMMA Closes ==
  ASSUME IInv, NEW d \in Ids, NEW k \in Numbers, Close(d, k)
  PROVE  IInv'
  <1> USE RegistryAssumption DEF IInv, Ids, None, Unknown
  <1>1. /\ k \in sockets[d]
        /\ sockets' = [sockets EXCEPT ![d] = @ \ {k}]
        /\ unread' = [unread EXCEPT ![d][k] = <<>>]
        /\ drifted' = IF unread[d][k] # <<>> THEN drifted \cup {d} ELSE drifted
        /\ link' = [x \in Sandboxes |->
                      IF link[x] = [id |-> d, sock |-> k] THEN NoLink ELSE link[x]]
        /\ UNCHANGED <<sandboxes, byInstance, recent, questions, count, live, holds>>
        /\ connected' = connected \ {d}
    BY DEF Close, Closed
  <1>2. /\ unread[d] \in [Numbers -> Seq(Events)]
        /\ unread'[d] = [unread[d] EXCEPT ![k] = <<>>]
        /\ \A e \in Ids : e # d => unread'[e] = unread[e] /\ sockets'[e] = sockets[e]
        /\ sockets'[d] = sockets[d] \ {k}
    BY <1>1 DEF TypeOK
  <1>3. /\ unread'[d][k] = <<>>
        /\ \A j \in Numbers : j # k => unread'[d][j] = unread[d][j]
    BY <1>2
  <1>4. unread[d][k] = <<>> => unread'[d] = unread[d]
    BY <1>2, <1>3
  <1>5. TypeOK'
    <2>1. unread' \in [Ids -> [Numbers -> Seq(Events)]]
      <3>1. [unread[d] EXCEPT ![k] = <<>>] \in [Numbers -> Seq(Events)]
        BY <1>2
      <3> QED BY <1>1, <3>1 DEF TypeOK
    <2>2. link' \in [Sandboxes -> [id : Ids, sock : Numbers] \cup {NoLink}]
      BY <1>1 DEF TypeOK
    <2>3. sockets' \in [Ids -> SUBSET Numbers] /\ connected' \subseteq Registered'
      BY <1>1 DEF TypeOK, Registered
    <2> QED BY <1>1, <2>1, <2>2, <2>3 DEF TypeOK, questions
  <1>6. OneEntryPerInstance' /\ QuestionsKept' /\ Unindexed'
    BY <1>1 DEF OneEntryPerInstance, QuestionsKept, Unindexed, questions
  <1>7. ConnectedHasSocket'
    BY <1>1, <1>2 DEF ConnectedHasSocket, TypeOK, Registered
  <1>8. AgentsPlaced'
    <2>1. unread[d] = Silence => unread[d][k] = <<>>
      BY SilenceTyped
    <2> QED BY <1>1, <1>2, <1>4, <2>1 DEF AgentsPlaced
  <1>9. LinksOpen'
    <2>1. ASSUME NEW x \in Sandboxes, link'[x] # NoLink
          PROVE  link'[x].sock \in sockets'[link'[x].id]
      <3>1. link'[x] = link[x] /\ link[x] # [id |-> d, sock |-> k]
        BY <1>1, <2>1
      <3>2. link[x] \in [id : Ids, sock : Numbers] /\ link[x].sock \in sockets[link[x].id]
        BY <2>1, <3>1 DEF TypeOK, LinksOpen
      <3>3. ~(link[x].id = d /\ link[x].sock = k)
        BY <3>1, <3>2
      <3> QED BY <1>2, <3>1, <3>2, <3>3
    <2>2. \A e \in Ids, j \in Numbers : j \notin sockets'[e] => unread'[e][j] = <<>>
      BY <1>2, <1>3 DEF LinksOpen
    <2> QED BY <2>1, <2>2 DEF LinksOpen
  <1>10. InOrder'
    <2> SUFFICES ASSUME NEW e \in Ids, NEW j \in Numbers PROVE Orderly(e, j)'
      BY DEF InOrder
    <2>1. CASE e = d /\ j = k
      BY <1>3, <2>1, EmptyOrderly
    <2>2. CASE ~(e = d /\ j = k)
      <3>1. unread'[e][j] = unread[e][j]
        BY <1>2, <1>3, <2>2
      <3>2. \A x \in Sandboxes :
              link'[x] = [id |-> e, sock |-> j] => link[x] = [id |-> e, sock |-> j]
        BY <1>1 DEF NoLink
      <3> QED BY <1>1, <3>1, <3>2, SameOrderly DEF InOrder
    <2> QED BY <2>1, <2>2
  <1>11. Agreement'
    <2> SUFFICES ASSUME NEW e \in Registered' \ drifted' PROVE Agreed(e)'
      BY DEF Agreement
    <2>1. e \in Registered \ drifted /\ e \in Ids /\ unread'[e] = unread[e]
      BY <1>1, <1>2, <1>4 DEF Registered
    <2> QED BY <1>1, <2>1, SameAgreed DEF Agreement
  <1> QED BY <1>5, <1>6, <1>7, <1>8, <1>9, <1>10, <1>11

(* Adding to a socket what fits its last event keeps it chained. *)
LEMMA ChainedAppend ==
  ASSUME NEW s \in Seq(Events), NEW event \in Events, Chained(s),
         s # <<>> => Fits(Final(s).live, event)
  PROVE  /\ Chained(Append(s, event)) /\ Append(s, event) \in Seq(Events)
         /\ Append(s, event) # <<>> /\ Final(Append(s, event)) = event
         /\ Append(s, event)[1] = IF s = <<>> THEN event ELSE s[1]
  <1> DEFINE t == Append(s, event)
  <1>1. /\ t \in Seq(Events) /\ Len(t) = Len(s) + 1 /\ t[Len(s) + 1] = event
        /\ \A i \in 1 .. Len(s) : t[i] = s[i]
        /\ Len(s) \in Nat
    OBVIOUS
  <1>2. s = <<>> <=> Len(s) = 0
    OBVIOUS
  <1> HIDE DEF t
  <1>3. ASSUME NEW i \in 1 .. Len(t) - 1 PROVE Fits(t[i].live, t[i + 1])
    <2>1. CASE i = Len(s)
      BY <1>1, <1>2, <2>1 DEF Final
    <2>2. CASE i # Len(s)
      <3>1. i \in 1 .. Len(s) - 1 /\ t[i] = s[i] /\ t[i + 1] = s[i + 1]
        BY <1>1, <2>2
      <3> QED BY <3>1 DEF Chained
    <2> QED BY <2>1, <2>2
  <1>4. Chained(t)
    BY <1>3 DEF Chained
  <1>5. t # <<>> /\ Final(t) = event /\ t[1] = IF s = <<>> THEN event ELSE s[1]
    BY <1>1, <1>2 DEF Final
  <1> QED BY <1>1, <1>4, <1>5 DEF t

(* Reading the first event keeps the rest chained. *)
LEMMA ChainedTail ==
  ASSUME NEW s \in Seq(Events), s # <<>>, Chained(s)
  PROVE  /\ Chained(Tail(s)) /\ Tail(s) \in Seq(Events) /\ Head(s) \in Events
         /\ Tail(s) = <<>> => Final(s) = Head(s)
         /\ Tail(s) # <<>> =>
              Final(Tail(s)) = Final(s) /\ Fits(Head(s).live, Tail(s)[1])
  <1> DEFINE t == Tail(s)
  <1>1. /\ t \in Seq(Events) /\ Len(t) = Len(s) - 1 /\ Len(s) \in Nat \ {0}
        /\ \A i \in 1 .. Len(t) : t[i] = s[i + 1]
        /\ Head(s) = s[1] /\ Head(s) \in Events
    BY HeadTailProperties
  <1> HIDE DEF t
  <1>6. t = <<>> <=> Len(t) = 0
    BY <1>1, EmptySeq
  <1>2. ASSUME NEW i \in 1 .. Len(t) - 1 PROVE Fits(t[i].live, t[i + 1])
    <2>1. i + 1 \in 1 .. Len(s) - 1 /\ t[i] = s[i + 1] /\ t[i + 1] = s[(i + 1) + 1]
      BY <1>1
    <2> QED BY <2>1 DEF Chained
  <1>3. Chained(t)
    BY <1>2 DEF Chained
  <1>4. t = <<>> => Final(s) = Head(s)
    <2>1. Len(t) = 0 => Len(s) = 1
      BY <1>1
    <2> QED BY <1>1, <1>6, <2>1 DEF Final
  <1>5. t # <<>> => Final(t) = Final(s) /\ Fits(Head(s).live, t[1])
    <2> SUFFICES ASSUME t # <<>> PROVE Final(t) = Final(s) /\ Fits(Head(s).live, t[1])
      OBVIOUS
    <2>1. 1 \in 1 .. Len(s) - 1 /\ t[1] = s[1 + 1] /\ t[Len(t)] = s[Len(s)]
      BY <1>1, <1>6
    <2>2. Fits(s[1].live, s[1 + 1])
      BY <2>1 DEF Chained
    <2> QED BY <1>1, <2>1, <2>2 DEF Final
  <1> QED BY <1>1, <1>3, <1>4, <1>5 DEF t

(* What a sandbox sends fits what it has sent before in the socket, and    *)
(* keeps the agreement of the one entry that will hear it in order.        *)
LEMMA Sends ==
  ASSUME IInv, NEW x \in Sandboxes, NEW event \in Events, Say(x, event),
         Fits(live[x], event), live' = [live EXCEPT ![x] = event.live],
         UNCHANGED <<registry, count, sockets, link, holds>>
  PROVE  /\ unread' \in [Ids -> [Numbers -> Seq(Events)]] /\ drifted' \subseteq Ids
         /\ AgentsPlaced' /\ LinksOpen' /\ InOrder' /\ Agreement'
  <1> USE RegistryAssumption DEF IInv, Ids, None, Unknown
  <1> DEFINE d == link[x].id
             k == link[x].sock
             heard == d # None /\ sandboxes[d] = x
             alone == heard /\ \A j \in Numbers \ {k} : unread[d][j] = <<>>
  <1>1. /\ unread' = IF heard
                      THEN [unread EXCEPT ![d][k] = Append(@, event)]
                      ELSE unread
        /\ drifted' = drifted \cup {c \in Ids : sandboxes[c] = x /\ ~(c = d /\ alone)}
    BY DEF Say
  <1>2. /\ UNCHANGED <<sandboxes, count, sockets, link>>
        /\ live'[x] = event.live
        /\ \A y \in Sandboxes : y # x => live'[y] = live[y]
    BY DEF registry, TypeOK
  <1>3. ASSUME heard
        PROVE  /\ d \in Ids /\ k \in Numbers /\ link[x] = [id |-> d, sock |-> k]
               /\ k \in sockets[d]
    BY <1>3 DEF TypeOK, NoLink, LinksOpen
  <1>4. ASSUME heard
        PROVE  /\ Chained(unread'[d][k]) /\ unread'[d][k] # <<>>
               /\ unread'[d][k] \in Seq(Events)
               /\ Final(unread'[d][k]) = event
               /\ unread'[d][k][1] = IF unread[d][k] = <<>> THEN event ELSE unread[d][k][1]
               /\ unread'[d] \in [Numbers -> Seq(Events)]
               /\ \A j \in Numbers : j # k => unread'[d][j] = unread[d][j]
    <2>1. unread[d] \in [Numbers -> Seq(Events)] /\ unread[d][k] \in Seq(Events)
      BY <1>3, <1>4 DEF TypeOK
    <2>2. unread'[d] = [unread[d] EXCEPT ![k] = Append(unread[d][k], event)]
      <3>1. unread' = [unread EXCEPT ![d][k] = Append(@, event)]
        BY <1>1, <1>4
      <3>2. d \in Ids /\ DOMAIN unread = Ids
        BY <1>3, <1>4 DEF TypeOK
      <3> HIDE DEF d, k, heard, alone
      <3> QED BY <3>1, <3>2
    <2>3. Orderly(d, k)
      BY <1>3, <1>4 DEF InOrder
    <2>4. Chained(unread[d][k]) /\ (unread[d][k] # <<>> => Fits(Final(unread[d][k]).live, event))
      BY <1>3, <1>4, <2>3 DEF Orderly
    <2>5. unread'[d][k] = Append(unread[d][k], event)
      BY <1>3, <1>4, <2>1, <2>2
    <2>6. Append(unread[d][k], event) \in Seq(Events)
      BY <2>1
    <2>7. /\ unread'[d] \in [Numbers -> Seq(Events)]
          /\ \A j \in Numbers : j # k => unread'[d][j] = unread[d][j]
      BY <2>1, <2>2, <2>6
    <2> DEFINE s == unread[d][k]
    <2>8. /\ Chained(Append(s, event)) /\ Append(s, event) # <<>>
          /\ Final(Append(s, event)) = event
          /\ Append(s, event)[1] = IF s = <<>> THEN event ELSE s[1]
      <3>1. s \in Seq(Events) /\ Chained(s) /\ (s # <<>> => Fits(Final(s).live, event))
        BY <2>1, <2>4
      <3> HIDE DEF s
      <3> QED BY <3>1, ChainedAppend
    <2> QED BY <2>5, <2>6, <2>7, <2>8
  <1>5. \A e \in Ids : ~(heard /\ e = d) => unread'[e] = unread[e]
    BY <1>1, <1>3 DEF TypeOK
  <1>6. unread' \in [Ids -> [Numbers -> Seq(Events)]] /\ drifted' \subseteq Ids
    <2>1. unread \in [Ids -> [Numbers -> Seq(Events)]] /\ drifted \subseteq Ids
      BY DEF TypeOK
    <2>2. CASE heard
      <3>1. unread' = [unread EXCEPT ![d] = unread'[d]]
        BY <1>1, <1>3, <2>1, <2>2
      <3> QED BY <1>1, <1>3, <1>4, <2>1, <2>2, <3>1
    <2>3. CASE ~heard
      BY <1>1, <2>1, <2>3
    <2> QED BY <2>2, <2>3
  <1> HIDE DEF d, k
  <1>7. AgentsPlaced'
    BY <1>2, <1>5 DEF AgentsPlaced
  <1>8. LinksOpen'
    <2>1. \A e \in Ids, j \in Numbers : j \notin sockets[e] => unread'[e][j] = <<>>
      <3> SUFFICES ASSUME NEW e \in Ids, NEW j \in Numbers, j \notin sockets[e]
                   PROVE  unread'[e][j] = <<>>
        OBVIOUS
      <3>1. unread[e][j] = <<>>
        BY DEF LinksOpen
      <3>2. CASE heard /\ e = d
        <4>1. j # k
          BY <1>3, <3>2
        <4> QED BY <1>4, <3>1, <3>2, <4>1
      <3>3. CASE ~(heard /\ e = d)
        BY <1>5, <3>1, <3>3
      <3> QED BY <3>2, <3>3
    <2> QED BY <1>2, <2>1 DEF LinksOpen
  <1>9. InOrder'
    <2> SUFFICES ASSUME NEW e \in Ids, NEW j \in Numbers PROVE Orderly(e, j)'
      BY DEF InOrder
    <2>1. CASE heard /\ e = d /\ j = k
      BY <1>2, <1>4, <2>1 DEF Orderly
    <2>2. CASE ~(heard /\ e = d /\ j = k)
      <3>1. unread'[e][j] = unread[e][j] /\ Orderly(e, j)
        BY <1>4, <1>5, <2>2 DEF InOrder
      <3>2. ~(sandboxes[e] = x /\ link[x] = [id |-> e, sock |-> j])
        BY <2>2 DEF d, k
      <3> QED BY <1>2, <3>1, <3>2 DEF Orderly
    <2> QED BY <2>1, <2>2
  <1>10. Agreement'
    <2> SUFFICES ASSUME NEW e \in Registered' \ drifted' PROVE Agreed(e)'
      BY DEF Agreement
    <2>1. /\ e \in Registered \ drifted /\ e \in Ids /\ Agreed(e)
          /\ sandboxes[e] = x => e = d /\ alone
      BY <1>1, <1>2 DEF Registered, Agreement
    <2>2. CASE sandboxes[e] # x
      <3>1. sandboxes[e] \in Sandboxes /\ live'[sandboxes[e]] = live[sandboxes[e]]
        BY <1>2, <2>1, <2>2 DEF TypeOK, Registered
      <3>2. unread'[e] = unread[e]
        BY <1>5, <2>1, <2>2
      <3> QED BY <1>2, <2>1, <3>1, <3>2, SameAgreed
    <2>3. CASE sandboxes[e] = x
      <3>1. e = d /\ heard /\ \A j \in Numbers : j # k => unread[d][j] = <<>>
        BY <2>1, <2>3
      <3>2. \A j \in Numbers : j # k => unread'[d][j] = <<>>
        BY <1>4, <3>1
      <3>3. unread'[d] # Silence
        BY <1>3, <1>4, <3>1, SilenceTyped
      <3>4. count[d] # Unknown => Fits(count[d], unread'[d][k][1])
        <4>1. CASE unread[d][k] = <<>>
          <5>1. unread[d] = Silence
            BY <2>1, <3>1, <4>1 DEF Silence, TypeOK
          <5> QED BY <1>4, <2>1, <2>3, <3>1, <4>1, <5>1 DEF Agreed
        <4>2. CASE unread[d][k] # <<>>
          BY <1>3, <1>4, <2>1, <3>1, <4>2 DEF Agreed
        <4> QED BY <4>1, <4>2
      <3> QED BY <1>2, <1>4, <2>3, <3>1, <3>2, <3>3, <3>4 DEF Agreed
    <2> QED BY <2>2, <2>3
  <1> QED BY <1>6, <1>7, <1>8, <1>9, <1>10

(* The sessions that an agent starts, ends and lists. *)
LEMMA AgentSpeaks ==
  ASSUME IInv, NEW x \in Sandboxes,
         \/ AgentAnnounced(x) \/ SessionStarts(x) \/ SessionEnds(x) \/ SessionsListed(x)
  PROVE  IInv'
  <1> USE RegistryAssumption DEF IInv, Ids, None, Unknown
  <1>1. live[x] \in 0 .. MaxSessions
    BY DEF TypeOK
  <1>2. PICK what \in AgentEvents, n \in 0 .. MaxSessions :
          AgentSays(x, what, n) /\ Fits(live[x], [what |-> what, live |-> n])
    <2>1. ASSUME AgentAnnounced(x)
          PROVE  \E n \in 0 .. MaxSessions :
                   /\ AgentSays(x, "agent.set", n)
                   /\ Fits(live[x], [what |-> "agent.set", live |-> n])
      BY <1>1, <2>1 DEF AgentAnnounced, Fits
    <2>2. ASSUME SessionStarts(x)
          PROVE  /\ live[x] + 1 \in 0 .. MaxSessions
                 /\ AgentSays(x, "session.start", live[x] + 1)
                 /\ Fits(live[x], [what |-> "session.start", live |-> live[x] + 1])
      BY <1>1, <2>2 DEF SessionStarts, Fits, Counted
    <2>3. ASSUME SessionEnds(x)
          PROVE  /\ live[x] - 1 \in 0 .. MaxSessions
                 /\ AgentSays(x, "session.end", live[x] - 1)
                 /\ Fits(live[x], [what |-> "session.end", live |-> live[x] - 1])
      BY <1>1, <2>3 DEF SessionEnds, Fits, Counted
    <2>4. ASSUME SessionsListed(x)
          PROVE  /\ AgentSays(x, "agent.sessions", live[x])
                 /\ Fits(live[x], [what |-> "agent.sessions", live |-> live[x]])
      BY <1>1, <2>4 DEF SessionsListed, Fits, Counted
    <2>5. AgentEvents = {"agent.set", "session.start", "session.end", "agent.sessions"}
      BY DEF AgentEvents
    <2> QED BY <1>1, <2>1, <2>2, <2>3, <2>4, <2>5
  <1> DEFINE event == [what |-> what, live |-> n]
  <1>3. /\ Say(x, event) /\ live' = [live EXCEPT ![x] = n]
        /\ UNCHANGED <<registry, questions, count, sockets, link, holds>>
    BY <1>2 DEF AgentSays
  <1>4. event \in Events /\ event.live = n /\ Fits(live[x], event)
    BY <1>2 DEF Events
  <1> HIDE DEF event
  <1>5. /\ unread' \in [Ids -> [Numbers -> Seq(Events)]] /\ drifted' \subseteq Ids
        /\ AgentsPlaced' /\ LinksOpen' /\ InOrder' /\ Agreement'
    BY <1>3, <1>4, Sends
  <1>6. TypeOK'
    <2>1. live' \in [Sandboxes -> 0 .. MaxSessions]
      BY <1>3 DEF TypeOK
    <2> QED BY <1>3, <1>5, <2>1 DEF TypeOK, Registered, registry, questions
  <1>7. OneEntryPerInstance' /\ ConnectedHasSocket' /\ QuestionsKept' /\ Unindexed'
    BY <1>3
    DEF OneEntryPerInstance, ConnectedHasSocket, QuestionsKept, Unindexed, registry,
        questions
  <1> QED BY <1>5, <1>6, <1>7

(* A question on its way changes no count. *)
LEMMA Asks ==
  ASSUME IInv, NEW h \in Hitls, NEW x \in Sandboxes, Ask(h, x)
  PROVE  IInv'
  <1> USE RegistryAssumption DEF IInv, Ids, None, Unknown
  <1> DEFINE event == [what |-> h, live |-> live[x]]
  <1>1. live[x] \in 0 .. MaxSessions
    BY DEF TypeOK
  <1>2. /\ Say(x, event) /\ asked' = [asked EXCEPT ![h] = "sent"]
        /\ UNCHANGED <<hitl, left, calls, registry, count, live, sockets, link, holds>>
    BY DEF Ask
  <1>3. event \in Events /\ event.live = live[x] /\ Fits(live[x], event)
    BY <1>1 DEF Events, Fits, Counted, AgentEvents
  <1> HIDE DEF event
  <1>4. live' = [live EXCEPT ![x] = event.live]
    BY <1>2, <1>3 DEF TypeOK
  <1>5. /\ unread' \in [Ids -> [Numbers -> Seq(Events)]] /\ drifted' \subseteq Ids
        /\ AgentsPlaced' /\ LinksOpen' /\ InOrder' /\ Agreement'
    BY <1>2, <1>3, <1>4, Sends
  <1>6. TypeOK'
    BY <1>2, <1>5 DEF TypeOK, Registered, registry
  <1>7. OneEntryPerInstance' /\ ConnectedHasSocket' /\ QuestionsKept' /\ Unindexed'
    <2>1. OneEntryPerInstance' /\ ConnectedHasSocket' /\ Unindexed'
      BY <1>2 DEF OneEntryPerInstance, ConnectedHasSocket, Unindexed, registry
    <2>2. \A g \in Hitls : asked'[g] = "taken" => asked[g] = "taken"
      BY <1>2 DEF TypeOK
    <2> QED BY <1>2, <2>1, <2>2 DEF QuestionsKept
  <1> QED BY <1>5, <1>6, <1>7

(* The count after an event is a count again. *)
LEMMA CountedTyped ==
  ASSUME NEW c \in 0 .. MaxSessions \cup {Unknown}, NEW event \in Events,
         Counted(c, event) <= MaxSessions
  PROVE  Counted(c, event) \in 0 .. MaxSessions \cup {Unknown}
  BY RegistryAssumption DEF Counted, Events, Unknown

(* Reading the next event of a socket. *)
LEMMA Delivers ==
  ASSUME IInv, NEW d \in Ids, NEW k \in Numbers, Deliver(d, k)
  PROVE  IInv'
  <1> USE RegistryAssumption DEF IInv, Ids, None
  <1> DEFINE s == unread[d][k]
             event == Head(s)
  <1>1. /\ s # <<>> /\ unread' = [unread EXCEPT ![d][k] = Tail(@)]
        /\ Counted(count[d], event) <= MaxSessions
        /\ count' = [count EXCEPT ![d] = Counted(@, event)]
        /\ drifted' = IF TellsAll(d, k, event) THEN drifted \ {d}
                      ELSE IF Mistaken(d, event) THEN drifted \cup {d} ELSE drifted
        /\ hitl' = [h \in Hitls |-> IF h = event.what THEN d ELSE hitl[h]]
        /\ asked' = [h \in Hitls |-> IF h = event.what THEN "taken" ELSE asked[h]]
        /\ UNCHANGED <<registry, left, calls, live, sockets, link, holds>>
    BY DEF Deliver
  <1>2. /\ unread \in [Ids -> [Numbers -> Seq(Events)]] /\ s \in Seq(Events)
        /\ drifted \subseteq Ids
    BY DEF TypeOK
  <1>3. d \in Registered /\ sandboxes[d] \in Sandboxes
    BY <1>1, SilenceTyped DEF AgentsPlaced, Registered, TypeOK
  <1>4. Orderly(d, k)
    BY DEF InOrder
  <1>5. /\ Chained(Tail(s)) /\ Tail(s) \in Seq(Events) /\ event \in Events
        /\ Tail(s) = <<>> => Final(s) = event
        /\ Tail(s) # <<>> => Final(Tail(s)) = Final(s) /\ Fits(event.live, Tail(s)[1])
    <2>1. Chained(s)
      BY <1>4 DEF Orderly
    <2> HIDE DEF s
    <2> QED BY <1>1, <1>2, <2>1, ChainedTail
  <1>6. /\ unread'[d][k] = Tail(s)
        /\ unread'[d] \in [Numbers -> Seq(Events)]
        /\ \A j \in Numbers : j # k => unread'[d][j] = unread[d][j]
        /\ \A e \in Ids : e # d => unread'[e] = unread[e] /\ count'[e] = count[e]
        /\ count'[d] = Counted(count[d], event)
        /\ unread' \in [Ids -> [Numbers -> Seq(Events)]]
    <2>1. count'[d] = Counted(count[d], event)
      BY <1>1 DEF TypeOK
    <2>2. \A e \in Ids : e # d => unread'[e] = unread[e] /\ count'[e] = count[e]
      BY <1>1 DEF TypeOK
    <2>3. /\ unread'[d][k] = Tail(s)
          /\ \A j \in Numbers : j # k => unread'[d][j] = unread[d][j]
      BY <1>1, <1>2
    <2>4. unread' \in [Ids -> [Numbers -> Seq(Events)]]
      BY <1>1, <1>2, <1>5
    <2> QED BY <2>1, <2>2, <2>3, <2>4
  <1> HIDE DEF s
  <1>7. TypeOK'
    <2>1. count[d] \in 0 .. MaxSessions \cup {Unknown}
      BY DEF TypeOK
    <2>2. Counted(count[d], event) \in 0 .. MaxSessions \cup {Unknown}
      BY <1>1, <1>5, <2>1, CountedTyped
    <2>3. count' \in [Ids -> 0 .. MaxSessions \cup {Unknown}]
      BY <1>1, <2>2 DEF TypeOK
    <2>4. drifted' \subseteq Ids
      BY <1>1, <1>2
    <2>5. /\ hitl' \in [Hitls -> Ids \cup {None}]
          /\ asked' \in [Hitls -> {"new", "sent", "taken"}]
      BY <1>1 DEF TypeOK
    <2> QED BY <1>1, <1>6, <2>3, <2>4, <2>5 DEF TypeOK, Registered, registry
  <1>8. OneEntryPerInstance' /\ ConnectedHasSocket' /\ Unindexed'
    BY <1>1 DEF OneEntryPerInstance, ConnectedHasSocket, Unindexed, registry
  <1>9. QuestionsKept'
    BY <1>1 DEF QuestionsKept
  <1>10. AgentsPlaced'
    BY <1>1, <1>3, <1>6 DEF AgentsPlaced, Registered, registry
  <1>11. LinksOpen'
    <2>1. ASSUME NEW e \in Ids, NEW j \in Numbers, j \notin sockets[e]
          PROVE  unread'[e][j] = <<>>
      <3>1. unread[e][j] = <<>>
        BY <2>1 DEF LinksOpen
      <3>2. ~(e = d /\ j = k)
        BY <1>1, <3>1 DEF s
      <3> QED BY <1>6, <3>1, <3>2
    <2> QED BY <1>1, <2>1 DEF LinksOpen
  <1>12. InOrder'
    <2> SUFFICES ASSUME NEW e \in Ids, NEW j \in Numbers PROVE Orderly(e, j)'
      BY DEF InOrder
    <2>1. CASE e = d /\ j = k
      <3>1. \A x \in Sandboxes :
              sandboxes[d] = x /\ link[x] = [id |-> d, sock |-> k] => Final(s).live = live[x]
        BY <1>1, <1>4 DEF Orderly, s
      <3> QED BY <1>1, <1>5, <1>6, <2>1, <3>1 DEF Orderly, registry
    <2>2. CASE ~(e = d /\ j = k)
      <3>1. unread'[e][j] = unread[e][j] /\ Orderly(e, j)
        BY <1>6, <2>2 DEF InOrder
      <3> QED BY <1>1, <3>1, SameOrderly DEF registry
    <2> QED BY <2>1, <2>2
  <1>13. Agreement'
    <2> SUFFICES ASSUME NEW e \in Registered' \ drifted' PROVE Agreed(e)'
      BY DEF Agreement
    <2>1. e \in Registered /\ e \in Ids /\ (e # d => e \notin drifted)
      BY <1>1 DEF Registered, registry
    <2>2. CASE e # d
      <3>1. Agreed(e) /\ unread'[e] = unread[e] /\ count'[e] = count[e]
        BY <1>6, <2>1, <2>2 DEF Agreement
      <3> QED BY <1>1, <2>1, <3>1, SameAgreed DEF registry
    <2>3. CASE e = d
      <3> DEFINE x == sandboxes[d]
      <3>1. /\ \A j \in Numbers : j # k => unread[d][j] = <<>>
            /\ Final(s).live = live[x]
            /\ count'[d] = Unknown \/ count'[d] = event.live
        <4>1. CASE TellsAll(d, k, event)
          <5>1. Final(s).live = live[x]
            BY <1>1, <1>3, <1>4, <4>1 DEF TellsAll, Orderly, s
          <5>2. \/ event.what = "agent.set" /\ event.live = 0
                \/ event.what = "agent.sessions" /\ count[d] # Unknown
            BY <4>1 DEF TellsAll
          <5>3. count'[d] = event.live
            BY <1>6, <5>2 DEF Counted
          <5> QED BY <4>1, <5>1, <5>3 DEF TellsAll
        <4>2. CASE ~TellsAll(d, k, event)
          <5>1. d \notin drifted /\ ~Mistaken(d, event)
            BY <1>1, <2>3, <4>2
          <5>2. Agreed(d)
            BY <1>3, <5>1 DEF Agreement
          <5>3. count'[d] = Unknown \/ count'[d] = event.live
            <6>1. CASE event.what = "agent.set"
              <7>1. event.live = 0
                BY <1>5, <5>1, <6>1 DEF Mistaken, Events
              <7> QED BY <1>6, <6>1, <7>1 DEF Counted
            <6>2. CASE event.what # "agent.set" /\ count[d] # Unknown
              BY <1>1, <1>6, <5>2, <6>2 DEF Agreed, Fits, s
            <6>3. CASE event.what # "agent.set" /\ count[d] = Unknown
              <7>1. event.what \notin {"session.start", "session.end"}
                BY <5>1, <6>3 DEF Mistaken
              <7> QED BY <1>6, <6>3, <7>1 DEF Counted
            <6> QED BY <6>1, <6>2, <6>3
          <5> QED BY <1>1, <5>2, <5>3 DEF Agreed, s
        <4> QED BY <4>1, <4>2
      <3>2. /\ \A j \in Numbers : j # k => unread'[d][j] = <<>>
            /\ sandboxes' = sandboxes /\ live' = live
        BY <1>1, <1>6, <3>1 DEF registry
      <3>3. unread'[d] = Silence => Tail(s) = <<>>
        BY <1>6, SilenceTyped
      <3>4. count'[d] # Unknown /\ Tail(s) = <<>> => count'[d] = live[x]
        BY <1>5, <3>1
      <3>5. Tail(s) # <<>> =>
              /\ Final(Tail(s)).live = live[x]
              /\ count'[d] # Unknown => Fits(count'[d], Tail(s)[1])
        BY <1>5, <3>1
      <3> QED BY <1>6, <2>3, <3>2, <3>3, <3>4, <3>5 DEF Agreed
    <2> QED BY <2>2, <2>3
  <1> QED BY <1>7, <1>8, <1>9, <1>10, <1>11, <1>12, <1>13

(* The answers to a question, and its other ends. *)
LEMMA Answered ==
  ASSUME IInv, NEW h \in Hitls,
         Respond(h) \/ RespondEnds(h) \/ RespondFails(h) \/ Dismiss(h) \/ Expire(h)
  PROVE  IInv'
  <1> USE RegistryAssumption DEF IInv, Ids, None, Unknown
  <1> DEFINE Reasons == {"responded", "dismissed", "timed_out", "restarted"}
  <1>1. UNCHANGED <<asked, registry, agents, network, holds>>
    BY DEF Respond, RespondEnds, RespondFails, Dismiss, Expire
  <1>2. /\ OneEntryPerInstance' /\ ConnectedHasSocket' /\ Unindexed'
        /\ AgentsPlaced' /\ LinksOpen' /\ InOrder' /\ Agreement'
    BY <1>1
    DEF OneEntryPerInstance, ConnectedHasSocket, Unindexed, AgentsPlaced, LinksOpen,
        InOrder, Orderly, Agreement, Agreed, Registered, registry, agents, network
  <1>3. \/ hitl' = hitl /\ left' = left
        \/ \E why \in Reasons : Leaves(h, why)
    BY DEF Respond, RespondEnds, RespondFails, Dismiss, Expire
  <1>4. calls' \in [Hitls -> 0 .. MaxCalls]
    <2>1. \/ calls' = calls
          \/ calls[h] < MaxCalls /\ calls' = [calls EXCEPT ![h] = @ + 1]
          \/ calls[h] > 0 /\ calls' = [calls EXCEPT ![h] = @ - 1]
      BY DEF Respond, RespondEnds, RespondFails, Dismiss, Expire, Returns
    <2>2. calls \in [Hitls -> 0 .. MaxCalls] /\ calls[h] \in 0 .. MaxCalls
      BY DEF TypeOK
    <2> QED BY <2>1, <2>2
  <1>5. /\ hitl' \in [Hitls -> Ids \cup {None}] /\ left' \in [Hitls -> SUBSET Reasons]
        /\ QuestionsKept'
    <2>1. hitl \in [Hitls -> Ids \cup {None}] /\ left \in [Hitls -> SUBSET Reasons]
      BY DEF TypeOK
    <2>2. CASE hitl' = hitl /\ left' = left
      BY <1>1, <2>1, <2>2 DEF QuestionsKept
    <2>3. ASSUME NEW why \in Reasons, Leaves(h, why)
          PROVE  /\ hitl' \in [Hitls -> Ids \cup {None}]
                 /\ left' \in [Hitls -> SUBSET Reasons]
                 /\ QuestionsKept'
      BY <1>1, <2>1, <2>3 DEF Leaves, QuestionsKept
    <2> QED BY <1>3, <2>2, <2>3
  <1>6. TypeOK'
    BY <1>1, <1>4, <1>5 DEF TypeOK, Registered, registry, agents, network
  <1> QED BY <1>2, <1>5, <1>6

(* Every step keeps the inductive invariant. *)
LEMMA Inductive == IInv /\ [Next]_vars => IInv'
  <1> SUFFICES ASSUME IInv, [Next]_vars
               PROVE  IInv'
    OBVIOUS
  <1>1. ASSUME NEW x \in Sandboxes,
               \/ RegisterAgain(x) \/ Upsert(x) \/ RegisterNew(x) \/ WindowPasses(x)
               \/ Open(x) \/ LinkBreaks(x)
        PROVE  IInv'
    BY <1>1, RegistersKnown, RegistersNew, Opens, Breaks
  <1>2. ASSUME NEW x \in Sandboxes,
               \/ AgentAnnounced(x) \/ SessionStarts(x) \/ SessionEnds(x)
               \/ SessionsListed(x)
        PROVE  IInv'
    BY <1>2, AgentSpeaks
  <1>3. ASSUME NEW d \in Ids, NEW k \in Numbers, Close(d, k) \/ Deliver(d, k)
        PROVE  IInv'
    BY <1>3, Closes, Delivers
  <1>4. ASSUME NEW d \in Ids, Deregister(d)
        PROVE  IInv'
    <2>1. {d} \in SUBSET Ids /\ {d} \subseteq Registered /\ Removed({d})
      BY <1>4 DEF Deregister
    <2> QED
      BY <2>1, Removes
  <1>5. CASE ClearOffline
    <2>1. Registered \ connected \in SUBSET Ids
      BY DEF Registered
    <2> QED
      BY <1>5, <2>1, Removes DEF ClearOffline
  <1>6. CASE Restart
    BY <1>6, Restarts
  <1>7. ASSUME NEW h \in Hitls, NEW x \in Sandboxes, Ask(h, x)
        PROVE  IInv'
    BY <1>7, Asks
  <1>8. ASSUME NEW h \in Hitls,
               Respond(h) \/ RespondEnds(h) \/ RespondFails(h) \/ Dismiss(h) \/ Expire(h)
        PROVE  IInv'
    BY <1>8, Answered
  <1>9. CASE UNCHANGED vars
    BY <1>9
    DEF vars, registry, questions, agents, network, IInv, TypeOK, OneEntryPerInstance,
        ConnectedHasSocket, QuestionsKept, Unindexed, AgentsPlaced, LinksOpen, InOrder,
        Orderly, Agreement, Agreed, Registered
  <1> QED
    BY <1>1, <1>2, <1>3, <1>4, <1>5, <1>6, <1>7, <1>8, <1>9 DEF Next

(* The inductive invariant holds in every behaviour. *)
LEMMA Invariant == Spec => []IInv
  BY Initially, Inductive, PTL DEF Spec

(* Every variable keeps its type; what is connected is registered. *)
THEOREM TypeCorrect == Spec => []TypeOK
  BY Invariant, PTL DEF IInv

(* However often a sandbox with a stable identity registers, is forgotten  *)
(* or misses an answer, the registry has one entry of it at most, and the  *)
(* index finds it.                                                         *)
THEOREM OneEntry == Spec => []OneEntryPerInstance
  BY Invariant, PTL DEF IInv

(* An entry is never shown as connected without an open event socket. *)
THEOREM ConnectedOpen == Spec => []ConnectedHasSocket
  BY Invariant, PTL DEF IInv

(* With nothing left to read, the session count of an entry is exact, but  *)
(* for the named causes of drift since the last full list: an event lost,  *)
(* in flight beside another socket, or without an agent, and an agent      *)
(* announced while its sessions ran.                                       *)
THEOREM CountsExact == Spec => []CountExact
  <1>1. Agreement => CountExact
    BY DEF Agreement, Agreed, CountExact
  <1> QED
    BY <1>1, Invariant, PTL DEF IInv

(* A question leaves the queue for one of four reasons only: the sandbox   *)
(* has acknowledged an answer, it was dismissed, it has expired, or the    *)
(* server was restarted.                                                   *)
THEOREM QuestionsStay == Spec => []QuestionsKept
  BY Invariant, PTL DEF IInv

=============================================================================
