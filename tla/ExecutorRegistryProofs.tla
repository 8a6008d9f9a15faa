----------------------- MODULE ExecutorRegistryProofs -----------------------
(* Type correctness of ExecutorRegistry, that ended missions are not       *)
(* counted, and that the handle of a registration is current, for any      *)
(* missions, sockets and bounds.  The three invariants are inductive       *)
(* together.                                                               *)
EXTENDS ExecutorRegistry, SequenceTheorems, TLAPS

IInv == TypeOK /\ EndedNotCounted /\ HandleIsCurrent

(* The invariant holds at first. *)
LEMMA InitInductive == Init => IInv
  <1> SUFFICES ASSUME Init PROVE IInv
    OBVIOUS
  <1> USE ExecutorAssumption DEF Init
  <1>1. TypeOK
    <2>1. <<>> \in Seq(Events)
      OBVIOUS
    <2>2. up \in [Sockets -> Seq(Events)]
      BY <2>1
    <2>3. registered \in BOOLEAN /\ known \in BOOLEAN /\ connected \in BOOLEAN
      OBVIOUS
    <2>4. /\ record \in [Missions -> States \cup {"none"}]
          /\ mission \in [Missions -> States \cup {"none"}]
          /\ forward \in [Missions -> [Stages -> Nat]]
          /\ sock \in [Sockets -> {"free", "open", "closing"}]
      BY DEF Idle
    <2>5. /\ wsConn \in Sockets \cup {NoSocket} /\ link \in Sockets \cup {NoSocket}
          /\ currentMissions \subseteq Missions
          /\ faults \in 0..MaxFaults
      OBVIOUS
    <2> QED BY <2>2, <2>3, <2>4, <2>5 DEF TypeOK
  <1>2. EndedNotCounted
    BY DEF EndedNotCounted
  <1>3. HandleIsCurrent
    BY DEF HandleIsCurrent
  <1> QED BY <1>1, <1>2, <1>3 DEF IInv

(* A fault keeps the number of faults in its range. *)
LEMMA FaultCounted ==
  ASSUME faults \in 0..MaxFaults, Fault
  PROVE  faults' \in 0..MaxFaults
  BY ExecutorAssumption DEF Fault

(* What is sent to the server is well-formed. *)
LEMMA SayTyped ==
  ASSUME TypeOK, NEW m \in Missions, NEW state \in States, Say(m, state)
  PROVE  up' \in [Sockets -> Seq(Events)]
  <1>1. [of |-> {m}, to |-> state] \in Events
    BY DEF Events
  <1>2. CASE link = NoSocket
    BY <1>2 DEF Say, TypeOK
  <1>3. CASE link # NoSocket
    <2>1. Append(up[link], [of |-> {m}, to |-> state]) \in Seq(Events)
      BY <1>1, <1>3, AppendProperties DEF TypeOK
    <2> QED BY <1>3, <2>1 DEF Say, TypeOK
  <1> QED BY <1>2, <1>3

(* What the executor reports is a state. *)
LEMMA AfterTyped == \A state : After(state) \subseteq States
  BY ExecutorAssumption DEF After, States, Terminal, WaitStates

(* Handling an event leaves states in the records. *)
LEMMA HandleTyped ==
  ASSUME TypeOK, NEW e \in Events, Handle(e)
  PROVE  /\ record' \in [Missions -> States \cup {"none"}]
         /\ currentMissions' \subseteq Missions
  <1>1. ASSUME NEW m \in Missions, e.to # "resync" \/ record[m] # "none"
        PROVE  Handled(e, m) \in States \cup {"none"}
    BY <1>1 DEF Handled, TypeOK, Events, States
  <1>2. ASSUME NEW m \in Missions, record[m] # "none"
        PROVE  Handled(e, m) \in States \cup {"none"}
    BY <1>1, <1>2
  <1> QED BY <1>2 DEF Handle, TypeOK

(* Requests are counted at their stages. *)
LEMMA ForwardCounted ==
  ASSUME TypeOK, NEW m \in Missions, NEW stage \in Stages,
         Over(m, stage) \/ Answers(m, stage)
  PROVE  forward' \in [Missions -> [Stages -> Nat]]
  <1>1. forward[m] \in [Stages -> Nat]
    BY DEF TypeOK
  <1>2. CASE Over(m, stage)
    <2>1. [forward[m] EXCEPT ![stage] = @ - 1] \in [Stages -> Nat]
      BY <1>1, <1>2 DEF Over
    <2> QED BY <1>2, <2>1 DEF Over, TypeOK
  <1>3. CASE Answers(m, stage)
    <2>1. Moved(forward[m], "sent", stage) \in [Stages -> Nat]
      BY <1>1, <1>3 DEF Answers, Moved, Stages
    <2> QED BY <1>3, <2>1 DEF Answers, TypeOK
  <1> QED BY <1>2, <1>3

(* Every step preserves the type invariant. *)
LEMMA TypeStep ==
  ASSUME TypeOK, [Next]_vars
  PROVE  TypeOK'
  <1> USE ExecutorAssumption
  <1>1. CASE Register
    BY <1>1 DEF Register, TypeOK, network
  <1>2. CASE Deregister
    BY <1>2, FaultCounted DEF Deregister, TypeOK
  <1>3. CASE ServerRestarts
    <2>1. <<>> \in Seq(Events)
      OBVIOUS
    <2>2. up' \in [Sockets -> Seq(Events)]
      BY <1>3, <2>1 DEF ServerRestarts
    <2>3. faults' \in 0..MaxFaults
      BY <1>3, FaultCounted DEF ServerRestarts, TypeOK
    <2>4. /\ record' \in [Missions -> States \cup {"none"}]
          /\ forward' \in [Missions -> [Stages -> Nat]]
          /\ sock' \in [Sockets -> {"free", "open", "closing"}]
      BY <1>3 DEF ServerRestarts, Idle
    <2> QED BY <1>3, <2>2, <2>3, <2>4 DEF ServerRestarts, TypeOK
  <1>4. ASSUME NEW s \in Sockets, Connect(s) PROVE TypeOK'
    <2>1. [of |-> Owned, to |-> "resync"] \in Events
      BY DEF Events, Owned
    <2>2. up' \in [Sockets -> Seq(Events)]
      BY <1>4, <2>1 DEF Connect, TypeOK
    <2>3. sock' \in [Sockets -> {"free", "open", "closing"}]
      BY <1>4 DEF Connect, TypeOK
    <2> QED BY <1>4, <2>2, <2>3 DEF Connect, TypeOK
  <1>5. ASSUME NEW s \in Sockets, Deliver(s) PROVE TypeOK'
    <2>1. Head(up[s]) \in Events /\ Tail(up[s]) \in Seq(Events)
      BY <1>5, HeadTailProperties DEF Deliver, TypeOK
    <2>2. up' \in [Sockets -> Seq(Events)]
      BY <1>5, <2>1 DEF Deliver, TypeOK
    <2>3. /\ record' \in [Missions -> States \cup {"none"}]
          /\ currentMissions' \subseteq Missions
      <3>1. CASE registered
        BY <1>5, <2>1, <3>1, HandleTyped DEF Deliver
      <3>2. CASE ~registered
        BY <1>5, <3>2 DEF Deliver, TypeOK
      <3> QED BY <3>1, <3>2
    <2> QED BY <1>5, <2>2, <2>3 DEF Deliver, TypeOK
  <1>6. ASSUME NEW s \in Sockets, CloseSeen(s) PROVE TypeOK'
    BY <1>6 DEF CloseSeen, TypeOK
  <1>7. ASSUME NEW m \in Missions, Dispatch(m) PROVE TypeOK'
    <2>1. forward[m] \in [Stages -> Nat] /\ "sent" \in Stages
      BY DEF TypeOK, Stages
    <2>2. [forward[m] EXCEPT !["sent"] = @ + 1] \in [Stages -> Nat]
      BY <2>1
    <2>3. forward' \in [Missions -> [Stages -> Nat]]
      BY <1>7, <2>2 DEF Dispatch, TypeOK
    <2> QED BY <1>7, <2>3 DEF Dispatch, TypeOK, registration, network
  <1>8. ASSUME NEW m \in Missions, Answered(m) PROVE TypeOK'
    <2>1. forward' \in [Missions -> [Stages -> Nat]]
      BY <1>8, ForwardCounted DEF Answered, Stages
    <2> QED BY <1>8, <2>1 DEF Answered, TypeOK, network, States
  <1>9. ASSUME NEW m \in Missions, ForwardFailed(m) PROVE TypeOK'
    <2>1. faults' \in 0..MaxFaults
      BY <1>9, FaultCounted DEF ForwardFailed, TypeOK
    <2>2. forward' \in [Missions -> [Stages -> Nat]]
      BY <1>9, ForwardCounted DEF ForwardFailed, Stages
    <2> QED BY <1>9, <2>1, <2>2 DEF ForwardFailed, RecordFailed, TypeOK, network, States, Terminal
  <1>10. ASSUME NEW m \in Missions, NEW state \in Commands, Operator(m, state) PROVE TypeOK'
    <2>1. state \in States
      BY DEF CommandStates, States, WaitStates, Terminal
    <2> QED BY <1>10, <2>1 DEF Operator, TypeOK, registration, network
  <1>11. ASSUME NEW m \in Missions, Accepts(m) PROVE TypeOK'
    <2>1. up' \in [Sockets -> Seq(Events)]
      BY <1>11, SayTyped DEF Accepts, States
    <2>2. forward' \in [Missions -> [Stages -> Nat]]
      BY <1>11, ForwardCounted DEF Accepts, Stages
    <2> QED BY <1>11, <2>1, <2>2 DEF Accepts, TypeOK, registration, States
  <1>12. ASSUME NEW m \in Missions, Refuses(m) PROVE TypeOK'
    <2>1. forward' \in [Missions -> [Stages -> Nat]]
      BY <1>12, ForwardCounted DEF Refuses, Stages
    <2> QED BY <1>12, <2>1 DEF Refuses, TypeOK, registration, network
  <1>13. ASSUME NEW m \in Missions, Reports(m) PROVE TypeOK'
    <2>1. PICK state \in After(mission[m]) :
            /\ mission' = [mission EXCEPT ![m] = state]
            /\ Say(m, state)
            /\ UNCHANGED <<registration, known, record, forward, sock, link, faults>>
      BY <1>13 DEF Reports
    <2>2. state \in States
      BY AfterTyped
    <2>3. up' \in [Sockets -> Seq(Events)]
      BY <2>1, <2>2, SayTyped
    <2> QED BY <2>1, <2>2, <2>3 DEF TypeOK, registration
  <1>14. ASSUME NEW s \in Sockets, LinkBreaks(s) PROVE TypeOK'
    <2>1. PICK n \in 0..Len(up[s]) : up' = [up EXCEPT ![s] = SubSeq(up[s], 1, n)]
      BY <1>14 DEF LinkBreaks
    <2>2. SubSeq(up[s], 1, n) \in Seq(Events)
      <3>1. up[s] \in Seq(Events)
        BY DEF TypeOK
      <3>2. \A i \in 1..n : up[s][i] \in Events
        BY <3>1, ElementOfSeq
      <3> QED BY <3>2, SubSeqProperties, <3>1
    <2>3. faults' \in 0..MaxFaults
      BY <1>14, FaultCounted DEF LinkBreaks, TypeOK
    <2>4. up' \in [Sockets -> Seq(Events)]
      BY <2>1, <2>2 DEF TypeOK
    <2> QED BY <1>14, <2>3, <2>4 DEF LinkBreaks, TypeOK, registration
  <1>15. CASE ExecutorRestarts
    <2>1. faults' \in 0..MaxFaults
      BY <1>15, FaultCounted DEF ExecutorRestarts, TypeOK
    <2> QED BY <1>15, <2>1 DEF ExecutorRestarts, TypeOK, registration, network
  <1>16. CASE UNCHANGED vars
    BY <1>16 DEF vars, registration, network, TypeOK
  <1> QED
    BY <1>1, <1>2, <1>3, <1>4, <1>5, <1>6, <1>7, <1>8, <1>9, <1>10, <1>11, <1>12,
       <1>13, <1>14, <1>15, <1>16 DEF Next, Server, Executor

(* Every step keeps ended missions out of the set.  Only an event, an      *)
(* answer and a failed forward change records and set together.            *)
LEMMA EndedStep ==
  ASSUME TypeOK, EndedNotCounted, [Next]_vars
  PROVE  EndedNotCounted'
  <1> USE ExecutorAssumption DEF EndedNotCounted
  <1>1. CASE Register
    BY <1>1 DEF Register
  <1>2. CASE Deregister
    BY <1>2 DEF Deregister
  <1>3. CASE ServerRestarts
    BY <1>3 DEF ServerRestarts
  <1>4. ASSUME NEW s \in Sockets, Connect(s) PROVE EndedNotCounted'
    BY <1>4 DEF Connect
  <1>5. ASSUME NEW s \in Sockets, Deliver(s) PROVE EndedNotCounted'
    <2>1. CASE ~registered
      BY <1>5, <2>1 DEF Deliver
    <2>2. CASE registered
      <3> DEFINE e == Head(up[s])
      <3>1. Handle(e)
        BY <1>5, <2>2 DEF Deliver
      <3> HIDE DEF e
      <3>2. ASSUME NEW m \in currentMissions' PROVE record'[m] \notin {"done", "failed"}
        <4>1. m \in currentMissions /\ m \in Missions
          BY <3>1, <3>2 DEF Handle, TypeOK
        <4>2. CASE m \in e.of /\ record[m] # "none"
          <5>1. record'[m] = Handled(e, m)
            BY <3>1, <4>1, <4>2 DEF Handle
          <5>2. e.to \notin Terminal
            BY <3>1, <3>2, <4>2 DEF Handle
          <5> QED BY <4>1, <5>1, <5>2 DEF Handled, Terminal
        <4>3. CASE ~(m \in e.of /\ record[m] # "none")
          BY <3>1, <4>1, <4>3 DEF Handle
        <4> QED BY <4>2, <4>3
      <3> QED BY <3>2
    <2> QED BY <2>1, <2>2
  <1>6. ASSUME NEW s \in Sockets, CloseSeen(s) PROVE EndedNotCounted'
    BY <1>6 DEF CloseSeen
  <1>7. ASSUME NEW m \in Missions, Dispatch(m) PROVE EndedNotCounted'
    BY <1>7 DEF Dispatch, registration
  <1>8. ASSUME NEW m \in Missions, Answered(m) PROVE EndedNotCounted'
    BY <1>8 DEF Answered, TypeOK
  <1>9. ASSUME NEW m \in Missions, ForwardFailed(m) PROVE EndedNotCounted'
    BY <1>9 DEF ForwardFailed, RecordFailed, TypeOK
  <1>10. ASSUME NEW m \in Missions, NEW state \in Commands, Operator(m, state)
         PROVE  EndedNotCounted'
    BY <1>10 DEF Operator, TypeOK, registration, CommandStates
  <1>11. ASSUME NEW m \in Missions, Accepts(m) PROVE EndedNotCounted'
    BY <1>11 DEF Accepts, registration
  <1>12. ASSUME NEW m \in Missions, Refuses(m) PROVE EndedNotCounted'
    BY <1>12 DEF Refuses, registration
  <1>13. ASSUME NEW m \in Missions, Reports(m) PROVE EndedNotCounted'
    BY <1>13 DEF Reports, registration
  <1>14. ASSUME NEW s \in Sockets, LinkBreaks(s) PROVE EndedNotCounted'
    BY <1>14 DEF LinkBreaks, registration
  <1>15. CASE ExecutorRestarts
    BY <1>15 DEF ExecutorRestarts, registration
  <1>16. CASE UNCHANGED vars
    BY <1>16 DEF vars, registration
  <1> QED
    BY <1>1, <1>2, <1>3, <1>4, <1>5, <1>6, <1>7, <1>8, <1>9, <1>10, <1>11, <1>12,
       <1>13, <1>14, <1>15, <1>16 DEF Next, Server, Executor

(* Every step keeps the handle current: a connection is accepted and used  *)
(* in one step, and no handle survives the close of any connection.        *)
LEMMA HandleStep ==
  ASSUME TypeOK, HandleIsCurrent, [Next]_vars
  PROVE  HandleIsCurrent'
  <1> USE ExecutorAssumption DEF HandleIsCurrent
  <1>1. CASE Register
    BY <1>1 DEF Register, network
  <1>2. CASE Deregister
    BY <1>2 DEF Deregister
  <1>3. CASE ServerRestarts
    BY <1>3 DEF ServerRestarts
  <1>4. ASSUME NEW s \in Sockets, Connect(s) PROVE HandleIsCurrent'
    BY <1>4 DEF Connect, TypeOK
  <1>5. ASSUME NEW s \in Sockets, Deliver(s) PROVE HandleIsCurrent'
    BY <1>5 DEF Deliver
  <1>6. ASSUME NEW s \in Sockets, CloseSeen(s) PROVE HandleIsCurrent'
    BY <1>6 DEF CloseSeen
  <1>7. ASSUME NEW m \in Missions, Dispatch(m) PROVE HandleIsCurrent'
    BY <1>7 DEF Dispatch, registration, network
  <1>8. ASSUME NEW m \in Missions, Answered(m) PROVE HandleIsCurrent'
    BY <1>8 DEF Answered, network
  <1>9. ASSUME NEW m \in Missions, ForwardFailed(m) PROVE HandleIsCurrent'
    BY <1>9 DEF ForwardFailed, network
  <1>10. ASSUME NEW m \in Missions, NEW state \in Commands, Operator(m, state)
         PROVE  HandleIsCurrent'
    BY <1>10 DEF Operator, registration, network
  <1>11. ASSUME NEW m \in Missions, Accepts(m) PROVE HandleIsCurrent'
    BY <1>11 DEF Accepts, registration
  <1>12. ASSUME NEW m \in Missions, Refuses(m) PROVE HandleIsCurrent'
    BY <1>12 DEF Refuses, registration, network
  <1>13. ASSUME NEW m \in Missions, Reports(m) PROVE HandleIsCurrent'
    BY <1>13 DEF Reports, registration
  <1>14. ASSUME NEW s \in Sockets, LinkBreaks(s) PROVE HandleIsCurrent'
    BY <1>14 DEF LinkBreaks, registration, TypeOK
  <1>15. CASE ExecutorRestarts
    BY <1>15 DEF ExecutorRestarts, registration, network
  <1>16. CASE UNCHANGED vars
    BY <1>16 DEF vars, registration, network
  <1> QED
    BY <1>1, <1>2, <1>3, <1>4, <1>5, <1>6, <1>7, <1>8, <1>9, <1>10, <1>11, <1>12,
       <1>13, <1>14, <1>15, <1>16 DEF Next, Server, Executor

(* The inductive invariant holds in every behaviour. *)
LEMMA Inductive == Spec => []IInv
  <1>1. Init => IInv
    BY InitInductive
  <1>2. IInv /\ [Next]_vars => IInv'
    BY TypeStep, EndedStep, HandleStep DEF IInv
  <1> QED BY <1>1, <1>2, PTL DEF Spec

(* The registration, the records, the wire and the executor's missions     *)
(* always have the values their types allow.                               *)
THEOREM TypeCorrect == Spec => []TypeOK
  <1>1. IInv => TypeOK
    BY DEF IInv
  <1> QED BY <1>1, Inductive, PTL

(* No mission recorded done or failed is counted as active, whatever the   *)
(* order of events, answers, removals and restarts.                        *)
THEOREM EndedUncounted == Spec => []EndedNotCounted
  <1>1. IInv => EndedNotCounted
    BY DEF IInv
  <1> QED BY <1>1, Inductive, PTL

(* The registration's handle is the connection the executor uses, or none. *)
THEOREM HandleCurrent == Spec => []HandleIsCurrent
  <1>1. IInv => HandleIsCurrent
    BY DEF IInv
  <1> QED BY <1>1, Inductive, PTL

=============================================================================
