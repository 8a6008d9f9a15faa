-------------------------- MODULE DaemonSupervisor --------------------------
(***************************************************************************)
(* The loop supervisor: tools/ralph-external/daemon-supervisor.mjs above   *)
(* the agent pool of tools/daemon/agent-supervisor.mjs.                    *)
(*                                                                         *)
(* A loop waits in a bounded priority queue or has an entry in _running    *)
(* that names the pool task running it.  The pool reports the end of a     *)
(* task with an event; the supervisor handles it inside the pool's own     *)
(* callback, restarts the loop or starts others, and so calls the pool     *)
(* again before that callback is over.  An action is one such callback     *)
(* with everything it calls: the operators below take and return records   *)
(* of the variables that a nested call changes.                            *)
(*                                                                         *)
(* The pool is modelled as AgentSupervisor.tla has it, without records and *)
(* priorities of its own; pool tasks that belong to no loop stand for the  *)
(* callers of the pool that bypass this supervisor (IPC task.submit, the   *)
(* automation engine).  The budget gate is left out: recordCost() has no   *)
(* caller, so the gate only compares a submission's own estimate with the  *)
(* limit.                                                                  *)
(***************************************************************************)
EXTENDS FailureBreaker, Sequences, FiniteSets, SequencesExt

CONSTANTS Loops,          \* loop identifiers
          LoopPriority,   \* config.priority of each loop
          Direct,         \* owner of the pool tasks of other callers
          MaxConcurrent,  \* options.maxConcurrent
          MaxQueueDepth,  \* options.maxQueueDepth
          MaxRestarts,    \* restartIntensity.maxRestarts
          PoolSize,       \* maxConcurrency of the agent pool
          MaxOrphans,     \* bound: pool tasks without an entry when one is added
          MayShutDown     \* bound: whether shutdown() is called (at most once)

ASSUME SupervisorAssumption ==
  /\ LoopPriority \in [Loops -> Int] /\ Direct \notin Loops
  /\ MaxConcurrent \in Nat \ {0} /\ PoolSize \in Nat \ {0}
  /\ MaxQueueDepth \in Nat /\ MaxRestarts \in Nat \ {0}
  /\ MaxOrphans \in Nat /\ MayShutDown \in BOOLEAN

(* A task is named by its owner and a number.  Numbers are reused once a   *)
(* task is forgotten, so these are enough for one owner: its entry's task, *)
(* orphans, the entry shutdown() clears, and one more, since the callback  *)
(* that ends a task does not reuse its name.                               *)
Tasks == (Loops \cup {Direct}) \X (1 .. MaxOrphans + (IF MayShutDown THEN 3 ELSE 2))
NoTask == <<>>
Owner(t) == t[1]

VARIABLES
  queue,              \* _queue
  entry,              \* _running: the task of each loop, or NoTask
  knownPid,           \* loops whose entry has a pid
  history,            \* _restartHistory: failures of a loop in the window
  permanentlyFailed,  \* _permanentlyFailed
  breaker,            \* circuitBreaker
  waiting,            \* the pool's queue
  active,             \* the pool's running map
  live,               \* tasks whose child has not reported its end
  timers,             \* tasks whose timeout timer is armed
  phase,              \* "up", "draining" inside shutdown(), then "drained";
                      \* "crashed" when an exception ends the process
  graceArmed          \* the pool's grace timer outlived shutdown()

loopVars == <<queue, entry, knownPid, history, permanentlyFailed>>
poolVars == <<waiting, active, live, timers>>
phaseVars == <<phase, graceArmed>>
vars == <<loopVars, breaker, poolVars, phaseVars>>

-----------------------------------------------------------------------------
(* The variables a callback hands through its nested calls. *)
Now == [queue |-> queue, entry |-> entry, knownPid |-> knownPid,
        gone |-> permanentlyFailed, breaker |-> breaker,
        waiting |-> waiting, active |-> active, live |-> live,
        timers |-> timers]

Becomes(after) ==
  \E s \in {after} :
    /\ queue' = s.queue /\ entry' = s.entry /\ knownPid' = s.knownPid
    /\ permanentlyFailed' = s.gone /\ breaker' = s.breaker
    /\ waiting' = s.waiting /\ active' = s.active /\ live' = s.live
    /\ timers' = s.timers

(* push and stable sort by falling priority, on a sorted queue. *)
Insert(q, x, priority) ==
  InsertAt(q, 1 + Cardinality({i \in DOMAIN q : priority[q[i]] >= priority[x]}), x)

(* splice(findIndex(x), 1) *)
Without(q, x) == RemoveAt(q, CHOOSE i \in DOMAIN q : q[i] = x)

Entries(s) == {l \in Loops : s.entry[l] # NoTask}
LoopOf(t) == {l \in Loops : entry[l] = t}
Orphans == (live \cup ToSet(waiting)) \ {entry[l] : l \in Loops}

(* The pool's _processQueue: tasks start in order while slots are free.    *)
(* Each start is announced by task:started, whose handler records the pid  *)
(* in the entry that names the task, if there is one by then.              *)
Fill(s) ==
  LET free == PoolSize - Cardinality(s.active)
      n == IF phase = "draining" \/ free <= 0 THEN 0
           ELSE IF Len(s.waiting) < free THEN Len(s.waiting) ELSE free
      heads == ToSet(SubSeq(s.waiting, 1, n))
  IN  [s EXCEPT !.waiting = SubSeq(@, n + 1, Len(@)),
                !.active = @ \cup heads,
                !.live = @ \cup heads,
                !.timers = @ \cup heads,
                !.knownPid = @ \cup {l \in Loops : s.entry[l] \in heads}]

(* A name that no task of owner o has, nor had before this callback. *)
FreeTask(s, o) ==
  LET used == live \cup s.live \cup ToSet(s.waiting) \cup {s.entry[l] : l \in Loops}
      free == {t \in Tasks \ used : Owner(t) = o}
  IN  CHOOSE t \in free : \A u \in free : t[2] <= u[2]

(* The pool's submit() of task t. *)
SubmitTask(s, t) ==
  LET priority == [u \in Tasks |-> IF Owner(u) = Direct THEN 0 ELSE LoopPriority[Owner(u)]]
  IN  Fill([s EXCEPT !.waiting = Insert(@, t, priority)])

(* _startLoop: the entry is made when submit() has returned, so it misses  *)
(* the task:started of a task that the pool starts at once.                *)
StartLoop(s, l) ==
  LET t == FreeTask(s, l)
  IN  [SubmitTask(s, t) EXCEPT !.entry[l] = t, !.knownPid = @ \ {l}]

(* Mutants of DequeueLoop: size <= maxConcurrent, and no canExecute(). *)
DequeueLoopOneMore(s) ==
  IF \/ Cardinality(Entries(s)) > MaxConcurrent
     \/ s.queue = <<>> \/ phase = "draining" \/ ~CanExecute(s.breaker)
  THEN s
  ELSE StartLoop([s EXCEPT !.queue = Tail(@), !.breaker = Checked(@)], Head(s.queue))

DequeueLoopUnchecked(s) ==
  IF \/ Cardinality(Entries(s)) >= MaxConcurrent
     \/ s.queue = <<>> \/ phase = "draining"
  THEN s
  ELSE StartLoop([s EXCEPT !.queue = Tail(@)], Head(s.queue))

(* One round of _processQueue; a round that finds the loop's condition     *)
(* false changes nothing.                                                  *)
DequeueLoop(s) ==
  LET l == Head(s.queue)
      c == [s EXCEPT !.queue = Tail(@), !.breaker = Checked(@)]
  IN  IF \/ Cardinality(Entries(s)) >= MaxConcurrent
         \/ s.queue = <<>>
         \/ phase = "draining"
         \/ ~CanExecute(s.breaker)
      THEN s
      ELSE IF l \in s.gone THEN c ELSE StartLoop(c, l)

(* _processQueue. *)
DrainQueue(s) ==
  LET after[i \in 0 .. Len(s.queue)] ==
        IF i = 0 THEN s ELSE DequeueLoop(after[i - 1])
  IN  after[Len(s.queue)]

(* _running.delete(l) *)
Forget(s, l) == [s EXCEPT !.entry[l] = NoTask, !.knownPid = @ \ {l}]

-----------------------------------------------------------------------------
Init ==
  /\ queue = <<>> /\ entry = [l \in Loops |-> NoTask] /\ knownPid = {}
  /\ history = [l \in Loops |-> 0] /\ permanentlyFailed = {}
  /\ breaker = Closed
  /\ waiting = <<>> /\ active = {} /\ live = {} /\ timers = {}
  /\ phase = "up" /\ graceArmed = FALSE

(* Mutant of Submit: no permanentlyFailed check. *)
SubmitGivenUp(l) ==
  LET c == [Now EXCEPT !.breaker = Checked(@)]
  IN  /\ phase \in {"up", "drained"}
      /\ entry[l] = NoTask /\ l \notin ToSet(queue)
      /\ CanExecute(breaker)
      /\ Len(queue) < MaxQueueDepth
      /\ IF Cardinality(Entries(Now)) < MaxConcurrent
         THEN Becomes(StartLoop(c, l))
         ELSE Becomes([c EXCEPT !.queue = Insert(@, l, LoopPriority)])
      /\ UNCHANGED <<history, phaseVars>>

(* submit(), when it does not throw.  Loop ids are unique, as its          *)
(* parameter is documented: a loop is not submitted while it is known.     *)
Submit(l) ==
  LET c == [Now EXCEPT !.breaker = Checked(@)]
  IN  /\ phase \in {"up", "drained"}
      /\ entry[l] = NoTask /\ l \notin ToSet(queue)
      /\ l \notin permanentlyFailed
      /\ CanExecute(breaker)
      /\ Len(queue) < MaxQueueDepth
      /\ IF Cardinality(Entries(Now)) < MaxConcurrent
         THEN Becomes(StartLoop(c, l))
         ELSE Becomes([c EXCEPT !.queue = Insert(@, l, LoopPriority)])
      /\ UNCHANGED <<history, phaseVars>>

(* A caller of the pool that bypasses the loop supervisor. *)
SubmitDirect ==
  /\ phase \in {"up", "drained"}
  /\ Cardinality(Orphans) < MaxOrphans
  /\ Becomes(SubmitTask(Now, FreeTask(Now, Direct)))
  /\ UNCHANGED <<history, phaseVars>>

(* cancel() of a queued loop. *)
CancelQueued(l) ==
  /\ l \in ToSet(queue)
  /\ queue' = Without(queue, l)
  /\ UNCHANGED <<entry, knownPid, history, permanentlyFailed, breaker, poolVars,
                 phaseVars>>

(* cancel() of a loop whose task waits in the pool: the pool removes the   *)
(* task and task:cancelled runs at once.  (For a task that runs, cancel()  *)
(* only sends SIGTERM.)                                                    *)
CancelWaiting(l) ==
  /\ entry[l] \in ToSet(waiting)
  /\ Becomes(DrainQueue([Forget(Now, l) EXCEPT !.waiting = Without(@, entry[l])]))
  /\ UNCHANGED <<history, phaseVars>>

(* The pool's cancel() of a waiting task that is no loop's. *)
CancelDirect(t) ==
  /\ t \in ToSet(waiting) /\ LoopOf(t) = {}
  /\ waiting' = Without(waiting, t)
  /\ UNCHANGED <<loopVars, breaker, active, live, timers, phaseVars>>

(* Mutant of Ended: no clearTimeout. *)
EndedLeavesTimer(t) ==
  [Now EXCEPT !.active = @ \ {t}, !.live = @ \ {t}]

(* The pool's exit handler: the slot is freed, the event is handled, and   *)
(* then the pool's own queue is processed.                                 *)
Ended(t) ==
  [Now EXCEPT !.active = @ \ {t}, !.live = @ \ {t}, !.timers = @ \ {t}]

(* A task that no entry names ends: no handler finds a loop. *)
OrphanEnds(t) ==
  /\ t \in live /\ LoopOf(t) = {}
  /\ Becomes(Fill(Ended(t)))
  /\ UNCHANGED <<history, phaseVars>>

(* Mutant of Completed: the queue is not processed. *)
CompletedStartsNothing(t) ==
  /\ t \in live
  /\ \E l \in LoopOf(t) :
       Becomes(Fill([Forget(Ended(t), l) EXCEPT !.breaker = Succeeded(@)]))
  /\ UNCHANGED <<history, phaseVars>>

(* task:completed *)
Completed(t) ==
  /\ t \in live
  /\ \E l \in LoopOf(t) :
       Becomes(Fill(DrainQueue(
         [Forget(Ended(t), l) EXCEPT !.breaker = Succeeded(@)])))
  /\ UNCHANGED <<history, phaseVars>>

(* task:cancelled, for a child ended by a signal. *)
Cancelled(t) ==
  /\ t \in live
  /\ \E l \in LoopOf(t) : Becomes(Fill(DrainQueue(Forget(Ended(t), l))))
  /\ UNCHANGED <<history, phaseVars>>

(* task:failed, for a child that exits non-zero or could not be spawned.   *)
(* _shouldRestart drops the failures that have left the window and adds    *)
(* this one.                                                               *)
CountFailure(l, n) ==
  /\ \E kept \in 0 .. history[l] : n = kept + 1
  /\ history' = [history EXCEPT ![l] = n]

AfterFailure(t, l) == [Forget(Ended(t), l) EXCEPT !.breaker = Failed(@)]

GivesUp(t) ==
  /\ t \in live
  /\ \E l \in LoopOf(t) :
       /\ CountFailure(l, MaxRestarts)
       /\ Becomes(Fill(DrainQueue([AfterFailure(t, l) EXCEPT !.gone = @ \cup {l}])))
  /\ UNCHANGED phaseVars

Restarts(t) ==
  /\ t \in live /\ phase # "draining"
  /\ \E l \in LoopOf(t), n \in 1 .. MaxRestarts - 1 :
       /\ CountFailure(l, n)
       /\ Becomes(Fill(DrainQueue(StartLoop(AfterFailure(t, l), l))))
  /\ UNCHANGED phaseVars

(* During shutdown() the pool's submit() throws inside its exit handler    *)
(* and nothing catches it: the process ends, and its state with it.        *)
RestartThrows(t) ==
  /\ t \in live /\ phase = "draining"
  /\ LoopOf(t) # {} /\ MaxRestarts > 1  \* older failures may have left the window
  /\ phase' = "crashed"
  /\ entry' = [l \in Loops |-> NoTask] /\ knownPid' = {}
  /\ breaker' = Closed
  /\ active' = {} /\ live' = {} /\ timers' = {}
  /\ UNCHANGED <<queue, waiting, history, permanentlyFailed, graceArmed>>

(* The pool's timeout: the slot is freed, the loop keeps its entry until   *)
(* the child ends.                                                         *)
Timeout(t) ==
  /\ t \in timers
  /\ Becomes(Fill([Now EXCEPT !.active = @ \ {t}, !.timers = @ \ {t}]))
  /\ UNCHANGED <<history, phaseVars>>

(* killProcessGroup(), from daemon.process.kill or a mission's pause.      *)
(* Children are not spawned detached, so no process group has the id of    *)
(* one: kill() fails with ESRCH and the entry is dropped.                  *)
KillProcessGroup(l) ==
  /\ l \in knownPid
  /\ Cardinality(Orphans) < MaxOrphans
  /\ Becomes(DrainQueue(Forget(Now, l)))
  /\ UNCHANGED <<history, phaseVars>>

(* Mutant of Shutdown: the entries of waiting tasks are kept. *)
ShutdownKeepsEntries ==
  /\ MayShutDown /\ phase = "up"
  /\ phase' = IF active = {} THEN "drained" ELSE "draining"
  /\ queue' = <<>> /\ waiting' = <<>>
  /\ UNCHANGED <<entry, knownPid, history, permanentlyFailed, breaker, active,
                 live, timers, graceArmed>>

(* shutdown() up to its first await that waits: both queues are emptied    *)
(* (task:cancelled drops the entries of tasks that wait), and if no child  *)
(* holds a slot the entries are cleared.                                   *)
Shutdown ==
  /\ MayShutDown /\ phase = "up"
  /\ phase' = IF active = {} THEN "drained" ELSE "draining"
  /\ queue' = <<>> /\ waiting' = <<>>
  /\ entry' = [l \in Loops |-> IF active = {} \/ entry[l] \in ToSet(waiting)
                               THEN NoTask ELSE entry[l]]
  /\ knownPid' = {l \in knownPid : entry'[l] # NoTask}
  /\ UNCHANGED <<history, permanentlyFailed, breaker, active, live, timers,
                 graceArmed>>

(* The rest of shutdown(): the pool has drained or its grace timer has     *)
(* killed what was left; the entries are cleared.                          *)
EndShutdown ==
  /\ phase = "draining" /\ phase' = "drained"
  /\ entry' = [l \in Loops |-> NoTask] /\ knownPid' = {}
  /\ active' = {}
  /\ UNCHANGED <<queue, history, permanentlyFailed, breaker, waiting, live, timers>>

DrainDone == active = {} /\ EndShutdown /\ graceArmed' = TRUE
GraceExpires == EndShutdown /\ UNCHANGED graceArmed

(* The grace timer of a shutdown() that drained in time: it kills what has *)
(* been started since, and starts nothing.                                 *)
StaleGraceExpires ==
  /\ graceArmed /\ graceArmed' = FALSE
  /\ active' = {}
  /\ UNCHANGED <<loopVars, breaker, waiting, live, timers, phase>>

CooldownElapses ==
  /\ breaker.state = "open"
  /\ breaker' = [breaker EXCEPT !.state = "elapsed"]
  /\ UNCHANGED <<loopVars, poolVars, phaseVars>>

(* The cooldown timer, or canExecute() in a submit() that is then refused. *)
HalfOpens ==
  /\ breaker.state = "elapsed"
  /\ breaker' = Checked(breaker)
  /\ UNCHANGED <<loopVars, poolVars, phaseVars>>

Next ==
  \/ \E l \in Loops : Submit(l)
  \/ SubmitDirect
  \/ \E l \in Loops : CancelQueued(l)
  \/ \E l \in Loops : CancelWaiting(l)
  \/ \E l \in Loops : KillProcessGroup(l)
  \/ \E t \in Tasks : CancelDirect(t)
  \/ \E t \in Tasks : OrphanEnds(t)
  \/ \E t \in Tasks : Completed(t)
  \/ \E t \in Tasks : Cancelled(t)
  \/ \E t \in Tasks : GivesUp(t)
  \/ \E t \in Tasks : Restarts(t)
  \/ \E t \in Tasks : RestartThrows(t)
  \/ \E t \in Tasks : Timeout(t)
  \/ Shutdown
  \/ DrainDone
  \/ GraceExpires
  \/ StaleGraceExpires
  \/ CooldownElapses
  \/ HalfOpens

Spec == Init /\ [][Next]_vars

-----------------------------------------------------------------------------
(* Type invariant. *)
TypeOK ==
  /\ queue \in Seq(Loops) /\ entry \in [Loops -> Tasks \cup {NoTask}]
  /\ knownPid \subseteq Loops /\ permanentlyFailed \subseteq Loops
  /\ history \in [Loops -> 0 .. MaxRestarts]
  /\ breaker \in Breakers
  /\ waiting \in Seq(Tasks)
  /\ active \subseteq live /\ timers \subseteq live /\ live \subseteq Tasks
  /\ phase \in {"up", "draining", "drained", "crashed"}
  /\ graceArmed \in BOOLEAN

(* However many loops a callback ends, restarts and starts, no more than   *)
(* maxConcurrent have an entry, no more than maxQueueDepth wait, and the   *)
(* queue is sorted by priority. (submit, _processQueue, _startLoop)        *)
LoopsBounded ==
  /\ Cardinality(Entries(Now)) <= MaxConcurrent
  /\ Len(queue) <= MaxQueueDepth
  /\ \A i, j \in DOMAIN queue :
       i < j => LoopPriority[queue[i]] >= LoopPriority[queue[j]]

(* No slot leaks: a loop's entry names a task of its own that the pool has *)
(* still to report on, so every entry is dropped in the end. (The handlers *)
(* of the pool's events.)                                                  *)
EntriesPending ==
  /\ \A l \in Entries(Now) :
       entry[l] \in live \cup ToSet(waiting) /\ Owner(entry[l]) = l
  /\ \A l \in Loops : l \in ToSet(queue) => entry[l] = NoTask

(* While the circuit is closed a loop waits only if every slot is taken:   *)
(* each event that frees a slot or closes the circuit processes the queue. *)
ClosedNeverIdles ==
  queue # <<>> /\ breaker.state = "closed" =>
    Cardinality(Entries(Now)) = MaxConcurrent

(* The circuit is closed only while fewer than failureThreshold failures   *)
(* have followed each other, whatever restarts, probes and late ends come  *)
(* in between. (recordFailure, recordSuccess)                              *)
ClosedBelowThreshold ==
  breaker.state = "closed" => breaker.failures < FailureThreshold

(* The open circuit starts no loop: only a loop that has an entry already  *)
(* may get another task, by a restart.  (canExecute in submit and in       *)
(* _processQueue)                                                          *)
OpenStartsNoLoop ==
  [][\A l \in Loops :
       entry[l] = NoTask /\ entry'[l] # NoTask => breaker'.state # "open"]_vars

(* A loop that was given up is never started again, wherever it was queued *)
(* or resubmitted meanwhile. (_shouldRestart, submit, _processQueue)       *)
GivenUpForGood ==
  [][\A l \in permanentlyFailed :
       l \in permanentlyFailed' /\ (entry'[l] = NoTask)]_vars

-----------------------------------------------------------------------------
(* What a comment says, and the code does not do. *)

(* A graceful shutdown ends with the daemon's own exit. *)
ShutdownIsGraceful == phase # "crashed"

=============================================================================
