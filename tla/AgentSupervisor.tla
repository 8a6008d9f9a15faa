--------------------------- MODULE AgentSupervisor ---------------------------
(***************************************************************************)
(* The agent pool of the daemon: tools/daemon/agent-supervisor.mjs with    *)
(* the task records it keeps in tools/daemon/task-store.mjs.               *)
(*                                                                         *)
(* submit() creates a record, inserts the task in a priority queue and     *)
(* starts child processes while fewer than maxConcurrency tasks are        *)
(* tracked in `running`.  A child ends by an 'exit' or an 'error' event; a *)
(* per-task timer and the grace timer of shutdown() take tasks out of      *)
(* `running` without waiting for that event, so a child may outlive its    *)
(* place in the pool and report later.                                     *)
(*                                                                         *)
(* JavaScript runs each callback to completion, so every action below is   *)
(* one callback: an API call, an event handler or a timer, with all the    *)
(* calls it makes (task records, the _processQueue loop).  The supervisor  *)
(* is modelled with a task store, as every caller configures it.           *)
(***************************************************************************)
EXTENDS Integers, Sequences, FiniteSets

CONSTANTS MaxConcurrency,  \* options.maxConcurrency
          Priorities,      \* the priorities callers use
          MaxTasks,        \* bound: tasks submitted
          MaxStaleGraces   \* bound: grace timers left armed by finished shutdowns

\* Callers configure a positive limit (`max_parallel_actions || 3`), and a
\* task submitted without a priority has priority 0.
ASSUME PoolAssumption ==
  /\ MaxConcurrency \in Nat \ {0}
  /\ Priorities \subseteq Int /\ 0 \in Priorities
  /\ MaxTasks \in Nat
  /\ MaxStaleGraces \in Nat

Tasks == 0 .. MaxTasks - 1

VARIABLES
  nextId,              \* TaskStore.taskIdCounter
  prio,                \* priority of every task submitted
  store,               \* state of every task record; "none" before createTask
  queue,               \* AgentSupervisor.queue
  running,             \* keys of AgentSupervisor.running
  proc,                \* child process: "none" before the spawn and once its
                       \* last event is handled, else the strongest signal sent
  timers,              \* tasks whose timeout timer is armed
  shutdownInProgress,  \* a shutdown() call is waiting for the pool to drain
  staleGraces,         \* grace timers of finished shutdown() calls, still armed
  unspawned            \* history: tasks taken from the queue whose spawn() threw

recordVars == <<nextId, prio, unspawned>>
poolVars == <<queue, running, store, proc, timers>>
shutdownVars == <<shutdownInProgress, staleGraces>>
vars == <<nextId, prio, store, queue, running, proc, timers,
          shutdownInProgress, staleGraces, unspawned>>

TaskStates == {"none", "queued", "running", "completed", "failed", "cancelled"}
Settled == {"completed", "failed", "cancelled"}
ProcStates == {"none", "up", "termed", "killed"}

Queued == {queue[i] : i \in DOMAIN queue}
Live == {t \in Tasks : proc[t] # "none"}

-----------------------------------------------------------------------------
(* Mutant of Insert: the task is put ahead of those of its priority.       *)
InsertBeforeEquals(q, t, p) ==
  LET Stays(i) == i \in DOMAIN q /\ prio[q[i]] > p
  IN  [i \in 1 .. Len(q) + 1 |->
        IF Stays(i) THEN q[i]
        ELSE IF i = 1 \/ Stays(i - 1) THEN t ELSE q[i - 1]]

(* push(task) and the stable sort by falling priority, on a queue that is  *)
(* already sorted: entries of at least priority p keep their places, the   *)
(* new task comes next and the others move back by one.                    *)
Insert(q, t, p) ==
  LET Stays(i) == i \in DOMAIN q /\ prio[q[i]] >= p
  IN  [i \in 1 .. Len(q) + 1 |->
        IF Stays(i) THEN q[i]
        ELSE IF i = 1 \/ Stays(i - 1) THEN t ELSE q[i - 1]]

(* queue.splice(k, 1) *)
Without(q, k) ==
  [i \in 1 .. Len(q) - 1 |-> IF i < k THEN q[i] ELSE q[i + 1]]

(* How many times the loop of _processQueue runs. *)
Starts(q, r) ==
  IF shutdownInProgress \/ Cardinality(r) >= MaxConcurrency THEN 0
  ELSE IF Len(q) <= MaxConcurrency - Cardinality(r) THEN Len(q)
  ELSE MaxConcurrency - Cardinality(r)

(* The first n tasks of the queue are spawned, their records set to        *)
(* running and their timers armed, in a callback that has brought the      *)
(* queue, the running map, the records, the children and the timers to q,  *)
(* r, s, c and m.                                                          *)
StartFirst(n, q, r, s, c, m) ==
  LET heads == {q[i] : i \in 1 .. n}
  IN  /\ queue' = [i \in 1 .. Len(q) - n |-> q[i + n]]
      /\ running' = r \cup heads
      /\ store' = [t \in Tasks |-> IF t \in heads THEN "running" ELSE s[t]]
      /\ proc' = [t \in Tasks |-> IF t \in heads THEN "up" ELSE c[t]]
      /\ timers' = m \cup heads

(* _processQueue() in such a callback: tasks start until the pool is full  *)
(* or the queue is empty.                                                  *)
ProcessQueue(q, r, s, c, m) == StartFirst(Starts(q, r), q, r, s, c, m)

-----------------------------------------------------------------------------
Init ==
  /\ nextId = 0
  /\ prio = [t \in Tasks |-> 0]
  /\ store = [t \in Tasks |-> "none"]
  /\ queue = <<>>
  /\ running = {}
  /\ proc = [t \in Tasks |-> "none"]
  /\ timers = {}
  /\ shutdownInProgress = FALSE
  /\ staleGraces = 0
  /\ unspawned = {}

(* submit(); it throws while a shutdown is in progress. *)
Submit(p) ==
  /\ nextId < MaxTasks
  /\ ~shutdownInProgress
  /\ nextId' = nextId + 1
  /\ prio' = [prio EXCEPT ![nextId] = p]
  /\ ProcessQueue(Insert(queue, nextId, p), running,
                  [store EXCEPT ![nextId] = "queued"], proc, timers)
  /\ UNCHANGED <<unspawned, shutdownVars>>

(* submit() in which a spawn() throws (an argument the system refuses is   *)
(* not reported by an 'error' event): the exception leaves _runTask, the   *)
(* loop and submit() itself.  The task had left the queue and its record   *)
(* still says queued; what came before it has started, what follows still  *)
(* waits.  (In the handlers of exits, errors and timeouts nothing catches  *)
(* it and the process ends.)                                               *)
SubmitThrows(p) ==
  LET q == Insert(queue, nextId, p)
  IN  /\ nextId < MaxTasks
      /\ nextId' = nextId + 1
      /\ prio' = [prio EXCEPT ![nextId] = p]
      /\ \E k \in 1 .. Starts(q, running) :
           /\ StartFirst(k - 1, Without(q, k), running,
                         [store EXCEPT ![nextId] = "queued"], proc, timers)
           /\ unspawned' = unspawned \cup {q[k]}
      /\ UNCHANGED shutdownVars

(* cancel() of a task still in the queue. *)
CancelQueued(k) ==
  /\ k \in DOMAIN queue
  /\ queue' = Without(queue, k)
  /\ store' = [store EXCEPT ![queue[k]] = "cancelled"]
  /\ UNCHANGED <<recordVars, running, proc, timers, shutdownVars>>

(* cancel() of a running task only sends SIGTERM; the exit handler does    *)
(* the rest.                                                               *)
CancelRunning(t) ==
  /\ t \in running
  /\ proc[t] = "up"
  /\ proc' = [proc EXCEPT ![t] = "termed"]
  /\ UNCHANGED <<recordVars, queue, running, store, timers, shutdownVars>>

(* The record written by the exit handler.  Any child may be killed from   *)
(* outside, trap SIGTERM or exit by itself just before a signal, so every  *)
(* way of ending is possible whatever was sent.                            *)
RecordAtExit(t, how) ==
  CASE how = "signal"  -> IF store[t] = "running" THEN "cancelled" ELSE store[t]
    [] how = "zero"    -> "completed"
    [] how = "nonzero" -> "failed"

(* Mutant of Exit: no clearTimeout. *)
ExitLeavesTimer(t, how) ==
  /\ t \in Live
  /\ ProcessQueue(queue, running \ {t},
                  [store EXCEPT ![t] = RecordAtExit(t, how)],
                  [proc EXCEPT ![t] = "none"], timers)
  /\ UNCHANGED <<recordVars, shutdownVars>>

(* proc.on('exit'). *)
Exit(t, how) ==
  /\ t \in Live
  /\ ProcessQueue(queue, running \ {t},
                  [store EXCEPT ![t] = RecordAtExit(t, how)],
                  [proc EXCEPT ![t] = "none"], timers \ {t})
  /\ UNCHANGED <<recordVars, shutdownVars>>

(* Mutant of SpawnError: the slot is freed but the queue is not processed. *)
SpawnErrorStartsNothing(t) ==
  /\ t \in running
  /\ proc[t] = "up"
  /\ running' = running \ {t}
  /\ store' = [store EXCEPT ![t] = "failed"]
  /\ proc' = [proc EXCEPT ![t] = "none"]
  /\ timers' = timers \ {t}
  /\ UNCHANGED <<queue, recordVars, shutdownVars>>

(* proc.on('error'): the spawn failed.  It is reported on the next tick,   *)
(* before any signal or timer.                                             *)
SpawnError(t) ==
  /\ t \in running
  /\ proc[t] = "up"
  /\ ProcessQueue(queue, running \ {t},
                  [store EXCEPT ![t] = "failed"],
                  [proc EXCEPT ![t] = "none"], timers \ {t})
  /\ UNCHANGED <<recordVars, shutdownVars>>

(* Mutants of Timeout: the slot is kept until the child exits, and the     *)
(* slot is freed but the queue is left to the exit handler.                *)
TimeoutKeepsSlot(t) ==
  /\ t \in timers
  /\ store' = [store EXCEPT ![t] = "failed"]
  /\ proc' = [proc EXCEPT ![t] = IF @ = "killed" THEN @ ELSE "termed"]
  /\ timers' = timers \ {t}
  /\ UNCHANGED <<queue, running, recordVars, shutdownVars>>

TimeoutStartsNothing(t) ==
  /\ t \in timers
  /\ store' = [store EXCEPT ![t] = "failed"]
  /\ proc' = [proc EXCEPT ![t] = IF @ = "killed" THEN @ ELSE "termed"]
  /\ timers' = timers \ {t}
  /\ running' = running \ {t}
  /\ UNCHANGED <<queue, recordVars, shutdownVars>>

(* The timeout timer: SIGTERM, the record is failed and the slot given to  *)
(* the next task at once.                                                  *)
Timeout(t) ==
  /\ t \in timers
  /\ ProcessQueue(queue, running \ {t},
                  [store EXCEPT ![t] = "failed"],
                  [proc EXCEPT ![t] = IF @ = "killed" THEN @ ELSE "termed"],
                  timers \ {t})
  /\ UNCHANGED <<recordVars, shutdownVars>>

(* shutdown() up to its first await: the queue is cancelled, and if tasks  *)
(* are running the call waits for them with a grace timer.  Its callers    *)
(* never overlap two calls.                                                *)
Shutdown ==
  /\ ~shutdownInProgress
  /\ staleGraces < MaxStaleGraces
  /\ queue' = <<>>
  /\ store' = [t \in Tasks |-> IF t \in Queued THEN "cancelled" ELSE store[t]]
  /\ shutdownInProgress' = (running # {})
  /\ UNCHANGED <<recordVars, running, proc, timers, staleGraces>>

(* The 100 ms check of shutdown() finds the pool empty: the call returns   *)
(* and leaves its grace timer armed.                                       *)
DrainDone ==
  /\ shutdownInProgress
  /\ running = {}
  /\ shutdownInProgress' = FALSE
  /\ staleGraces' = staleGraces + 1
  /\ UNCHANGED <<recordVars, poolVars>>

(* The body of a grace timer: SIGKILL and a failed record for every        *)
(* running task, and an empty pool.  The queue is not processed.           *)
KillRunning ==
  /\ store' = [t \in Tasks |-> IF t \in running THEN "failed" ELSE store[t]]
  /\ proc' = [t \in Tasks |-> IF t \in running THEN "killed" ELSE proc[t]]
  /\ running' = {}
  /\ UNCHANGED <<recordVars, queue, timers>>

(* The grace timer of the shutdown in progress: the call returns. *)
GraceExpires ==
  /\ shutdownInProgress
  /\ KillRunning
  /\ shutdownInProgress' = FALSE
  /\ UNCHANGED staleGraces

(* The grace timer of a shutdown that returned earlier. *)
StaleGraceExpires ==
  /\ staleGraces > 0
  /\ KillRunning
  /\ staleGraces' = staleGraces - 1
  /\ UNCHANGED shutdownInProgress

ExitCodes == {"signal", "zero", "nonzero"}

Next ==
  \/ \E p \in Priorities : Submit(p)
  \/ \E p \in Priorities : SubmitThrows(p)
  \/ \E k \in DOMAIN queue : CancelQueued(k)
  \/ \E t \in Tasks : CancelRunning(t)
  \/ \E t \in Tasks, how \in ExitCodes : Exit(t, how)
  \/ \E t \in Tasks : SpawnError(t)
  \/ \E t \in Tasks : Timeout(t)
  \/ Shutdown
  \/ DrainDone
  \/ GraceExpires
  \/ StaleGraceExpires

Spec == Init /\ [][Next]_vars

(* Timeouts fire, and a child that was sent SIGKILL ends.  Nothing is      *)
(* assumed of callers, nor of a child that was sent SIGTERM or nothing: it *)
(* may run for ever.                                                       *)
Fairness ==
  /\ \A t \in Tasks : WF_vars(Timeout(t))
  /\ \A t \in Tasks :
       WF_vars(proc[t] = "killed" /\ \E how \in ExitCodes : Exit(t, how))

FairSpec == Spec /\ Fairness

-----------------------------------------------------------------------------
(* Type invariant. *)
TypeOK ==
  /\ nextId \in 0 .. MaxTasks
  /\ prio \in [Tasks -> Priorities]
  /\ store \in [Tasks -> TaskStates]
  /\ queue \in Seq(Tasks)
  /\ running \subseteq Tasks
  /\ proc \in [Tasks -> ProcStates]
  /\ timers \subseteq Tasks
  /\ shutdownInProgress \in BOOLEAN
  /\ staleGraces \in Nat
  /\ unspawned \subseteq Tasks

(* The three places that know a task agree: its record says queued exactly *)
(* when it is in the queue (once), or was lost by a spawn() that threw,    *)
(* and running exactly when it is in the running map, where it has a child *)
(* and an armed timer.  (createTask, startTask and every handler that      *)
(* settles a task.)                                                        *)
TrackedMatchesStore ==
  /\ \A i, j \in DOMAIN queue : queue[i] = queue[j] => i = j
  /\ Queued \cap unspawned = {}
  /\ \A t \in Tasks : store[t] = "queued" <=> t \in Queued \cup unspawned
  /\ \A t \in Tasks : store[t] = "running" <=> t \in running
  /\ running \subseteq timers /\ timers \subseteq Live

(* The running map never holds more than maxConcurrency tasks, however     *)
(* many slots a callback frees or fills. (_processQueue)                   *)
RunningBounded == Cardinality(running) <= MaxConcurrency

(* t is served before u. *)
Before(t, u) == prio[t] > prio[u] \/ (prio[t] = prio[u] /\ t < u)

(* The queue is sorted by priority, and by submission among equals: push   *)
(* followed by a stable sort. (submit)                                     *)
QueueOrdered ==
  \A i, j \in DOMAIN queue : i < j => Before(queue[i], queue[j])

(* No lost wake-up: a task waits only while the pool is full, or while a   *)
(* child that already lost its slot has still to report, since its exit    *)
(* handler processes the queue again. (The grace timer frees every slot    *)
(* and starts nothing.)                                                    *)
NoLostWakeup ==
  queue # <<>> =>
    /\ ~shutdownInProgress
    /\ Cardinality(running) = MaxConcurrency \/ Live \ running # {}

(* A record that says completed or cancelled is never revised, and one     *)
(* that says failed is revised only by the exit of a child that outlived   *)
(* its slot in the pool (after a timeout or a grace timer).                *)
SettledIsFinal ==
  [][\A t \in Tasks :
       store[t] \in Settled /\ store'[t] # store[t] =>
         store[t] = "failed" /\ t \in Live \ running /\ t \notin Live']_vars

(* A task of a higher priority was submitted after t. *)
Overtaken(t) ==
  \E u \in Tasks : t < u /\ u < nextId /\ prio[u] > prio[t]

(* A task that runs is settled in the end, since the timeout bounds every  *)
(* run.  A task that waits is settled too, or lost to a spawn() that       *)
(* throws, unless a task of a higher priority is submitted after it: the   *)
(* queue is sorted by priority alone (submit), so under endless urgent     *)
(* submissions it may wait for ever.                                       *)
Settles(t) ==
  store[t] \in {"queued", "running"} ~>
    \/ store[t] \in Settled
    \/ store[t] = "queued" /\ (t \in unspawned \/ Overtaken(t))

(* The pool that callers see: the queue, the running map and every other   *)
(* task ever submitted.                                                    *)
Pool == INSTANCE TaskPool WITH
          Capacity <- MaxConcurrency,
          waiting <- Queued,
          active <- running,
          settled <- (0 .. nextId - 1) \ (Queued \cup running)

(* The supervisor implements the pool of TaskPool: never more tasks active *)
(* than its capacity, none started before one that precedes it, and no     *)
(* task started or settled twice.                                          *)
ImplementsPool == Pool!PoolSpec

=============================================================================
