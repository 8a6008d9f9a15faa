# Cybernetics / AIWG: a TLA+ development

This directory specifies the parts of the repository that keep state between
events and run several actors against it: the daemon's pool of agent processes,
the supervisor of agent loops above it with its circuit breaker, the task
records on disk, the registry files that external loop processes share, the
server's records about remote executors and sandboxes, its bridged terminals,
and the breaker around service calls.  Every definition is written from the code, at the lines
`PROJECT.json` ("map") names; the documentation is used only where a run
compares the code with what it says.  Paths below are relative to `src/`.

Contents: 1 inventory, 2 the modules and the code, 3 the runs, 4 fairness,
5 the proofs, 6 where code and documentation part, 7 what is not modelled,
8 plan, 9 running it.

## 1. Inventory

### 1.1 Components

| Component | Code | State it keeps | Operations and events |
|---|---|---|---|
| Agent pool | `tools/daemon/agent-supervisor.mjs`, `tools/daemon/task-store.mjs` | priority queue, running map, child processes, timers, task records, id counter | submit, cancel, shutdown; exit, error, timeout, drain check, grace timer |
| Loop supervisor | `tools/ralph-external/daemon-supervisor.mjs` | bounded loop queue, entries of running loops, restart history, loops given up | submit, cancel, shutdown; task:started, completed, failed, cancelled |
| Failure breaker | `tools/ralph-external/lib/consecutive-failure-circuit-breaker.mjs` | state, failure counter, cooldown timer | canExecute, recordSuccess, recordFailure, cooldown |
| External loop registry | `tools/ralph-external/external-multi-loop-state-manager.mjs`, used by `orchestrator.mjs` | lock file, registry file, temporary file | createLoop, updateLoop, archiveLoop, acquireLock, releaseLock |
| Executor registry | `src/serve/executor-registry.ts`, routes and socket handler in `src/cli/handlers/serve.ts` | registrations, sockets, mission records, identity store | register, delete, connect, events, dispatch, pause, resume, abort |
| Task store on disk | `tools/daemon/task-store.mjs`, made and replaced by `daemon-main.mjs` | records, id counter, JSON file | load, save at every change, start, reload, crash |
| Executor shim | `tools/ralph-external/executor-shim.mjs` | missions, loop of a mission, pending questions, sockets | dispatch, abort, pause, resume, answers, loop events |
| Call breaker | `cybernetics/circuit/breaker.py` | state, failures, half-open calls | call: admission, success, failure, cancellation |
| In-session loop registry | `tools/ralph/registry.mjs`, `registry-sync.mjs`, `state-manager.mjs` | registry and lock files | register, update, unregister |
| Daemon main, IPC | `tools/daemon/daemon-main.mjs`, `ipc-server.mjs` | socket, pid file, shutdown flag | task.submit, task.cancel, status, shutdown |
| Automation, autonomy, cron | `tools/daemon/automation-engine.mjs`, `autonomous-engine.mjs`, `cron-scheduler.mjs` | rules, cool-downs, proposals, daily limits | events, approvals, ticks |
| Messaging hub | `tools/messaging/` | rooms, chat sessions, handlers | publish, chat messages |
| PTY bridge | `src/serve/pty-bridge.ts` | sessions by id, their browsers, the socket to the sandbox, retries | connect, join, leave, close; shell_started, killed, close, timeouts, eviction |
| Sandbox registry | `src/serve/sandbox-registry.ts`, routes and socket handler in `src/cli/handlers/serve.ts` | sandboxes, index by instance, agents' session counts, human questions | register, remove, connect, events, respond, dismiss, expire |
| External orchestrator | `tools/ralph-external/orchestrator.mjs`, `recovery-engine.mjs`, `checkpoint-manager.mjs` | loop state, checkpoints | iterate, recover |

`PROJECT.json` ("components") lists them all, the ones left aside included.

### 1.2 How they interact

* The daemon owns one agent pool.  Tasks reach it on two routes: IPC
  `task.submit` and the automation engine call `AgentSupervisor.submit()`
  directly; cron, the autonomous engine and the web front end go through
  `DaemonSupervisor.submit()`, which keeps its own queue and starts one pool
  task per loop.  The loop supervisor listens to the pool's events, and its
  handlers run **inside** the pool's callbacks: a restart in the `task:failed`
  handler submits to the pool before the pool has processed its own queue.
* The breaker is called by the loop supervisor only; its cooldown is a timer
  that changes the breaker and calls nobody.
* External loops are separate processes.  They share nothing but files: the
  registry is protected by a lock file with a pid and a lease.
* `aiwg serve` talks to an executor over HTTP (registration by the executor,
  dispatch by the server) and a WebSocket (events of the executor).  The two
  channels are not ordered with each other.
* A sandbox registers over HTTP and pushes its events on a WebSocket; the
  dashboard forgets sandboxes and answers their questions through `aiwg serve`,
  which asks the sandbox and waits.  Browsers reach a sandbox's shell through the
  PTY bridge, whose own socket to the sandbox comes and goes; without a sandbox, or
  when the bridge to a detected one does not come up, they get a local shell.
* The daemon's pool writes every change of a record to one file.  SIGHUP makes the
  daemon build a second pool and a second store on that file.
* The Python breaker is called by coroutines that stay inside a call while the
  breaker changes; in this repository the broker only lists its states
  (`cybernetics/broker/server.py:129`), the calls are for services to make.

### 1.3 What is hard here

* **Callbacks in any order.** Timeout, exit, cancel and grace timer of one task
  come in any order, and each of them frees the slot once only.
* **Two queues, nested.** A callback of the pool ends, restarts and starts loops
  above it and tasks below it in one turn.
* **Nothing wakes the queue.** Both queues are processed only when another event
  comes; each path that frees a slot must do it.
* **Files without transactions.** Reading the lock, judging it and removing it
  are three calls; the registry's temporary file has one name for everybody; a
  process may crash between any two calls, or outlive its lease.
* **Ids that outlive what they named.**  A failed spawn, a browser that leaves and a
  killed bridge look their session up by id and may find another; a socket of a
  forgotten sandbox goes on sending; a retry timer survives its session; a bridge that
  was given up shares its session with the shell that replaced it.
* **State that is wrong after an await.** A call's outcome is booked in whatever
  state the breaker has by then; an answer is acknowledged after its question has
  expired; a founding browser has no close handler until its shell is there.
* **Two channels.** An executor's events race with the answer to its dispatch,
  an old connection's close races with the new connection, an operator's
  command races with what the executor has already said.

### 1.4 What makes each part correct

* Pool: a task is queued or running or settled, in one place only; at most
  `maxConcurrency` run; the queue is served by priority and age; no slot is free
  while a task waits; what is settled stays so; a task is settled in the end unless
  more urgent ones keep coming.
* Loop supervisor: at most `maxConcurrent` entries, each naming a task that is
  still to be reported on; no idle slot under a closed circuit; an open circuit
  starts no loop; a loop that was given up never comes back; shutdown ends.
* Loop registry: the lock excludes; no registration is lost where the registry exists
  and leases last; no saved list is over the limit; every process gets on, whoever
  crashes.
* Executor registry: ended missions are not counted; the handle is the live
  connection; terminal means terminal (which the code does not keep, section 6).
* Call breaker: closed means below the threshold; a half-open period ends.
* Task records: an id names one task as long as its record is not lost, and a record is
  lost or moves back only after a failed write or a torn file; memory, file and pool agree.
* PTY bridge: no dead session is offered; a spawn is settled; what nobody uses goes
  away, and stays away.
* Sandbox registry: one entry for each instance; connected means heard; counts are
  right as long as nothing was missed or mistaken; a question leaves the queue for a
  known reason only.

`PROJECT.json` ("hazards") has what can go wrong, each at its line.

## 2. The modules and the code

| Module | Models | Lines of code behind it |
|---|---|---|
| `TaskPool` | what the pool promises its callers, without queue, processes, timers | abstract |
| `AgentSupervisor` | the agent pool with its task records | `agent-supervisor.mjs`, `task-store.mjs` (records) |
| `AgentSupervisorProofs` | proofs about it | |
| `FailureBreaker` | the breaker, as operators on its state | `consecutive-failure-circuit-breaker.mjs` |
| `DaemonSupervisor` | loop supervisor + breaker + pool, composed | `daemon-supervisor.mjs`, and the pool below it |
| `ExecutorShim` | missions above the loop supervisor | `executor-shim.mjs` |
| `LoopRegistry` | external loop registry, one action per file-system call | `external-multi-loop-state-manager.mjs`, its calls in `orchestrator.mjs` |
| `LoopRegistryProofs` | proofs about it | |
| `ExecutorRegistry` | mission records about one executor, its sockets, the network | `executor-registry.ts`, `serve.ts` |
| `ExecutorRegistryProofs` | proofs about it | |
| `CallBreaker` | calls through one Python breaker | `breaker.py` |
| `PtyBridge` | sessions under one id, browsers, the bridge to a sandbox | `pty-bridge.ts` |
| `TaskLedger` | what a list of task records promises its readers | abstract |
| `TaskStore` | the records, their file, the daemon's starts, reloads and crashes | `task-store.mjs`, `daemon-main.mjs` |
| `SandboxRegistry` | sandboxes, their sockets, session counts, questions | `sandbox-registry.ts`, `serve.ts` |
| `SupervisorProofs` | proofs about `DaemonSupervisor` and `ExecutorShim` | |
| `CallBreakerProofs`, `PtyBridgeProofs`, `SandboxRegistryProofs`, `TaskStoreProofs` | proofs about them | |
| `MC*` | instances for TLC | |

**AgentSupervisor.**  An action is one JavaScript callback, from its start to
its end, because JavaScript runs it so: `Submit` is createTask, push, sort and
`_processQueue`; `Exit`, `SpawnError`, `Timeout`, `CancelRunning`,
`CancelQueued` are the handlers with the record they settle and the
`_processQueue` they end in.  `ProcessQueue(q, r, s, c, m)` is the loop of
`_processQueue`, applied to what the callback has made of the queue, the running
map, the records, the children and the timers.  A child may outlive its slot:
`proc` keeps it until its last event.  `shutdown()` is three actions, its
start, the 100 ms check that finds the pool empty, and the grace timer; the
grace timer of a shutdown that drained in time stays armed in the code and is
`StaleGraceExpires` here.  The supervisor is used with a task store by every
caller and is modelled so.  A `spawn()` that throws synchronously is `SubmitThrows`
when it happens inside `submit()`: the task has left the queue, its record says
queued for ever (`unspawned`), and the loop over the queue stops there.  In the
handlers of exits, errors and timeouts nothing catches it, and as the daemon
installs no `uncaughtException` handler the process ends; so does a spawn that fails
for want of file descriptors, whose child has no `stdout` to attach to.

**TaskPool** is the abstract pool: waiting, active and settled tasks; tasks
start in the order of priority and age as far as capacity goes.
`AgentSupervisor!ImplementsPool` instantiates it with the queue's contents, the
running map and everything else ever submitted.

**FailureBreaker** has no variables: it is operators on a record, so that the
supervisor can apply several calls of the breaker within one callback.
"elapsed" is the open circuit whose cooldown is over and whose timer has not
run, since `canExecute()` may move it on first.

**DaemonSupervisor** holds the loops' queue and entries, the breaker, and the
pool below it in one state, for the callbacks of the three nest.  A callback is
computed as a chain of operators on a record of the state (`Now`, then
`SubmitTask`, `StartLoop`, `DequeueLoop`, `Fill`, ...) and `Becomes` assigns the
result.  The pool is a smaller picture of `AgentSupervisor`: waiting tasks,
active tasks, live children and timers; a task is named by its owner and a number.  Tasks submitted past
the loop supervisor (`SubmitDirect`) are there too, since they take its slots.
Numbers are used again when nobody knows the task any more (`FreeTask`), which
keeps the names few and loses nothing: ids are only compared for equality.
Precondition kept as a guard: loop ids are unique among the loops queued or
running.  A spawn that throws out of `submit()` of a loop leaves that loop without an
entry and changes nothing else here, and is left to `AgentSupervisor`; so is what a
stale grace timer does to a later submission.

**LoopRegistry.**  Processes run in parallel, so an action is one call of the
file system: `TakeLock` (create exclusively), `StampLock` (write its content),
`Inspect`, `ProbeDead`/`ProbeAlive`, `RemoveLock`, `Load`, `OpenTemp`,
`WriteTemp`, `RenameTemp`, `CheckOwner`, `Unlock`.  A registration reads the registry
once more after its save, for the legacy link (`Relink`); if that cannot be parsed the
process goes on as if it had not registered, although it is listed (`RelinkFails`).  A file is an inode with a
name: a process that has the temporary file open keeps writing to the inode
another process has renamed.  A text written over a longer one of another writer
may be torn or not.  The life of a process is the orchestrator's: look at the
registry, register, run, write the last status without the lock, archive under
the lock.

**ExecutorRegistry.**  The server is one event loop, so a route or a handler is
one action, except dispatch, which awaits the executor: `Dispatch`, then
`Answered` or `ForwardFailed`.  The route does not look for another dispatch of the same
mission, so `forward` counts the requests of a mission at every stage, up to a bound.
The executor is external: any process that keeps
`docs/contracts/executor.v1.md` (it accepts a mission it does not have and says
so at once, goes through the states of the contract, reports each on its
connection, and sends a resync when it connects).  A connection is open, closing
or free; when it breaks, a tail of what was on its way is lost, and the server
reads the rest and then sees the close, maybe after the executor has connected
again.  What an operator's command pushed to the executor leads to is among the
things the executor may report anyway, so the push itself is left out.

**ExecutorShim** extends `DaemonSupervisor`: an action is an action of the
supervisor together with what the shim's listeners do in it (`LoopCompleted`,
`LoopFailed`, `SupervisorStep`), or an operator's request with the calls it makes
(`Dispatch`, `Pause`, `Resume`, `Abort`, `Ask`, `Answer`).  `loop:started` is not
an action: whatever step gives a loop a task makes its mission running (`Hears`),
as the event is emitted inside that step.  The pool is the real one; the command
`aiwg local-executor serve` puts a stub in its place
(`src/cli/handlers/local-executor.ts:197`), whose tasks never end.

The shim is not composed with `ExecutorRegistry`, because in the code the two do not meet: the server forwards to
`<rest>/dispatch` while the shim serves `/api/v1/sessions/:id/dispatch`, neither
side opens the WebSocket as a client, and the shim does not act on pushed
commands.

**CallBreaker.**  `call()` holds the lock in three places and never while it
awaits the service, so admission, success and failure are one action each, and
`Cancel` is the coroutine that gets a CancelledError at its await: it is no
`Exception`, so neither block runs.  `call` tells the probes of the present
half-open period from the calls that began earlier; `lost` counts the probes that
were cancelled.

**PtyBridge** is one session id with all the session objects made for it.  A
callback that captured its session uses that object (`Disconnected(s)`), one that
looks the id up uses `registered` (`Delete`, `Leave`, `AskClose`, `Evict`), as in
the code.  `link` is the closure's socket and timer.  `handlePtyConnection()`
awaits the spawn between creating a session and installing the browser's handlers,
so `Found` is the part before, and `Wired` says whether the rest has run.  `pty` is
`session.pty`, the bridge or the local shell.  When a bridge is given up, `GivesUp`
leaves both outcomes open: `spawnPty()` rejects for a sandbox that was named, and turns
to node-pty for one that was detected (`LocalStarts`, `LocalFails`), with the bridge's
socket, timer and callbacks as they are; a socket that closes early always rejects, for
its message alone of the bridge's begins with "Sandbox ".  The
sandbox is the environment: any message may come and any socket may close.

**TaskStore** is the file, the stores that `daemon-main` makes, and the tasks that
the pool of each may still report of.  A write leaves the new content, the old one
(it failed) or something unreadable (it failed or the process died inside it).
`Reload` opens a further store and touches nothing of the one before, as
`stopSubsystems()` knows neither stores nor pools; whoever was given the earlier pool
goes on to submit to it (`Submit(s)` for every store made).  A pool may report of a failed task
again, also as failed (`Report`), or have no more to say of a record that stays as it is
(`Drop`).  **TaskLedger** says what a reader of the records may rely on: ids in order,
states only forward; everything is lost at once only when the file is unreadable, and
otherwise a record falls back, or is gone, only after a write that failed.  An id is
given out again when its record is gone in one of these ways, and then only: the code starts
from what the file has (`task-store.mjs:43-46`).

**SandboxRegistry.**  Register, the event handler and the removals are one action
each; `respond` awaits the sandbox and is `Respond`, then `RespondEnds` or
`RespondFails`.  `holds` is what the sandbox knows, which may be an old id, or
none when the answer was lost.  Sending and reading an event are two actions: `Say` puts
it into the socket the sandbox uses (`link`), `Deliver` is `handleEvent()` on the head of
any socket, and a socket that closes takes what was not read with it (`Closed`).  So
events of two overlapping sockets may be read in any order.  `live` is the sessions there
really are.  `drifted` names the entries whose count need not agree with them, each for a
cause that has its place in the model: an event that went to another socket of the
sandbox, or to none (`Say`), one that was lost in a closed socket (`Closed`), and one that
the handler cannot take for what it is (`Mistaken`): an agent announced while sessions of
it run (`agent.connected` and `agent.provisioning` set the agent's entry anew and drop its
`sessionCount`, `sandbox-registry.ts:865`, `:883`), or sessions of an agent it does not know.  A
full list, or an announcement of an agent without sessions, read last of all makes the
count good again (`TellsAll`).  `left` is why a question has left the queue; `Restart`
is one of the reasons, since the queue is in memory only.

## 3. The runs

| Run | What it checks | Bounds | Size |
|---|---|---|---|
| `agent_pool` | agreement of records/queue/running map, no lost wake-up, settled is final, refinement of `TaskPool` (with its limit and its order); a running task settles, and a waiting one does unless a later task of a higher priority overtakes it | 4 tasks, 2 priorities, 2 slots, 1 stale grace timer; the end of the third task is followed | 195,891 states |
| `daemon_supervisor` | entries name pending tasks, no idle slot, breaker threshold, open starts no loop, given up for good; with a shutdown at any time, its grace timer and submissions after it | 3 loops in 2 priorities, 1 entry, queue of 2, 2 restarts, threshold 2, pool of 1, 1 task without an entry; the two loops of one priority are symmetric | 399,741 |
| `executor_shim` | accepted missions are queued, loops report to missions, one agent per mission, what is over stays over but for two ways; the supervisor's limit, with two entries | 3 missions, 2 entries, queue of 1, 2 restarts, threshold 1, pool of 1, 1 killed task at a time, 1 mission that asks questions | 523,577 |
| `registry_lock` | lock excludes until the first exit; registrations are kept, given a registry file and leases that last | 3 processes (symmetric), limit 2, 2 attempts | 46,687 |
| `registry_live` | saved lists within the limit; every process ends unless an unwritten lock blocks it | 2 processes, a crash, expiring leases, no registry yet | 16,298 |
| `executor_registry` | ended missions not counted, handle current | 1 mission with 2 dispatches at a time, 2 overlapping connections, 2 events on their way in each, 3 faults, all operator commands | 3.46 million |
| `call_breaker` | state and failures agree, half-open calls are accounted for, a half-open period ends | 4 calls, threshold 2, 2 half-open calls | 934 |
| `pty_bridge` | no dead session, failed spawns forgotten, only a lost founder lingers; spawns settle, unused sessions go | 2 browsers, 2 sessions, 2 reconnections | 242,753 |
| `task_store` | the records implement `TaskLedger`, the file keeps up, reports find their records | 2 tasks, 2 stores | 129,312 |
| `sandbox_registry` | one entry per instance, connected has a socket, a question leaves the queue for a known reason only; with everything read, the count of an entry that has not drifted is exact | 1 sandbox, 2 entries, 2 sockets each, 1 event on its way in each, 2 sessions, 1 question with 2 answers on their way | 2.23 million |
| `daemon_graceful` | **violated**: `ShutdownIsGraceful` | 2 loops | |
| `pty_torn_down` | **violated**: `TornDownStaysDown` | 2 browsers, 2 sessions | |

A "violated" run states what a comment or a document says and shows an execution
of the code that contradicts it (section 6).

**Why the bounds are enough to be interesting.**  *Pool:* with two slots and
four tasks both slots are taken, two tasks wait and overtake by priority, and a
child that lost its slot can outlive its successor.  Tasks differ in nothing but their
number and priority, so the end of one is followed: the third, which may find both slots
taken and be overtaken by the fourth.  *Loops:* three loops over
one entry make two of them wait, and the task without an entry makes the third wait
for the pool's slot (two entries are part of `executor_shim`); two restarts and a
threshold of two make restarts, give-up and the trip of the circuit coincide in
different orders.  *Registry:* three processes are
needed for an observer, an owner that goes and a new owner; the interleaving of
crash and lease expiry needs two.  *Executor:* missions do not interact but for
their order on the wire, so one mission is checked deeply; two connections are
needed for the old one to close after the new one opened; three faults allow,
for example, a lost answer, a broken connection and a restart in one run; two
dispatches of one mission are an accepted one and one that is refused for it.
*Missions:* two entries on one pool slot
are needed for a loop's process to be known (the pool announces a task that
starts at once before its entry exists), so that a pause can drop an entry; the
third mission is the queued one.
*Calls:* two coroutines fail to trip the circuit, while two others are late or are
probes.  *Terminals:* two sessions are one and its successor, which is all a
callback of the first can meet; of two browsers one founds and the other joins, or
founds again (a third one, tried for the safety invariants, added nothing: 713,500 states).  *Records:* two tasks and two stores are enough for an id to be
given out twice and for an old store to write over a new one.  *Sandboxes:* two
entries let an instance return under another id; two sockets are an old one and
its successor, whose events overtake each other although each carries one at a time;
two sessions make a wrong count differ from a stale one.  Sandboxes share nothing but the
maps, so one is checked deeply (two of them, one without an instance id, were tried for
the other three invariants: 77,045 states; two events in a socket for the counts: 1.85
million).
Every bound is a constant with a comment "bound" and appears in a guard.

**Deadlock.**  It is checked for the pool (`agent_pool`), the executor registry, the task
store and the sandbox registry.  The loop supervisor may be idle for good after a shutdown,
the processes of the loop registry and the bounded number of terminal sessions all
end, and the Python breaker really does stop: once as many probes as it admits were
cancelled it refuses every call.  Their configurations switch the check off.

**Types and bounds that are proved.**  `TypeOK` of every module, and
`RunningBounded` and `QueueOrdered` of the pool, are theorems for all constants.  Of
these the runs of `DaemonSupervisor`, `ExecutorShim` and `TaskStore` check the types as
well; the others do not repeat what is proved.

**Mutants.**  Each property of a passing run has a mutant in `PROJECT.json`: a
slip in one definition (next to it in the module, marked "Mutant") under which
the run finds the property violated.

## 4. Fairness

* Pool: the timers of the tasks fire (`Timeout`), and a child that was sent SIGKILL
  exits.  The drain check and the grace timers are not needed.  Nothing is assumed of callers, nor of children
  that were sent SIGTERM or nothing: `Settles` rests on the timeout.  Callers may
  go on submitting, and the queue is sorted by priority without regard to age
  (`agent-supervisor.mjs:49`), so a task that later ones of a higher priority overtake
  may wait for ever.  The number of submissions is bounded in the run, and the property
  therefore promises an overtaken task nothing.
* Loop supervisor and shim: no liveness is stated.  A loop that fails more rarely
  than the window remembers is restarted for ever, and a child that ignores
  SIGTERM keeps its entry, so the code promises no end of a loop.
* Loop registry: a process that has not crashed takes its next step; a loop runs
  for a number of iterations only.
* Call breaker: a call of a service ends in some way; nobody has to make a call.
  `PeriodEnds` needs no more, as every outcome but a cancellation ends the period.
* PTY bridge: imports end (of `ws` and of node-pty), the handshake's timer and the eviction timer fire.
  Nothing is assumed of sockets, sandboxes or browsers.  The eviction is weakly
  fair only, and so not owed to a session that is joined again and again.
* The executor registry, the sandbox registry and the task store state no liveness:
  nothing obliges an executor or a sandbox to report or to reconnect, and a record
  left over from a crash is never taken up again (section 6).

## 5. The proofs

TLAPS checks every theorem from the named assumptions on the constants
(`PoolAssumption`, `SupervisorAssumption`, `ShimAssumption`, `StoreAssumption`,
`ExecutorAssumption`, `PtyAssumption`, `RegistryAssumption` of either registry,
`LimitsAssumption` with `CallsFinite`), for all numbers of tasks, loops, stores,
processes, missions, connections, calls, sessions and sandboxes, and all limits and
priorities.  Every invariant and every action property that a passing run checks is
also a theorem, and so are the two refinements.

| Module | Theorem | States |
|---|---|---|
| `AgentSupervisorProofs` | `TrackedAgree`, `WakeupsKept` | the two invariants of `agent_pool` |
| | `TypeCorrect`, `PoolBounded`, `QueueSorted` | `TypeOK`; the limit and the order of the queue as invariants |
| | `SettledRecordsAreFinal` | the action property `SettledIsFinal` |
| | `PoolRefined` | `ImplementsPool`: the pool implements `TaskPool` |
| `LoopRegistryProofs` | `TypeCorrect`, `LockExcludes`, `SavedWithinLimit`, `NoRegistrationLost` | `TypeOK` and the three invariants of the registry runs that hold; the last under its conditions (a registry file, lasting leases) |
| `SupervisorProofs` | `SupervisorInvariant` | the inductive invariant of `DaemonSupervisor` |
| | `SupervisorTypes`, `NoSlotLeaks`, `QueueNeverIdles`, `BreakerTrips` | the invariants of `daemon_supervisor`: `TypeOK`, `EntriesPending`, `ClosedNeverIdles`, `ClosedBelowThreshold` |
| | `OpenCircuitHolds`, `GivenUpStays` | its action properties `OpenStartsNoLoop` and `GivenUpForGood` |
| | `SupervisorBounds` | `LoopsBounded` for the supervisor by itself |
| | `MissionInvariant` | the inductive invariant of `ExecutorShim` |
| | `ReportsReachMissions`, `AcceptedMissionsWait`, `NoSecondAgent`, `MissionBounds` | the invariants of `executor_shim`: `LoopsReport`, `AssignedIsQueued`, `OneAgentPerMission`, `LoopsBounded` |
| | `EndsAreFinal` | its action property `EndedStaysEnded` |
| `TaskStoreProofs` | `StoreInvariant` | the inductive invariant of `TaskStore` |
| | `StoreTypes`, `FileFollowsMemory`, `UpdatesNeverThrow` | the invariants of `task_store` |
| | `LedgerRefined` | `LedgerKept`: the records implement `TaskLedger` |
| `ExecutorRegistryProofs` | `TypeCorrect`, `EndedUncounted`, `HandleCurrent` | `TypeOK` and the two invariants of `executor_registry` |
| `CallBreakerProofs` | `TypeCorrect`, `ClosedIffBelow`, `ProbesCounted` | `TypeOK` and the two invariants of `call_breaker` |
| `PtyBridgeProofs` | `TypeCorrect`, `SessionsAlive`, `FailuresForgotten`, `LingerersLost` | `TypeOK` and the three state invariants of `pty_bridge` |
| `SandboxRegistryProofs` | `TypeCorrect`, `OneEntry`, `ConnectedOpen`, `CountsExact`, `QuestionsStay` | `TypeOK` and the four invariants of `sandbox_registry` |

**The pool.**  `IInv` is the conjunction of `Consistent`, `Sorted`, `FreshIds`
and `NoLostWakeup` with the types of the rest.  `Consistent` is more than
`TrackedMatchesStore`: it adds that a child exists only for a record running or
failed, without which the exit of a child that lost its slot could revise any
record, and it takes its state as arguments, for the values a callback holds
before it calls `_processQueue`.  The argument is in two parts: `ProcessQueue`
keeps a consistent pool consistent, fills it and empties the queue's head in
order; and each callback hands it a consistent one.  The refinement maps every
callback to Admit, Finish, Drop or a stutter; its core is that the tasks
`_processQueue` starts are the first of a sorted queue.

**The loop registry.**  The lock excludes because, as long as nobody has ended
and no lease has run out, a lock file names its owner and is judged alive
(`OwnerNamed`); a probe can then only find the owner alive.  `SavedWithinLimit`
needs that every list anywhere is bounded: in the registry, in the temporary
file, and in the hands of every process between load and save
(`ListsBounded`).  `NoRegistrationLost` needs that while processes only
register, each has its own loop listed from its rename on and nobody writes a
list that was read before it (`ListedStep`).

**The loop supervisor.**  `IInv` says of the whole state what `Good` says of a record
of it, and that no queue idles.  `Good` is what holds between two calls of a callback:
a task of the pool waits once or has a child, an entry names a task of the pool that is
its loop's, a loop that has an entry or was given up is not queued, and the breaker is
closed below its threshold only.  None of the checked invariants is inductive without
this: `EntriesPending`, for instance, needs that the entries of two loops never name one
task, which the end of the task would take from both.  Nor is it enough.  A task gets its name from `FreeTask`, and that one is free must be
proved: so `IInv` bounds the tasks that no entry names (`Room`).  Then each operator of a
callback has a lemma that says that it keeps `Good` and what it may change (`Continues`),
and each action one that chains them.

The loop of `_processQueue` is the recursive function `DrainQueue`.  Its lemma is by
the number of rounds left, the length of the queue.  The induction theorems take an operator and cannot be
used; `SetInduction` is induction for a set of naturals, from the fact that one which is not
empty has a least element; `RoundsExist` gives the function that the recursion defines, and
`DrainQueueKeeps` is then a statement about every round.

**The shim.**  An action of the shim is one of the supervisor with what the listeners do
about it, and `Moves` describes the former as the latter sees it: which loops left the
queue, what the entries would be without these, and which tasks stay.  Each action of the supervisor
moves in this sense.  `Tells` adds what the shim says of the missions, and one lemma
(`HearsKeeps`) shows `MissionInv` from that; a second one (`HearsEnded`) shows `EndedStaysEnded`.
`MissionInv` adds to the invariants that a mission's loop has one task at most, and none before it
starts: this is why an agent whose entry was dropped has no successor, as every way to
a second task leads through an entry.

**The task records.**  Ids are consecutive in every store, where the counter is their
number, and in the file; so `NextId` of what a start finds is again that number, and
the next id was never in use.  `LedgerKept` needs besides that the file is an earlier state of
each record (`FileIsEarlier`), which a failing write leaves true and only a replaced
store can break; steps forward add up (`EarlierForward`), so what a reload or a crash brings
back is a state the record had, or nothing if the file is torn.  As long as the last write
did not fail the file is what memory has, so that nothing falls back then.  That a pool finds its records needs that a store not yet made has no pool.

**The executor registry.**  The three invariants are inductive together
(`IInv`): the handle is set in the step that accepts a connection and cleared by
any close, and only an event, an answer and a failed forward change a record and
the count together: an answer makes the record assigned, whatever another dispatch of
the mission has made of it before.

**The call breaker.**  The three invariants are inductive together.
`ProbesAccounted` is an argument about a set: one more probe or one less changes
the cardinality of `Probes` by one (lemmas from `FiniteSetTheorems`, hence
`CallsFinite`), and every outcome but a cancellation leaves the half-open state
(by `ClosedBelowThreshold`: a failure there is one at the threshold).

**The PTY bridge.**  The invariants need `Placed`: a browser is listed only once it
has connected, and never in a session other than the one it founded, if it founded
one.  Every way in which a spawn fails goes through one lemma (`FailedSpawn`),
since after a deletion nothing is registered, and every way in which a bridge is given
up through a second one (`GivenUp`): the session then has a local shell coming.

**The sandbox registry.**  `OneEntryPerInstance` and `ConnectedHasSocket` need that the
index has no entry for a sandbox without an instance id, and that what is not open has
nothing unread.  `CountExact` is an argument about what is on its way: for an entry that
has not drifted, one socket at most has unread events; the last of them carries the
number of sessions there are; and reading all of them in order leads from the entry's
count to that number (each event fits the one before, or announces an agent).  A new event extends
this at the end, reading one takes it off at the front, and whatever breaks it is a cause
of drift.  `QuestionsKept` holds because every step that takes a question out of the queue records its
reason in `left`, and no question is taken twice.  Removal is done
for any set of ids at once, as `ClearOffline` needs it.

**Only model-checked.**  Liveness (`WatchedSettle`, `OnlyUnwrittenLockBlocks`,
`PeriodEnds`, `SpawnSettles`, `UnusedIsEvicted`), which is out of the prover's reach.
Every inductive invariant was checked by TLC on the instance of its run before it was proved.

## 6. Where code and documentation part

Shown by a run ("findings" in `PROJECT.json`):

* `daemon_graceful`: a child that fails while the pool is shutting down makes the
  restart throw out of an event handler (`daemon-supervisor.mjs:226`), and the
  process goes down in its graceful shutdown.
* `pty_torn_down`: `kill()` closes the socket of a bridge and leaves no mark for the
  close handler, which takes `session.exited` to mean "already torn down
  intentionally" (`pty-bridge.ts:589`); nothing clears the retry timer.  The bridge
  of a deleted session connects again and starts a shell nobody sees.

Met while modelling, and not the subject of a run:

* A lock is judged by what was read and removed by name
  (`external-multi-loop-state-manager.mjs:216`): when its owner ends in between, a
  third process's lock is removed and two processes are in the registry.
  `ExcludesUntilExit` says how far the lock excludes.
* `updateLoop()` saves without the lock (`:420`) and drops a loop that registered in
  between.
* A process that finds no registry saves the empty one without the lock, through the
  shared temporary file (`external-multi-loop-state-manager.mjs:152`), and may drop or
  tear what another has just registered, although
  `agentic/code/addons/agent-loop/schemas/multi-loop-registry.yaml:5` says that the registry
  tracks all active loops.  `RegistrationsKept` therefore asks for a registry that exists.
* Two dispatches of one mission may overlap (`serve.ts:745`): the second is refused by the
  executor, and the refusal records the mission failed though it runs.
* A `spawn()` that throws leaves a task queued for ever in its record and in no queue
  (`agent-supervisor.mjs:199`); in an event handler it ends the daemon.
* A registration that succeeded is taken for a failed one when the registry cannot be
  parsed right after it (`external-multi-loop-state-manager.mjs:540`): the loop runs
  unregistered, as its process believes, and its entry is never removed.
* A local shell that starts for a session which was deleted meanwhile (`pty-bridge.ts:294`)
  is reached and ended by nobody.
* An event that was on its way overwrites a terminal record (`executor-registry.ts:500`
  and the cases after it), for instance one that an operator has aborted, although `:161`
  says that a terminal mission will not change again.
* A bridge that was given up for a local shell keeps its socket and its callbacks
  (`pty-bridge.ts:274`), and sets `session.exited`, "Whether the PTY process has exited"
  (`:81`), while the shell runs; the next eviction then kills it.
* A mission is recorded after the executor's answer (`serve.ts:818`): events that
  arrive earlier are dropped, and the record stays behind.
* The Python breaker is closed by any late success, also one of a call from before it
  opened, without a probe (`breaker.py:54`).  When as many probes as it admits are
  cancelled it refuses every call from then on, for nothing resets the count within a half-open
  period (`:45`).
* A founding browser that closes before its spawn is over stays listed
  (`pty-bridge.ts:870`), and its session is not evicted until it exits.
* A failed spawn deletes the session that has the id by then, whichever it is
  (`pty-bridge.ts:817`); a `session_killed` of another session of the agent ends this
  one (`:571` compares the agent only).
* After a restart, records that were queued or running are loaded as they are and
  never taken up again (`task-store.mjs:35`); a torn file is discarded with all its
  records (`:45`), and ids start from zero.
* A reload by SIGHUP leaves the old pool at work and its store writing
  (`daemon-main.mjs:180`): it overwrites what the new one saved, and shutdown drains
  the new pool only.
* The close of an old socket marks a connected sandbox disconnected
  (`serve.ts:132`); "clear offline" then removes it, and its events are dropped.
* A question may be announced as timed out and as responded to, when the answer is
  acknowledged after the expiry (`serve.ts:1410`); when an acknowledgement is lost the
  question stays pending.  `QuestionsKept` excludes neither.  A dismissal is announced to
  nobody (`serve.ts:1428`), and a restart of the server loses every question, as the queue
  is in memory only; `QuestionsKept` names both as ways out of the queue.
* An agent that is announced again while it has sessions, as connected or as
  provisioning, is counted without them (`sandbox-registry.ts:865`, `:883`).
* A session that ends sets its agent ready though others go on
  (`sandbox-registry.ts:911`).
* A loop id submitted twice overwrites the entry of the first
  (`daemon-supervisor.mjs:241`); the model keeps the documented precondition that ids
  are unique.
* The end of the cooldown starts nothing
  (`consecutive-failure-circuit-breaker.mjs:171`): with no other event the loops
  queued meanwhile wait for ever.  `ClosedNeverIdles` speaks of the closed circuit.
* An abort marks a mission aborted before its child has ended; a child that ends
  by itself after SIGTERM is reported done, or restarted and running again
  (`executor-shim.mjs:518`, `:495`), although
  `test/conformance/executor-v1/lifecycle/lifecycle.test.mjs:7` has terminal
  states "emitted at most once".  `EndedStaysEnded` names this exception.
* An answer revives a mission that ended while its question was open
  (`executor-shim.mjs:338`).
* A pause or resume of a mission whose process is known drops the entry of its
  loop (`executor-shim.mjs:368`, `daemon-supervisor.mjs:371`): the agent is not
  stopped, and its end is reported to nobody.  A paused mission that is still
  queued starts all the same (`executor-shim.mjs:495`).
* A child ended by a signal, after a timeout or a kill, is `task:cancelled`, which
  the loop supervisor reports to nobody (`daemon-supervisor.mjs:293`): its mission
  stays running for ever.
* A mission refused by the supervisor was already announced as assigned
  (`executor-shim.mjs:286`).

* A restart bypasses the breaker that the same failure opened
  (`daemon-supervisor.mjs:282`; `docs/daemon-guide.md:445` says an open circuit
  blocks new spawns).  `OpenStartsNoLoop` states what does hold: only a loop that
  has an entry may get a task.
* The probes of the half-open circuit are not counted
  (`consecutive-failure-circuit-breaker.mjs:62`).
* The entry of a loop has no pid when the pool starts its task at once, for
  `task:started` is emitted before the entry exists (`daemon-supervisor.mjs:241`).
* ESRCH for a process group frees an entry whose child is still to report
  (`:372`), so for a time more sessions than the limit may be alive.
* The failure being handled counts as a restart, one less than documented (`:329`).
* A timed-out child may be alive while its slot is used again
  (`agent-supervisor.mjs:240`).
* `acquireLock()` does not give up on a lock it cannot read
  (`external-multi-loop-state-manager.mjs:227`); `releaseLock()` may remove the
  lock of the next owner after a lease ran out (`:249`); the shared temporary
  name makes a save not atomic (`:173`); a refused registration does not stop the
  loop (`orchestrator.mjs:230`).
* The close of a replaced socket clears the handle of the new one
  (`serve.ts:167`): `HandleIsCurrent` holds, but the handle may be missing while
  the executor is connected.
* An operator's abort leaves the mission in `currentMissions`
  (`executor-registry.ts:728`), which is why `EndedNotCounted` speaks of done and
  failed only; `test/conformance/executor-v1/lifecycle/lifecycle.test.mjs:10`
  says the count decrements when a terminal state is reached.
* A resync sets a paused mission running and settles none the executor has lost
  (`executor-registry.ts:487`).
* A repeated dispatch is refused by an executor that has the mission, and the
  refusal records the running mission failed (`serve.ts:795`).

## 7. What is not modelled

* In modelled components.  Pool: output capture, statistics.  Loop supervisor: the
  budget gate (`recordCost` has no caller outside tests), status queries.  Failure
  breaker: `reset()` (no caller) and `_activeProbes` (never incremented).  Loop
  registry: per-loop directories and state files, the legacy symlink, the counters,
  `updateLoopPid()` and `migrateLegacyState()` (no caller), the reuse of pids.
  Executor registry: the choice among several executors, HITL answers and other
  pushes (no state of the server changes), `mission.progress`, `recentEvents`,
  telemetry.  Executor shim: registration, the sockets, `shutdown()`.  Task store:
  `cleanup()` (no caller), appended output.  PTY bridge: terminal data and its
  replay, the deprecated REST sessions, `shutdown()`.  Sandbox registry:
  the agent's status, names, aliases and the identity store, metrics, inventories, the requests forwarded to a sandbox.
* Automation and autonomous engines, cron: state of one event loop without a second
  actor.  The daemon gives the automation engine no approval handler, so the await
  between the check of a cool-down and its use is never reached; the autonomous
  engine's proposals are never filled.  What they submit is among the submissions of
  `AgentSupervisor` and `DaemonSupervisor`.
* In-session loop registry and plugin registry manager: files behind a lock, as
  `LoopRegistry` has them with a stricter lock.  Both remove a lock they cannot read
  (`tools/ralph/registry.mjs:143`), which is the mutant `InspectRemovesUnwritten` of
  `LoopRegistry`.
* External orchestrator: its use of the registry is the life of a process of
  `LoopRegistry`; the iterations, recovery and checkpoints of one loop are sequential
  and their state is the loop's own.
* Messaging hub: handlers of one event loop, whose rooms and chat sessions do not meet.
* The MCP broker, the loop heuristics, the command line, the installers, the front
  ends and the documents, which are most of the repository's lines, keep no state
  between actors that a state machine would say something about.

## 8. Plan

Done, in this order: (1) `AgentSupervisor` with `TaskPool` and proofs,
(2) `FailureBreaker`, (3) `DaemonSupervisor`, (4) `LoopRegistry` with proofs,
(5) `ExecutorRegistry` with proofs, (6) `ExecutorShim` above `DaemonSupervisor`,
(7) `CallBreaker` with proofs, (8) `PtyBridge` with proofs, (9) `TaskStore` with
`TaskLedger`, (10) `SandboxRegistry` with proofs, (11) the proofs about
`DaemonSupervisor` and `ExecutorShim`, and about `TaskStore`.

Next: the in-session registry as a variant of `LoopRegistry`; the shim's own
shutdown, with the dispatches it accepts while it deregisters (with it the instance
of `executor_shim` is too large for a run); `PtyBridge` with the sandbox's sessions
below it.  Abstract specifications worth stating: a session limit for the loop
supervisor over the pool, and a mission's life as clients see it, implemented by
server and executor together.

Proofs to come: an abstract loop supervisor, with its limit and its order, and
`DaemonSupervisor` as its implementation.

## 9. Running it

    tlc -workers 2 -config MCAgentSupervisor.cfg MCAgentSupervisor
    tlapm AgentSupervisorProofs.tla

and likewise for the other configurations and proof modules; `PROJECT.json`
("runs") pairs each configuration with its module.  The longest runs take about two
minutes.
