------------------------------ MODULE TaskStore ------------------------------
(***************************************************************************)
(* The task records of the daemon over its whole life: the TaskStore, its  *)
(* file, and the starts, crashes, shutdowns and reloads of daemon-main.    *)
(*                                                                         *)
(* Every change of a record rewrites the whole file in place; a start      *)
(* loads it.  reloadConfig() (SIGHUP) makes a second store on the same     *)
(* file, with a pool of its own, and stops neither the first store nor its *)
(* pool: from then on two maps are written to one file.                    *)
(*                                                                         *)
(* Of a pool the model keeps the tasks that it may still report of;        *)
(* AgentSupervisor says how it runs them.  A start stands for an operator  *)
(* who, after a crash, has removed the lock file as well.                  *)
(***************************************************************************)
EXTENDS Integers

CONSTANTS
  MaxTasks,   \* bound: ids given out
  MaxStores   \* bound: stores of one daemon process, one more than reloads

ASSUME StoreAssumption == MaxTasks \in Nat /\ MaxStores \in Nat \ {0}

Ids == 0 .. MaxTasks - 1
Stores == 1 .. MaxStores

VARIABLES
  current,  \* the store that the daemon uses now, 0 while none runs
  tasks,    \* TaskStore.tasks of each store: the state of every id
  counter,  \* TaskStore.taskIdCounter of each store
  pool,     \* the tasks that the pool of each store may still report of
  file,     \* tasks.json, if it can be parsed
  torn,     \* it cannot
  behind,   \* history: the last write failed, or the last load did
  mixed     \* history: a store has written after it was replaced

vars == <<current, tasks, counter, pool, file, torn, behind, mixed>>

States == {"none", "queued", "running", "failed", "over"}

NoTasks == [t \in Ids |-> "none"]

(* What initialize() makes of the file: the records, or none at all. *)
Loaded == IF torn THEN NoTasks ELSE file

(* Mutant of NextId: the highest id is given out again. *)
HighestId(r) ==
  CHOOSE n \in 0 .. MaxTasks :
    \/ n = 0 /\ \A t \in Ids : t > 0 => r[t] = "none"
    \/ n \in Ids /\ n > 0 /\ r[n] # "none" /\ \A t \in Ids : t > n => r[t] = "none"

(* One more than the highest id in use. *)
NextId(r) ==
  CHOOSE n \in 0 .. MaxTasks :
    /\ \A t \in Ids : t >= n => r[t] = "none"
    /\ n > 0 => r[n - 1] # "none"

(* What the readers of the records see. *)
View == IF current = 0 THEN Loaded ELSE tasks[current]

Ledger == INSTANCE TaskLedger WITH
  ledger <- View,
  saved <- current = 0 \/ ~behind,
  unreadable <- torn

Init ==
  /\ current = 0
  /\ tasks = [s \in Stores |-> NoTasks]
  /\ counter = [s \in Stores |-> 0]
  /\ pool = [s \in Stores |-> {}]
  /\ file = NoTasks
  /\ torn = FALSE
  /\ behind = FALSE
  /\ mixed = FALSE

-----------------------------------------------------------------------------
(* _persist() of store s with the records r.  An error is logged and       *)
(* forgotten; it leaves the old content or, once the file is truncated, a  *)
(* part of the new one.                                                    *)
Persist(s, r) ==
  /\ \/ file' = r /\ torn' = FALSE /\ behind' = FALSE
     \/ UNCHANGED <<file, torn>> /\ behind' = TRUE
     \/ UNCHANGED file /\ torn' = TRUE /\ behind' = TRUE
  /\ mixed' = (mixed \/ s # current)

(* Store s gets the records r and its pool the tasks p. *)
Change(s, r, p) ==
  /\ tasks' = [tasks EXCEPT ![s] = r]
  /\ pool' = [pool EXCEPT ![s] = p]

(* Mutant of Save: the change is kept in memory. *)
SaveNothing(s, r, p) ==
  /\ Change(s, r, p)
  /\ UNCHANGED <<file, torn, behind, mixed>>

Save(s, r, p) == Change(s, r, p) /\ Persist(s, r)

(* Mutant of Submit: the counter is incremented twice. *)
SubmitCountsTwice(s) ==
  /\ s <= current
  /\ counter[s] < MaxTasks
  /\ LET t == counter[s]
     IN  /\ counter' = [counter EXCEPT ![s] = t + 2]
         /\ Save(s, [tasks[s] EXCEPT ![t] = "queued"], pool[s] \cup {t})
  /\ UNCHANGED current

(* createTask() for a caller of the pool of store s: whoever was made      *)
(* before a reload goes on to submit to the pool it was given.  A loop     *)
(* that failed is reported and submitted again to its own pool.            *)
Submit(s) ==
  /\ s <= current
  /\ counter[s] < MaxTasks
  /\ LET t == counter[s]
     IN  /\ counter' = [counter EXCEPT ![s] = t + 1]
         /\ Save(s, [tasks[s] EXCEPT ![t] = "queued"], pool[s] \cup {t})
  /\ UNCHANGED current

(* updateTask() for the pool of store s.  Only a task failed by a timer or *)
(* a kill may be reported of again, as failed again too.                   *)
Report(s, t, state) ==
  /\ t \in pool[s]
  /\ <<tasks[s][t], state>> \in Ledger!Forward \cup {<<"failed", "failed">>}
  /\ \E rest \in {pool[s], pool[s] \ {t}} :
       /\ state = "running" => t \in rest
       /\ state = "over" => t \notin rest
       /\ Save(s, [tasks[s] EXCEPT ![t] = state], rest)
  /\ UNCHANGED <<current, counter>>

(* The pool has no more to say of a failed task whose child was killed, or *)
(* of a queued one that could not be spawned; its record stays.            *)
Drop(s, t) ==
  /\ t \in pool[s]
  /\ tasks[s][t] \in {"failed", "queued"}
  /\ pool' = [pool EXCEPT ![s] = @ \ {t}]
  /\ UNCHANGED <<current, tasks, counter, file, torn, behind, mixed>>

-----------------------------------------------------------------------------
(* Store s is made and initialized from the file. *)
Open(s) ==
  /\ current' = s
  /\ tasks' = [tasks EXCEPT ![s] = Loaded]
  /\ counter' = [counter EXCEPT ![s] = NextId(Loaded)]
  /\ behind' = torn
  /\ UNCHANGED <<pool, file, torn>>

Start ==
  /\ current = 0
  /\ Open(1)
  /\ mixed' = FALSE

(* Mutant of Reload: the store is initialized anew. *)
ReloadSameStore ==
  /\ current \in 1 .. MaxStores - 1
  /\ Open(current)
  /\ UNCHANGED mixed

(* reloadConfig(): stopSubsystems() does not know of stores and pools. *)
Reload ==
  /\ current \in 1 .. MaxStores - 1
  /\ Open(current + 1)
  /\ UNCHANGED mixed

(* The process is gone, with its stores and pools. *)
Gone ==
  /\ current # 0
  /\ current' = 0
  /\ tasks' = [s \in Stores |-> NoTasks]
  /\ counter' = [s \in Stores |-> 0]
  /\ pool' = [s \in Stores |-> {}]
  /\ behind' = FALSE
  /\ UNCHANGED <<file, mixed>>

(* At any point, be it in the middle of a write. *)
Crash == Gone /\ torn' \in {torn, TRUE}

(* shutdown() has drained the pool it knows. *)
Shutdown ==
  /\ Gone
  /\ \A t \in pool[current] : tasks[current][t] = "failed"
  /\ UNCHANGED torn

Next ==
  \/ \E s \in Stores : Submit(s)
  \/ \E s \in Stores, t \in Ids :
       \/ \E state \in {"running", "failed", "over"} : Report(s, t, state)
       \/ Drop(s, t)
  \/ Start \/ Reload \/ Crash \/ Shutdown

Spec == Init /\ [][Next]_vars

-----------------------------------------------------------------------------
TypeOK ==
  /\ current \in 0 .. MaxStores
  /\ tasks \in [Stores -> [Ids -> States]]
  /\ counter \in [Stores -> 0 .. MaxTasks]
  /\ pool \in [Stores -> SUBSET Ids]
  /\ file \in [Ids -> States]
  /\ torn \in BOOLEAN /\ behind \in BOOLEAN /\ mixed \in BOOLEAN

(* Through starts, crashes and failing writes the records keep the promise *)
(* of TaskLedger, as long as no store writes after it was replaced: they   *)
(* are all lost at once, and only when a crash or an error in the middle   *)
(* of a write tears the file; otherwise no record moves back, or is gone,  *)
(* unless the last write had failed; and an id is given out again only     *)
(* when its record is gone in one of these ways. (_persist, initialize)    *)
LedgerKept == [][mixed \/ Ledger!Next]_View

(* The file is what the daemon's store has in memory, unless the last      *)
(* write or load failed, or an earlier store still writes.                 *)
FileKeepsUp ==
  current # 0 /\ ~behind /\ ~mixed => ~torn /\ file = tasks[current]

(* A pool finds the record of every task it reports of: updateTask() never *)
(* throws into an event handler of the pool.                               *)
ReportsFindRecords ==
  \A s \in Stores : \A t \in pool[s] : tasks[s][t] # "none"

=============================================================================
