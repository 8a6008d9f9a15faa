--------------------------- MODULE TaskStoreProofs ---------------------------
(***************************************************************************)
(* Theorems about the task records over the life of the daemon             *)
(* (TaskStore): its type invariant, that the file keeps up with memory,    *)
(* that no pool reports of a record its store does not have, and that the  *)
(* records implement TaskLedger.                                           *)
(*                                                                         *)
(* None of the three invariants is inductive with the type invariant       *)
(* alone.  What they rest on: ids are consecutive in every store, where    *)
(* the counter says how many there are, and in the file, so that a start   *)
(* finds the counter again; a store that is not yet made has no pool; and  *)
(* the file never says of a task what the task had not been before, until  *)
(* a replaced store writes it.                                             *)
(***************************************************************************)
EXTENDS TaskStore, TLAPS

(* The records r are those of the ids below n. *)
UpTo(r, n) == \A t \in Ids : r[t] = "none" <=> t >= n

(* The records old were those that are now r. *)
Earlier(old, r) ==
  \A t \in Ids : old[t] = r[t] \/ <<old[t], r[t]>> \in Ledger!Later

(* Every id below the counter of a store has a record, and no other. *)
IdsConsecutive ==
  /\ \A s \in Stores : UpTo(tasks[s], counter[s])
  /\ \E n \in 0 .. MaxTasks : UpTo(file, n)

(* Only the stores made so far have tasks to report of, and these have a   *)
(* record.                                                                 *)
PoolsOfStores ==
  \A s \in Stores : \A t \in pool[s] : s <= current /\ tasks[s][t] # "none"

(* The file is an earlier state of the records of the daemon's store. *)
FileIsEarlier ==
  current # 0 /\ ~torn /\ ~mixed => Earlier(file, tasks[current])

StoreInv ==
  TypeOK /\ IdsConsecutive /\ PoolsOfStores /\ FileIsEarlier /\ FileKeepsUp

-----------------------------------------------------------------------------
(* What a start makes of consecutive ids: NextId is the number of records, *)
(* so that the id it gives out next was never in use.                      *)
LEMMA NextIdCounts ==
  ASSUME StoreAssumption, NEW r \in [Ids -> States],
         NEW n \in 0 .. MaxTasks, UpTo(r, n)
  PROVE  NextId(r) = n
<1> DEFINE Right(k) == /\ \A t \in Ids : t >= k => r[t] = "none"
                       /\ k > 0 => r[k - 1] # "none"
<1>1. Right(n)
  BY DEF StoreAssumption, UpTo, Ids
<1>2. \A k \in 0 .. MaxTasks : Right(k) => k = n
  <2> SUFFICES ASSUME NEW k \in 0 .. MaxTasks, Right(k) PROVE k = n
    OBVIOUS
  <2>1. ASSUME k > n PROVE FALSE
    <3>1. k - 1 \in Ids /\ k - 1 >= n /\ k > 0
      BY <2>1 DEF StoreAssumption, Ids
    <3> QED  BY <3>1 DEF UpTo
  <2>2. ASSUME k < n PROVE FALSE
    <3>1. k \in Ids /\ k >= k /\ ~(k >= n)
      BY <2>2 DEF StoreAssumption, Ids
    <3> QED  BY <3>1 DEF UpTo
  <2> QED  BY <2>1, <2>2 DEF StoreAssumption
<1> HIDE DEF Right
<1>3. NextId(r) = CHOOSE k \in 0 .. MaxTasks : Right(k)
  BY DEF NextId, Right
<1> QED  BY <1>1, <1>2, <1>3

(* No records at all are the records of no ids. *)
LEMMA NoTasksUpTo ==
  ASSUME StoreAssumption
  PROVE  NoTasks \in [Ids -> States] /\ 0 \in 0 .. MaxTasks /\ UpTo(NoTasks, 0)
<1>1. NoTasks \in [Ids -> States]
  BY DEF NoTasks, States
<1>2. UpTo(NoTasks, 0)
  BY DEF NoTasks, UpTo, Ids
<1> QED  BY <1>1, <1>2 DEF StoreAssumption

(* What a start loads: records and a counter that agree with each other. *)
LEMMA LoadedConsecutive ==
  ASSUME StoreAssumption, TypeOK, IdsConsecutive
  PROVE  /\ Loaded \in [Ids -> States]
         /\ NextId(Loaded) \in 0 .. MaxTasks
         /\ UpTo(Loaded, NextId(Loaded))
<1>1. Loaded \in [Ids -> States]
  BY NoTasksUpTo DEF TypeOK, Loaded
<1>2. PICK n \in 0 .. MaxTasks : UpTo(Loaded, n)
  <2>1. CASE torn
    BY <2>1, NoTasksUpTo DEF Loaded
  <2>2. CASE ~torn
    BY <2>2 DEF Loaded, IdsConsecutive
  <2> QED  BY <2>1, <2>2
<1> QED  BY <1>1, <1>2, NextIdCounts

(* A record that has a state is one of a task whose id is below n; the id  *)
(* n is the next to be given out.                                          *)
LEMMA UpToNext ==
  ASSUME StoreAssumption, NEW n \in 0 .. MaxTasks, n < MaxTasks,
         NEW r \in [Ids -> States], UpTo(r, n)
  PROVE  /\ n \in Ids /\ n + 1 \in 0 .. MaxTasks
         /\ r[n] = "none"
         /\ UpTo([r EXCEPT ![n] = "queued"], n + 1)
  BY DEF StoreAssumption, UpTo, Ids

(* A change of the state of a record that exists gives out no id. *)
LEMMA UpToKept ==
  ASSUME NEW n \in 0 .. MaxTasks, NEW r \in [Ids -> States], UpTo(r, n),
         NEW t \in Ids, r[t] # "none", NEW state, state # "none"
  PROVE  UpTo([r EXCEPT ![t] = state], n)
  BY DEF UpTo

(* Steps forward add up: what was earlier than r is earlier than what r    *)
(* becomes.                                                                *)
LEMMA EarlierForward ==
  ASSUME NEW old \in [Ids -> States], NEW r \in [Ids -> States],
         Earlier(old, r), NEW t \in Ids, NEW state \in States,
         <<r[t], state>> \in Ledger!Forward
  PROVE  Earlier(old, [r EXCEPT ![t] = state])
<1> DEFINE new == [r EXCEPT ![t] = state]
<1>1. \A u \in Ids : u # t => new[u] = r[u]
  OBVIOUS
<1>2. new[t] = state
  OBVIOUS
<1>3. old[t] = r[t] \/ <<old[t], r[t]>> \in Ledger!Later
  BY DEF Earlier
<1>4. <<old[t], state>> \in Ledger!Later
  BY <1>3 DEF Ledger!Later, Ledger!Forward, States
<1> QED  BY <1>1, <1>2, <1>4 DEF Earlier

(* So does the entry of a new record. *)
LEMMA EarlierEntered ==
  ASSUME NEW old \in [Ids -> States], NEW r \in [Ids -> States],
         Earlier(old, r), NEW t \in Ids, r[t] = "none"
  PROVE  Earlier(old, [r EXCEPT ![t] = "queued"])
<1>1. old[t] = "none"
  BY DEF Earlier, Ledger!Later, Ledger!Forward
<1>2. <<"none", "queued">> \in Ledger!Later
  BY DEF Ledger!Later
<1> QED  BY <1>1, <1>2 DEF Earlier

-----------------------------------------------------------------------------
(* The initial state: no records, no stores. *)
LEMMA StoreInit ==
  ASSUME StoreAssumption, Init
  PROVE  StoreInv
<1>1. TypeOK
  <2>1. {} \in SUBSET Ids /\ 0 \in 0 .. MaxStores
    BY DEF StoreAssumption
  <2> QED  BY <2>1, NoTasksUpTo DEF Init, TypeOK
<1>2. IdsConsecutive
  BY NoTasksUpTo DEF Init, IdsConsecutive
<1> QED  BY <1>1, <1>2
  DEF Init, StoreInv, PoolsOfStores, FileIsEarlier, FileKeepsUp

(* A saved change of a store that was made, to records that are those of   *)
(* the ids given out and that are later than they were, of all of which    *)
(* the pool's tasks have one.                                              *)
LEMMA SaveKeeps ==
  ASSUME StoreAssumption, StoreInv,
         NEW s \in Stores, s <= current, UNCHANGED current,
         NEW r \in [Ids -> States], NEW p \in SUBSET Ids, Save(s, r, p),
         NEW n \in 0 .. MaxTasks, counter' = [counter EXCEPT ![s] = n],
         UpTo(r, n), \A t \in p : r[t] # "none",
         \A old \in [Ids -> States] : Earlier(old, tasks[s]) => Earlier(old, r)
  PROVE  StoreInv'
<1> USE DEF StoreInv
<1>1. /\ tasks' = [tasks EXCEPT ![s] = r]
      /\ pool' = [pool EXCEPT ![s] = p]
  BY DEF Save, Change
<1>2. /\ \/ file' = r /\ torn' = FALSE /\ behind' = FALSE
         \/ file' = file /\ torn' = torn /\ behind' = TRUE
         \/ file' = file /\ torn' = TRUE /\ behind' = TRUE
      /\ mixed' = (mixed \/ s # current)
  BY DEF Save, Persist
<1>3. TypeOK'
  BY <1>1, <1>2 DEF TypeOK
<1>4. IdsConsecutive'
  <2>1. \A u \in Stores : UpTo(tasks'[u], counter'[u])
    BY <1>1 DEF TypeOK, IdsConsecutive
  <2>2. \E k \in 0 .. MaxTasks : UpTo(file', k)
    BY <1>2 DEF IdsConsecutive
  <2> QED  BY <2>1, <2>2 DEF IdsConsecutive, UpTo
<1>5. PoolsOfStores'
  BY <1>1 DEF TypeOK, PoolsOfStores
<1>6. ASSUME current' # 0, ~torn', ~mixed'
      PROVE  Earlier(file', tasks'[current'])
  <2>1. s = current /\ ~mixed
    BY <1>2, <1>6
  <2>2. tasks'[current'] = r
    BY <1>1, <2>1 DEF TypeOK
  <2>3. CASE file' = r
    BY <2>2, <2>3 DEF Earlier
  <2>4. CASE file' = file /\ torn' = torn
    <3>1. Earlier(file, tasks[s])
      BY <1>6, <2>1, <2>4 DEF FileIsEarlier
    <3>2. Earlier(file, r)
      BY <3>1 DEF TypeOK
    <3> QED  BY <2>2, <2>4, <3>2
  <2> QED  BY <1>2, <1>6, <2>3, <2>4
<1>7. FileIsEarlier'
  BY <1>6 DEF FileIsEarlier, Earlier
<1>8. FileKeepsUp'
  BY <1>1, <1>2 DEF TypeOK, FileKeepsUp
<1> QED  BY <1>3, <1>4, <1>5, <1>7, <1>8

(* A store that has no pool yet is made and initialized from the file. *)
LEMMA OpenKeeps ==
  ASSUME StoreAssumption, StoreInv,
         NEW s \in Stores, s = current + 1, Open(s), mixed' \in BOOLEAN
  PROVE  StoreInv'
<1> USE DEF StoreInv
<1>1. /\ Loaded \in [Ids -> States]
      /\ NextId(Loaded) \in 0 .. MaxTasks
      /\ UpTo(Loaded, NextId(Loaded))
  BY LoadedConsecutive
<1>2. /\ current' = s
      /\ tasks' = [tasks EXCEPT ![s] = Loaded]
      /\ counter' = [counter EXCEPT ![s] = NextId(Loaded)]
      /\ behind' = torn
      /\ pool' = pool /\ file' = file /\ torn' = torn
  BY DEF Open
<1>4. TypeOK'
  BY <1>1, <1>2 DEF TypeOK, Stores, StoreAssumption
<1>5. tasks'[current'] = Loaded
  BY <1>2 DEF TypeOK
<1>6. IdsConsecutive'
  <2>1. \A u \in Stores : UpTo(tasks'[u], counter'[u])
    BY <1>1, <1>2 DEF TypeOK, IdsConsecutive
  <2> QED  BY <1>2, <2>1 DEF IdsConsecutive, UpTo
<1>7. PoolsOfStores'
  <2> SUFFICES ASSUME NEW u \in Stores, NEW t \in pool[u]
               PROVE  u <= current' /\ tasks'[u][t] # "none"
    BY <1>2 DEF PoolsOfStores
  <2>1. u <= current /\ tasks[u][t] # "none"
    BY DEF PoolsOfStores
  <2>2. u # s
    BY <2>1 DEF TypeOK
  <2> QED  BY <1>2, <2>1, <2>2 DEF TypeOK, Stores
<1>8. FileIsEarlier'
  BY <1>2, <1>5 DEF FileIsEarlier, Earlier, Loaded
<1>9. FileKeepsUp'
  BY <1>2, <1>5 DEF FileKeepsUp, Loaded
<1> QED  BY <1>4, <1>6, <1>7, <1>8, <1>9

(* The end of the process, whatever it leaves of the file. *)
LEMMA GoneKeeps ==
  ASSUME StoreAssumption, StoreInv, Gone, torn' \in BOOLEAN
  PROVE  StoreInv'
<1> USE DEF StoreInv, Gone
<1>1. TypeOK'
  <2>1. {} \in SUBSET Ids /\ 0 \in 0 .. MaxStores
    BY DEF StoreAssumption
  <2> QED  BY <2>1, NoTasksUpTo DEF TypeOK
<1>2. IdsConsecutive'
  <2>1. \A s \in Stores : UpTo(tasks'[s], counter'[s])
    BY NoTasksUpTo
  <2> QED  BY <2>1 DEF IdsConsecutive, UpTo
<1>3. PoolsOfStores' /\ FileIsEarlier' /\ FileKeepsUp'
  BY DEF PoolsOfStores, FileIsEarlier, FileKeepsUp
<1> QED  BY <1>1, <1>2, <1>3

-----------------------------------------------------------------------------
(* The records r after a new task was entered as well: they are later than *)
(* all that r was later than.                                              *)
LEMMA EnteredRecords ==
  ASSUME StoreAssumption, NEW u \in 0 .. MaxTasks, u < MaxTasks,
         NEW before \in [Ids -> States], NEW r \in [Ids -> States], UpTo(r, u),
         \A old \in [Ids -> States] : Earlier(old, before) => Earlier(old, r)
  PROVE  LET q == [r EXCEPT ![u] = "queued"]
         IN  /\ u \in Ids /\ u + 1 \in 0 .. MaxTasks
             /\ r[u] = "none"
             /\ q \in [Ids -> States] /\ UpTo(q, u + 1)
             /\ \A old \in [Ids -> States] :
                  Earlier(old, before) => Earlier(old, q)
<1> DEFINE q == [r EXCEPT ![u] = "queued"]
<1>1. /\ u \in Ids /\ u + 1 \in 0 .. MaxTasks
      /\ r[u] = "none" /\ UpTo(q, u + 1)
  BY UpToNext
<1>2. q \in [Ids -> States]
  BY DEF States
<1>3. \A old \in [Ids -> States] : Earlier(old, r) => Earlier(old, q)
  BY <1>1, EarlierEntered
<1> QED  BY <1>1, <1>2, <1>3

(* Submit enters a record in any store. *)
LEMMA SubmitKeeps ==
  ASSUME StoreAssumption, StoreInv, NEW s \in Stores, Submit(s)
  PROVE  StoreInv'
<1> DEFINE u == counter[s]
           r == [tasks[s] EXCEPT ![u] = "queued"]
<1>1. /\ s <= current
      /\ tasks[s] \in [Ids -> States] /\ pool[s] \in SUBSET Ids
      /\ u \in 0 .. MaxTasks /\ u < MaxTasks /\ UpTo(tasks[s], u)
  BY DEF Submit, StoreInv, TypeOK, IdsConsecutive, Stores
<1>2. /\ u \in Ids /\ u + 1 \in 0 .. MaxTasks
      /\ tasks[s][u] = "none"
      /\ r \in [Ids -> States] /\ UpTo(r, u + 1)
      /\ \A old \in [Ids -> States] : Earlier(old, tasks[s]) => Earlier(old, r)
  BY <1>1, EnteredRecords
<1> DEFINE p == pool[s] \cup {u}
<1>3. p \in SUBSET Ids /\ \A t \in p : r[t] # "none"
  BY <1>1, <1>2 DEF StoreInv, PoolsOfStores
<1>4. /\ Save(s, r, p)
      /\ counter' = [counter EXCEPT ![s] = u + 1]
      /\ UNCHANGED current
  BY DEF Submit
<1> HIDE DEF u, r, p
<1> QED  BY <1>1, <1>2, <1>3, <1>4, SaveKeeps

(* Report moves a record of any store forward. *)
LEMMA ReportKeeps ==
  ASSUME StoreAssumption, StoreInv, NEW s \in Stores, NEW t \in Ids,
         NEW state \in {"running", "failed", "over"}, Report(s, t, state)
  PROVE  StoreInv'
<1> DEFINE r == [tasks[s] EXCEPT ![t] = state]
<1>1. /\ s <= current /\ tasks[s][t] # "none"
      /\ tasks[s] \in [Ids -> States] /\ pool[s] \in SUBSET Ids
      /\ UpTo(tasks[s], counter[s]) /\ counter[s] \in 0 .. MaxTasks
  BY DEF Report, StoreInv, TypeOK, IdsConsecutive, PoolsOfStores
<1>2. r \in [Ids -> States] /\ UpTo(r, counter[s])
  BY <1>1, UpToKept DEF States
<1>3. \A old \in [Ids -> States] : Earlier(old, tasks[s]) => Earlier(old, r)
  <2>1. CASE tasks[s][t] = "failed" /\ state = "failed"
    <3>1. r = tasks[s]
      BY <1>1, <2>1
    <3> QED  BY <3>1
  <2>2. CASE <<tasks[s][t], state>> \in Ledger!Forward
    BY <1>1, <2>2, EarlierForward DEF States
  <2> QED  BY <2>1, <2>2 DEF Report
<1>4. PICK rest \in {pool[s], pool[s] \ {t}} : Save(s, r, rest)
  BY DEF Report
<1>5. \A v \in rest : r[v] # "none"
  BY <1>1 DEF StoreInv, PoolsOfStores
<1>6. counter' = [counter EXCEPT ![s] = counter[s]] /\ UNCHANGED current
  BY DEF Report, StoreInv, TypeOK
<1> HIDE DEF r
<1> QED  BY <1>1, <1>2, <1>3, <1>4, <1>5, <1>6, SaveKeeps

(* What a pool drops was only its own. *)
LEMMA DropKeeps ==
  ASSUME StoreInv, NEW s \in Stores, NEW t \in Ids, Drop(s, t)
  PROVE  StoreInv'
<1>1. /\ pool' = [pool EXCEPT ![s] = @ \ {t}]
      /\ UNCHANGED <<current, tasks, counter, file, torn, behind, mixed>>
  BY DEF Drop
<1>2. pool' \in [Stores -> SUBSET Ids] /\ \A u \in Stores : pool'[u] \subseteq pool[u]
  BY <1>1 DEF StoreInv, TypeOK
<1>3. TypeOK' /\ PoolsOfStores'
  BY <1>1, <1>2 DEF StoreInv, TypeOK, PoolsOfStores
<1>4. IdsConsecutive' /\ FileIsEarlier' /\ FileKeepsUp'
  BY <1>1 DEF StoreInv, IdsConsecutive, UpTo, FileIsEarlier, Earlier, FileKeepsUp
<1> QED  BY <1>3, <1>4 DEF StoreInv

(* Starts, reloads, crashes and shutdowns. *)
LEMMA LifeKeeps ==
  ASSUME StoreAssumption, StoreInv, Start \/ Reload \/ Crash \/ Shutdown
  PROVE  StoreInv'
<1>1. CASE Start
  <2>1. 1 \in Stores /\ 1 = current + 1
    BY <1>1 DEF Start, Stores, StoreAssumption
  <2>2. Open(1) /\ mixed' \in BOOLEAN
    BY <1>1 DEF Start
  <2> QED  BY <2>1, <2>2, OpenKeeps
<1>2. CASE Reload
  BY <1>2, OpenKeeps
  DEF Reload, Stores, StoreAssumption, StoreInv, TypeOK
<1>3. CASE Crash
  BY <1>3, GoneKeeps DEF Crash, StoreInv, TypeOK
<1>4. CASE Shutdown
  BY <1>4, GoneKeeps DEF Shutdown, StoreInv, TypeOK
<1> QED  BY <1>1, <1>2, <1>3, <1>4

(* Every step keeps the inductive invariant. *)
LEMMA StoreNext ==
  ASSUME StoreAssumption, StoreInv, [Next]_vars
  PROVE  StoreInv'
<1>1. CASE UNCHANGED vars
  BY <1>1
  DEF vars, StoreInv, TypeOK, IdsConsecutive, UpTo, PoolsOfStores,
      FileIsEarlier, Earlier, FileKeepsUp
<1>2. CASE Next
  BY <1>2, SubmitKeeps, ReportKeeps, DropKeeps, LifeKeeps DEF Next
<1> QED  BY <1>1, <1>2

(* The inductive invariant of the task stores: ids are consecutive in      *)
(* memory and on disk, and the file is what memory was. (TaskStore)        *)
THEOREM StoreInvariant == Spec => []StoreInv
<1>1. Init => StoreInv
  BY StoreAssumption, StoreInit
<1>2. StoreInv /\ [Next]_vars => StoreInv'
  BY StoreAssumption, StoreNext
<1> QED  BY <1>1, <1>2, PTL DEF Spec

(* Type correctness of the task stores. *)
THEOREM StoreTypes == Spec => []TypeOK
<1>1. StoreInv => TypeOK
  BY DEF StoreInv
<1> QED  BY <1>1, StoreInvariant, PTL

(* The file is what the daemon's store has in memory, unless the last      *)
(* write or load failed, or an earlier store still writes. (_persist)      *)
THEOREM FileFollowsMemory == Spec => []FileKeepsUp
<1>1. StoreInv => FileKeepsUp
  BY DEF StoreInv
<1> QED  BY <1>1, StoreInvariant, PTL

(* updateTask() never throws into an event handler of a pool: the record   *)
(* is there, also in a store that was replaced. (updateTask)               *)
THEOREM UpdatesNeverThrow == Spec => []ReportsFindRecords
<1>1. StoreInv => ReportsFindRecords
  BY DEF StoreInv, PoolsOfStores, ReportsFindRecords
<1> QED  BY <1>1, StoreInvariant, PTL

-----------------------------------------------------------------------------
(* A task submitted to the daemon's store is entered in the ledger; one    *)
(* submitted to a replaced store is not seen.                              *)
LEMMA SubmitEnters ==
  ASSUME StoreAssumption, StoreInv, NEW s \in Stores, Submit(s)
  PROVE  (\E t \in Ids : Ledger!Enter(t)) \/ UNCHANGED View
<1>1. /\ s <= current /\ current' = current
      /\ counter[s] \in Ids /\ UpTo(tasks[s], counter[s])
      /\ tasks' = [tasks EXCEPT ![s] = [tasks[s] EXCEPT ![counter[s]] = "queued"]]
  BY DEF Submit, Save, Change, StoreInv, TypeOK, IdsConsecutive, Stores, Ids,
         StoreAssumption
<1>2. current # 0 /\ current \in Stores
  BY <1>1 DEF StoreInv, TypeOK, Stores, StoreAssumption
<1>3. View = tasks[current] /\ View' = tasks'[current]
  BY <1>1, <1>2 DEF View
<1>4. CASE s = current
  <2>1. View' = [View EXCEPT ![counter[s]] = "queued"]
    BY <1>1, <1>2, <1>3, <1>4 DEF StoreInv, TypeOK
  <2>2. Ledger!Enter(counter[s])
    BY <1>1, <1>3, <1>4, <2>1 DEF Ledger!Enter, UpTo
  <2> QED  BY <1>1, <2>2
<1>5. CASE s # current
  BY <1>1, <1>2, <1>3, <1>5 DEF StoreInv, TypeOK
<1> QED  BY <1>4, <1>5

(* A report to the daemon's store advances the record in the ledger, or    *)
(* repeats that it has failed; one to a replaced store is not seen.        *)
LEMMA ReportAdvances ==
  ASSUME StoreAssumption, StoreInv, NEW s \in Stores, NEW t \in Ids,
         NEW state \in {"running", "failed", "over"}, Report(s, t, state)
  PROVE  Ledger!Advance(t, state) \/ UNCHANGED View
<1>1. /\ s <= current /\ current' = current
      /\ tasks' = [tasks EXCEPT ![s] = [tasks[s] EXCEPT ![t] = state]]
      /\ \/ <<tasks[s][t], state>> \in Ledger!Forward
         \/ tasks[s][t] = state
  BY DEF Report, Save, Change, StoreInv, TypeOK, PoolsOfStores
<1>2. current # 0 /\ current \in Stores
  BY <1>1 DEF StoreInv, TypeOK, Stores, StoreAssumption
<1>3. View = tasks[current] /\ View' = tasks'[current]
  BY <1>1, <1>2 DEF View
<1>4. CASE s = current
  <2>1. View' = [View EXCEPT ![t] = state] /\ View \in [Ids -> States]
    BY <1>1, <1>2, <1>3, <1>4 DEF StoreInv, TypeOK
  <2>2. CASE tasks[s][t] = state
    BY <1>3, <1>4, <2>1, <2>2
  <2>3. CASE <<tasks[s][t], state>> \in Ledger!Forward
    BY <1>3, <1>4, <2>1, <2>3 DEF Ledger!Advance
  <2> QED  BY <1>1, <2>2, <2>3
<1>5. CASE s # current
  BY <1>1, <1>2, <1>3, <1>5 DEF StoreInv, TypeOK
<1> QED  BY <1>4, <1>5

(* What a reader sees of the file instead of the daemon's store: nothing   *)
(* at all of a torn one, or records that had not all been saved.           *)
LEMMA LoadFallsBack ==
  ASSUME StoreAssumption, StoreInv, ~mixed, current # 0,
         (torn' /\ View' = NoTasks) \/ (~torn /\ View' = file)
  PROVE  Ledger!LoseAll \/ Ledger!FallBack \/ UNCHANGED View
<1>1. View = tasks[current] /\ current \in Stores
  BY DEF View, StoreInv, TypeOK, Stores, StoreAssumption
<1>2. CASE torn' /\ View' = NoTasks
  BY <1>2 DEF NoTasks, Ledger!LoseAll
<1>3. CASE ~torn /\ View' = file
  <2>1. CASE file = tasks[current]
    BY <1>1, <1>3, <2>1
  <2>2. CASE file # tasks[current]
    <3>1. Earlier(file, tasks[current]) /\ behind
      BY <1>3, <2>2 DEF StoreInv, FileIsEarlier, FileKeepsUp
    <3> QED  BY <1>1, <1>3, <3>1 DEF Earlier, Ledger!FallBack
  <2> QED  BY <2>1, <2>2
<1> QED  BY <1>2, <1>3

(* A start changes nothing for the readers; a reload, a crash or a         *)
(* shutdown makes them see the file.                                       *)
LEMMA LifeFallsBack ==
  ASSUME StoreAssumption, StoreInv, ~mixed,
         Start \/ Reload \/ Crash \/ Shutdown
  PROVE  Ledger!LoseAll \/ Ledger!FallBack \/ UNCHANGED View
<1>1. CASE Start
  <2>1. 1 \in Stores /\ current = 0 /\ Open(1)
    BY <1>1 DEF Start, Stores, StoreAssumption
  <2>2. View = Loaded /\ View' = Loaded
    BY <2>1 DEF View, Open, StoreInv, TypeOK
  <2> QED  BY <2>2
<1>2. CASE Reload
  <2>1. current # 0 /\ current + 1 \in Stores /\ current + 1 # 0
        /\ Open(current + 1)
    BY <1>2 DEF Reload, Stores, StoreAssumption
  <2>2. View' = Loaded /\ torn' = torn
    BY <2>1 DEF View, Open, StoreInv, TypeOK
  <2> QED  BY <2>1, <2>2, LoadFallsBack DEF Loaded, StoreInv, TypeOK
<1>3. CASE Crash \/ Shutdown
  <2>1. /\ current # 0 /\ current' = 0 /\ file' = file
        /\ torn' = torn \/ torn' = TRUE
    BY <1>3 DEF Crash, Shutdown, Gone
  <2>2. View' = IF torn' THEN NoTasks ELSE file
    BY <2>1 DEF View, Loaded
  <2>3. (torn' /\ View' = NoTasks) \/ (~torn /\ View' = file)
    BY <2>1, <2>2 DEF StoreInv, TypeOK
  <2> QED  BY <2>1, <2>3, LoadFallsBack
<1> QED  BY <1>1, <1>2, <1>3

(* Every step is one of the ledger, or is not seen by its readers. *)
LEMMA StoreStepRefines ==
  ASSUME StoreAssumption, StoreInv, [Next]_vars
  PROVE  [mixed \/ Ledger!Next]_View
<1>1. CASE UNCHANGED vars
  BY <1>1 DEF vars, View, Loaded
<1>2. ASSUME NEW s \in Stores, Submit(s)
      PROVE  [mixed \/ Ledger!Next]_View
  BY <1>2, SubmitEnters DEF Ledger!Next
<1>3. ASSUME NEW s \in Stores, NEW t \in Ids,
             NEW state \in {"running", "failed", "over"}, Report(s, t, state)
      PROVE  [mixed \/ Ledger!Next]_View
  BY <1>3, ReportAdvances DEF Ledger!Next
<1>4. ASSUME NEW s \in Stores, NEW t \in Ids, Drop(s, t)
      PROVE  [mixed \/ Ledger!Next]_View
  BY <1>4 DEF Drop, View, Loaded
<1>5. CASE Start \/ Reload \/ Crash \/ Shutdown
  BY <1>5, LifeFallsBack DEF Ledger!Next
<1> QED  BY <1>1, <1>2, <1>3, <1>4, <1>5 DEF Next

(* The task records are a TaskLedger to those who read them, through       *)
(* starts, crashes and failing writes and until a replaced store writes:   *)
(* all of them are lost at once only if the file is torn, otherwise none   *)
(* moves back or is gone unless the last write had failed, and an id is    *)
(* given out again only when its record was lost so. (TaskStore)           *)
THEOREM LedgerRefined == Spec => LedgerKept
<1>1. StoreInv /\ [Next]_vars => [mixed \/ Ledger!Next]_View
  BY StoreAssumption, StoreStepRefines
<1> QED  BY <1>1, StoreInvariant, PTL DEF Spec, LedgerKept

=============================================================================
