------------------------ MODULE AgentSupervisorProofs ------------------------
(***************************************************************************)
(* Proofs about AgentSupervisor for every concurrency limit, every set of  *)
(* priorities and every number of tasks.  Every callback but three ends in *)
(* _processQueue, so the argument is in two parts: what ProcessQueue makes *)
(* of a consistent pool, and that each callback hands it one.              *)
(***************************************************************************)
EXTENDS AgentSupervisor, FiniteSetTheorems, WellFoundedInduction, TLAPS

(* A consistent pool: queue q, running map r, records s, children c,       *)
(* timers m and lost tasks l agree.  It is the invariant with the          *)
(* variables as arguments, for the values a callback holds before it calls *)
(* _processQueue.                                                          *)
Consistent(q, r, s, c, m, l) ==
  /\ q \in Seq(Tasks)
  /\ r \in SUBSET Tasks
  /\ s \in [Tasks -> TaskStates]
  /\ c \in [Tasks -> ProcStates]
  /\ m \in SUBSET Tasks
  /\ l \in SUBSET Tasks
  /\ \A i, j \in DOMAIN q : q[i] = q[j] => i = j
  /\ \A i \in DOMAIN q : q[i] \notin l
  /\ \A t \in Tasks : s[t] = "queued" <=> t \in l \/ \E i \in DOMAIN q : q[i] = t
  /\ \A t \in Tasks : s[t] = "running" <=> t \in r
  /\ r \subseteq m
  /\ \A t \in m : c[t] # "none"
  /\ \A t \in Tasks : c[t] # "none" => s[t] \in {"running", "failed"}
  /\ Cardinality(r) <= MaxConcurrency

(* The queue q is sorted for the priorities p. *)
Sorted(q, p) ==
  \A i, j \in DOMAIN q :
    i < j => p[q[i]] > p[q[j]] \/ (p[q[i]] = p[q[j]] /\ q[i] < q[j])

(* Identifiers are handed out in order: the records that exist are those   *)
(* below the counter.                                                      *)
FreshIds == \A t \in Tasks : store[t] = "none" <=> t >= nextId

IInv ==
  /\ nextId \in 0 .. MaxTasks
  /\ prio \in [Tasks -> Priorities]
  /\ shutdownInProgress \in BOOLEAN
  /\ staleGraces \in Nat
  /\ Consistent(queue, running, store, proc, timers, unspawned)
  /\ Sorted(queue, prio)
  /\ FreshIds
  /\ NoLostWakeup

-----------------------------------------------------------------------------
(* Tasks is a finite set of naturals. *)
LEMMA TasksFinite == IsFiniteSet(Tasks) /\ Tasks \subseteq Nat
  BY PoolAssumption, FS_Interval DEF Tasks

(* A set of tasks has a natural number of elements. *)
LEMMA SetOfTasks ==
  ASSUME NEW STATE r, r \in SUBSET Tasks
  PROVE  IsFiniteSet(r) /\ Cardinality(r) \in Nat
  BY TasksFinite, FS_Subset, FS_CardinalityType

(* A non-empty set of naturals has a least element. *)
LEMMA LeastElement ==
  ASSUME NEW S \in SUBSET Nat, S # {}
  PROVE  \E m \in S : \A k \in S : m <= k
<1>1. PICK m \in S : \A k \in S : ~(<<k, m>> \in OpToRel(<, Nat))
  BY NatLessThanWellFounded, WFMin
<1>2. \A k \in S : ~(k < m)
  BY <1>1 DEF OpToRel
<1>. QED
  BY <1>2

(* A function on 1..n with values in S is a sequence over S of length n. *)
LEMMA IsASeq ==
  ASSUME NEW S, NEW n \in Nat, NEW f \in [1 .. n -> S]
  PROVE  f \in Seq(S) /\ Len(f) = n /\ DOMAIN f = 1 .. n
  OBVIOUS

(* The loop of _processQueue runs at most once per queued task and once    *)
(* per free slot, and stops early only for want of tasks or slots.         *)
LEMMA StartsBounds ==
  ASSUME NEW STATE q, q \in Seq(Tasks), NEW STATE r, r \in SUBSET Tasks,
         Cardinality(r) <= MaxConcurrency
  PROVE  /\ Starts(q, r) \in 0 .. Len(q)
         /\ Cardinality(r) + Starts(q, r) <= MaxConcurrency
         /\ ~shutdownInProgress =>
              \/ Starts(q, r) = Len(q)
              \/ Cardinality(r) + Starts(q, r) = MaxConcurrency
<1>1. Cardinality(r) \in Nat /\ Len(q) \in Nat
  BY SetOfTasks
<1>. QED
  BY <1>1, PoolAssumption DEF Starts

(* The first n entries of a queue without duplicates are n tasks. *)
LEMMA HeadsCount ==
  ASSUME NEW STATE q, q \in Seq(Tasks), NEW STATE n, n \in 0 .. Len(q),
         \A i, j \in DOMAIN q : q[i] = q[j] => i = j
  PROVE  LET H == {q[i] : i \in 1 .. n}
         IN  H \in SUBSET Tasks /\ IsFiniteSet(H) /\ Cardinality(H) = n
<1> DEFINE H == {q[i] : i \in 1 .. n}
           f == [i \in 1 .. n |-> q[i]]
<1>1. n \in Nat /\ 1 .. n \subseteq DOMAIN q
  OBVIOUS
<1>2. f \in Bijection(1 .. n, H)
  BY <1>1 DEF Bijection, Injection, Surjection, IsInjective
<1>3. IsFiniteSet(1 .. n) /\ Cardinality(1 .. n) = n
  BY <1>1, FS_Interval
<1>4. IsFiniteSet(H) /\ Cardinality(H) = n
  BY <1>2, <1>3, FS_Bijection DEF ExistsBijection
<1>5. H \in SUBSET Tasks
  BY <1>1
<1>. QED
  BY <1>4, <1>5

(* Starting the first tasks of the queue, as far as there is room, keeps a *)
(* consistent pool consistent and the queue sorted, and creates no record. *)
LEMMA StartFirstConsistent ==
  ASSUME NEW STATE q, NEW STATE r, NEW STATE s, NEW STATE c, NEW STATE m,
         NEW STATE l, NEW STATE n,
         Consistent(q, r, s, c, m, l), StartFirst(n, q, r, s, c, m),
         n \in 0 .. Len(q), Cardinality(r) + n <= MaxConcurrency
  PROVE  /\ Consistent(queue', running', store', proc', timers', l)
         /\ Len(queue') = Len(q) - n
         /\ Cardinality(running') = Cardinality(r) + n
         /\ \A p \in [Tasks -> Priorities] : Sorted(q, p) => Sorted(queue', p)
         /\ \A t \in Tasks : store'[t] = "none" <=> s[t] = "none"
         /\ \A t \in Tasks : s[t] # "queued" =>
              store'[t] = s[t] /\ (proc'[t] = "none" <=> c[t] = "none")
         /\ \A t \in Tasks : c[t] # "none" => t \notin {q[i] : i \in 1 .. n}
<1> DEFINE heads == {q[i] : i \in 1 .. n}
<1>1. /\ q \in Seq(Tasks) /\ r \in SUBSET Tasks /\ m \in SUBSET Tasks
      /\ s \in [Tasks -> TaskStates] /\ c \in [Tasks -> ProcStates]
      /\ \A i, j \in DOMAIN q : q[i] = q[j] => i = j
  BY DEF Consistent
<1>2. n \in 0 .. Len(q) /\ Cardinality(r) + n <= MaxConcurrency
  OBVIOUS
<1>3. heads \in SUBSET Tasks /\ IsFiniteSet(heads) /\ Cardinality(heads) = n
  BY <1>1, <1>2, HeadsCount
<1>4. /\ queue' = [i \in 1 .. Len(q) - n |-> q[i + n]]
      /\ running' = r \cup heads
      /\ store' = [t \in Tasks |-> IF t \in heads THEN "running" ELSE s[t]]
      /\ proc' = [t \in Tasks |-> IF t \in heads THEN "up" ELSE c[t]]
      /\ timers' = m \cup heads
  BY DEF StartFirst
<1>5. Len(q) \in Nat /\ DOMAIN q = 1 .. Len(q) /\ n \in Nat /\ Len(q) - n \in Nat
  BY <1>1, <1>2
<1>6. \A i \in 1 .. Len(q) - n : i + n \in DOMAIN q /\ q[i + n] \in Tasks
  BY <1>1, <1>5
<1>7. /\ queue' \in Seq(Tasks)
      /\ Len(queue') = Len(q) - n
      /\ DOMAIN queue' = 1 .. Len(q) - n
  <2>1. queue' \in [1 .. Len(q) - n -> Tasks]
    BY <1>4, <1>6
  <2>. QED
    BY <1>5, <2>1, IsASeq
<1>8. heads \cap r = {}
  BY <1>1, <1>5, <1>2 DEF Consistent
<1>9. Cardinality(running') = Cardinality(r) + n
  <2>1. IsFiniteSet(r) /\ Cardinality(r) \in Nat
    BY <1>1, SetOfTasks
  <2>2. Cardinality(r \cap heads) = 0
    BY <1>8, FS_EmptySet
  <2>3. Cardinality(r \cup heads) =
          Cardinality(r) + Cardinality(heads) - Cardinality(r \cap heads)
    BY <1>3, <2>1, FS_Union
  <2>. HIDE DEF heads
  <2>4. Cardinality(running') = Cardinality(r) + Cardinality(heads) - 0
    BY <1>4, <2>2, <2>3
  <2>. QED
    BY <1>3, <1>5, <2>1, <2>4
<1>10. \A i \in 1 .. Len(q) - n : q[i + n] \notin heads
  BY <1>1, <1>5, <1>2
<1>11. \A t \in Tasks : (\E i \in DOMAIN q : q[i] = t) <=>
                          t \in heads \/ \E i \in DOMAIN queue' : queue'[i] = t
  <2>1. ASSUME NEW i \in DOMAIN q, i \notin 1 .. n
        PROVE  i - n \in DOMAIN queue' /\ queue'[i - n] = q[i]
    BY <2>1, <1>4, <1>5, <1>7
  <2>2. \A i \in DOMAIN queue' : i + n \in DOMAIN q /\ queue'[i] = q[i + n]
    BY <1>4, <1>6, <1>7
  <2>3. \A i \in 1 .. n : i \in DOMAIN q
    BY <1>5, <1>2
  <2>. HIDE DEF heads
  <2>4. \A t \in heads : \E i \in 1 .. n : q[i] = t
    BY DEF heads
  <2>5. \A i \in 1 .. n : q[i] \in heads
    BY DEF heads
  <2>. QED
    BY <2>1, <2>2, <2>3, <2>4, <2>5
<1>12. \A t \in Tasks : store'[t] = "queued" <=>
                            t \in l \/ \E i \in DOMAIN queue' : queue'[i] = t
  <2>1. \A i \in DOMAIN queue' : queue'[i] \notin heads
    BY <1>4, <1>7, <1>10
  <2>2. \A t \in Tasks : s[t] = "queued" <=> t \in l \/ \E i \in DOMAIN q : q[i] = t
    BY DEF Consistent
  <2>3. \A t \in heads : t \notin l
    BY <1>5, <1>2 DEF Consistent
  <2>. HIDE DEF heads
  <2>. QED
    BY <1>4, <1>11, <2>1, <2>2, <2>3
<1>13. /\ \A t \in Tasks : store'[t] = "running" <=> t \in running'
       /\ running' \subseteq timers'
       /\ \A t \in timers' : proc'[t] # "none"
       /\ \A t \in Tasks : proc'[t] # "none" => store'[t] \in {"running", "failed"}
       /\ store' \in [Tasks -> TaskStates]
       /\ proc' \in [Tasks -> ProcStates]
       /\ running' \in SUBSET Tasks /\ timers' \in SUBSET Tasks
  <2>. HIDE DEF heads
  <2>. QED
    BY <1>1, <1>3, <1>4 DEF Consistent, TaskStates, ProcStates
<1>14. \A i, j \in DOMAIN queue' : queue'[i] = queue'[j] => i = j
  BY <1>1, <1>4, <1>5, <1>6, <1>7
<1>15. Consistent(queue', running', store', proc', timers', l)
  <2>1. \A i \in DOMAIN queue' : queue'[i] \notin l
    BY <1>4, <1>6, <1>7 DEF Consistent
  <2>2. l \in SUBSET Tasks
    BY DEF Consistent
  <2>. QED
    BY <1>2, <1>7, <1>9, <1>12, <1>13, <1>14, <2>1, <2>2 DEF Consistent
<1>16. \A t \in heads : s[t] = "queued"
  BY <1>1, <1>5, <1>2, <1>3 DEF Consistent
<1>17. \A t \in Tasks : c[t] # "none" => t \notin heads
  BY <1>16 DEF Consistent
<1>18. \A p \in [Tasks -> Priorities] : Sorted(q, p) => Sorted(queue', p)
  <2>1. \A i \in DOMAIN queue' : i + n \in DOMAIN q /\ queue'[i] = q[i + n]
    BY <1>4, <1>6, <1>7
  <2>2. \A i, j \in DOMAIN queue' : i < j => i + n < j + n
    BY <1>5, <1>7
  <2>. QED
    BY <2>1, <2>2 DEF Sorted
<1> HIDE DEF heads
<1>20. \A t \in Tasks : store'[t] = "none" <=> s[t] = "none"
  BY <1>4, <1>16
<1>21. \A t \in Tasks : s[t] # "queued" =>
         store'[t] = s[t] /\ (proc'[t] = "none" <=> c[t] = "none")
  BY <1>4, <1>16
<1>. QED
  BY <1>7, <1>9, <1>15, <1>17, <1>18, <1>20, <1>21 DEF heads

(* _processQueue does so, and leaves tasks waiting only if the pool is     *)
(* full (or the supervisor is shutting down).                              *)
LEMMA ProcessQueueConsistent ==
  ASSUME NEW STATE q, NEW STATE r, NEW STATE s, NEW STATE c, NEW STATE m,
         NEW STATE l,
         Consistent(q, r, s, c, m, l), ProcessQueue(q, r, s, c, m)
  PROVE  /\ Consistent(queue', running', store', proc', timers', l)
         /\ ~shutdownInProgress /\ queue' # <<>> =>
              Cardinality(running') = MaxConcurrency
         /\ q = <<>> => queue' = <<>>
         /\ \A p \in [Tasks -> Priorities] : Sorted(q, p) => Sorted(queue', p)
         /\ \A t \in Tasks : store'[t] = "none" <=> s[t] = "none"
         /\ \A t \in Tasks : s[t] # "queued" =>
              store'[t] = s[t] /\ (proc'[t] = "none" <=> c[t] = "none")
<1> DEFINE n == Starts(q, r)
<1>1. /\ q \in Seq(Tasks) /\ r \in SUBSET Tasks
      /\ Cardinality(r) <= MaxConcurrency
  BY DEF Consistent
<1>2. /\ n \in 0 .. Len(q) /\ Cardinality(r) + n <= MaxConcurrency
      /\ ~shutdownInProgress => n = Len(q) \/ Cardinality(r) + n = MaxConcurrency
  BY <1>1, StartsBounds
<1>3. StartFirst(n, q, r, s, c, m)
  BY DEF ProcessQueue
<1> HIDE DEF n
<1>4. /\ Consistent(queue', running', store', proc', timers', l)
      /\ Len(queue') = Len(q) - n
      /\ Cardinality(running') = Cardinality(r) + n
      /\ \A p \in [Tasks -> Priorities] : Sorted(q, p) => Sorted(queue', p)
      /\ \A t \in Tasks : store'[t] = "none" <=> s[t] = "none"
      /\ \A t \in Tasks : s[t] # "queued" =>
           store'[t] = s[t] /\ (proc'[t] = "none" <=> c[t] = "none")
  BY <1>2, <1>3, StartFirstConsistent
<1>5. Len(q) \in Nat /\ queue' \in Seq(Tasks)
  BY <1>1, <1>4 DEF Consistent
<1>6. n = Len(q) => queue' = <<>>
  BY <1>4, <1>5
<1>7. q = <<>> => queue' = <<>>
  BY <1>2, <1>6
<1>. QED
  BY <1>2, <1>4, <1>6, <1>7

(* Inserting a new task in a sorted queue: the entries are those of the    *)
(* queue and the task, each once, and the queue is sorted again.  The task *)
(* is newer than every entry, so it goes behind those of its priority.     *)
LEMMA InsertSorted ==
  ASSUME NEW STATE q, q \in Seq(Tasks), NEW STATE t, t \in Tasks,
         NEW STATE p, p \in Priorities, prio \in [Tasks -> Priorities],
         \A i, j \in DOMAIN q : q[i] = q[j] => i = j,
         \A i \in DOMAIN q : q[i] < t,
         Sorted(q, prio)
  PROVE  LET Q == Insert(q, t, p)
         IN  /\ Q \in Seq(Tasks)
             /\ \A u \in Tasks : (\E i \in DOMAIN Q : Q[i] = u) <=>
                                   u = t \/ \E i \in DOMAIN q : q[i] = u
             /\ \A i, j \in DOMAIN Q : Q[i] = Q[j] => i = j
             /\ Sorted(Q, [prio EXCEPT ![t] = p])
<1> DEFINE Q == Insert(q, t, p)
           Stays(i) == i \in DOMAIN q /\ prio[q[i]] >= p
           pr == [prio EXCEPT ![t] = p]
<1>1. Len(q) \in Nat /\ DOMAIN q = 1 .. Len(q) /\ t \in Int /\ p \in Int
  BY TasksFinite, PoolAssumption
<1>2. \A i \in DOMAIN q : q[i] \in Tasks /\ q[i] \in Int /\ prio[q[i]] \in Int
  <2>1. \A i \in DOMAIN q : q[i] \in Tasks
    OBVIOUS
  <2>2. \A u \in Tasks : u \in Int /\ prio[u] \in Int
    <3>1. \A u \in Tasks : u \in Nat /\ prio[u] \in Priorities
      BY TasksFinite
    <3>2. \A x \in Priorities : x \in Int
      BY PoolAssumption
    <3>. QED
      BY <3>1, <3>2
  <2>. QED
    BY <2>1, <2>2
<1>3. Q = [i \in 1 .. Len(q) + 1 |->
             IF Stays(i) THEN q[i]
             ELSE IF i = 1 \/ Stays(i - 1) THEN t ELSE q[i - 1]]
  BY DEF Insert
<1> HIDE DEF Q
(* Only a prefix of the queue stays; the task goes to its end. *)
<1>4. \A i, j \in DOMAIN q : i < j /\ Stays(j) => Stays(i)
  BY <1>1, <1>2 DEF Sorted
<1>5. PICK k \in 1 .. Len(q) + 1 :
        \A i \in DOMAIN q : Stays(i) <=> i < k
  <2> DEFINE S == {i \in 1 .. Len(q) + 1 : ~Stays(i)}
  <2>1. S \in SUBSET Nat /\ Len(q) + 1 \in S
    BY <1>1
  <2>2. PICK k \in S : \A i \in S : k <= i
    BY <2>1, LeastElement
  <2>. QED
    BY <1>1, <1>4, <2>2
<1>6. \A i \in 1 .. Len(q) + 1 :
        Q[i] = IF i < k THEN q[i] ELSE IF i = k THEN t ELSE q[i - 1]
  <2> TAKE i \in 1 .. Len(q) + 1
  <2>1. CASE i < k
    BY <1>1, <1>3, <1>5, <2>1
  <2>2. CASE i = k
    <3>1. ~Stays(i)
      BY <1>5, <2>2
    <3>2. i = 1 \/ Stays(i - 1)
      BY <1>1, <1>5, <2>2
    <3>. QED
      BY <1>1, <1>3, <2>2, <3>1, <3>2
  <2>3. CASE k < i
    <3>1. ~Stays(i)
      BY <1>1, <1>5, <2>3
    <3>2. i # 1 /\ ~Stays(i - 1)
      BY <1>1, <1>5, <2>3
    <3>. QED
      BY <1>1, <1>3, <2>3, <3>1, <3>2
  <2>. QED
    BY <1>1, <2>1, <2>2, <2>3
<1>7. Q \in Seq(Tasks) /\ DOMAIN Q = 1 .. Len(q) + 1
  <2>1. Q \in [1 .. Len(q) + 1 -> Tasks]
    BY <1>1, <1>2, <1>3
  <2>. QED
    BY <1>1, <2>1, IsASeq
<1> HIDE DEF Stays
(* An entry of the new queue other than the task is one of the old queue.  *)
<1>8. \A i \in DOMAIN Q : i # k =>
         IF i < k THEN i \in DOMAIN q /\ Q[i] = q[i]
                  ELSE i - 1 \in DOMAIN q /\ Q[i] = q[i - 1]
  BY <1>1, <1>6, <1>7
<1>9. k \in DOMAIN Q /\ Q[k] = t
  BY <1>1, <1>6, <1>7
<1>10. \A u \in Tasks : (\E i \in DOMAIN Q : Q[i] = u) <=>
                         u = t \/ \E i \in DOMAIN q : q[i] = u
  <2>1. \A i \in DOMAIN Q : Q[i] = t \/ \E j \in DOMAIN q : Q[i] = q[j]
    BY <1>8, <1>9
  <2>2. \A i \in DOMAIN q : \E j \in DOMAIN Q : Q[j] = q[i]
    <3> TAKE i \in DOMAIN q
    <3>1. CASE i < k
      BY <1>1, <1>6, <1>7, <3>1
    <3>2. CASE ~(i < k)
      <4>1. i + 1 \in DOMAIN Q /\ Q[i + 1] = q[i]
        BY <1>1, <1>6, <1>7, <3>2
      <4>. QED
        BY <4>1
    <3>. QED
      BY <3>1, <3>2
  <2>. QED
    BY <1>9, <2>1, <2>2
<1>11. \A i, j \in DOMAIN Q : Q[i] = Q[j] => i = j
  <2> TAKE i, j \in DOMAIN Q
  <2> HAVE Q[i] = Q[j]
  <2>1. \A x \in DOMAIN Q : x # k => Q[x] < t
    BY <1>8
  <2>2. CASE i = k \/ j = k
    BY <1>1, <1>9, <2>1, <2>2
  <2>3. CASE i # k /\ j # k
    BY <1>1, <1>7, <1>8, <2>3
  <2>. QED
    BY <2>2, <2>3
<1>12. Sorted(Q, pr)
  <2>1. /\ pr[t] = p
        /\ \A i \in DOMAIN q : pr[q[i]] = prio[q[i]]
    BY <1>1, <1>2
  <2>2. \A i \in DOMAIN q : (i < k) <=> prio[q[i]] >= p
    BY <1>1, <1>5 DEF Stays
  <2> HIDE DEF pr
  <2> SUFFICES ASSUME NEW i \in DOMAIN Q, NEW j \in DOMAIN Q, i < j
               PROVE  pr[Q[i]] > pr[Q[j]] \/ (pr[Q[i]] = pr[Q[j]] /\ Q[i] < Q[j])
    BY DEF Sorted
  <2>3. CASE i = k
    <3>1. j - 1 \in DOMAIN q /\ ~(j - 1 < k) /\ Q[i] = t /\ Q[j] = q[j - 1]
      BY <1>1, <1>6, <1>7, <2>3
    <3>. QED
      BY <1>1, <1>2, <2>1, <2>2, <3>1
  <2>4. CASE j = k
    <3>1. i \in DOMAIN q /\ i < k /\ Q[j] = t /\ Q[i] = q[i]
      BY <1>1, <1>6, <1>7, <2>4
    <3>. QED
      BY <1>1, <1>2, <2>1, <2>2, <3>1
  <2>5. CASE i # k /\ j # k
    <3>1. PICK a \in DOMAIN q, b \in DOMAIN q : a < b /\ Q[i] = q[a] /\ Q[j] = q[b]
      BY <1>1, <1>7, <1>8, <2>5
    <3>. QED
      BY <2>1, <3>1 DEF Sorted
  <2>. QED
    BY <2>3, <2>4, <2>5
<1>. QED
  BY <1>7, <1>10, <1>11, <1>12 DEF Q

(* Removing entry k of a sorted queue without duplicates: every other task *)
(* is still there, once, and in order.                                     *)
LEMMA WithoutSorted ==
  ASSUME NEW STATE q, q \in Seq(Tasks), NEW STATE k, k \in DOMAIN q,
         \A i, j \in DOMAIN q : q[i] = q[j] => i = j
  PROVE  LET Q == Without(q, k)
         IN  /\ Q \in Seq(Tasks)
             /\ \A u \in Tasks : (\E i \in DOMAIN Q : Q[i] = u) <=>
                                   u # q[k] /\ \E i \in DOMAIN q : q[i] = u
             /\ \A i, j \in DOMAIN Q : Q[i] = Q[j] => i = j
             /\ \A p \in [Tasks -> Priorities] : Sorted(q, p) => Sorted(Q, p)
<1> DEFINE Q == Without(q, k)
<1>1. Len(q) \in Nat /\ DOMAIN q = 1 .. Len(q) /\ Len(q) - 1 \in Nat
  OBVIOUS
<1>2. Q = [i \in 1 .. Len(q) - 1 |-> IF i < k THEN q[i] ELSE q[i + 1]]
  BY DEF Without
<1> HIDE DEF Q
<1>3. Q \in Seq(Tasks) /\ DOMAIN Q = 1 .. Len(q) - 1
  <2>1. Q \in [1 .. Len(q) - 1 -> Tasks]
    BY <1>1, <1>2
  <2>. QED
    BY <1>1, <2>1, IsASeq
<1>4. \A i \in DOMAIN Q :
        IF i < k THEN i \in DOMAIN q /\ Q[i] = q[i]
                 ELSE i + 1 \in DOMAIN q /\ Q[i] = q[i + 1]
  BY <1>1, <1>2, <1>3
<1>5. \A i, j \in DOMAIN Q : i < j =>
        \E a, b \in DOMAIN q : a < b /\ a # k /\ b # k /\ Q[i] = q[a] /\ Q[j] = q[b]
  BY <1>1, <1>3, <1>4
<1>6. \A u \in Tasks : (\E i \in DOMAIN Q : Q[i] = u) <=>
                         u # q[k] /\ \E i \in DOMAIN q : q[i] = u
  <2>1. \A i \in DOMAIN Q : \E j \in DOMAIN q : j # k /\ Q[i] = q[j]
    BY <1>1, <1>3, <1>4
  <2>2. \A j \in DOMAIN q : j # k => \E i \in DOMAIN Q : Q[i] = q[j]
    <3> TAKE j \in DOMAIN q
    <3> HAVE j # k
    <3>1. CASE j < k
      BY <1>1, <1>2, <1>3, <3>1
    <3>2. CASE j > k
      <4>1. j - 1 \in DOMAIN Q /\ Q[j - 1] = q[j]
        BY <1>1, <1>2, <1>3, <3>2
      <4>. QED
        BY <4>1
    <3>. QED
      BY <1>1, <3>1, <3>2
  <2>. QED
    BY <2>1, <2>2
<1>7. \A i, j \in DOMAIN Q : Q[i] = Q[j] => i = j
  BY <1>1, <1>3, <1>4
<1>8. \A p \in [Tasks -> Priorities] : Sorted(q, p) => Sorted(Q, p)
  BY <1>5 DEF Sorted
<1>. QED
  BY <1>3, <1>6, <1>7, <1>8 DEF Q

-----------------------------------------------------------------------------
(* The invariant holds initially. *)
LEMMA InitIInv == Init => IInv
<1>1. Cardinality({}) = 0
  BY FS_EmptySet
<1>2. Init => Consistent(queue, running, store, proc, timers, unspawned)
  BY <1>1, PoolAssumption DEF Init, Consistent, TaskStates, ProcStates
<1>3. Init => Sorted(queue, prio) /\ NoLostWakeup
  BY DEF Init, Sorted, NoLostWakeup
<1>4. Init => FreshIds
  BY TasksFinite DEF Init, FreshIds
<1>5. Init => /\ nextId \in 0 .. MaxTasks /\ staleGraces \in Nat
              /\ prio \in [Tasks -> Priorities]
  BY PoolAssumption DEF Init
<1>6. Init => shutdownInProgress \in BOOLEAN
  BY DEF Init
<1>. QED
  BY <1>2, <1>3, <1>4, <1>5, <1>6 DEF IInv

(* A callback that settles a task of the pool and then processes the queue *)
(* hands _processQueue a consistent pool: t leaves the running map, its    *)
(* record becomes v, its child x, and its timer is gone.                   *)
LEMMA SettleConsistent ==
  ASSUME Consistent(queue, running, store, proc, timers, unspawned),
         NEW t \in Tasks, proc[t] # "none",
         NEW STATE v, v \in Settled, NEW STATE x, x \in ProcStates,
         x # "none" => v = "failed"
  PROVE  Consistent(queue, running \ {t}, [store EXCEPT ![t] = v],
                    [proc EXCEPT ![t] = x], timers \ {t}, unspawned)
<1>1. /\ queue \in Seq(Tasks)
      /\ running \in SUBSET Tasks /\ timers \in SUBSET Tasks
      /\ store \in [Tasks -> TaskStates] /\ proc \in [Tasks -> ProcStates]
      /\ store[t] \in {"running", "failed"}
      /\ \A u \in Tasks : store[u] = "queued" <=>
                            u \in unspawned \/ \E i \in DOMAIN queue : queue[i] = u
  BY DEF Consistent
<1>2. Cardinality(running \ {t}) <= MaxConcurrency
  <2>1. /\ IsFiniteSet(running) /\ Cardinality(running) \in Nat
        /\ Cardinality(running \ {t}) \in Nat
    BY <1>1, SetOfTasks
  <2>2. Cardinality(running \ {t}) <= Cardinality(running)
    BY <2>1, FS_Subset
  <2>. QED
    BY <2>1, <2>2, PoolAssumption DEF Consistent
<1> DEFINE s == [store EXCEPT ![t] = v]
<1>3. \A u \in Tasks : s[u] = IF u = t THEN v ELSE store[u]
  BY <1>1
<1>4. \A u \in Tasks : s[u] = "queued" <=>
                         u \in unspawned \/ \E i \in DOMAIN queue : queue[i] = u
  BY <1>1, <1>3 DEF Settled
<1>5. \A u \in Tasks : s[u] = "running" <=> u \in running \ {t}
  BY <1>3 DEF Settled, Consistent
<1>6. s \in [Tasks -> TaskStates]
  BY <1>1 DEF Settled, TaskStates
<1>. QED
  BY <1>1, <1>2, <1>3, <1>4, <1>5, <1>6 DEF Consistent

(* The rest of the invariant after such a callback. *)
LEMMA SettleIInv ==
  ASSUME IInv, NEW t \in Tasks, proc[t] # "none",
         NEW STATE v, v \in Settled, NEW STATE x, x \in ProcStates,
         x # "none" => v = "failed",
         ProcessQueue(queue, running \ {t}, [store EXCEPT ![t] = v],
                      [proc EXCEPT ![t] = x], timers \ {t}),
         UNCHANGED <<recordVars, shutdownVars>>
  PROVE  IInv'
<1> DEFINE r == running \ {t}
           s == [store EXCEPT ![t] = v]
           c == [proc EXCEPT ![t] = x]
           m == timers \ {t}
<1>1. Consistent(queue, r, s, c, m, unspawned)
  BY SettleConsistent DEF IInv
<1> HIDE DEF r, s, c, m
<1>2. ProcessQueue(queue, r, s, c, m)
  BY DEF r, s, c, m
<1>3. /\ Consistent(queue', running', store', proc', timers', unspawned)
      /\ ~shutdownInProgress /\ queue' # <<>> =>
           Cardinality(running') = MaxConcurrency
      /\ queue = <<>> => queue' = <<>>
      /\ \A p \in [Tasks -> Priorities] : Sorted(queue, p) => Sorted(queue', p)
      /\ \A u \in Tasks : store'[u] = "none" <=> s[u] = "none"
  BY <1>1, <1>2, ProcessQueueConsistent
<1>4. /\ nextId' = nextId /\ prio' = prio /\ unspawned' = unspawned
      /\ shutdownInProgress' = shutdownInProgress /\ staleGraces' = staleGraces
  BY DEF recordVars, shutdownVars
<1>5. Sorted(queue', prio')
  BY <1>3, <1>4 DEF IInv
<1>6. FreshIds'
  <2>1. \A u \in Tasks : s[u] = "none" <=> store[u] = "none"
    BY DEF s, IInv, Consistent, Settled
  <2>. QED
    BY <1>3, <1>4, <2>1 DEF FreshIds, IInv
<1>7. NoLostWakeup'
  BY <1>3, <1>4 DEF NoLostWakeup, IInv
<1>. QED
  BY <1>3, <1>4, <1>5, <1>6, <1>7 DEF IInv

(* submit() creates a record and inserts the task: what it hands to        *)
(* _processQueue is a consistent pool with one more task in its queue.     *)
LEMMA SubmitInserts ==
  ASSUME IInv, NEW p \in Priorities, nextId < MaxTasks,
         prio' = [prio EXCEPT ![nextId] = p]
  PROVE  LET Q == Insert(queue, nextId, p)
             s == [store EXCEPT ![nextId] = "queued"]
         IN  /\ Consistent(Q, running, s, proc, timers, unspawned)
             /\ Sorted(Q, prio') /\ prio' \in [Tasks -> Priorities]
             /\ {Q[i] : i \in DOMAIN Q} = Queued \cup {nextId}
             /\ nextId \in Tasks /\ store[nextId] = "none"
<1> DEFINE t == nextId
           Q == Insert(queue, t, p)
           s == [store EXCEPT ![t] = "queued"]
           pr == [prio EXCEPT ![t] = p]
<1>1. /\ queue \in Seq(Tasks) /\ store \in [Tasks -> TaskStates]
      /\ prio \in [Tasks -> Priorities] /\ proc \in [Tasks -> ProcStates]
      /\ \A i, j \in DOMAIN queue : queue[i] = queue[j] => i = j
      /\ Sorted(queue, prio)
  BY DEF IInv, Consistent
<1>2. t \in Tasks /\ t \in Nat /\ t + 1 \in 0 .. MaxTasks
  BY PoolAssumption DEF IInv, Tasks
<1>3. store[t] = "none"
  BY <1>2 DEF IInv, FreshIds
<1>4. \A i \in DOMAIN queue : queue[i] < t
  <2> TAKE i \in DOMAIN queue
  <2>1. queue[i] \in Tasks /\ store[queue[i]] = "queued"
    BY <1>1 DEF IInv, Consistent
  <2>2. queue[i] \in Nat /\ ~(queue[i] >= t)
    BY <2>1, TasksFinite DEF IInv, FreshIds
  <2>. QED
    BY <1>2, <2>2
<1>5. /\ Q \in Seq(Tasks)
      /\ \A u \in Tasks : (\E i \in DOMAIN Q : Q[i] = u) <=>
                            u = t \/ \E i \in DOMAIN queue : queue[i] = u
      /\ \A i, j \in DOMAIN Q : Q[i] = Q[j] => i = j
      /\ Sorted(Q, pr)
  BY <1>1, <1>2, <1>4, InsertSorted
<1>6. \A u \in Tasks : s[u] = IF u = t THEN "queued" ELSE store[u]
  BY <1>1
<1> HIDE DEF Q
<1>7. Consistent(Q, running, s, proc, timers, unspawned)
  <2>1. \A u \in Tasks : s[u] = "queued" <=>
                            u \in unspawned \/ \E i \in DOMAIN Q : Q[i] = u
    BY <1>5, <1>6 DEF IInv, Consistent
  <2>5. t \notin unspawned /\ unspawned \in SUBSET Tasks
    BY <1>2, <1>3 DEF IInv, Consistent
  <2>6. \A i \in DOMAIN Q : Q[i] \notin unspawned
    BY <1>5, <2>5 DEF IInv, Consistent
  <2>2. \A u \in Tasks : s[u] = "running" <=> u \in running
    BY <1>3, <1>6 DEF IInv, Consistent
  <2>3. \A u \in Tasks : proc[u] # "none" => s[u] \in {"running", "failed"}
    BY <1>3, <1>6 DEF IInv, Consistent
  <2>4. s \in [Tasks -> TaskStates]
    BY <1>1 DEF TaskStates
  <2>. HIDE DEF s
  <2>. QED
    BY <1>5, <2>1, <2>2, <2>3, <2>4, <2>5, <2>6 DEF IInv, Consistent
<1>8. {Q[i] : i \in DOMAIN Q} = Queued \cup {t}
  <2>1. \A i \in DOMAIN Q : Q[i] \in Tasks
    BY <1>5
  <2>2. \A i \in DOMAIN queue : queue[i] \in Tasks
    BY <1>1
  <2>3. \A u \in Tasks : u \in {Q[i] : i \in DOMAIN Q} <=> u \in Queued \cup {t}
    BY <1>5 DEF Queued
  <2>. QED
    BY <1>2, <2>1, <2>2, <2>3 DEF Queued
<1>9. prio' = pr /\ pr \in [Tasks -> Priorities]
  BY <1>1
<1>. QED
  BY <1>2, <1>3, <1>5, <1>7, <1>8, <1>9 DEF Q

(* What _processQueue makes of it.  No settled record is revised. *)
LEMMA SubmitStep ==
  ASSUME IInv, NEW p \in Priorities, Submit(p)
  PROVE  /\ IInv'
         /\ \A u \in Tasks : store[u] \in Settled => store'[u] = store[u]
<1> DEFINE t == nextId
           Q == Insert(queue, t, p)
           s == [store EXCEPT ![t] = "queued"]
<1>1. /\ Consistent(Q, running, s, proc, timers, unspawned)
      /\ Sorted(Q, prio') /\ prio' \in [Tasks -> Priorities]
      /\ t \in Tasks /\ store[t] = "none"
  BY SubmitInserts DEF Submit
<1>2. ProcessQueue(Q, running, s, proc, timers)
  BY DEF Submit
<1>3. \A u \in Tasks : s[u] = IF u = t THEN "queued" ELSE store[u]
  BY DEF IInv, Consistent
<1> HIDE DEF Q, s
<1>4. /\ Consistent(queue', running', store', proc', timers', unspawned)
      /\ ~shutdownInProgress /\ queue' # <<>> =>
           Cardinality(running') = MaxConcurrency
      /\ \A f \in [Tasks -> Priorities] : Sorted(Q, f) => Sorted(queue', f)
      /\ \A u \in Tasks : store'[u] = "none" <=> s[u] = "none"
      /\ \A u \in Tasks : s[u] # "queued" => store'[u] = s[u]
  BY <1>1, <1>2, ProcessQueueConsistent
<1>5. nextId' = t + 1 /\ t \in Nat /\ nextId' \in 0 .. MaxTasks
  BY PoolAssumption DEF Submit, IInv
<1>6. /\ ~shutdownInProgress /\ shutdownInProgress' = shutdownInProgress
      /\ staleGraces' = staleGraces /\ unspawned' = unspawned
  BY DEF Submit, shutdownVars
<1>7. FreshIds'
  <2>1. \A u \in Tasks : s[u] = "none" <=> u >= t + 1
    <3> TAKE u \in Tasks
    <3>1. u \in Nat /\ (store[u] = "none" <=> u >= t)
      BY TasksFinite DEF IInv, FreshIds
    <3>. QED
      BY <1>3, <1>5, <3>1
  <2>. QED
    BY <1>4, <1>5, <2>1 DEF FreshIds
<1>8. NoLostWakeup'
  BY <1>4, <1>6 DEF NoLostWakeup
<1>9. \A u \in Tasks : store[u] \in Settled => store'[u] = store[u]
  BY <1>1, <1>3, <1>4 DEF Settled
<1>10. Sorted(queue', prio')
  BY <1>1, <1>4
<1>11. IInv'
  BY <1>1, <1>4, <1>5, <1>6, <1>7, <1>8, <1>10 DEF IInv
<1>. QED
  BY <1>9, <1>11

(* The same of a submit() in which a spawn() throws: the tasks ahead of    *)
(* the one that is lost start, and a task is left waiting beside a free    *)
(* slot only if one waited before, for a child that has still to report.   *)
LEMMA SubmitThrowsStep ==
  ASSUME IInv, NEW p \in Priorities, SubmitThrows(p)
  PROVE  /\ IInv'
         /\ \A u \in Tasks : store[u] \in Settled => store'[u] = store[u]
<1> DEFINE t == nextId
           Q == Insert(queue, t, p)
           s == [store EXCEPT ![t] = "queued"]
<1>1. /\ Consistent(Q, running, s, proc, timers, unspawned)
      /\ Sorted(Q, prio') /\ prio' \in [Tasks -> Priorities]
      /\ {Q[i] : i \in DOMAIN Q} = Queued \cup {t}
      /\ t \in Tasks /\ store[t] = "none"
  BY SubmitInserts DEF SubmitThrows
<1>2. PICK k \in 1 .. Starts(Q, running) :
        /\ StartFirst(k - 1, Without(Q, k), running, s, proc, timers)
        /\ unspawned' = unspawned \cup {Q[k]}
  BY DEF SubmitThrows
<1>3. \A u \in Tasks : s[u] = IF u = t THEN "queued" ELSE store[u]
  BY DEF IInv, Consistent
<1>4. /\ Q \in Seq(Tasks) /\ Len(Q) = Len(queue) + 1 /\ queue \in Seq(Tasks)
      /\ \A i, j \in DOMAIN Q : Q[i] = Q[j] => i = j
  BY <1>1 DEF Consistent, Insert, IInv
<1> HIDE DEF Q, s
<1>5. /\ Starts(Q, running) \in 0 .. Len(Q)
      /\ Cardinality(running) + Starts(Q, running) <= MaxConcurrency
  BY <1>1, <1>4, StartsBounds DEF Consistent
<1>6. Cardinality(running) \in Nat /\ Len(Q) \in Nat /\ MaxConcurrency \in Nat
  BY <1>1, <1>4, SetOfTasks, PoolAssumption DEF Consistent
<1>7. k \in DOMAIN Q /\ k \in Nat /\ k >= 1 /\ k <= Len(Q)
      /\ Cardinality(running) + (k - 1) < MaxConcurrency
  BY <1>4, <1>5, <1>6
<1> DEFINE R == Without(Q, k)
           l == unspawned \cup {Q[k]}
<1>8. /\ R \in Seq(Tasks)
      /\ \A u \in Tasks : (\E i \in DOMAIN R : R[i] = u) <=>
                            u # Q[k] /\ \E i \in DOMAIN Q : Q[i] = u
      /\ \A i, j \in DOMAIN R : R[i] = R[j] => i = j
      /\ \A f \in [Tasks -> Priorities] : Sorted(Q, f) => Sorted(R, f)
      /\ Len(R) = Len(Q) - 1
  <2>1. Len(R) = Len(Q) - 1
    BY <1>6, <1>7 DEF Without
  <2>. QED
    BY <1>4, <1>7, <2>1, WithoutSorted
<1>9. Q[k] \in Tasks
  BY <1>4, <1>7
<1> HIDE DEF R
<1>10. Consistent(R, running, s, proc, timers, l)
  <2>1. l \in SUBSET Tasks
    BY <1>1, <1>9 DEF Consistent
  <2>2. \A i \in DOMAIN R : R[i] \notin l
    <3>1. \A i \in DOMAIN R : R[i] \in Tasks
      BY <1>8
    <3>. QED
      BY <1>1, <1>8, <3>1 DEF Consistent
  <2>3. \A u \in Tasks : s[u] = "queued" <=> u \in l \/ \E i \in DOMAIN R : R[i] = u
    BY <1>1, <1>7, <1>8 DEF Consistent
  <2> HIDE DEF l
  <2>. QED
    BY <1>1, <1>8, <2>1, <2>2, <2>3 DEF Consistent
<1>11. StartFirst(k - 1, R, running, s, proc, timers)
  BY <1>2 DEF R
<1>12. k - 1 \in 0 .. Len(R) /\ Cardinality(running) + (k - 1) <= MaxConcurrency
  BY <1>6, <1>7, <1>8
<1> HIDE DEF l
<1>13. /\ Consistent(queue', running', store', proc', timers', l)
       /\ Len(queue') = Len(R) - (k - 1)
       /\ \A f \in [Tasks -> Priorities] : Sorted(R, f) => Sorted(queue', f)
       /\ \A u \in Tasks : store'[u] = "none" <=> s[u] = "none"
       /\ \A u \in Tasks : s[u] # "queued" =>
            store'[u] = s[u] /\ (proc'[u] = "none" <=> proc[u] = "none")
  BY <1>10, <1>11, <1>12, StartFirstConsistent
<1>14. unspawned' = l
  BY <1>2 DEF l
<1>15. nextId' = t + 1 /\ t \in Nat /\ nextId' \in 0 .. MaxTasks
  BY PoolAssumption DEF SubmitThrows, IInv
<1>16. /\ shutdownInProgress' = shutdownInProgress /\ staleGraces' = staleGraces
       /\ ~shutdownInProgress
  <2>1. Starts(Q, running) # 0
    BY <1>5, <1>6, <1>7
  <2>. QED
    BY <2>1 DEF SubmitThrows, shutdownVars, Starts
<1>17. FreshIds'
  <2>1. \A u \in Tasks : s[u] = "none" <=> u >= t + 1
    <3> TAKE u \in Tasks
    <3>1. u \in Nat /\ (store[u] = "none" <=> u >= t)
      BY TasksFinite DEF IInv, FreshIds
    <3>. QED
      BY <1>3, <1>15, <3>1
  <2>. QED
    BY <1>13, <1>15, <2>1 DEF FreshIds
<1>18. NoLostWakeup'
  <2> SUFFICES ASSUME queue' # <<>>
               PROVE  Live' \ running' # {}
    BY <1>16 DEF NoLostWakeup
  <2>1. Len(queue') # 0
    BY <1>13 DEF Consistent
  <2>2. queue # <<>>
    BY <1>4, <1>6, <1>7, <1>8, <1>13, <2>1
  <2>3. Cardinality(running) # MaxConcurrency
    BY <1>6, <1>7
  <2>4. PICK u \in Live : u \notin running
    BY <2>2, <2>3 DEF IInv, NoLostWakeup
  <2>5. u \in Tasks /\ store[u] = "failed"
    BY <2>4 DEF Live, IInv, Consistent
  <2>6. s[u] = "failed"
    BY <1>1, <1>3, <2>5
  <2>7. store'[u] = "failed" /\ proc'[u] # "none"
    BY <1>13, <2>4, <2>5, <2>6 DEF Live
  <2>. QED
    BY <1>13, <2>5, <2>7 DEF Live, Consistent
<1>19. \A u \in Tasks : store[u] \in Settled => store'[u] = store[u]
  BY <1>1, <1>3, <1>13 DEF Settled
<1>20. Sorted(queue', prio')
  BY <1>1, <1>8, <1>13
<1>21. IInv'
  BY <1>1, <1>13, <1>14, <1>15, <1>16, <1>17, <1>18, <1>20 DEF IInv
<1>. QED
  BY <1>19, <1>21

(* A task is cancelled in the queue: the rest keeps its order. *)
LEMMA CancelQueuedIInv ==
  ASSUME IInv, NEW k \in DOMAIN queue, CancelQueued(k)
  PROVE  IInv'
<1> DEFINE Q == Without(queue, k)
           t == queue[k]
<1>1. /\ queue \in Seq(Tasks) /\ store \in [Tasks -> TaskStates]
      /\ t \in Tasks /\ store[t] = "queued" /\ prio \in [Tasks -> Priorities]
      /\ \A i, j \in DOMAIN queue : queue[i] = queue[j] => i = j
  BY DEF IInv, Consistent
<1>2. /\ Q \in Seq(Tasks)
      /\ \A u \in Tasks : (\E i \in DOMAIN Q : Q[i] = u) <=>
                            u # t /\ \E i \in DOMAIN queue : queue[i] = u
      /\ \A i, j \in DOMAIN Q : Q[i] = Q[j] => i = j
      /\ \A f \in [Tasks -> Priorities] : Sorted(queue, f) => Sorted(Q, f)
  BY <1>1, WithoutSorted
<1> HIDE DEF Q
<1>3. /\ queue' = Q /\ store' = [store EXCEPT ![t] = "cancelled"]
      /\ running' = running /\ proc' = proc /\ timers' = timers
      /\ nextId' = nextId /\ prio' = prio /\ staleGraces' = staleGraces
      /\ shutdownInProgress' = shutdownInProgress /\ unspawned' = unspawned
  BY DEF CancelQueued, Q, recordVars, shutdownVars
<1>4. \A u \in Tasks : store'[u] = IF u = t THEN "cancelled" ELSE store[u]
  BY <1>1, <1>3
<1>7. t \notin unspawned
  BY DEF IInv, Consistent
<1> HIDE DEF t
<1>5. Consistent(queue', running', store', proc', timers', unspawned')
  <2>1. \A u \in Tasks : store'[u] = "queued" <=>
                            u \in unspawned \/ \E i \in DOMAIN queue' : queue'[i] = u
    BY <1>2, <1>3, <1>4, <1>7 DEF IInv, Consistent
  <2>5. \A i \in DOMAIN queue' : queue'[i] \notin unspawned
    BY <1>2, <1>3 DEF IInv, Consistent
  <2>2. store' \in [Tasks -> TaskStates]
    BY <1>1, <1>3 DEF TaskStates
  <2>3. \A u \in Tasks : store'[u] = "running" <=> u \in running
    BY <1>1, <1>4 DEF IInv, Consistent
  <2>4. \A u \in Tasks : proc[u] # "none" => store'[u] \in {"running", "failed"}
    BY <1>1, <1>4 DEF IInv, Consistent
  <2>. QED
    BY <1>2, <1>3, <2>1, <2>2, <2>3, <2>4, <2>5 DEF IInv, Consistent
<1>6. queue # <<>>
  BY DEF IInv, Consistent
<1>9. NoLostWakeup'
  BY <1>3, <1>6 DEF IInv, NoLostWakeup, Live
<1>8. FreshIds'
  BY <1>1, <1>3, <1>4 DEF IInv, FreshIds
<1>. QED
  BY <1>1, <1>2, <1>3, <1>5, <1>8, <1>9 DEF IInv

(* A task is sent SIGTERM: nothing but its child is touched. *)
LEMMA CancelRunningIInv ==
  ASSUME IInv, NEW t \in Tasks, CancelRunning(t)
  PROVE  IInv'
<1>1. /\ proc \in [Tasks -> ProcStates] /\ proc[t] = "up"
      /\ proc' = [proc EXCEPT ![t] = "termed"]
      /\ queue' = queue /\ running' = running /\ store' = store /\ timers' = timers
      /\ nextId' = nextId /\ prio' = prio /\ staleGraces' = staleGraces
      /\ shutdownInProgress' = shutdownInProgress /\ unspawned' = unspawned
  BY DEF CancelRunning, recordVars, shutdownVars, IInv, Consistent
<1>2. \A u \in Tasks : proc'[u] # "none" <=> proc[u] # "none"
  BY <1>1
<1>3. proc' \in [Tasks -> ProcStates]
  BY <1>1 DEF ProcStates
<1>4. Consistent(queue', running', store', proc', timers', unspawned')
  BY <1>1, <1>2, <1>3 DEF IInv, Consistent
<1>5. Live' = Live
  BY <1>2 DEF Live
<1>6. NoLostWakeup'
  BY <1>1, <1>5 DEF IInv, NoLostWakeup
<1>7. FreshIds' /\ Sorted(queue', prio')
  BY <1>1 DEF IInv, FreshIds, Sorted
<1>. QED
  BY <1>1, <1>4, <1>6, <1>7 DEF IInv

(* A child ends, in its slot or after it has lost it. *)
LEMMA ExitIInv ==
  ASSUME IInv, NEW t \in Tasks, NEW how \in ExitCodes, Exit(t, how)
  PROVE  IInv'
<1>1. proc[t] # "none" /\ store[t] \in {"running", "failed"}
  BY DEF Exit, Live, IInv, Consistent
<1>2. RecordAtExit(t, how) \in Settled
  BY <1>1 DEF RecordAtExit, ExitCodes, Settled
<1>3. ProcessQueue(queue, running \ {t}, [store EXCEPT ![t] = RecordAtExit(t, how)],
                   [proc EXCEPT ![t] = "none"], timers \ {t})
  BY DEF Exit
<1>4. UNCHANGED <<recordVars, shutdownVars>>
  BY DEF Exit
<1>. QED
  BY <1>1, <1>2, <1>3, <1>4, SettleIInv DEF ProcStates

(* A spawn fails. *)
LEMMA SpawnErrorIInv ==
  ASSUME IInv, NEW t \in Tasks, SpawnError(t)
  PROVE  IInv'
<1>1. proc[t] # "none"
  BY DEF SpawnError
<1>2. ProcessQueue(queue, running \ {t}, [store EXCEPT ![t] = "failed"],
                   [proc EXCEPT ![t] = "none"], timers \ {t})
  BY DEF SpawnError
<1>3. UNCHANGED <<recordVars, shutdownVars>>
  BY DEF SpawnError
<1>. QED
  BY <1>1, <1>2, <1>3, SettleIInv DEF ProcStates, Settled

(* A task runs out of time and loses its slot. *)
LEMMA TimeoutIInv ==
  ASSUME IInv, NEW t \in Tasks, Timeout(t)
  PROVE  IInv'
<1> DEFINE x == IF proc[t] = "killed" THEN "killed" ELSE "termed"
<1>1. proc[t] # "none" /\ proc \in [Tasks -> ProcStates]
  BY DEF Timeout, IInv, Consistent
<1>2. ProcessQueue(queue, running \ {t}, [store EXCEPT ![t] = "failed"],
                   [proc EXCEPT ![t] = x], timers \ {t})
  BY DEF Timeout
<1>3. UNCHANGED <<recordVars, shutdownVars>>
  BY DEF Timeout
<1>4. x \in ProcStates
  BY DEF ProcStates
<1> HIDE DEF x
<1>. QED
  BY <1>1, <1>2, <1>3, <1>4, SettleIInv DEF Settled

(* A shutdown cancels the queue. *)
LEMMA ShutdownIInv ==
  ASSUME IInv, Shutdown
  PROVE  IInv'
<1>1. /\ queue' = <<>>
      /\ store' = [t \in Tasks |-> IF t \in Queued THEN "cancelled" ELSE store[t]]
      /\ running' = running /\ proc' = proc /\ timers' = timers
      /\ nextId' = nextId /\ prio' = prio /\ staleGraces' = staleGraces
      /\ unspawned' = unspawned
  BY DEF Shutdown, recordVars
<1>2. shutdownInProgress' \in BOOLEAN
  BY DEF Shutdown
<1>3. /\ \A t \in Tasks : store[t] = "queued" <=> t \in Queued \cup unspawned
      /\ Queued \cap unspawned = {}
  BY DEF Queued, IInv, Consistent
<1> HIDE DEF Queued
<1>4. Consistent(queue', running', store', proc', timers', unspawned')
  <2>1. store' \in [Tasks -> TaskStates]
    BY <1>1 DEF IInv, Consistent, TaskStates
  <2>2. \A t \in Tasks : store'[t] = "queued" <=> t \in unspawned
    BY <1>1, <1>3
  <2>3. \A t \in Tasks : store'[t] = "running" <=> t \in running
    BY <1>1, <1>3 DEF IInv, Consistent
  <2>4. \A t \in Tasks : proc[t] # "none" => store'[t] \in {"running", "failed"}
    BY <1>1, <1>3 DEF IInv, Consistent
  <2>5. \A t \in Tasks : store'[t] = "queued" <=>
                            t \in unspawned \/ \E i \in DOMAIN queue' : queue'[i] = t
    BY <1>1, <2>2
  <2>6. queue' \in Seq(Tasks) /\ \A i, j \in DOMAIN queue' : queue'[i] = queue'[j] => i = j
    BY <1>1
  <2>. QED
    BY <1>1, <2>1, <2>3, <2>4, <2>5, <2>6 DEF IInv, Consistent
<1>5. FreshIds'
  BY <1>1, <1>3 DEF IInv, FreshIds
<1>6. Sorted(queue', prio') /\ NoLostWakeup'
  BY <1>1 DEF Sorted, NoLostWakeup
<1>. QED
  BY <1>1, <1>2, <1>4, <1>5, <1>6 DEF IInv

(* A shutdown finds the pool empty. *)
LEMMA DrainDoneIInv ==
  ASSUME IInv, DrainDone
  PROVE  IInv'
<1>1. /\ queue' = queue /\ running' = running /\ store' = store
      /\ proc' = proc /\ timers' = timers /\ nextId' = nextId /\ prio' = prio
      /\ staleGraces' = staleGraces + 1 /\ unspawned' = unspawned
  BY DEF DrainDone, recordVars, poolVars
<1>2. shutdownInProgress' \in BOOLEAN
  BY DEF DrainDone
<1>3. Consistent(queue', running', store', proc', timers', unspawned')
  BY <1>1 DEF IInv, Consistent
<1>4. FreshIds' /\ Sorted(queue', prio')
  BY <1>1 DEF IInv, FreshIds, Sorted
<1>5. NoLostWakeup'
  BY <1>1 DEF IInv, NoLostWakeup, DrainDone
<1>6. staleGraces' \in Nat
  BY <1>1 DEF IInv
<1>. QED
  BY <1>1, <1>2, <1>3, <1>4, <1>5, <1>6 DEF IInv

(* Both grace timers: the killed children are still to report, so a queue  *)
(* left behind will be processed.                                          *)
LEMMA KillRunningIInv ==
  ASSUME IInv, KillRunning, staleGraces' \in Nat,
         shutdownInProgress' \in BOOLEAN, queue # <<>> => ~shutdownInProgress'
  PROVE  IInv'
<1>1. /\ store' = [t \in Tasks |-> IF t \in running THEN "failed" ELSE store[t]]
      /\ proc' = [t \in Tasks |-> IF t \in running THEN "killed" ELSE proc[t]]
      /\ running' = {} /\ queue' = queue /\ timers' = timers
      /\ nextId' = nextId /\ prio' = prio /\ unspawned' = unspawned
  BY DEF KillRunning, recordVars
<1>2. Consistent(queue', running', store', proc', timers', unspawned')
  <2>1. store' \in [Tasks -> TaskStates] /\ proc' \in [Tasks -> ProcStates]
    BY <1>1 DEF IInv, Consistent, TaskStates, ProcStates
  <2>2. \A t \in Tasks : store'[t] = "queued" <=> store[t] = "queued"
    BY <1>1 DEF IInv, Consistent
  <2>3. \A t \in Tasks : store'[t] # "running"
    BY <1>1 DEF IInv, Consistent
  <2>4. \A t \in Tasks : proc'[t] # "none" => store'[t] \in {"running", "failed"}
    BY <1>1 DEF IInv, Consistent
  <2>5. \A t \in timers : proc'[t] # "none"
    BY <1>1 DEF IInv, Consistent
  <2>6. Cardinality(running') <= MaxConcurrency
    BY <1>1, FS_EmptySet, PoolAssumption
  <2>. QED
    BY <1>1, <2>1, <2>2, <2>3, <2>4, <2>5, <2>6 DEF IInv, Consistent
<1>3. FreshIds' /\ Sorted(queue', prio')
  BY <1>1 DEF IInv, FreshIds, Sorted, Consistent
<1>4. NoLostWakeup'
  <2> SUFFICES ASSUME queue # <<>>
               PROVE  Live' \ running' # {}
    BY <1>1 DEF NoLostWakeup
  <2>1. CASE Cardinality(running) = MaxConcurrency
    <3>1. running # {}
      BY <2>1, FS_EmptySet, PoolAssumption
    <3>. QED
      BY <1>1, <3>1 DEF Live, IInv, Consistent
  <2>2. CASE Live \ running # {}
    BY <1>1, <2>2 DEF Live
  <2>. QED
    BY <2>1, <2>2 DEF IInv, NoLostWakeup
<1>. QED
  BY <1>1, <1>2, <1>3, <1>4 DEF IInv

(* The grace timer of the shutdown in progress. *)
LEMMA GraceExpiresIInv ==
  ASSUME IInv, GraceExpires
  PROVE  IInv'
<1>1. KillRunning /\ staleGraces' = staleGraces
  BY DEF GraceExpires
<1>2. shutdownInProgress' = FALSE
  BY DEF GraceExpires
<1>3. staleGraces' \in Nat
  BY <1>1 DEF IInv
<1>. QED
  BY <1>1, <1>2, <1>3, KillRunningIInv

(* The grace timer of an earlier shutdown. *)
LEMMA StaleGraceExpiresIInv ==
  ASSUME IInv, StaleGraceExpires
  PROVE  IInv'
<1>1. KillRunning /\ staleGraces' = staleGraces - 1 /\ staleGraces > 0
  BY DEF StaleGraceExpires
<1>2. shutdownInProgress' = shutdownInProgress
  BY DEF StaleGraceExpires
<1>3. staleGraces' \in Nat
  BY <1>1 DEF IInv
<1>4. shutdownInProgress' \in BOOLEAN /\ (queue # <<>> => ~shutdownInProgress')
  BY <1>2 DEF IInv, NoLostWakeup
<1>. QED
  BY <1>1, <1>3, <1>4, KillRunningIInv

(* Every step keeps the invariant. *)
LEMMA NextIInv == IInv /\ [Next]_vars => IInv'
<1> SUFFICES ASSUME IInv, [Next]_vars
             PROVE  IInv'
  OBVIOUS
<1>1. CASE \E p \in Priorities : Submit(p)
  BY <1>1, SubmitStep
<1>12. CASE \E p \in Priorities : SubmitThrows(p)
  BY <1>12, SubmitThrowsStep
<1>2. CASE \E k \in DOMAIN queue : CancelQueued(k)
  BY <1>2, CancelQueuedIInv
<1>3. CASE \E t \in Tasks : CancelRunning(t)
  BY <1>3, CancelRunningIInv
<1>4. CASE \E t \in Tasks, how \in ExitCodes : Exit(t, how)
  BY <1>4, ExitIInv
<1>5. CASE \E t \in Tasks : SpawnError(t)
  BY <1>5, SpawnErrorIInv
<1>6. CASE \E t \in Tasks : Timeout(t)
  BY <1>6, TimeoutIInv
<1>7. CASE Shutdown
  BY <1>7, ShutdownIInv
<1>8. CASE DrainDone
  BY <1>8, DrainDoneIInv
<1>9. CASE GraceExpires
  BY <1>9, GraceExpiresIInv
<1>10. CASE StaleGraceExpires
  BY <1>10, StaleGraceExpiresIInv
<1>11. CASE UNCHANGED vars
  BY <1>11 DEF vars, IInv, Consistent, Sorted, FreshIds, NoLostWakeup, Live
<1>. QED
  BY <1>1, <1>2, <1>3, <1>4, <1>5, <1>6, <1>7, <1>8, <1>9, <1>10, <1>11, <1>12
  DEF Next

(* The inductive invariant holds in every behaviour. *)
LEMMA AlwaysIInv == Spec => []IInv
  BY InitIInv, NextIInv, PTL DEF Spec

-----------------------------------------------------------------------------
(* Type correctness of every reachable state. *)
THEOREM TypeCorrect == Spec => []TypeOK
<1>1. IInv => TypeOK
  BY DEF IInv, Consistent, TypeOK
<1>. QED
  BY <1>1, AlwaysIInv, PTL

(* Queue, running map, children, timers and records always agree. *)
THEOREM TrackedAgree == Spec => []TrackedMatchesStore
<1>1. IInv => TrackedMatchesStore
  BY DEF IInv, Consistent, TrackedMatchesStore, Queued, Live
<1>. QED
  BY <1>1, AlwaysIInv, PTL

(* The pool never tracks more running tasks than its limit. *)
THEOREM PoolBounded == Spec => []RunningBounded
<1>1. IInv => RunningBounded
  BY DEF IInv, Consistent, RunningBounded
<1>. QED
  BY <1>1, AlwaysIInv, PTL

(* The queue is always sorted by priority and submission. *)
THEOREM QueueSorted == Spec => []QueueOrdered
<1>1. IInv => QueueOrdered
  BY DEF IInv, Sorted, QueueOrdered, Before
<1>. QED
  BY <1>1, AlwaysIInv, PTL

(* No wake-up of the queue is lost, in spite of timers that free slots and *)
(* start nothing.                                                          *)
THEOREM WakeupsKept == Spec => []NoLostWakeup
<1>1. IInv => NoLostWakeup
  BY DEF IInv
<1>. QED
  BY <1>1, AlwaysIInv, PTL

-----------------------------------------------------------------------------
(* One step of SettledIsFinal. *)
FinalStep ==
  \A t \in Tasks :
    store[t] \in Settled /\ store'[t] # store[t] =>
      store[t] = "failed" /\ t \in Live \ running /\ t \notin Live'

(* A callback that settles t with ProcessQueue revises no settled record   *)
(* but that of t, and then only if t has a child and fails or ends.        *)
LEMMA SettleFinal ==
  ASSUME IInv, NEW t \in Tasks, proc[t] # "none",
         NEW STATE v, v \in Settled, NEW STATE x, x \in ProcStates,
         x # "none" => v = "failed",
         ProcessQueue(queue, running \ {t}, [store EXCEPT ![t] = v],
                      [proc EXCEPT ![t] = x], timers \ {t})
  PROVE  FinalStep
<1> DEFINE s == [store EXCEPT ![t] = v]
           c == [proc EXCEPT ![t] = x]
<1>1. Consistent(queue, running \ {t}, s, c, timers \ {t}, unspawned)
  BY SettleConsistent DEF IInv
<1>2. \A u \in Tasks : s[u] # "queued" =>
        store'[u] = s[u] /\ (proc'[u] = "none" <=> c[u] = "none")
  <2>. HIDE DEF s, c
  <2>1. ProcessQueue(queue, running \ {t}, s, c, timers \ {t})
    BY DEF s, c
  <2>. QED
    BY <1>1, <2>1, ProcessQueueConsistent
<1>3. /\ \A u \in Tasks : s[u] = IF u = t THEN v ELSE store[u]
      /\ \A u \in Tasks : c[u] = IF u = t THEN x ELSE proc[u]
      /\ store[t] \in {"running", "failed"}
      /\ \A u \in Tasks : store[u] = "running" <=> u \in running
  BY DEF IInv, Consistent
<1> HIDE DEF s, c
<1> SUFFICES ASSUME NEW u \in Tasks, store[u] \in Settled, store'[u] # store[u]
             PROVE  store[u] = "failed" /\ u \in Live \ running /\ u \notin Live'
  BY DEF FinalStep
<1>4. s[u] # "queued"
  BY <1>3 DEF Settled
<1>5. u = t
  BY <1>2, <1>3, <1>4
<1>6. store[t] = "failed" /\ t \notin running
  BY <1>3, <1>5 DEF Settled
<1>7. v # "failed"
  BY <1>2, <1>3, <1>4, <1>5, <1>6
<1>8. proc'[t] = "none"
  BY <1>2, <1>3, <1>4, <1>5, <1>7
<1>. QED
  BY <1>5, <1>6, <1>8 DEF Live

(* Completed and cancelled records are final, and a failed one is revised  *)
(* only by the late exit of a child that had lost its slot.                *)
THEOREM SettledRecordsAreFinal == Spec => SettledIsFinal
<1>1. IInv /\ [Next]_vars => [FinalStep]_vars
  <2> SUFFICES ASSUME IInv, Next
               PROVE  FinalStep
    OBVIOUS
  <2>1. CASE \E p \in Priorities : Submit(p)
    <3>1. PICK p \in Priorities : Submit(p)
      BY <2>1
    <3>2. \A t \in Tasks : store[t] \in Settled => store'[t] = store[t]
      BY <3>1, SubmitStep
    <3>. QED
      BY <3>2 DEF FinalStep
  <2>10. CASE \E p \in Priorities : SubmitThrows(p)
    BY <2>10, SubmitThrowsStep DEF FinalStep
  <2>2. CASE \E k \in DOMAIN queue : CancelQueued(k)
    BY <2>2 DEF CancelQueued, FinalStep, IInv, Consistent, Settled
  <2>3. CASE \E t \in Tasks : CancelRunning(t)
    BY <2>3 DEF CancelRunning, FinalStep
  <2>4. CASE \E t \in Tasks, how \in ExitCodes : Exit(t, how)
    <3>1. PICK t \in Tasks, how \in ExitCodes : Exit(t, how)
      BY <2>4
    <3>2. proc[t] # "none" /\ store[t] \in {"running", "failed"}
      BY <3>1 DEF Exit, Live, IInv, Consistent
    <3>3. RecordAtExit(t, how) \in Settled
      BY <3>2 DEF RecordAtExit, ExitCodes, Settled
    <3>4. ProcessQueue(queue, running \ {t},
                       [store EXCEPT ![t] = RecordAtExit(t, how)],
                       [proc EXCEPT ![t] = "none"], timers \ {t})
      BY <3>1 DEF Exit
    <3>. QED
      BY <3>2, <3>3, <3>4, SettleFinal DEF ProcStates
  <2>5. CASE \E t \in Tasks : SpawnError(t)
    <3>1. PICK t \in Tasks : SpawnError(t)
      BY <2>5
    <3>2. /\ proc[t] # "none"
          /\ ProcessQueue(queue, running \ {t}, [store EXCEPT ![t] = "failed"],
                          [proc EXCEPT ![t] = "none"], timers \ {t})
      BY <3>1 DEF SpawnError
    <3>. QED
      BY <3>2, SettleFinal DEF ProcStates, Settled
  <2>6. CASE \E t \in Tasks : Timeout(t)
    <3>1. PICK t \in Tasks : Timeout(t)
      BY <2>6
    <3> DEFINE x == IF proc[t] = "killed" THEN "killed" ELSE "termed"
    <3>2. proc[t] # "none" /\ x \in ProcStates
      BY <3>1 DEF Timeout, IInv, Consistent, ProcStates
    <3>3. ProcessQueue(queue, running \ {t}, [store EXCEPT ![t] = "failed"],
                       [proc EXCEPT ![t] = x], timers \ {t})
      BY <3>1 DEF Timeout
    <3> HIDE DEF x
    <3>. QED
      BY <3>2, <3>3, SettleFinal DEF Settled
  <2>7. CASE Shutdown
    <3>1. \A t \in Tasks : t \in Queued => store[t] = "queued"
      BY DEF Queued, IInv, Consistent
    <3>. QED
      BY <2>7, <3>1 DEF Shutdown, FinalStep, Settled
  <2>8. CASE DrainDone
    BY <2>8 DEF DrainDone, poolVars, FinalStep
  <2>9. CASE KillRunning
    <3>1. \A t \in running : store[t] = "running"
      BY DEF IInv, Consistent
    <3>. QED
      BY <2>9, <3>1 DEF KillRunning, FinalStep, Settled
  <2>. QED
    BY <2>1, <2>2, <2>3, <2>4, <2>5, <2>6, <2>7, <2>8, <2>9, <2>10
    DEF Next, GraceExpires, StaleGraceExpires
<1>2. SettledIsFinal <=> [][FinalStep]_vars
  BY DEF SettledIsFinal, FinalStep
<1>. QED
  BY <1>1, <1>2, AlwaysIInv, PTL DEF Spec

-----------------------------------------------------------------------------
(* The first tasks of the queue are tasks a pool may start: they wait,     *)
(* they fit, and each comes before every task left waiting.                *)
LEMMA StartFirstStarts ==
  ASSUME NEW STATE q, NEW STATE r, NEW STATE s, NEW STATE c, NEW STATE m,
         NEW STATE l, NEW STATE n,
         Consistent(q, r, s, c, m, l), StartFirst(n, q, r, s, c, m),
         n \in 0 .. Len(q), Cardinality(r) + n <= MaxConcurrency,
         prio' \in [Tasks -> Priorities], Sorted(q, prio')
  PROVE  LET B == {q[i] : i \in 1 .. n}
             W == {q[i] : i \in DOMAIN q}
         IN  /\ B \in SUBSET W
             /\ Cardinality(r \cup B) = Cardinality(r) + n
             /\ \A b \in B, u \in W \ B :
                  prio'[b] > prio'[u] \/ (prio'[b] = prio'[u] /\ b < u)
             /\ Queued' = W \ B
             /\ running' = r \cup B
<1> DEFINE heads == {q[i] : i \in 1 .. n}
           W == {q[i] : i \in DOMAIN q}
<1>1. /\ q \in Seq(Tasks) /\ r \in SUBSET Tasks
      /\ \A i, j \in DOMAIN q : q[i] = q[j] => i = j
  BY DEF Consistent
<1>2. n \in 0 .. Len(q)
  OBVIOUS
<1>3. /\ queue' = [i \in 1 .. Len(q) - n |-> q[i + n]]
      /\ running' = r \cup heads
  BY DEF StartFirst
<1>4. Len(q) \in Nat /\ DOMAIN q = 1 .. Len(q) /\ n \in Nat
  BY <1>1, <1>2
<1>5. DOMAIN queue' = 1 .. Len(q) - n
  BY <1>3
<1>6. heads \in SUBSET W
  BY <1>2, <1>4
<1>7. Cardinality(r \cup heads) = Cardinality(r) + n
  BY <1>3, StartFirstConsistent
<1>8. \A u \in W \ heads : \E j \in DOMAIN q : j > n /\ u = q[j]
  BY <1>4
<1>9. \A b \in heads, u \in W \ heads :
        prio'[b] > prio'[u] \/ (prio'[b] = prio'[u] /\ b < u)
  <2> SUFFICES ASSUME NEW b \in heads, NEW u \in W \ heads
               PROVE  prio'[b] > prio'[u] \/ (prio'[b] = prio'[u] /\ b < u)
    OBVIOUS
  <2>1. PICK i \in 1 .. n : b = q[i]
    OBVIOUS
  <2>2. PICK j \in DOMAIN q : j > n /\ u = q[j]
    BY <1>8
  <2>3. i \in DOMAIN q /\ i < j
    BY <1>2, <1>4, <2>2
  <2>. QED
    BY <2>1, <2>2, <2>3 DEF Sorted
<1>10. Queued' = W \ heads
  <2>1. Queued' = {queue'[i] : i \in DOMAIN queue'}
    BY DEF Queued
  <2>2. \A i \in DOMAIN queue' : i + n \in DOMAIN q /\ queue'[i] = q[i + n]
    BY <1>3, <1>4, <1>5
  <2>3. \A j \in DOMAIN q : j > n =>
          j - n \in DOMAIN queue' /\ queue'[j - n] = q[j]
    BY <1>3, <1>4, <1>5
  <2>4. \A i \in DOMAIN queue' : q[i + n] \notin heads
    BY <1>1, <1>2, <1>4, <1>5
  <2>5. Queued' \subseteq W \ heads
    BY <2>1, <2>2, <2>4
  <2>6. W \ heads \subseteq Queued'
    <3> HIDE DEF heads, W
    <3>. QED
      BY <1>8, <2>1, <2>3
  <2>. QED
    BY <2>5, <2>6
<1>. QED
  BY <1>3, <1>6, <1>7, <1>9, <1>10

(* Those that _processQueue starts are such tasks. *)
LEMMA ProcessQueueStarts ==
  ASSUME NEW STATE q, NEW STATE r, NEW STATE s, NEW STATE c, NEW STATE m,
         NEW STATE l,
         Consistent(q, r, s, c, m, l), ProcessQueue(q, r, s, c, m),
         prio' \in [Tasks -> Priorities], Sorted(q, prio')
  PROVE  \E B \in SUBSET {q[i] : i \in DOMAIN q} :
           /\ Cardinality(r \cup B) <= MaxConcurrency
           /\ \A b \in B, u \in {q[i] : i \in DOMAIN q} \ B :
                prio'[b] > prio'[u] \/ (prio'[b] = prio'[u] /\ b < u)
           /\ Queued' = {q[i] : i \in DOMAIN q} \ B
           /\ running' = r \cup B
<1> DEFINE n == Starts(q, r)
           B == {q[i] : i \in 1 .. n}
           W == {q[i] : i \in DOMAIN q}
<1>1. n \in 0 .. Len(q) /\ Cardinality(r) + n <= MaxConcurrency
  BY StartsBounds DEF Consistent
<1>2. StartFirst(n, q, r, s, c, m)
  BY DEF ProcessQueue
<1> HIDE DEF n
<1>3. /\ B \in SUBSET W
      /\ Cardinality(r \cup B) = Cardinality(r) + n
      /\ \A b \in B, u \in W \ B :
           prio'[b] > prio'[u] \/ (prio'[b] = prio'[u] /\ b < u)
      /\ Queued' = W \ B
      /\ running' = r \cup B
  BY <1>1, <1>2, StartFirstStarts
<1>4. Cardinality(r \cup B) <= MaxConcurrency
  BY <1>1, <1>3
<1> HIDE DEF B
<1>. QED
  BY <1>3, <1>4

(* The tasks the pool calls settled. *)
Gone == (0 .. nextId - 1) \ (Queued \cup running)

(* In a reachable state the tasks in the queue and in the running map were *)
(* submitted, and none is in both.                                         *)
LEMMA KnownTasks ==
  ASSUME IInv
  PROVE  /\ Queued \subseteq 0 .. nextId - 1
         /\ running \subseteq 0 .. nextId - 1
         /\ Queued \cap running = {}
         /\ Queued \subseteq Tasks
<1>1. \A t \in Tasks : t \in Queued => store[t] = "queued"
  BY DEF Queued, IInv, Consistent
<1>2. \A t \in Tasks : t \in running <=> store[t] = "running"
  BY DEF IInv, Consistent
<1>3. Queued \subseteq Tasks /\ running \subseteq Tasks
  BY DEF Queued, IInv, Consistent
<1>4. \A t \in Tasks : store[t] # "none" => t \in 0 .. nextId - 1
  <2> TAKE t \in Tasks
  <2>1. t \in Nat /\ nextId \in Nat
    BY TasksFinite, PoolAssumption DEF IInv
  <2>. QED
    BY <2>1 DEF IInv, FreshIds
<1>. QED
  BY <1>1, <1>2, <1>3, <1>4

(* The abstract pool counts as this module does. *)
LEMMA PoolCardinality == \A S : Pool!Cardinality(S) = Cardinality(S)
  BY DEF Pool!Cardinality, Cardinality

(* A callback that settles t is a Finish step of the pool. *)
LEMMA SettleFinishes ==
  ASSUME IInv, NEW t \in Tasks, proc[t] # "none",
         NEW STATE v, v \in Settled, NEW STATE x, x \in ProcStates,
         x # "none" => v = "failed",
         ProcessQueue(queue, running \ {t}, [store EXCEPT ![t] = v],
                      [proc EXCEPT ![t] = x], timers \ {t}),
         nextId' = nextId, prio' = prio
  PROVE  Pool!Finish(running \cap {t})
<1> DEFINE F == running \cap {t}
<1>1. Consistent(queue, running \ {t}, [store EXCEPT ![t] = v],
                 [proc EXCEPT ![t] = x], timers \ {t}, unspawned)
  BY SettleConsistent DEF IInv
<1>2. PICK B \in SUBSET Queued :
           /\ Cardinality((running \ {t}) \cup B) <= MaxConcurrency
           /\ \A b \in B, u \in Queued \ B :
                prio'[b] > prio'[u] \/ (prio'[b] = prio'[u] /\ b < u)
           /\ Queued' = Queued \ B
           /\ running' = (running \ {t}) \cup B
  <2>1. prio' \in [Tasks -> Priorities] /\ Sorted(queue, prio')
    BY DEF IInv
  <2>. QED
    BY <1>1, <2>1, ProcessQueueStarts DEF Queued
<1>3. running \ {t} = running \ F
  OBVIOUS
<1>4. Pool!StartFrom(B, Queued, running \ F)
  BY <1>2, <1>3, PoolCardinality DEF Pool!StartFrom, Pool!Before
<1>5. Gone' = Gone \cup F
  BY <1>2, KnownTasks DEF Gone
<1>. QED
  BY <1>2, <1>4, <1>5 DEF Pool!Finish, Gone

(* A new task is an Admit step of the pool. *)
LEMMA SubmitAdmits ==
  ASSUME IInv, NEW p \in Priorities, Submit(p)
  PROVE  Pool!Admit(nextId, p) /\ nextId \in Tasks
<1> DEFINE t == nextId
           Q == Insert(queue, t, p)
           s == [store EXCEPT ![t] = "queued"]
           W == {Q[i] : i \in DOMAIN Q}
<1>1. /\ Consistent(Q, running, s, proc, timers, unspawned)
      /\ Sorted(Q, prio') /\ prio' \in [Tasks -> Priorities]
      /\ W = Queued \cup {t} /\ t \in Tasks
  BY SubmitInserts DEF Queued, Submit
<1>2. ProcessQueue(Q, running, s, proc, timers)
  BY DEF Submit
<1> HIDE DEF Q, s
<1>3. PICK B \in SUBSET W :
           /\ Cardinality(running \cup B) <= MaxConcurrency
           /\ \A b \in B, u \in W \ B :
                prio'[b] > prio'[u] \/ (prio'[b] = prio'[u] /\ b < u)
           /\ Queued' = W \ B
           /\ running' = running \cup B
  BY <1>1, <1>2, ProcessQueueStarts
<1> HIDE DEF W
<1>4. Pool!StartFrom(B, Queued \cup {t}, running)
  BY <1>1, <1>3, PoolCardinality DEF Pool!StartFrom, Pool!Before
<1>5. t \notin 0 .. nextId - 1 /\ (0 .. nextId' - 1) = (0 .. nextId - 1) \cup {t}
  BY PoolAssumption DEF IInv, Submit
<1>6. t \notin Queued \cup running \cup Gone
  BY <1>5, KnownTasks DEF Gone
<1>7. Gone' = Gone
  BY <1>1, <1>3, <1>5, KnownTasks DEF Gone
<1>8. prio' = [prio EXCEPT ![t] = p]
  BY DEF Submit
<1>. QED
  BY <1>1, <1>3, <1>4, <1>6, <1>7, <1>8 DEF Pool!Admit, Pool!Enters, Gone

(* A submission in which a spawn() throws is an AdmitLosing step. *)
LEMMA SubmitThrowsLoses ==
  ASSUME IInv, NEW p \in Priorities, SubmitThrows(p)
  PROVE  Pool!AdmitLosing(nextId, p) /\ nextId \in Tasks
<1> DEFINE t == nextId
           Q == Insert(queue, t, p)
           s == [store EXCEPT ![t] = "queued"]
           W == {Q[i] : i \in DOMAIN Q}
<1>1. /\ Consistent(Q, running, s, proc, timers, unspawned)
      /\ Sorted(Q, prio') /\ prio' \in [Tasks -> Priorities]
      /\ W = Queued \cup {t} /\ t \in Tasks
  BY SubmitInserts DEF Queued, SubmitThrows
<1>2. PICK k \in 1 .. Starts(Q, running) :
        StartFirst(k - 1, Without(Q, k), running, s, proc, timers)
  BY DEF SubmitThrows
<1> HIDE DEF Q, s
<1>3. /\ Q \in Seq(Tasks)
      /\ \A i, j \in DOMAIN Q : Q[i] = Q[j] => i = j
      /\ Starts(Q, running) \in 0 .. Len(Q)
      /\ Cardinality(running) + Starts(Q, running) <= MaxConcurrency
      /\ Cardinality(running) \in Nat /\ MaxConcurrency \in Nat
  BY <1>1, StartsBounds, SetOfTasks, PoolAssumption DEF Consistent
<1>4. /\ k \in DOMAIN Q /\ k \in Nat /\ k >= 1 /\ Len(Q) \in Nat
      /\ Cardinality(running) + (k - 1) < MaxConcurrency
  BY <1>3
<1> DEFINE R == Without(Q, k)
           x == Q[k]
           B == {R[i] : i \in 1 .. k - 1}
<1>5. R = [i \in 1 .. Len(Q) - 1 |-> IF i < k THEN Q[i] ELSE Q[i + 1]]
  BY DEF Without
<1>6. /\ R \in Seq(Tasks)
      /\ \A u \in Tasks : (\E i \in DOMAIN R : R[i] = u) <=>
                            u # x /\ \E i \in DOMAIN Q : Q[i] = u
      /\ \A i, j \in DOMAIN R : R[i] = R[j] => i = j
      /\ Sorted(R, prio')
  BY <1>1, <1>3, <1>4, WithoutSorted
<1>7. Len(R) = Len(Q) - 1 /\ DOMAIN R = 1 .. Len(Q) - 1
  BY <1>4, <1>5, <1>6
<1>8. x \in Tasks /\ x \in W
  BY <1>3, <1>4
<1> HIDE DEF R
<1>9. Consistent(R, running, s, proc, timers, unspawned \cup {x})
  <2>1. unspawned \cup {x} \in SUBSET Tasks
    BY <1>1, <1>8 DEF Consistent
  <2>2. \A i \in DOMAIN R : R[i] \in Tasks
    BY <1>6
  <2>3. \A i \in DOMAIN R : R[i] \notin unspawned \cup {x}
    BY <1>1, <1>6, <2>2 DEF Consistent
  <2>4. \A u \in Tasks : s[u] = "queued" <=>
          u \in unspawned \cup {x} \/ \E i \in DOMAIN R : R[i] = u
    BY <1>1, <1>4, <1>6 DEF Consistent
  <2>. QED
    BY <1>1, <1>6, <2>1, <2>3, <2>4 DEF Consistent
<1>10. StartFirst(k - 1, R, running, s, proc, timers)
  BY <1>2 DEF R
<1>11. k - 1 \in 0 .. Len(R) /\ Cardinality(running) + (k - 1) <= MaxConcurrency
  BY <1>3, <1>4, <1>7
<1>12. {R[i] : i \in DOMAIN R} = W \ {x}
  <2>1. \A u \in Tasks : u \in {R[i] : i \in DOMAIN R} <=> u \in W \ {x}
    BY <1>6
  <2>2. (\A i \in DOMAIN R : R[i] \in Tasks) /\ (\A i \in DOMAIN Q : Q[i] \in Tasks)
    BY <1>3, <1>6
  <2>. QED
    BY <2>1, <2>2
<1>13. /\ B \in SUBSET (W \ {x})
       /\ Cardinality(running \cup B) = Cardinality(running) + (k - 1)
       /\ \A b \in B, u \in (W \ {x}) \ B :
            prio'[b] > prio'[u] \/ (prio'[b] = prio'[u] /\ b < u)
       /\ Queued' = (W \ {x}) \ B
       /\ running' = running \cup B
  <2> DEFINE V == {R[i] : i \in DOMAIN R}
  <2>1. /\ B \in SUBSET V
        /\ Cardinality(running \cup B) = Cardinality(running) + (k - 1)
        /\ \A b \in B, u \in V \ B :
             prio'[b] > prio'[u] \/ (prio'[b] = prio'[u] /\ b < u)
        /\ Queued' = V \ B
        /\ running' = running \cup B
    <3>1. prio' \in [Tasks -> Priorities] /\ Sorted(R, prio')
      BY <1>1, <1>6
    <3> DEFINE n == k - 1
               l == unspawned \cup {x}
    <3>2. /\ Consistent(R, running, s, proc, timers, l)
          /\ StartFirst(n, R, running, s, proc, timers)
          /\ n \in 0 .. Len(R) /\ Cardinality(running) + n <= MaxConcurrency
      BY <1>9, <1>10, <1>11
    <3>3. B = {R[i] : i \in 1 .. n}
      OBVIOUS
    <3> HIDE DEF n, l, B
    <3>4. LET A == {R[i] : i \in 1 .. n}
          IN  /\ A \in SUBSET V
              /\ Cardinality(running \cup A) = Cardinality(running) + n
              /\ \A b \in A, u \in V \ A :
                   prio'[b] > prio'[u] \/ (prio'[b] = prio'[u] /\ b < u)
              /\ Queued' = V \ A
              /\ running' = running \cup A
      BY <3>1, <3>2, StartFirstStarts
    <3> HIDE DEF V
    <3>. QED
      BY <3>3, <3>4 DEF n
  <2> HIDE DEF V, B
  <2>2. V = W \ {x}
    BY <1>12 DEF V
  <2>. QED
    BY <2>1, <2>2
<1>14. \A b \in B : prio'[b] > prio'[x] \/ (prio'[b] = prio'[x] /\ b < x)
  <2> SUFFICES ASSUME NEW b \in B
               PROVE  prio'[b] > prio'[x] \/ (prio'[b] = prio'[x] /\ b < x)
    OBVIOUS
  <2>1. PICK i \in 1 .. k - 1 : b = R[i]
    OBVIOUS
  <2>2. i \in DOMAIN Q /\ i < k /\ b = Q[i]
    BY <1>3, <1>4, <1>5, <2>1
  <2>. QED
    BY <1>1, <1>4, <2>2 DEF Sorted
<1>15. \A u \in Queued' : prio'[x] > prio'[u] \/ (prio'[x] = prio'[u] /\ x < u)
  <2> SUFFICES ASSUME NEW u \in Queued'
               PROVE  prio'[x] > prio'[u] \/ (prio'[x] = prio'[u] /\ x < u)
    OBVIOUS
  <2>1. PICK i \in DOMAIN R : u = R[i] /\ i \notin 1 .. k - 1
    BY <1>12, <1>13
  <2>2. i + 1 \in DOMAIN Q /\ k < i + 1 /\ u = Q[i + 1]
    BY <1>3, <1>4, <1>5, <1>7, <2>1
  <2>. QED
    BY <1>1, <1>4, <2>2 DEF Sorted
<1>16. prio' = [prio EXCEPT ![t] = p] /\ nextId' = nextId + 1
  BY DEF SubmitThrows
<1>17. t \notin 0 .. nextId - 1 /\ (0 .. nextId' - 1) = (0 .. nextId - 1) \cup {t}
  BY <1>16, PoolAssumption DEF IInv
<1>18. t \notin Queued \cup running \cup Gone
  BY <1>17, KnownTasks DEF Gone
<1> HIDE DEF B, W, x
<1>19. Gone' = Gone \cup {x}
  <2>1. x \notin running
    <3>1. s[x] = "queued"
      BY <1>8, <1>9 DEF Consistent
    <3>. QED
      BY <1>8, <1>9, <3>1 DEF Consistent
  <2>2. x \in 0 .. nextId' - 1
    BY <1>1, <1>8, <1>17, KnownTasks
  <2>. QED
    BY <1>1, <1>13, <1>17, <2>1, <2>2, KnownTasks DEF Gone
<1>20. Cardinality(running \cup B) < MaxConcurrency
  BY <1>4, <1>13
<1>21. Pool!StartFrom(B, (Queued \cup {t}) \ {x}, running)
  BY <1>1, <1>13, <1>20, <1>3, PoolCardinality
  DEF Pool!StartFrom, Pool!Before
<1>22. /\ \A u \in Queued' : Pool!Before(x, u)
       /\ \A b \in B : Pool!Before(b, x)
       /\ Pool!Cardinality(running') < MaxConcurrency
  BY <1>13, <1>14, <1>15, <1>20, PoolCardinality DEF Pool!Before
<1>23. Pool!Enters(t, p)
  BY <1>16, <1>18 DEF Pool!Enters, Gone
<1>. QED
  BY <1>1, <1>8, <1>13, <1>19, <1>21, <1>22, <1>23 DEF Pool!AdmitLosing, Gone

(* Every step of the supervisor is a step of the pool, or changes nothing  *)
(* the pool knows of.                                                      *)
LEMMA NextRefines == IInv /\ [Next]_vars => [Pool!PoolNext]_(Pool!poolVars)
<1> SUFFICES ASSUME IInv, [Next]_vars
             PROVE  Pool!PoolNext \/ UNCHANGED Pool!poolVars
  OBVIOUS
<1>1. CASE \E p \in Priorities : Submit(p)
  BY <1>1, SubmitAdmits DEF Pool!PoolNext
<1>11. CASE \E p \in Priorities : SubmitThrows(p)
  BY <1>11, SubmitThrowsLoses DEF Pool!PoolNext
<1>2. CASE \E k \in DOMAIN queue : CancelQueued(k)
  <2>1. PICK k \in DOMAIN queue : CancelQueued(k)
    BY <1>2
  <2>2. /\ queue' = Without(queue, k) /\ running' = running
        /\ nextId' = nextId /\ prio' = prio
    BY <2>1 DEF CancelQueued, recordVars
  <2>3. queue[k] \in Queued
    BY DEF Queued
  <2>4. Queued' = Queued \ {queue[k]}
    <3>1. /\ queue \in Seq(Tasks)
          /\ \A i, j \in DOMAIN queue : queue[i] = queue[j] => i = j
      BY DEF IInv, Consistent
    <3>2. /\ queue' \in Seq(Tasks)
          /\ \A u \in Tasks : (\E i \in DOMAIN queue' : queue'[i] = u) <=>
                 u # queue[k] /\ \E i \in DOMAIN queue : queue[i] = u
      BY <2>2, <3>1, WithoutSorted
    <3>. QED
      BY <3>1, <3>2 DEF Queued
  <2>5. Gone' = Gone \cup {queue[k]}
    BY <2>2, <2>3, <2>4, KnownTasks DEF Gone
  <2>6. Pool!Drop({queue[k]})
    BY <2>2, <2>4, <2>5 DEF Pool!Drop, Gone
  <2>. QED
    BY <2>3, <2>6 DEF Pool!PoolNext
<1>3. CASE \E t \in Tasks : CancelRunning(t)
  BY <1>3 DEF CancelRunning, recordVars, Pool!poolVars, Queued
<1>4. CASE \E t \in Tasks, how \in ExitCodes : Exit(t, how)
  <2>1. PICK t \in Tasks, how \in ExitCodes : Exit(t, how)
    BY <1>4
  <2>2. proc[t] # "none" /\ store[t] \in {"running", "failed"}
    BY <2>1 DEF Exit, Live, IInv, Consistent
  <2>3. RecordAtExit(t, how) \in Settled
    BY <2>2 DEF RecordAtExit, ExitCodes, Settled
  <2>4. ProcessQueue(queue, running \ {t},
                     [store EXCEPT ![t] = RecordAtExit(t, how)],
                     [proc EXCEPT ![t] = "none"], timers \ {t})
    BY <2>1 DEF Exit
  <2>5. nextId' = nextId /\ prio' = prio
    BY <2>1 DEF Exit, recordVars
  <2>6. Pool!Finish(running \cap {t})
    BY <2>2, <2>3, <2>4, <2>5, SettleFinishes DEF ProcStates
  <2>. QED
    BY <2>6 DEF Pool!PoolNext
<1>5. CASE \E t \in Tasks : SpawnError(t)
  <2>1. PICK t \in Tasks : SpawnError(t)
    BY <1>5
  <2>2. /\ proc[t] # "none"
        /\ ProcessQueue(queue, running \ {t}, [store EXCEPT ![t] = "failed"],
                        [proc EXCEPT ![t] = "none"], timers \ {t})
        /\ nextId' = nextId /\ prio' = prio
    BY <2>1 DEF SpawnError, recordVars
  <2>3. Pool!Finish(running \cap {t})
    BY <2>2, SettleFinishes DEF ProcStates, Settled
  <2>. QED
    BY <2>3 DEF Pool!PoolNext
<1>6. CASE \E t \in Tasks : Timeout(t)
  <2>1. PICK t \in Tasks : Timeout(t)
    BY <1>6
  <2> DEFINE x == IF proc[t] = "killed" THEN "killed" ELSE "termed"
  <2>2. proc[t] # "none" /\ x \in ProcStates
    BY <2>1 DEF Timeout, IInv, Consistent, ProcStates
  <2>3. /\ ProcessQueue(queue, running \ {t}, [store EXCEPT ![t] = "failed"],
                        [proc EXCEPT ![t] = x], timers \ {t})
        /\ nextId' = nextId /\ prio' = prio
    BY <2>1 DEF Timeout, recordVars
  <2> HIDE DEF x
  <2>4. Pool!Finish(running \cap {t})
    BY <2>2, <2>3, SettleFinishes DEF Settled
  <2>. QED
    BY <2>4 DEF Pool!PoolNext
<1>7. CASE Shutdown
  <2>1. Queued' = {} /\ running' = running /\ nextId' = nextId /\ prio' = prio
    BY <1>7 DEF Shutdown, recordVars, Queued
  <2>2. Gone' = Gone \cup Queued
    BY <2>1, KnownTasks DEF Gone
  <2>3. Pool!Drop(Queued)
    BY <2>1, <2>2 DEF Pool!Drop, Gone
  <2>. QED
    BY <2>3 DEF Pool!PoolNext
<1>8. CASE DrainDone
  BY <1>8 DEF DrainDone, recordVars, poolVars, Pool!poolVars, Queued
<1>9. CASE KillRunning
  <2>1. /\ Queued' = Queued /\ running' = {}
        /\ nextId' = nextId /\ prio' = prio
    BY <1>9 DEF KillRunning, recordVars, Queued
  <2>2. Gone' = Gone \cup running
    BY <2>1, KnownTasks DEF Gone
  <2>3. Cardinality({}) <= MaxConcurrency
    BY FS_EmptySet, PoolAssumption
  <2>4. Pool!StartFrom({}, Queued, running \ running)
    BY <2>1, <2>3, PoolCardinality DEF Pool!StartFrom
  <2>5. Pool!Finish(running)
    BY <2>1, <2>2, <2>4 DEF Pool!Finish, Gone
  <2>. QED
    BY <2>5 DEF Pool!PoolNext
<1>10. CASE UNCHANGED vars
  BY <1>10 DEF vars, Pool!poolVars, Queued
<1>. QED
  BY <1>1, <1>2, <1>3, <1>4, <1>5, <1>6, <1>7, <1>8, <1>9, <1>10, <1>11
  DEF Next, GraceExpires, StaleGraceExpires

(* The supervisor implements the abstract pool. *)
THEOREM PoolRefined == Spec => ImplementsPool
<1>1. Init => Pool!PoolInit
  BY PoolAssumption DEF Init, Pool!PoolInit, Queued
<1>. QED
  BY <1>1, NextRefines, AlwaysIInv, PTL DEF Spec, ImplementsPool, Pool!PoolSpec

=============================================================================
