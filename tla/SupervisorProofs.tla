--------------------------- MODULE SupervisorProofs ---------------------------
(***************************************************************************)
(* Proofs about DaemonSupervisor, and about ExecutorShim above it, for     *)
(* every set of loops, every priority, limit and threshold.                *)
(*                                                                         *)
(* A callback is a chain of operators on records of the variables, so the  *)
(* argument is about records: Good says what a record satisfies between    *)
(* two calls of the chain, and a lemma per operator says that it keeps     *)
(* this and how its result follows from its argument.  The loop of         *)
(* _processQueue is a recursive function; its lemma is an induction over   *)
(* its rounds, by the least round that would fail.                         *)
(***************************************************************************)
EXTENDS ExecutorShim, FiniteSetTheorems, SequenceTheorems,
        WellFoundedInduction, TLAPS

Records ==
  [queue : Seq(Loops), entry : [Loops -> Tasks \cup {NoTask}],
   knownPid : SUBSET Loops, gone : SUBSET Loops, breaker : Breakers,
   waiting : Seq(Tasks), active : SUBSET Tasks, live : SUBSET Tasks,
   timers : SUBSET Tasks]

NoDuplicates(q) == \A i, j \in DOMAIN q : q[i] = q[j] => i = j

Sorted(q) ==
  \A i, j \in DOMAIN q : i < j => LoopPriority[q[i]] >= LoopPriority[q[j]]

(* The pool's tasks: those that wait and those whose child lives. *)
Known(s) == s.live \cup ToSet(s.waiting)

(* The pool: a task waits once or has a child, which has the slot and the  *)
(* timer, if anything.                                                     *)
GoodPool(s) ==
  /\ NoDuplicates(s.waiting)
  /\ ToSet(s.waiting) \cap s.live = {}
  /\ s.active \subseteq s.live /\ s.timers \subseteq s.live
  /\ IsFiniteSet(s.live)

(* The supervisor above it. *)
GoodEntries(s) ==
  /\ IsFiniteSet(Entries(s)) /\ Cardinality(Entries(s)) <= MaxConcurrent
  /\ \A l \in Entries(s) : Owner(s.entry[l]) = l /\ s.entry[l] \in Known(s)
  /\ \A l \in s.gone : s.entry[l] = NoTask

GoodQueue(s) ==
  /\ NoDuplicates(s.queue) /\ Sorted(s.queue) /\ Len(s.queue) <= MaxQueueDepth
  /\ \A l \in ToSet(s.queue) : s.entry[l] = NoTask /\ l \notin s.gone

GoodBreaker(s) == s.breaker.state = "closed" => s.breaker.failures < FailureThreshold

Good(s) ==
  /\ s \in Records
  /\ GoodPool(s) /\ GoodEntries(s) /\ GoodQueue(s) /\ GoodBreaker(s)

(* The pool's tasks of one owner that no entry names.  They are few enough *)
(* for a name to be free: shutdown() adds one to those that the guards     *)
(* bound.                                                                  *)
OrphansOf(s, o) ==
  {t \in Known(s) : Owner(t) = o /\ (o \in Loops => t # s.entry[o])}

Room(s, n) ==
  \A o \in Loops \cup {Direct} : Cardinality(OrphansOf(s, o)) <= n

Spare == MaxOrphans + (IF phase \in {"up", "draining"} THEN 0 ELSE 1)

(* A queue that waits although entries are free waits for the circuit. *)
NotIdle(s) ==
  s.queue # <<>> /\ s.breaker.state = "closed" =>
    Cardinality(Entries(s)) = MaxConcurrent

IInv ==
  /\ Good(Now) /\ Room(Now, Spare) /\ NotIdle(Now)
  /\ history \in [Loops -> 0 .. MaxRestarts]
  /\ phase \in {"up", "draining", "drained", "crashed"}
  /\ phase # "up" => MayShutDown
  /\ phase = "draining" => queue = <<>>
  /\ graceArmed \in BOOLEAN

-----------------------------------------------------------------------------
(* A non-empty set of naturals has a least element. *)
LEMMA LeastElement ==
  ASSUME NEW S \in SUBSET Nat, S # {}
  PROVE  \E m \in S : \A k \in S : m <= k
<1>1. PICK m \in S : \A k \in S : ~(<<k, m>> \in OpToRel(<, Nat))
  BY NatLessThanWellFounded, WFMin
<1>2. \A k \in S : ~(k < m)
  BY <1>1 DEF OpToRel
<1>. QED
  BY <1>2

(* Induction, for a set: it has every number if it has 0 and successors.   *)
LEMMA SetInduction ==
  ASSUME NEW S, 0 \in S, \A n \in Nat : n \in S => n + 1 \in S
  PROVE  Nat \subseteq S
<1> SUFFICES ASSUME Nat \ S # {}
             PROVE  FALSE
  OBVIOUS
<1>1. PICK m \in Nat \ S : \A k \in Nat \ S : m <= k
  BY LeastElement
<1>2. m # 0 /\ m - 1 \in Nat /\ m - 1 \in S
  BY <1>1
<1>. QED
  BY <1>1, <1>2

-----------------------------------------------------------------------------
(* Sequences. *)
LEMMA FunctionIsSeq ==
  ASSUME NEW S, NEW n \in Nat, NEW f \in [1 .. n -> S]
  PROVE  f \in Seq(S) /\ Len(f) = n /\ DOMAIN f = 1 .. n
  OBVIOUS

(* The empty sequence. *)
LEMMA EmptySequence ==
  ASSUME NEW S
  PROVE  /\ <<>> \in Seq(S) /\ Len(<<>>) = 0 /\ ToSet(<<>>) = {}
         /\ \A q \in Seq(S) : q # <<>> => Len(q) > 0
         /\ NoDuplicates(<<>>) /\ Sorted(<<>>)
  BY DEF ToSet, NoDuplicates, Sorted

(* A sequence followed by another. *)
LEMMA Concatenation ==
  ASSUME NEW S, NEW a \in Seq(S), NEW b \in Seq(S)
  PROVE  /\ a \o b \in Seq(S) /\ Len(a \o b) = Len(a) + Len(b)
         /\ \A i \in 1 .. Len(a) : (a \o b)[i] = a[i]
         /\ \A i \in Len(a) + 1 .. Len(a) + Len(b) : (a \o b)[i] = b[i - Len(a)]
  OBVIOUS

(* What InsertAt puts where, and the elements it leaves. *)
LEMMA InsertAtPlaces ==
  ASSUME NEW S, NEW q \in Seq(S), NEW x \in S, NEW k \in 1 .. Len(q) + 1
  PROVE  LET Q == InsertAt(q, k, x)
         IN  /\ Q \in Seq(S) /\ Len(Q) = Len(q) + 1
             /\ \A i \in 1 .. k - 1 : Q[i] = q[i]
             /\ Q[k] = x
             /\ \A i \in k + 1 .. Len(q) + 1 : Q[i] = q[i - 1]
             /\ ToSet(Q) = ToSet(q) \cup {x}
             /\ NoDuplicates(q) /\ x \notin ToSet(q) => NoDuplicates(Q)
<1> DEFINE a == SubSeq(q, 1, k - 1)
           b == SubSeq(q, k, Len(q))
           c == a \o <<x>>
           Q == InsertAt(q, k, x)
<1>1. /\ a \in Seq(S) /\ Len(a) = k - 1 /\ \A i \in 1 .. k - 1 : a[i] = q[i]
      /\ b \in Seq(S) /\ Len(b) = Len(q) - k + 1
      /\ \A i \in 1 .. Len(q) - k + 1 : b[i] = q[k + i - 1]
      /\ Len(q) \in Nat /\ k \in Int /\ <<x>> \in Seq(S)
  OBVIOUS
<1>2. Q = c \o b
  BY DEF InsertAt
<1> HIDE DEF a, b
<1>3. /\ c \in Seq(S) /\ Len(c) = k /\ c[k] = x
      /\ \A i \in 1 .. k - 1 : c[i] = q[i]
  <2> DEFINE e == <<x>>
  <2>1. e \in Seq(S) /\ Len(e) = 1 /\ e[1] = x
    OBVIOUS
  <2> HIDE DEF e
  <2>2. /\ c \in Seq(S) /\ Len(c) = k
        /\ \A i \in 1 .. k - 1 : c[i] = a[i]
        /\ \A i \in k .. k : c[i] = e[i - (k - 1)]
    BY <1>1, <2>1, Concatenation DEF e
  <2>3. c[k] = x
    BY <1>1, <2>1, <2>2
  <2>. QED
    BY <1>1, <2>2, <2>3
<1> HIDE DEF c, Q
<1>4. /\ Q \in Seq(S) /\ Len(Q) = Len(q) + 1
      /\ \A i \in 1 .. k : Q[i] = c[i]
      /\ \A i \in k + 1 .. Len(q) + 1 : Q[i] = b[i - k]
  BY <1>1, <1>2, <1>3, Concatenation
<1>5. /\ \A i \in 1 .. k - 1 : Q[i] = q[i]
      /\ Q[k] = x
      /\ \A i \in k + 1 .. Len(q) + 1 : Q[i] = q[i - 1]
  <2>1. \A i \in k + 1 .. Len(q) + 1 : Q[i] = q[i - 1]
    <3> TAKE i \in k + 1 .. Len(q) + 1
    <3>1. i - k \in 1 .. Len(q) - k + 1 /\ k + (i - k) - 1 = i - 1
      BY <1>1
    <3>2. b[i - k] = q[k + (i - k) - 1]
      BY <1>1, <3>1
    <3>. QED
      BY <1>4, <3>1, <3>2
  <2>2. k \in 1 .. k /\ \A i \in 1 .. k - 1 : i \in 1 .. k
    BY <1>1
  <2>. QED
    BY <1>3, <1>4, <2>1, <2>2
<1>6. DOMAIN q = 1 .. Len(q) /\ DOMAIN Q = 1 .. Len(q) + 1
  BY <1>4
<1>7. \A i \in DOMAIN Q : i # k =>
        IF i < k THEN i \in DOMAIN q /\ Q[i] = q[i]
                 ELSE i - 1 \in DOMAIN q /\ Q[i] = q[i - 1]
  BY <1>1, <1>5, <1>6
<1>8. k \in DOMAIN Q /\ Q[k] = x
  BY <1>1, <1>5, <1>6
<1>9. \A i \in DOMAIN q : \E j \in DOMAIN Q : Q[j] = q[i]
  <2> TAKE i \in DOMAIN q
  <2>1. CASE i < k
    BY <1>1, <1>5, <1>6, <2>1
  <2>2. CASE ~(i < k)
    <3>1. i + 1 \in DOMAIN Q /\ Q[i + 1] = q[i]
      BY <1>1, <1>5, <1>6, <2>2
    <3>. QED
      BY <3>1
  <2>. QED
    BY <2>1, <2>2
<1>10. ToSet(Q) = ToSet(q) \cup {x}
  BY <1>7, <1>8, <1>9 DEF ToSet
<1>11. ASSUME NoDuplicates(q), x \notin ToSet(q)
       PROVE  NoDuplicates(Q)
  <2> SUFFICES ASSUME NEW i \in DOMAIN Q, NEW j \in DOMAIN Q, Q[i] = Q[j]
               PROVE  i = j
    BY DEF NoDuplicates
  <2>1. CASE i = k \/ j = k
    BY <1>7, <1>8, <1>11, <2>1 DEF ToSet
  <2>2. CASE i # k /\ j # k
    BY <1>1, <1>6, <1>7, <1>11, <2>2 DEF NoDuplicates
  <2>. QED
    BY <2>1, <2>2
<1>. QED
  BY <1>4, <1>5, <1>10, <1>11 DEF Q

(* Where Insert puts a new element of a queue of loops or tasks.           *)
LEMMA InsertPlace ==
  ASSUME NEW S, NEW q \in Seq(S), NEW x \in S, NEW p
  PROVE  LET G == {i \in DOMAIN q : p[q[i]] >= p[x]}
         IN  1 + Cardinality(G) \in 1 .. Len(q) + 1
<1> DEFINE G == {i \in DOMAIN q : p[q[i]] >= p[x]}
<1>1. Len(q) \in Nat /\ DOMAIN q = 1 .. Len(q)
  OBVIOUS
<1>2. IsFiniteSet(1 .. Len(q)) /\ Cardinality(1 .. Len(q)) = Len(q)
  BY <1>1, FS_Interval
<1>3. G \in SUBSET (1 .. Len(q))
  BY <1>1
<1>4. IsFiniteSet(G) /\ Cardinality(G) <= Len(q) /\ Cardinality(G) \in Nat
  BY <1>2, <1>3, FS_Subset, FS_CardinalityType
<1>. QED
  BY <1>1, <1>4

(* Insert adds an element. *)
LEMMA InsertAdds ==
  ASSUME NEW S, NEW q \in Seq(S), NEW x \in S, NEW p
  PROVE  LET Q == Insert(q, x, p)
         IN  /\ Q \in Seq(S) /\ Len(Q) = Len(q) + 1
             /\ ToSet(Q) = ToSet(q) \cup {x}
             /\ NoDuplicates(q) /\ x \notin ToSet(q) => NoDuplicates(Q)
<1> DEFINE k == 1 + Cardinality({i \in DOMAIN q : p[q[i]] >= p[x]})
<1>1. k \in 1 .. Len(q) + 1
  BY InsertPlace
<1>2. Insert(q, x, p) = InsertAt(q, k, x)
  BY DEF Insert
<1> HIDE DEF k
<1>. QED
  BY <1>1, <1>2, InsertAtPlaces

(* A new loop goes behind those of its priority: the queue stays sorted.   *)
LEMMA InsertSorts ==
  ASSUME NEW q \in Seq(Loops), NEW x \in Loops, Sorted(q)
  PROVE  Sorted(Insert(q, x, LoopPriority))
<1> DEFINE p == LoopPriority
           G == {i \in DOMAIN q : p[q[i]] >= p[x]}
           k == 1 + Cardinality(G)
           Q == InsertAt(q, k, x)
<1>1. /\ Len(q) \in Nat /\ DOMAIN q = 1 .. Len(q) /\ p[x] \in Int
      /\ \A i \in DOMAIN q : p[q[i]] \in Int
  BY SupervisorAssumption
<1>2. k \in 1 .. Len(q) + 1
  BY InsertPlace
<1>3. \A i \in DOMAIN q : i < k <=> p[q[i]] >= p[x]
  <2>1. \A i, j \in DOMAIN q : i < j /\ j \in G => i \in G
    BY <1>1 DEF Sorted
  <2> DEFINE N == {i \in 1 .. Len(q) + 1 : i \notin G}
  <2>2. N \in SUBSET Nat /\ Len(q) + 1 \in N
    BY <1>1
  <2>3. PICK m \in N : \A i \in N : m <= i
    BY <2>2, LeastElement
  <2>4. m \in 1 .. Len(q) + 1 /\ m \notin G
    BY <2>3
  <2>5. \A i \in DOMAIN q : i \in G <=> i < m
    <3> TAKE i \in DOMAIN q
    <3>1. i < m => i \in G
      BY <1>1, <2>3
    <3>2. i \in G => ~(m <= i)
      BY <1>1, <2>1, <2>4
    <3>. QED
      BY <1>1, <2>4, <3>1, <3>2
  <2>6. G = 1 .. m - 1
    BY <1>1, <2>4, <2>5
  <2>7. Cardinality(G) = m - 1
    <3>1. m - 1 \in Int /\ 1 \in Int /\ m >= 1
      BY <1>1, <2>4
    <3> HIDE DEF G
    <3>. QED
      BY <2>6, <3>1, FS_Interval
  <2>. QED
    BY <1>1, <2>4, <2>5, <2>7
<1>4. Insert(q, x, p) = Q
  BY DEF Insert
<1> HIDE DEF k, Q
<1>5. /\ Q \in Seq(Loops) /\ Len(Q) = Len(q) + 1
      /\ \A i \in 1 .. k - 1 : Q[i] = q[i]
      /\ Q[k] = x
      /\ \A i \in k + 1 .. Len(q) + 1 : Q[i] = q[i - 1]
  BY <1>2, InsertAtPlaces DEF Q
<1>6. DOMAIN Q = 1 .. Len(q) + 1
  BY <1>5
<1>7. \A i \in DOMAIN Q : i # k =>
        IF i < k THEN i \in DOMAIN q /\ Q[i] = q[i]
                 ELSE i - 1 \in DOMAIN q /\ Q[i] = q[i - 1]
  BY <1>1, <1>2, <1>5, <1>6
<1> SUFFICES ASSUME NEW i \in DOMAIN Q, NEW j \in DOMAIN Q, i < j
             PROVE  p[Q[i]] >= p[Q[j]]
  BY <1>4 DEF Sorted
<1>8. CASE i = k
  <2>1. j - 1 \in DOMAIN q /\ ~(j - 1 < k) /\ Q[i] = x /\ Q[j] = q[j - 1]
    BY <1>1, <1>2, <1>5, <1>6, <1>7, <1>8
  <2>. QED
    BY <1>1, <1>3, <2>1
<1>9. CASE j = k
  <2>1. i \in DOMAIN q /\ i < k /\ Q[j] = x /\ Q[i] = q[i]
    BY <1>1, <1>2, <1>5, <1>6, <1>7, <1>9
  <2>. QED
    BY <1>1, <1>3, <2>1
<1>10. CASE i # k /\ j # k
  <2>1. PICK a \in DOMAIN q, b \in DOMAIN q : a < b /\ Q[i] = q[a] /\ Q[j] = q[b]
    BY <1>1, <1>2, <1>6, <1>7, <1>10
  <2>. QED
    BY <2>1 DEF Sorted
<1>. QED
  BY <1>8, <1>9, <1>10

(* What RemoveAt leaves, and where. *)
LEMMA RemoveAtPlaces ==
  ASSUME NEW S, NEW q \in Seq(S), NEW k \in DOMAIN q, NoDuplicates(q)
  PROVE  LET Q == RemoveAt(q, k)
         IN  /\ Q \in Seq(S) /\ Len(Q) = Len(q) - 1
             /\ \A i, j \in DOMAIN Q : i < j =>
                  \E a, b \in DOMAIN q : a < b /\ Q[i] = q[a] /\ Q[j] = q[b]
             /\ ToSet(Q) = ToSet(q) \ {q[k]}
             /\ NoDuplicates(Q)
<1> DEFINE a == SubSeq(q, 1, k - 1)
           b == SubSeq(q, k + 1, Len(q))
           Q == RemoveAt(q, k)
<1>1. /\ Len(q) \in Nat /\ k \in Int /\ DOMAIN q = 1 .. Len(q)
      /\ a \in Seq(S) /\ Len(a) = k - 1 /\ \A i \in 1 .. k - 1 : a[i] = q[i]
      /\ b \in Seq(S) /\ Len(b) = Len(q) - k
      /\ \A i \in 1 .. Len(q) - k : b[i] = q[k + i]
  OBVIOUS
<1>2. Q = a \o b
  BY DEF RemoveAt
<1> HIDE DEF a, b, Q
<1>3. /\ Q \in Seq(S) /\ Len(Q) = Len(q) - 1
      /\ \A i \in 1 .. k - 1 : Q[i] = a[i]
      /\ \A i \in k .. Len(q) - 1 : Q[i] = b[i - (k - 1)]
  <2>1. /\ Q \in Seq(S) /\ Len(Q) = Len(a) + Len(b)
        /\ \A i \in 1 .. Len(a) : Q[i] = a[i]
        /\ \A i \in Len(a) + 1 .. Len(a) + Len(b) : Q[i] = b[i - Len(a)]
    BY <1>1, <1>2, Concatenation
  <2>2. Len(a) + 1 = k /\ Len(a) + Len(b) = Len(q) - 1
    BY <1>1
  <2>. QED
    BY <1>1, <2>1, <2>2
<1>4. DOMAIN Q = 1 .. Len(q) - 1 /\ k \in 1 .. Len(q)
  BY <1>1, <1>3
<1>5. /\ \A i \in 1 .. Len(q) - 1 : i < k => i \in DOMAIN q /\ Q[i] = q[i]
      /\ \A i \in 1 .. Len(q) - 1 : i >= k => i + 1 \in DOMAIN q /\ Q[i] = q[i + 1]
  <2>1. ASSUME NEW i \in 1 .. Len(q) - 1, i < k
        PROVE  i \in DOMAIN q /\ Q[i] = q[i]
    <3>1. i \in 1 .. k - 1 /\ i \in 1 .. Len(q)
      BY <1>1, <2>1
    <3>. QED
      BY <1>1, <1>3, <3>1
  <2>2. ASSUME NEW i \in 1 .. Len(q) - 1, i >= k
        PROVE  i + 1 \in DOMAIN q /\ Q[i] = q[i + 1]
    <3>1. /\ i - (k - 1) \in 1 .. Len(q) - k /\ k + (i - (k - 1)) = i + 1
          /\ i \in k .. Len(q) - 1 /\ i + 1 \in 1 .. Len(q)
      BY <1>1, <1>4, <2>2
    <3>2. b[i - (k - 1)] = q[k + (i - (k - 1))]
      BY <1>1, <3>1
    <3>3. Q[i] = b[i - (k - 1)]
      BY <1>3, <3>1
    <3>. QED
      BY <1>1, <3>1, <3>2, <3>3
  <2>. QED
    BY <2>1, <2>2
<1> DEFINE src(i) == IF i < k THEN i ELSE i + 1
<1>6. \A i \in DOMAIN Q : src(i) \in DOMAIN q /\ src(i) # k /\ Q[i] = q[src(i)]
  <2> TAKE i \in DOMAIN Q
  <2>1. i \in 1 .. Len(q) - 1 /\ i \in Int
    BY <1>1, <1>4
  <2>2. CASE i < k
    BY <1>1, <1>5, <2>1, <2>2
  <2>3. CASE i >= k
    BY <1>1, <1>5, <2>1, <2>3
  <2>. QED
    BY <1>1, <2>1, <2>2, <2>3
<1>7. \A i, j \in DOMAIN Q : i < j => src(i) < src(j)
  BY <1>1, <1>4
<1>8. \A j \in DOMAIN q : j # k => \E i \in DOMAIN Q : src(i) = j
  <2> TAKE j \in DOMAIN q
  <2> HAVE j # k
  <2>1. j \in 1 .. Len(q) /\ j \in Int /\ Len(q) \in Int /\ k \in 1 .. Len(q)
    BY <1>1, <1>4
  <2>2. CASE j < k
    <3>1. j \in DOMAIN Q /\ src(j) = j
      BY <1>1, <1>4, <2>1, <2>2
    <3>. QED
      BY <3>1
  <2>3. CASE j > k
    <3>1. j - 1 \in DOMAIN Q /\ src(j - 1) = j
      BY <1>1, <1>4, <2>1, <2>3
    <3>. QED
      BY <3>1
  <2>. QED
    BY <1>1, <2>1, <2>2, <2>3
<1> HIDE DEF src
<1>9. \A i, j \in DOMAIN Q : i < j =>
        \E u, v \in DOMAIN q : u < v /\ Q[i] = q[u] /\ Q[j] = q[v]
  <2> TAKE i, j \in DOMAIN Q
  <2> HAVE i < j
  <2>1. /\ src(i) \in DOMAIN q /\ src(j) \in DOMAIN q /\ src(i) < src(j)
        /\ Q[i] = q[src(i)] /\ Q[j] = q[src(j)]
    BY <1>6, <1>7
  <2>. QED
    BY <2>1
<1>10. ToSet(Q) = ToSet(q) \ {q[k]}
  <2>1. ToSet(Q) \subseteq ToSet(q) \ {q[k]}
    BY <1>6 DEF ToSet, NoDuplicates
  <2>2. ToSet(q) \ {q[k]} \subseteq ToSet(Q)
    <3> SUFFICES ASSUME NEW j \in DOMAIN q, j # k
                 PROVE  q[j] \in ToSet(Q)
      BY DEF ToSet
    <3>1. PICK i \in DOMAIN Q : src(i) = j
      BY <1>8
    <3>2. Q[i] = q[j]
      BY <1>6, <3>1
    <3>. QED
      BY <3>2 DEF ToSet
  <2>. QED
    BY <2>1, <2>2
<1>11. NoDuplicates(Q)
  <2> SUFFICES ASSUME NEW i \in DOMAIN Q, NEW j \in DOMAIN Q, Q[i] = Q[j]
               PROVE  i = j
    BY DEF NoDuplicates
  <2>1. src(i) = src(j)
    BY <1>6 DEF NoDuplicates
  <2>2. ~(i < j) /\ ~(j < i)
    <3>1. src(i) \in Int /\ src(j) \in Int
      BY <1>1, <1>6
    <3>. QED
      BY <1>7, <2>1, <3>1
  <2>. QED
    BY <1>4, <2>2
<1>. QED
  BY <1>3, <1>9, <1>10, <1>11 DEF Q

(* Without takes one element out and leaves the others in their order.     *)
LEMMA WithoutRemoves ==
  ASSUME NEW S, NEW q \in Seq(S), NEW x \in ToSet(q), NoDuplicates(q)
  PROVE  LET Q == Without(q, x)
         IN  /\ Q \in Seq(S) /\ Len(Q) = Len(q) - 1
             /\ \A i, j \in DOMAIN Q : i < j =>
                  \E a, b \in DOMAIN q : a < b /\ Q[i] = q[a] /\ Q[j] = q[b]
             /\ ToSet(Q) = ToSet(q) \ {x}
             /\ NoDuplicates(Q)
<1> DEFINE k == CHOOSE i \in DOMAIN q : q[i] = x
<1>1. k \in DOMAIN q /\ q[k] = x
  <2>1. \E i \in DOMAIN q : q[i] = x
    BY DEF ToSet
  <2>. QED
    BY <2>1
<1>2. Without(q, x) = RemoveAt(q, k)
  BY DEF Without
<1> HIDE DEF k
<1>. QED
  BY <1>1, <1>2, RemoveAtPlaces

(* A part of a sorted queue that keeps its order is sorted. *)
LEMMA PartSorted ==
  ASSUME NEW q, NEW Q, Sorted(q),
         \A i, j \in DOMAIN Q : i < j =>
           \E a, b \in DOMAIN q : a < b /\ Q[i] = q[a] /\ Q[j] = q[b]
  PROVE  Sorted(Q)
  BY DEF Sorted

(* What Tail leaves. *)
LEMMA TailPlaces ==
  ASSUME NEW S, NEW q \in Seq(S), q # <<>>, NoDuplicates(q)
  PROVE  /\ Tail(q) \in Seq(S) /\ Len(Tail(q)) = Len(q) - 1
         /\ Head(q) \in S /\ Head(q) \in ToSet(q)
         /\ \A i, j \in DOMAIN Tail(q) : i < j =>
              \E a, b \in DOMAIN q : a < b /\ Tail(q)[i] = q[a] /\ Tail(q)[j] = q[b]
         /\ ToSet(Tail(q)) = ToSet(q) \ {Head(q)}
         /\ NoDuplicates(Tail(q))
<1> DEFINE Q == Tail(q)
<1>1. /\ Len(q) \in Nat \ {0} /\ DOMAIN q = 1 .. Len(q) /\ Head(q) = q[1]
      /\ Q \in Seq(S) /\ Len(Q) = Len(q) - 1 /\ DOMAIN Q = 1 .. Len(q) - 1
      /\ \A i \in 1 .. Len(q) - 1 : Q[i] = q[i + 1]
  OBVIOUS
<1> HIDE DEF Q
<1>2. \A i \in DOMAIN Q : i + 1 \in DOMAIN q /\ i + 1 # 1 /\ Q[i] = q[i + 1]
  BY <1>1
<1>3. \A j \in DOMAIN q : j # 1 => \E i \in DOMAIN Q : Q[i] = q[j]
  <2> TAKE j \in DOMAIN q
  <2> HAVE j # 1
  <2>1. j - 1 \in DOMAIN Q /\ (j - 1) + 1 = j
    BY <1>1
  <2>. QED
    BY <1>2, <2>1
<1>4. 1 \in DOMAIN q /\ Head(q) \in S /\ Head(q) \in ToSet(q)
  BY <1>1 DEF ToSet
<1>5. \A i, j \in DOMAIN Q : i < j =>
        \E a, b \in DOMAIN q : a < b /\ Q[i] = q[a] /\ Q[j] = q[b]
  BY <1>1, <1>2
<1>6. ToSet(Q) = ToSet(q) \ {Head(q)}
  <2>1. ToSet(Q) \subseteq ToSet(q) \ {Head(q)}
    BY <1>1, <1>2, <1>4 DEF ToSet, NoDuplicates
  <2>2. ToSet(q) \ {Head(q)} \subseteq ToSet(Q)
    BY <1>1, <1>3 DEF ToSet
  <2>. QED
    BY <2>1, <2>2
<1>7. NoDuplicates(Q)
  BY <1>1, <1>2 DEF NoDuplicates
<1>. QED
  BY <1>1, <1>4, <1>5, <1>6, <1>7 DEF Q

(* A sequence cut in two. *)
LEMMA CutPlaces ==
  ASSUME NEW S, NEW q \in Seq(S), NEW n \in 0 .. Len(q), NoDuplicates(q)
  PROVE  LET heads == ToSet(SubSeq(q, 1, n))
             rest == SubSeq(q, n + 1, Len(q))
         IN  /\ heads \in SUBSET S /\ IsFiniteSet(heads)
             /\ rest \in Seq(S) /\ NoDuplicates(rest)
             /\ heads \cup ToSet(rest) = ToSet(q) /\ heads \cap ToSet(rest) = {}
<1> DEFINE h == SubSeq(q, 1, n)
           r == SubSeq(q, n + 1, Len(q))
<1>1. /\ Len(q) \in Nat /\ n \in Nat /\ DOMAIN q = 1 .. Len(q)
      /\ h \in Seq(S) /\ Len(h) = n /\ DOMAIN h = 1 .. n
      /\ \A i \in 1 .. n : h[i] = q[i]
      /\ r \in Seq(S) /\ Len(r) = Len(q) - n /\ DOMAIN r = 1 .. Len(q) - n
      /\ \A i \in 1 .. Len(q) - n : r[i] = q[n + i]
  OBVIOUS
<1> HIDE DEF h, r
<1>2. \A i \in DOMAIN h : i \in DOMAIN q /\ i <= n /\ h[i] = q[i]
  BY <1>1
<1>3. \A i \in DOMAIN r : n + i \in DOMAIN q /\ n + i > n /\ r[i] = q[n + i]
  BY <1>1
<1>4. \A i \in DOMAIN q : IF i <= n THEN i \in DOMAIN h ELSE i - n \in DOMAIN r
  BY <1>1
<1>5. \A i \in DOMAIN q : q[i] \in ToSet(h) \cup ToSet(r)
  <2> TAKE i \in DOMAIN q
  <2>1. CASE i <= n
    BY <1>1, <1>2, <1>4, <2>1 DEF ToSet
  <2>2. CASE ~(i <= n)
    <3>1. i - n \in DOMAIN r /\ n + (i - n) = i
      BY <1>1, <1>4, <2>2
    <3>2. r[i - n] = q[n + (i - n)]
      BY <1>3, <3>1
    <3>. QED
      BY <3>1, <3>2 DEF ToSet
  <2>. QED
    BY <2>1, <2>2
<1>6. ToSet(h) \cup ToSet(r) = ToSet(q)
  BY <1>2, <1>3, <1>5 DEF ToSet
<1>7. ToSet(h) \cap ToSet(r) = {}
  BY <1>1, <1>2, <1>3 DEF ToSet, NoDuplicates
<1>8. NoDuplicates(r)
  BY <1>1, <1>3 DEF NoDuplicates
<1>9. IsFiniteSet(ToSet(h)) /\ ToSet(h) \in SUBSET S
  <2>1. h \in Surjection(1 .. n, ToSet(h))
    BY <1>1 DEF Surjection, ToSet
  <2>2. IsFiniteSet(1 .. n)
    BY <1>1, FS_Interval
  <2>. QED
    BY <1>1, <2>1, <2>2, FS_Surjection DEF ToSet
<1>. QED
  BY <1>1, <1>6, <1>7, <1>8, <1>9 DEF h, r

-----------------------------------------------------------------------------
(* The operators on records. *)

(* The elements of a sequence are finitely many. *)
LEMMA ElementsFinite ==
  ASSUME NEW S, NEW q \in Seq(S)
  PROVE  IsFiniteSet(ToSet(q)) /\ ToSet(q) \in SUBSET S
<1>1. Len(q) \in Nat /\ DOMAIN q = 1 .. Len(q) /\ \A i \in DOMAIN q : q[i] \in S
  OBVIOUS
<1>2. q \in Surjection(1 .. Len(q), ToSet(q))
  BY <1>1 DEF Surjection, ToSet
<1>3. IsFiniteSet(1 .. Len(q))
  BY <1>1, FS_Interval
<1>. QED
  BY <1>1, <1>2, <1>3, FS_Surjection DEF ToSet

(* The pool's _processQueue moves tasks from its queue to its slots and    *)
(* does not touch the supervisor's state but for pids.                     *)
LEMMA FillKeeps ==
  ASSUME NEW s \in Records, GoodPool(s)
  PROVE  LET r == Fill(s)
         IN  /\ r \in Records /\ GoodPool(r)
             /\ r.queue = s.queue /\ r.entry = s.entry
             /\ r.gone = s.gone /\ r.breaker = s.breaker
             /\ Known(r) = Known(s) /\ s.live \subseteq r.live
<1> DEFINE free == PoolSize - Cardinality(s.active)
           n == IF phase = "draining" \/ free <= 0 THEN 0
                ELSE IF Len(s.waiting) < free THEN Len(s.waiting) ELSE free
           heads == ToSet(SubSeq(s.waiting, 1, n))
           rest == SubSeq(s.waiting, n + 1, Len(s.waiting))
           pids == {l \in Loops : s.entry[l] \in heads}
           r == Fill(s)
<1>1. /\ s.queue \in Seq(Loops) /\ s.entry \in [Loops -> Tasks \cup {NoTask}]
      /\ s.knownPid \subseteq Loops /\ s.gone \subseteq Loops /\ s.breaker \in Breakers
      /\ s.waiting \in Seq(Tasks) /\ s.active \subseteq Tasks
      /\ s.live \subseteq Tasks /\ s.timers \subseteq Tasks
  BY DEF Records
<1>2. n \in 0 .. Len(s.waiting)
  <2>1. Cardinality(s.active) \in Nat
    BY FS_Subset, FS_CardinalityType DEF GoodPool
  <2>2. free \in Int /\ Len(s.waiting) \in Nat
    BY <1>1, <2>1, SupervisorAssumption
  <2> HIDE DEF free
  <2>. QED
    BY <2>2
<1>3. r = [s EXCEPT !.waiting = rest, !.active = @ \cup heads, !.live = @ \cup heads,
                    !.timers = @ \cup heads, !.knownPid = @ \cup pids]
  BY DEF Fill
<1>4. pids \subseteq Loops
  OBVIOUS
<1> HIDE DEF n
<1>5. /\ heads \in SUBSET Tasks /\ IsFiniteSet(heads)
      /\ rest \in Seq(Tasks) /\ NoDuplicates(rest)
      /\ heads \cup ToSet(rest) = ToSet(s.waiting) /\ heads \cap ToSet(rest) = {}
  BY <1>1, <1>2, CutPlaces DEF GoodPool
<1> HIDE DEF heads, rest, pids, r
<1>6. /\ r.queue = s.queue /\ r.entry = s.entry /\ r.knownPid = s.knownPid \cup pids
      /\ r.gone = s.gone /\ r.breaker = s.breaker /\ r.waiting = rest
      /\ r.active = s.active \cup heads /\ r.live = s.live \cup heads
      /\ r.timers = s.timers \cup heads
      /\ r = [queue |-> r.queue, entry |-> r.entry, knownPid |-> r.knownPid,
              gone |-> r.gone, breaker |-> r.breaker, waiting |-> r.waiting,
              active |-> r.active, live |-> r.live, timers |-> r.timers]
  BY <1>3 DEF Records
<1>7. r \in Records
  BY <1>1, <1>4, <1>5, <1>6 DEF Records
<1>8. IsFiniteSet(r.live)
  <2>1. IsFiniteSet(s.live) /\ IsFiniteSet(heads)
    BY <1>5 DEF GoodPool
  <2>2. IsFiniteSet(s.live \cup heads)
    BY <2>1, FS_Union
  <2>. QED
    BY <1>6, <2>2
<1>9. GoodPool(r)
  BY <1>5, <1>6, <1>8 DEF GoodPool
<1>10. Known(r) = Known(s)
  BY <1>5, <1>6 DEF Known
<1>. QED
  BY <1>6, <1>7, <1>9, <1>10 DEF r

(* The pool's submit() adds the task and no other. *)
LEMMA SubmitTaskKeeps ==
  ASSUME NEW s \in Records, GoodPool(s), NEW t \in Tasks \ Known(s)
  PROVE  LET r == SubmitTask(s, t)
         IN  /\ r \in Records /\ GoodPool(r)
             /\ r.queue = s.queue /\ r.entry = s.entry
             /\ r.gone = s.gone /\ r.breaker = s.breaker
             /\ Known(r) = Known(s) \cup {t} /\ s.live \subseteq r.live
<1> DEFINE p == [u \in Tasks |-> IF Owner(u) = Direct THEN 0 ELSE LoopPriority[Owner(u)]]
           q == Insert(s.waiting, t, p)
           r == [s EXCEPT !.waiting = q]
<1>1. s.waiting \in Seq(Tasks)
  BY DEF Records
<1>2. SubmitTask(s, t) = Fill(r)
  BY DEF SubmitTask
<1> HIDE DEF p
<1>3. /\ q \in Seq(Tasks) /\ ToSet(q) = ToSet(s.waiting) \cup {t}
      /\ NoDuplicates(s.waiting) /\ t \notin ToSet(s.waiting) => NoDuplicates(q)
  BY <1>1, InsertAdds
<1> HIDE DEF q
<1>4. /\ r \in Records /\ r.waiting = q /\ r.live = s.live /\ r.active = s.active
      /\ r.timers = s.timers /\ r.queue = s.queue /\ r.entry = s.entry
      /\ r.gone = s.gone /\ r.breaker = s.breaker
  BY <1>3 DEF Records
<1> HIDE DEF r
<1>5. GoodPool(r)
  BY <1>3, <1>4 DEF GoodPool, Known
<1>6. Known(r) = Known(s) \cup {t}
  BY <1>3, <1>4 DEF Known
<1>. QED
  BY <1>2, <1>4, <1>5, <1>6, FillKeeps

(* The invariant's records, and what is finite in them. *)
LEMMA NowFields ==
  ASSUME IInv
  PROVE  /\ Good(Now) /\ Now \in Records /\ Now.live = live
         /\ IsFiniteSet(Known(Now)) /\ Known(Now) \subseteq Tasks
         /\ live \subseteq Known(Now)
<1>1. Good(Now) /\ Now \in Records /\ Now.live = live /\ Now.waiting = waiting
  BY DEF IInv, Good, Now
<1>2. waiting \in Seq(Tasks) /\ live \subseteq Tasks
  BY <1>1 DEF Now, Records
<1>3. IsFiniteSet(ToSet(waiting)) /\ ToSet(waiting) \subseteq Tasks
  BY <1>2, ElementsFinite
<1>4. IsFiniteSet(live)
  BY <1>1 DEF Good, GoodPool
<1>5. IsFiniteSet(live \cup ToSet(waiting))
  BY <1>3, <1>4, FS_Union
<1>. QED
  BY <1>1, <1>2, <1>3, <1>5 DEF Known

(* NoTask is no task. *)
LEMMA NoTaskIsNone == NoTask \notin Tasks
  BY DEF NoTask, Tasks

(* The pool's tasks of one owner, of which at most one has an entry. *)
LEMMA FewNames ==
  ASSUME IInv, NEW o \in Loops \cup {Direct}
  PROVE  LET names == {t \in Known(Now) : Owner(t) = o}
         IN  IsFiniteSet(names) /\ Cardinality(names) <= Spare + 1
<1> DEFINE names == {t \in Known(Now) : Owner(t) = o}
           O == OrphansOf(Now, o)
<1>1. IsFiniteSet(Known(Now))
  BY NowFields
<1>2. IsFiniteSet(names) /\ IsFiniteSet(O)
  BY <1>1, FS_Subset DEF OrphansOf
<1>3. Cardinality(O) <= Spare /\ Cardinality(O) \in Nat /\ Spare \in Nat
  BY <1>2, FS_CardinalityType, SupervisorAssumption DEF IInv, Room, Spare
<1>4. PICK e : names \subseteq O \cup {e}
  BY DEF OrphansOf
<1>5. IsFiniteSet(O \cup {e}) /\ Cardinality(O \cup {e}) <= Cardinality(O) + 1
  BY <1>2, <1>3, FS_AddElement
<1>6. Cardinality(names) <= Cardinality(O \cup {e})
  BY <1>4, <1>5, FS_Subset
<1>7. Cardinality(names) \in Nat /\ Cardinality(O \cup {e}) \in Nat
  BY <1>2, <1>5, FS_CardinalityType
<1>. QED
  BY <1>2, <1>3, <1>5, <1>6, <1>7

(* A callback's tasks are those it found and those it gave to loops. *)
OldNames(s) ==
  \A t \in Known(s) : t \in Known(Now) \/ \E l \in Loops : t = s.entry[l]

(* There is a name for the next task of an owner without an entry: no task *)
(* of the pool has it, nor had it before the callback.                     *)
LEMMA FreeName ==
  ASSUME IInv, NEW s \in Records, GoodEntries(s), OldNames(s),
         NEW o \in Loops \cup {Direct}, o \in Loops => s.entry[o] = NoTask
  PROVE  LET t == FreeTask(s, o)
         IN  t \in Tasks /\ Owner(t) = o /\ t \notin Known(s) /\ t \notin live
<1> DEFINE K == MaxOrphans + (IF MayShutDown THEN 3 ELSE 2)
           names == {t \in Known(Now) : Owner(t) = o}
           used == live \cup s.live \cup ToSet(s.waiting) \cup {s.entry[l] : l \in Loops}
           free == {t \in Tasks \ used : Owner(t) = o}
<1>1. Tasks = (Loops \cup {Direct}) \X (1 .. K) /\ K \in Nat
  BY SupervisorAssumption DEF Tasks
<1>2. \A t \in Tasks : t \in used /\ Owner(t) = o => t \in names
  <2> TAKE t \in Tasks
  <2> HAVE t \in used /\ Owner(t) = o
  <2>1. t \in live \cup Known(s) \cup {s.entry[l] : l \in Loops}
    BY DEF Known
  <2>2. ASSUME NEW l \in Loops
        PROVE  t # s.entry[l]
    BY NoTaskIsNone DEF GoodEntries, Entries
  <2>3. t \in Known(Now)
    BY <2>1, <2>2, NowFields DEF OldNames
  <2>. QED
    BY <2>3
<1>3. IsFiniteSet(names) /\ Cardinality(names) <= Spare + 1
  BY FewNames
<1>4. Spare + 1 < K /\ Spare \in Nat
  BY SupervisorAssumption DEF IInv, Spare
<1> HIDE DEF K
<1>5. Cardinality({o} \X (1 .. K)) = K
  <2>1. /\ IsFiniteSet({o}) /\ Cardinality({o}) = 1
        /\ IsFiniteSet(1 .. K) /\ Cardinality(1 .. K) = K
    <3>1. K \in Int /\ 1 \in Int /\ K >= 0
      BY <1>1
    <3>2. IsFiniteSet(1 .. K) /\ Cardinality(1 .. K) = K
      BY <3>1, FS_Interval
    <3>. QED
      BY <3>2, FS_Singleton
  <2>2. Cardinality({o} \X (1 .. K)) = 1 * K
    BY <2>1, FS_Product
  <2>. QED
    BY <1>1, <2>2
<1> HIDE DEF names
<1>6. ~({o} \X (1 .. K) \subseteq names)
  <2>1. Cardinality(names) \in Nat
    BY <1>3, FS_CardinalityType
  <2> SUFFICES ASSUME {o} \X (1 .. K) \subseteq names
               PROVE  FALSE
    OBVIOUS
  <2>2. Cardinality({o} \X (1 .. K)) <= Cardinality(names)
    BY <1>3, FS_Subset
  <2>. QED
    BY <1>1, <1>3, <1>4, <1>5, <2>1, <2>2
<1>7. PICK u \in {o} \X (1 .. K) : u \notin names
  BY <1>6
<1>8. u \in Tasks /\ Owner(u) = o
  BY <1>1, <1>7 DEF Owner
<1> HIDE DEF used
<1>9. u \in free
  BY <1>2, <1>7, <1>8
<1>10. \A t \in free : t[2] \in Nat
  BY <1>1
<1>11. \E t \in free : \A v \in free : t[2] <= v[2]
  <2> DEFINE N == {t[2] : t \in free}
  <2>1. N \in SUBSET Nat /\ N # {}
    BY <1>9, <1>10
  <2>2. PICK m \in N : \A k \in N : m <= k
    BY <2>1, LeastElement
  <2>. QED
    BY <2>2
<1>12. FreeTask(s, o) = CHOOSE t \in free : \A v \in free : t[2] <= v[2]
  BY DEF FreeTask, used
<1> HIDE DEF free
<1>13. FreeTask(s, o) \in free
  BY <1>11, <1>12
<1>. QED
  BY <1>13 DEF free, used, Known

(* _startLoop gives the loop a new task and an entry that names it. *)
LEMMA StartLoopKeeps ==
  ASSUME IInv, NEW s, Good(s), OldNames(s),
         NEW l \in Loops, s.entry[l] = NoTask, l \notin ToSet(s.queue),
         l \notin s.gone, Cardinality(Entries(s)) < MaxConcurrent
  PROVE  LET t == FreeTask(s, l)
             r == StartLoop(s, l)
         IN  /\ Good(r) /\ OldNames(r)
             /\ t \in Tasks /\ Owner(t) = l /\ t \notin live /\ t \notin Known(s)
             /\ r.entry = [s.entry EXCEPT ![l] = t]
             /\ r.queue = s.queue /\ r.gone = s.gone /\ r.breaker = s.breaker
             /\ Known(r) = Known(s) \cup {t} /\ s.live \subseteq r.live
<1> DEFINE t == FreeTask(s, l)
           u == SubmitTask(s, t)
           r == [u EXCEPT !.entry[l] = t, !.knownPid = @ \ {l}]
<1>1. StartLoop(s, l) = r
  BY DEF StartLoop
<1>2. s \in Records /\ s.entry \in [Loops -> Tasks \cup {NoTask}]
  BY DEF Good, Records
<1>3. t \in Tasks /\ Owner(t) = l /\ t \notin live /\ t \notin Known(s)
  BY <1>2, FreeName DEF Good
<1> HIDE DEF t
<1>4. /\ u \in Records /\ GoodPool(u) /\ u.queue = s.queue /\ u.entry = s.entry
      /\ u.gone = s.gone /\ u.breaker = s.breaker
      /\ Known(u) = Known(s) \cup {t} /\ s.live \subseteq u.live
  BY <1>2, <1>3, SubmitTaskKeeps DEF Good
<1> HIDE DEF u
<1>5. /\ r \in Records /\ r.entry = [s.entry EXCEPT ![l] = t]
      /\ r.queue = s.queue /\ r.gone = s.gone /\ r.breaker = s.breaker
      /\ r.waiting = u.waiting /\ r.live = u.live
      /\ r.active = u.active /\ r.timers = u.timers
  BY <1>2, <1>3, <1>4 DEF Records
<1> HIDE DEF r
<1>6. Known(r) = Known(s) \cup {t} /\ s.live \subseteq r.live
  BY <1>4, <1>5 DEF Known
<1>7. GoodPool(r)
  BY <1>4, <1>5 DEF GoodPool
<1>8. Entries(r) = Entries(s) \cup {l} /\ l \notin Entries(s)
  BY <1>2, <1>3, <1>5, NoTaskIsNone DEF Entries
<1>9. IsFiniteSet(Entries(r)) /\ Cardinality(Entries(r)) <= MaxConcurrent
  <2>1. IsFiniteSet(Entries(s)) /\ Cardinality(Entries(s)) \in Nat
    BY FS_CardinalityType DEF Good, GoodEntries
  <2>2. /\ IsFiniteSet(Entries(s) \cup {l})
        /\ Cardinality(Entries(s) \cup {l}) = Cardinality(Entries(s)) + 1
    BY <1>8, <2>1, FS_AddElement
  <2>. QED
    BY <1>8, <2>1, <2>2, SupervisorAssumption
<1>10. GoodEntries(r)
  <2>1. \A k \in Entries(r) : Owner(r.entry[k]) = k /\ r.entry[k] \in Known(r)
    BY <1>2, <1>3, <1>5, <1>6, <1>8 DEF Good, GoodEntries, Entries
  <2>2. \A k \in r.gone : r.entry[k] = NoTask
    BY <1>2, <1>5 DEF Good, GoodEntries, Records
  <2>. QED
    BY <1>9, <2>1, <2>2 DEF GoodEntries
<1>11. GoodQueue(r)
  <2>1. ToSet(s.queue) \in SUBSET Loops
    BY <1>2, ElementsFinite DEF Records
  <2>. QED
    BY <1>2, <1>5, <2>1 DEF Good, GoodQueue
<1>12. GoodBreaker(r)
  BY <1>5 DEF Good, GoodBreaker
<1>13. OldNames(r)
  <2> SUFFICES ASSUME NEW x \in Known(r), x \notin Known(Now)
               PROVE  \E k \in Loops : x = r.entry[k]
    BY DEF OldNames
  <2>1. CASE x = t
    BY <1>2, <1>5, <2>1
  <2>2. CASE x # t
    <3>1. x \in Known(s)
      BY <1>6, <2>2
    <3>2. PICK k \in Loops : x = s.entry[k]
      BY <3>1 DEF OldNames
    <3>3. x \in Tasks
      <4>1. ToSet(s.waiting) \in SUBSET Tasks /\ s.live \subseteq Tasks
        BY <1>2, ElementsFinite DEF Records
      <4>. QED
        BY <3>1, <4>1 DEF Known
    <3>4. k # l
      BY <3>2, <3>3, NoTaskIsNone
    <3>. QED
      BY <1>2, <1>5, <3>2, <3>4
  <2>. QED
    BY <2>1, <2>2
<1>. QED
  BY <1>1, <1>3, <1>5, <1>6, <1>7, <1>10, <1>11, <1>12, <1>13 DEF Good, t

(* What the rest of a callback may change: loops that waited get entries   *)
(* while the circuit is not open, and nothing else changes hands.          *)
Continues(s, r) ==
  /\ r.gone = s.gone /\ r.breaker \in {s.breaker, Checked(s.breaker)}
  /\ \A l \in Loops : s.entry[l] # NoTask => r.entry[l] = s.entry[l]
  /\ \A l \in Loops : s.entry[l] = NoTask /\ r.entry[l] # NoTask =>
       l \in ToSet(s.queue) /\ s.breaker.state # "open"
  /\ ToSet(r.queue) \subseteq ToSet(s.queue)
  /\ \A l \in ToSet(s.queue) : l \in ToSet(r.queue) \/ r.entry[l] # NoTask
  /\ s.live \subseteq r.live /\ Known(s) \subseteq Known(r)
  /\ \A t \in Known(r) \ Known(s) :
       t \notin live /\ \E l \in Loops : s.entry[l] = NoTask /\ t = r.entry[l]

(* _processQueue stops. *)
Stopped(s) ==
  \/ Cardinality(Entries(s)) >= MaxConcurrent \/ s.queue = <<>>
  \/ phase = "draining" \/ ~CanExecute(s.breaker)

(* A check of the breaker only moves an elapsed circuit on. *)
LEMMA CheckedBreaker ==
  ASSUME NEW b \in Breakers
  PROVE  /\ Checked(b) \in Breakers /\ Checked(Checked(b)) = Checked(b)
         /\ Checked(b).state = "open" <=> b.state = "open"
         /\ Checked(b).state = "closed" <=> b.state = "closed"
         /\ Checked(b).failures = b.failures
  BY DEF Breakers, CircuitStates, Checked

(* A callback may stop where it is. *)
LEMMA ContinuesReflexive ==
  ASSUME NEW s
  PROVE  Continues(s, s)
  BY DEF Continues

(* One part of a callback after the other. *)
LEMMA ContinuesTransitive ==
  ASSUME NEW s \in Records, NEW r \in Records, NEW u \in Records,
         Continues(s, r), Continues(r, u), GoodEntries(s)
  PROVE  Continues(s, u)
<1>1. s.breaker \in Breakers /\ r.breaker \in Breakers
  BY DEF Records
<1>2. u.gone = s.gone /\ u.breaker \in {s.breaker, Checked(s.breaker)}
  BY <1>1, CheckedBreaker DEF Continues
<1>3. \A l \in Loops : s.entry[l] # NoTask => u.entry[l] = s.entry[l]
  BY DEF Continues
<1>4. r.breaker.state = "open" <=> s.breaker.state = "open"
  BY <1>1, CheckedBreaker DEF Continues
<1>5. ToSet(u.queue) \subseteq ToSet(s.queue)
  BY DEF Continues
<1>6. \A l \in Loops : s.entry[l] = NoTask /\ u.entry[l] # NoTask =>
        l \in ToSet(s.queue) /\ s.breaker.state # "open"
  BY <1>4 DEF Continues
<1>7. \A l \in ToSet(s.queue) : l \in Loops
  BY ElementsFinite DEF Records
<1>8. \A l \in ToSet(s.queue) : l \in ToSet(u.queue) \/ u.entry[l] # NoTask
  BY <1>7 DEF Continues
<1>9. s.live \subseteq u.live /\ Known(s) \subseteq Known(u)
  BY DEF Continues
<1>10. ASSUME NEW t \in Known(u) \ Known(s)
       PROVE  t \notin live /\ \E l \in Loops : s.entry[l] = NoTask /\ t = u.entry[l]
  <2>1. CASE t \in Known(r)
    <3>1. PICK l \in Loops : s.entry[l] = NoTask /\ t = r.entry[l] /\ t \notin live
      BY <1>10, <2>1 DEF Continues
    <3>2. r.entry[l] # NoTask
      <4>1. ToSet(r.waiting) \in SUBSET Tasks /\ r.live \subseteq Tasks
        BY ElementsFinite DEF Records
      <4>. QED
        BY <2>1, <3>1, <4>1, NoTaskIsNone DEF Known
    <3>. QED
      BY <3>1, <3>2 DEF Continues
  <2>2. CASE t \notin Known(r)
    <3>1. PICK l \in Loops : r.entry[l] = NoTask /\ t = u.entry[l] /\ t \notin live
      BY <1>10, <2>2 DEF Continues
    <3>. QED
      BY <3>1 DEF Continues
  <2>. QED
    BY <2>1, <2>2
<1>. QED
  BY <1>2, <1>3, <1>5, <1>6, <1>8, <1>9, <1>10 DEF Continues

(* One round of _processQueue. *)
LEMMA DequeueLoopKeeps ==
  ASSUME IInv, NEW s, Good(s), OldNames(s)
  PROVE  LET r == DequeueLoop(s)
         IN  /\ Good(r) /\ OldNames(r) /\ Continues(s, r)
             /\ IF Stopped(s) THEN r = s ELSE Len(r.queue) = Len(s.queue) - 1
<1>1. CASE Stopped(s)
  <2>1. DequeueLoop(s) = s
    BY <1>1 DEF Stopped, DequeueLoop
  <2>. QED
    BY <1>1, <2>1, ContinuesReflexive
<1>2. CASE ~Stopped(s)
  <2> DEFINE l == Head(s.queue)
             c == [s EXCEPT !.queue = Tail(@), !.breaker = Checked(@)]
             t == FreeTask(c, l)
             r == StartLoop(c, l)
  <2>1. s \in Records /\ s.queue \in Seq(Loops) /\ s.queue # <<>>
        /\ s.breaker \in Breakers /\ CanExecute(s.breaker)
        /\ s.entry \in [Loops -> Tasks \cup {NoTask}]
    BY <1>2 DEF Stopped, Good, Records
  <2>2. /\ Tail(s.queue) \in Seq(Loops) /\ Len(Tail(s.queue)) = Len(s.queue) - 1
        /\ l \in Loops /\ l \in ToSet(s.queue)
        /\ ToSet(Tail(s.queue)) = ToSet(s.queue) \ {l}
        /\ NoDuplicates(Tail(s.queue)) /\ Sorted(Tail(s.queue))
        /\ Len(s.queue) \in Nat /\ Len(s.queue) > 0
    <3>1. NoDuplicates(s.queue) /\ Sorted(s.queue)
      BY DEF Good, GoodQueue
    <3>2. Len(s.queue) \in Nat /\ Len(s.queue) > 0
      BY <2>1, EmptySequence
    <3>3. /\ Tail(s.queue) \in Seq(Loops) /\ Len(Tail(s.queue)) = Len(s.queue) - 1
          /\ l \in Loops /\ l \in ToSet(s.queue)
          /\ \A i, j \in DOMAIN Tail(s.queue) : i < j =>
               \E a, b \in DOMAIN s.queue :
                 a < b /\ Tail(s.queue)[i] = s.queue[a] /\ Tail(s.queue)[j] = s.queue[b]
          /\ ToSet(Tail(s.queue)) = ToSet(s.queue) \ {l}
          /\ NoDuplicates(Tail(s.queue))
      BY <2>1, <3>1, TailPlaces
    <3>4. Sorted(Tail(s.queue))
      BY <3>1, <3>3, PartSorted
    <3>. QED
      BY <3>2, <3>3, <3>4
  <2>3. s.entry[l] = NoTask /\ l \notin s.gone
    BY <2>2 DEF Good, GoodQueue
  <2>4. DequeueLoop(s) = r
    BY <1>2, <2>3 DEF Stopped, DequeueLoop
  <2>5. /\ c \in Records /\ c.queue = Tail(s.queue) /\ c.breaker = Checked(s.breaker)
        /\ c.entry = s.entry /\ c.gone = s.gone /\ c.waiting = s.waiting
        /\ c.live = s.live /\ c.active = s.active /\ c.timers = s.timers
    BY <2>1, <2>2, CheckedBreaker DEF Records
  <2> HIDE DEF l, c
  <2>6. Known(c) = Known(s) /\ Entries(c) = Entries(s) /\ OldNames(c)
    BY <2>5 DEF Known, Entries, OldNames
  <2>7. Good(c)
    <3>1. GoodPool(c) /\ GoodEntries(c)
      BY <2>5, <2>6 DEF Good, GoodPool, GoodEntries
    <3>2. GoodQueue(c)
      BY <2>2, <2>5, SupervisorAssumption DEF Good, GoodQueue
    <3>3. GoodBreaker(c)
      BY <2>1, <2>5, CheckedBreaker DEF Good, GoodBreaker
    <3>. QED
      BY <2>5, <3>1, <3>2, <3>3 DEF Good
  <2>8. Cardinality(Entries(c)) < MaxConcurrent
    <3>1. Cardinality(Entries(s)) \in Nat /\ ~(Cardinality(Entries(s)) >= MaxConcurrent)
      BY <1>2, FS_CardinalityType DEF Stopped, Good, GoodEntries
    <3>. QED
      BY <2>6, <3>1, SupervisorAssumption
  <2>9. /\ Good(r) /\ OldNames(r)
        /\ t \in Tasks /\ Owner(t) = l /\ t \notin live /\ t \notin Known(c)
        /\ r.entry = [c.entry EXCEPT ![l] = t]
        /\ r.queue = c.queue /\ r.gone = c.gone /\ r.breaker = c.breaker
        /\ Known(r) = Known(c) \cup {t} /\ c.live \subseteq r.live
    BY <2>2, <2>3, <2>5, <2>6, <2>7, <2>8, StartLoopKeeps
  <2> HIDE DEF r, t
  <2>10. Continues(s, r)
    BY <2>1, <2>2, <2>3, <2>5, <2>6, <2>9, NoTaskIsNone DEF Continues, CanExecute
  <2>. QED
    BY <1>2, <2>2, <2>4, <2>5, <2>9, <2>10
<1>. QED
  BY <1>1, <1>2

(* The rounds of _processQueue are a function. *)
LEMMA RoundsExist ==
  ASSUME NEW s, NEW N \in Nat
  PROVE  \E f : f = [i \in 0 .. N |-> IF i = 0 THEN s ELSE DequeueLoop(f[i - 1])]
<1> DEFINE P(n) == \E f : f = [i \in 0 .. n |-> IF i = 0 THEN s ELSE DequeueLoop(f[i - 1])]
           S == {n \in Nat : P(n)}
<1>1. P(0)
  <2> DEFINE f == [i \in 0 .. 0 |-> s]
  <2>1. f = [i \in 0 .. 0 |-> IF i = 0 THEN s ELSE DequeueLoop(f[i - 1])]
    OBVIOUS
  <2>. QED
    BY <2>1
<1>2. ASSUME NEW n \in Nat, P(n)
      PROVE  P(n + 1)
  <2>1. PICK f : f = [i \in 0 .. n |-> IF i = 0 THEN s ELSE DequeueLoop(f[i - 1])]
    BY <1>2
  <2> DEFINE g == [i \in 0 .. n + 1 |-> IF i = n + 1 THEN DequeueLoop(f[n]) ELSE f[i]]
             h == [i \in 0 .. n + 1 |-> IF i = 0 THEN s ELSE DequeueLoop(g[i - 1])]
  <2>2. \A i \in 0 .. n : g[i] = f[i]
    OBVIOUS
  <2>3. ASSUME NEW i \in 0 .. n + 1
        PROVE  g[i] = IF i = 0 THEN s ELSE DequeueLoop(g[i - 1])
    <3>1. CASE i = n + 1
      <4>1. g[i] = DequeueLoop(f[n]) /\ i - 1 = n /\ n \in 0 .. n /\ i # 0
        BY <3>1
      <4>2. g[i - 1] = f[n]
        BY <2>2, <4>1
      <4>. QED
        BY <4>1, <4>2
    <3>2. CASE i = 0
      <4>1. 0 \in 0 .. n
        OBVIOUS
      <4>2. f[0] = s
        BY <2>1, <4>1
      <4>. QED
        BY <2>2, <3>2, <4>1, <4>2
    <3>3. CASE i # 0 /\ i # n + 1
      <4>1. i \in 0 .. n /\ i - 1 \in 0 .. n
        BY <3>3
      <4>2. f[i] = DequeueLoop(f[i - 1])
        BY <2>1, <3>3, <4>1
      <4>. QED
        BY <2>2, <3>3, <4>1, <4>2
    <3>. QED
      BY <3>1, <3>2, <3>3
  <2>4. g = h
    BY <2>3
  <2>. QED
    BY <2>4
<1> HIDE DEF P
<1>3. 0 \in S /\ \A n \in Nat : n \in S => n + 1 \in S
  BY <1>1, <1>2
<1> HIDE DEF S
<1>4. N \in S
  BY <1>3, SetInduction
<1>. QED
  BY <1>4 DEF S, P

(* _processQueue goes on until it cannot. *)
LEMMA DrainQueueKeeps ==
  ASSUME IInv, NEW s, Good(s), OldNames(s)
  PROVE  LET r == DrainQueue(s)
         IN  Good(r) /\ OldNames(r) /\ Continues(s, r) /\ Stopped(r)
<1> DEFINE N == Len(s.queue)
           after == CHOOSE f :
                      f = [i \in 0 .. N |-> IF i = 0 THEN s ELSE DequeueLoop(f[i - 1])]
           P(i) == LET r == after[i]
                   IN  /\ Good(r) /\ OldNames(r) /\ Continues(s, r)
                       /\ Len(r.queue) <= N - i \/ Stopped(r)
           S == {i \in Nat : i <= N => P(i)}
<1>1. DrainQueue(s) = after[N]
  BY DEF DrainQueue
<1>2. N \in Nat /\ s \in Records /\ GoodEntries(s)
  BY DEF Good, Records
<1>3. after = [i \in 0 .. N |-> IF i = 0 THEN s ELSE DequeueLoop(after[i - 1])]
  BY <1>2, RoundsExist
<1> HIDE DEF N, after
<1>4. P(0) /\ after[0] = s
  <2>1. 0 \in 0 .. N
    BY <1>2
  <2>2. after[0] = s
    BY <1>3, <2>1
  <2>3. Len(s.queue) <= N - 0
    BY <1>2 DEF N
  <2>. QED
    BY <2>2, <2>3, ContinuesReflexive
<1>5. ASSUME NEW i \in Nat, i + 1 <= N, P(i)
      PROVE  P(i + 1)
  <2> DEFINE r == after[i]
             u == after[i + 1]
  <2>1. u = DequeueLoop(r)
    <3>1. i + 1 \in 0 .. N /\ i + 1 # 0 /\ (i + 1) - 1 = i
      BY <1>2, <1>5
    <3>. QED
      BY <1>3, <3>1
  <2> HIDE DEF u
  <2>2. Good(r) /\ OldNames(r) /\ Continues(s, r)
    BY <1>5
  <2> HIDE DEF r
  <2>3. /\ Good(u) /\ OldNames(u) /\ Continues(r, u)
        /\ IF Stopped(r) THEN u = r ELSE Len(u.queue) = Len(r.queue) - 1
    BY <2>1, <2>2, DequeueLoopKeeps
  <2>4. r \in Records /\ u \in Records
    BY <2>2, <2>3 DEF Good
  <2>5. Continues(s, u)
    BY <1>2, <2>2, <2>3, <2>4, ContinuesTransitive
  <2>6. Len(u.queue) <= N - (i + 1) \/ Stopped(u)
    <3>1. CASE Stopped(r)
      BY <2>3, <3>1
    <3>2. CASE ~Stopped(r)
      <4>1. Len(r.queue) <= N - i /\ Len(u.queue) = Len(r.queue) - 1
        BY <1>5, <2>3, <3>2 DEF r
      <4>2. Len(r.queue) \in Nat
        BY <2>4 DEF Records
      <4>. QED
        BY <1>2, <4>1, <4>2
    <3>. QED
      BY <3>1, <3>2
  <2>. QED
    BY <2>3, <2>5, <2>6 DEF u
<1> HIDE DEF P
<1>6. 0 \in S /\ \A i \in Nat : i \in S => i + 1 \in S
  <2>1. ASSUME NEW i \in Nat, i \in S, i + 1 <= N
        PROVE  P(i + 1)
    <3>1. i <= N
      BY <1>2, <2>1
    <3>. QED
      BY <1>5, <2>1, <3>1
  <2>. QED
    BY <1>4, <2>1
<1> HIDE DEF S
<1>7. N \in S
  BY <1>2, <1>6, SetInduction
<1>8. P(N)
  BY <1>2, <1>7 DEF S
<1> DEFINE r == after[N]
<1>9. /\ Good(r) /\ OldNames(r) /\ Continues(s, r)
      /\ Len(r.queue) <= N - N \/ Stopped(r)
  BY <1>8 DEF P
<1> HIDE DEF r
<1>10. Stopped(r)
  <2>1. CASE Len(r.queue) <= N - N
    <3>1. r.queue \in Seq(Loops)
      BY <1>9 DEF Good, Records
    <3>2. Len(r.queue) \in Nat /\ ~(Len(r.queue) > 0)
      BY <1>2, <2>1, <3>1
    <3>3. r.queue = <<>>
      BY <3>1, <3>2, EmptySequence
    <3>. QED
      BY <3>3 DEF Stopped
  <2>. QED
    BY <1>9, <2>1
<1>. QED
  BY <1>1, <1>9, <1>10 DEF r

-----------------------------------------------------------------------------
(* The steps. *)

(* The state after a callback is the record it has computed. *)
LEMMA Become ==
  ASSUME NEW r \in Records, Becomes(r)
  PROVE  Now' = r
<1>1. /\ Now'.queue = r.queue /\ Now'.entry = r.entry /\ Now'.knownPid = r.knownPid
      /\ Now'.gone = r.gone /\ Now'.breaker = r.breaker
      /\ Now'.waiting = r.waiting /\ Now'.active = r.active
      /\ Now'.live = r.live /\ Now'.timers = r.timers
  BY DEF Becomes, Now
<1>. QED
  BY <1>1 DEF Records, Now

(* The entries a callback found still name the tasks that the pool has. *)
LEMMA RoomKept ==
  ASSUME IInv, NEW r, Good(r), OldNames(r),
         \A l \in Loops : entry[l] \in Known(r) => r.entry[l] = entry[l]
  PROVE  Room(r, Spare)
<1> SUFFICES ASSUME NEW o \in Loops \cup {Direct}
             PROVE  Cardinality(OrphansOf(r, o)) <= Spare
  BY DEF Room
<1>1. OrphansOf(r, o) \subseteq OrphansOf(Now, o)
  <2> SUFFICES ASSUME NEW t \in Known(r), Owner(t) = o, o \in Loops => t # r.entry[o]
               PROVE  t \in Known(Now) /\ (o \in Loops => t # Now.entry[o])
    BY DEF OrphansOf
  <2>1. t \in Tasks
    <3>1. ToSet(r.waiting) \in SUBSET Tasks /\ r.live \subseteq Tasks
      BY ElementsFinite DEF Good, Records
    <3>. QED
      BY <3>1 DEF Known
  <2>2. ASSUME NEW l \in Loops
        PROVE  t # r.entry[l]
    <3>1. t = r.entry[l] => Owner(t) = l
      BY <2>1, NoTaskIsNone DEF Good, GoodEntries, Entries
    <3>. QED
      BY <3>1
  <2>3. t \in Known(Now)
    BY <2>2 DEF OldNames
  <2>4. Now.entry = entry
    BY DEF Now
  <2>. QED
    BY <2>2, <2>3, <2>4
<1>2. IsFiniteSet(OrphansOf(Now, o)) /\ Cardinality(OrphansOf(Now, o)) <= Spare
  BY NowFields, FS_Subset DEF IInv, Room, OrphansOf
<1>3. /\ IsFiniteSet(OrphansOf(r, o))
      /\ Cardinality(OrphansOf(r, o)) <= Cardinality(OrphansOf(Now, o))
  BY <1>1, <1>2, FS_Subset
<1>4. Cardinality(OrphansOf(r, o)) \in Nat /\ Cardinality(OrphansOf(Now, o)) \in Nat
  BY <1>2, <1>3, FS_CardinalityType
<1>5. Spare \in Nat
  BY SupervisorAssumption DEF Spare
<1>. QED
  BY <1>2, <1>3, <1>4, <1>5

(* A callback that leaves the phase alone keeps the invariant. *)
LEMMA CallbackKeeps ==
  ASSUME IInv, NEW r, Good(r), Room(r, Spare), NotIdle(r),
         phase = "draining" => r.queue = <<>>,
         Becomes(r), history' \in [Loops -> 0 .. MaxRestarts], UNCHANGED phaseVars
  PROVE  IInv' /\ Now' = r
<1>1. Now' = r
  BY Become DEF Good
<1>2. Good(Now') /\ NotIdle(Now') /\ Spare' = Spare
  BY <1>1 DEF Spare, phaseVars
<1>3. Room(Now', Spare)
  BY <1>1
<1>4. queue' = r.queue
  BY DEF Becomes
<1>5. /\ phase' \in {"up", "draining", "drained", "crashed"}
      /\ phase' # "up" => MayShutDown
      /\ phase' = "draining" => queue' = <<>>
      /\ graceArmed' \in BOOLEAN
  BY <1>4 DEF phaseVars, IInv
<1>. QED
  BY <1>1, <1>2, <1>3, <1>5 DEF IInv

(* Where _processQueue stops, no loop waits for nothing. *)
LEMMA StoppedNotIdle ==
  ASSUME IInv, NEW r, Good(r), Stopped(r), ToSet(r.queue) \subseteq ToSet(queue)
  PROVE  NotIdle(r) /\ (phase = "draining" => r.queue = <<>>)
<1>1. phase = "draining" => r.queue = <<>>
  <2> HAVE phase = "draining"
  <2>1. ToSet(r.queue) = {}
    BY EmptySequence DEF IInv
  <2>2. r.queue \in Seq(Loops)
    BY DEF Good, Records
  <2>3. r.queue # <<>> => 1 \in DOMAIN r.queue
    BY <2>2
  <2>. QED
    BY <2>1, <2>3 DEF ToSet
<1>2. r.queue # <<>> /\ r.breaker.state = "closed" => Cardinality(Entries(r)) = MaxConcurrent
  <2> HAVE r.queue # <<>> /\ r.breaker.state = "closed"
  <2>1. Cardinality(Entries(r)) >= MaxConcurrent
    BY <1>1 DEF Stopped, CanExecute
  <2>2. Cardinality(Entries(r)) \in Nat /\ Cardinality(Entries(r)) <= MaxConcurrent
    BY FS_CardinalityType DEF Good, GoodEntries
  <2>. QED
    BY <2>1, <2>2, SupervisorAssumption
<1>. QED
  BY <1>1, <1>2 DEF NotIdle

(* The supervisor's _processQueue, and the pool's after it. *)
LEMMA ProcessQueueKeeps ==
  ASSUME IInv, NEW b, Good(b), OldNames(b), ToSet(b.queue) \subseteq ToSet(queue),
         NEW r \in {DrainQueue(b), Fill(DrainQueue(b))}
  PROVE  /\ Good(r) /\ OldNames(r) /\ Continues(b, r) /\ NotIdle(r)
         /\ phase = "draining" => r.queue = <<>>
<1> DEFINE d == DrainQueue(b)
<1>1. Good(d) /\ OldNames(d) /\ Continues(b, d) /\ Stopped(d)
  BY DrainQueueKeeps
<1>2. r \in {d, Fill(d)}
  OBVIOUS
<1> HIDE DEF d
<1>3. NotIdle(d) /\ (phase = "draining" => d.queue = <<>>)
  <2>1. ToSet(d.queue) \subseteq ToSet(queue)
    BY <1>1 DEF Continues
  <2>. QED
    BY <1>1, <2>1, StoppedNotIdle
<1>4. CASE r = d
  BY <1>1, <1>3, <1>4
<1>5. CASE r = Fill(d)
  <2>1. /\ r \in Records /\ GoodPool(r)
        /\ r.queue = d.queue /\ r.entry = d.entry
        /\ r.gone = d.gone /\ r.breaker = d.breaker
        /\ Known(r) = Known(d) /\ d.live \subseteq r.live
    BY <1>1, <1>5, FillKeeps DEF Good
  <2>2. Entries(r) = Entries(d)
    BY <2>1 DEF Entries
  <2>3. Good(r)
    BY <1>1, <2>1, <2>2 DEF Good, GoodEntries, GoodQueue, GoodBreaker
  <2>4. OldNames(r) /\ NotIdle(r)
    BY <1>1, <1>3, <2>1, <2>2 DEF OldNames, NotIdle
  <2>5. Continues(b, r)
    BY <1>1, <2>1 DEF Continues
  <2>. QED
    BY <1>3, <2>1, <2>3, <2>4, <2>5
<1>. QED
  BY <1>2, <1>4, <1>5

(* The same, for the room that is left. *)
LEMMA ProcessQueueRoom ==
  ASSUME IInv, NEW b, NEW r, Good(r), OldNames(r), Continues(b, r),
         \A l \in Loops : entry[l] \in Known(b) => b.entry[l] = entry[l]
  PROVE  Room(r, Spare)
<1> SUFFICES ASSUME NEW l \in Loops, entry[l] \in Known(r)
             PROVE  r.entry[l] = entry[l]
  BY RoomKept
<1>1. entry[l] \in Tasks
  <2>1. entry \in [Loops -> Tasks \cup {NoTask}]
    BY NowFields DEF Now, Records
  <2>2. ToSet(r.waiting) \in SUBSET Tasks /\ r.live \subseteq Tasks
    BY ElementsFinite DEF Good, Records
  <2>. QED
    BY <2>1, <2>2 DEF Known
<1>2. CASE entry[l] \in Known(b)
  BY <1>1, <1>2, NoTaskIsNone DEF Continues
<1>3. CASE entry[l] \notin Known(b)
  <2>1. PICK k \in Loops : entry[l] = r.entry[k]
    BY <1>3 DEF Continues
  <2>2. Owner(entry[l]) = k
    BY <1>1, <2>1, NoTaskIsNone DEF Good, GoodEntries, Entries
  <2>3. Owner(entry[l]) = l
    <3>1. Now.entry = entry /\ GoodEntries(Now)
      BY NowFields DEF Good, Now
    <3>. QED
      BY <1>1, <3>1, NoTaskIsNone DEF GoodEntries, Entries
  <2>. QED
    BY <2>1, <2>2, <2>3
<1>. QED
  BY <1>2, <1>3

(* The invariant, in the variables. *)
LEMMA NowIs ==
  ASSUME IInv
  PROVE  /\ queue \in Seq(Loops) /\ entry \in [Loops -> Tasks \cup {NoTask}]
         /\ knownPid \subseteq Loops /\ permanentlyFailed \subseteq Loops
         /\ breaker \in Breakers /\ waiting \in Seq(Tasks)
         /\ active \subseteq live /\ timers \subseteq live /\ live \subseteq Tasks
         /\ NoDuplicates(waiting) /\ ToSet(waiting) \cap live = {}
         /\ IsFiniteSet(live) /\ Known(Now) = live \cup ToSet(waiting)
         /\ \A l \in Loops : entry[l] # NoTask =>
              Owner(entry[l]) = l /\ entry[l] \in live \cup ToSet(waiting)
         /\ IsFiniteSet(Entries(Now)) /\ Cardinality(Entries(Now)) <= MaxConcurrent
         /\ \A l \in permanentlyFailed : entry[l] = NoTask
         /\ NoDuplicates(queue) /\ Sorted(queue) /\ Len(queue) <= MaxQueueDepth
         /\ \A l \in ToSet(queue) : l \in Loops /\ entry[l] = NoTask /\ l \notin permanentlyFailed
         /\ breaker.state = "closed" => breaker.failures < FailureThreshold
<1>1. /\ Now.queue = queue /\ Now.entry = entry /\ Now.knownPid = knownPid
      /\ Now.gone = permanentlyFailed /\ Now.breaker = breaker
      /\ Now.waiting = waiting /\ Now.active = active
      /\ Now.live = live /\ Now.timers = timers
  BY DEF Now
<1>2. Known(Now) = live \cup ToSet(waiting)
  BY <1>1 DEF Known
<1>3. Now \in Records /\ GoodPool(Now) /\ GoodEntries(Now) /\ GoodQueue(Now) /\ GoodBreaker(Now)
  BY DEF IInv, Good
<1>4. /\ queue \in Seq(Loops) /\ entry \in [Loops -> Tasks \cup {NoTask}]
      /\ knownPid \subseteq Loops /\ permanentlyFailed \subseteq Loops
      /\ breaker \in Breakers /\ waiting \in Seq(Tasks) /\ live \subseteq Tasks
  BY <1>1, <1>3 DEF Records
<1>5. ToSet(queue) \subseteq Loops
  BY <1>4, ElementsFinite
<1>6. /\ active \subseteq live /\ timers \subseteq live
      /\ NoDuplicates(waiting) /\ ToSet(waiting) \cap live = {} /\ IsFiniteSet(live)
  BY <1>1, <1>3 DEF GoodPool
<1>7. /\ \A l \in Loops : entry[l] # NoTask =>
           Owner(entry[l]) = l /\ entry[l] \in live \cup ToSet(waiting)
      /\ IsFiniteSet(Entries(Now)) /\ Cardinality(Entries(Now)) <= MaxConcurrent
      /\ \A l \in permanentlyFailed : entry[l] = NoTask
  BY <1>1, <1>2, <1>3 DEF GoodEntries, Entries
<1>8. /\ NoDuplicates(queue) /\ Sorted(queue) /\ Len(queue) <= MaxQueueDepth
      /\ \A l \in ToSet(queue) : entry[l] = NoTask /\ l \notin permanentlyFailed
  BY <1>1, <1>3 DEF GoodQueue
<1>9. breaker.state = "closed" => breaker.failures < FailureThreshold
  BY <1>1, <1>3 DEF GoodBreaker
<1>. QED
  BY <1>2, <1>4, <1>5, <1>6, <1>7, <1>8, <1>9

(* A callback that begins by dropping the entry of loop l. *)
LEMMA DropsEntry ==
  ASSUME IInv, NEW b \in Records, NEW l \in Loops, entry[l] # NoTask,
         b.queue = queue, b.entry = [entry EXCEPT ![l] = NoTask],
         b.gone \in {permanentlyFailed, permanentlyFailed \cup {l}},
         GoodBreaker(b), GoodPool(b),
         Known(b) \in {Known(Now), Known(Now) \ {entry[l]}}
  PROVE  /\ Good(b) /\ OldNames(b) /\ l \notin ToSet(queue)
         /\ Cardinality(Entries(b)) < MaxConcurrent
         /\ \A k \in Loops : k # l => b.entry[k] = entry[k]
         /\ b.entry[l] = NoTask
<1>1. /\ entry \in [Loops -> Tasks \cup {NoTask}]
      /\ \A k \in Loops : entry[k] # NoTask =>
           Owner(entry[k]) = k /\ entry[k] \in Known(Now)
      /\ IsFiniteSet(Entries(Now)) /\ Cardinality(Entries(Now)) <= MaxConcurrent
      /\ \A k \in permanentlyFailed : k \in Loops /\ entry[k] = NoTask
      /\ NoDuplicates(queue) /\ Sorted(queue) /\ Len(queue) <= MaxQueueDepth
      /\ \A k \in ToSet(queue) : k \in Loops /\ entry[k] = NoTask /\ k \notin permanentlyFailed
  BY NowIs
<1>2. (\A k \in Loops : k # l => b.entry[k] = entry[k]) /\ b.entry[l] = NoTask
  BY <1>1
<1>3. Entries(b) = Entries(Now) \ {l} /\ l \in Entries(Now)
  <2>1. Now.entry = entry
    BY DEF Now
  <2>. QED
    BY <1>2, <2>1 DEF Entries
<1>4. IsFiniteSet(Entries(b)) /\ Cardinality(Entries(b)) < MaxConcurrent
  <2>1. Cardinality(Entries(Now)) \in Nat
    BY <1>1, FS_CardinalityType
  <2>2. /\ IsFiniteSet(Entries(Now) \ {l})
        /\ Cardinality(Entries(Now) \ {l}) = Cardinality(Entries(Now)) - 1
    BY <1>1, <1>3, FS_RemoveElement
  <2>. QED
    BY <1>1, <1>3, <2>1, <2>2, SupervisorAssumption
<1>5. GoodEntries(b)
  <2>1. Cardinality(Entries(b)) <= MaxConcurrent
    BY <1>4, FS_CardinalityType, SupervisorAssumption
  <2>2. ASSUME NEW k \in Entries(b)
        PROVE  Owner(b.entry[k]) = k /\ b.entry[k] \in Known(b)
    <3>1. k \in Loops /\ k # l /\ b.entry[k] = entry[k] /\ entry[k] # NoTask
      BY <1>2 DEF Entries
    <3>2. Owner(entry[k]) = k /\ entry[k] \in Known(Now) /\ Owner(entry[l]) = l
      BY <1>1, <3>1
    <3>. QED
      BY <3>1, <3>2
  <2>3. \A k \in b.gone : b.entry[k] = NoTask
    BY <1>1, <1>2
  <2>. QED
    BY <1>4, <2>1, <2>2, <2>3 DEF GoodEntries
<1>6. l \notin ToSet(queue)
  BY <1>1
<1>7. GoodQueue(b)
  BY <1>1, <1>2, <1>6 DEF GoodQueue
<1>8. OldNames(b)
  BY DEF OldNames
<1>. QED
  BY <1>2, <1>4, <1>5, <1>6, <1>7, <1>8 DEF Good

(* The same, when the pool reports the end t of the loop's task. *)
EndOf(t, l, b) ==
  /\ b \in Records /\ GoodBreaker(b)
  /\ b.queue = queue /\ b.entry = [entry EXCEPT ![l] = NoTask]
  /\ b.gone \in {permanentlyFailed, permanentlyFailed \cup {l}}
  /\ b.waiting = waiting /\ b.live = live \ {t}
  /\ b.active = active \ {t} /\ b.timers = timers \ {t}

(* What the end of a loop's task leaves: a good state in which the loop    *)
(* has no entry and a slot is free.                                        *)
LEMMA EndsTask ==
  ASSUME IInv, NEW t \in live, NEW l \in LoopOf(t), NEW b, EndOf(t, l, b)
  PROVE  /\ l \in Loops /\ entry[l] = t /\ t \in Tasks /\ t # NoTask
         /\ Good(b) /\ OldNames(b) /\ l \notin ToSet(queue)
         /\ Cardinality(Entries(b)) < MaxConcurrent
         /\ \A k \in Loops : k # l => b.entry[k] = entry[k]
         /\ b.entry[l] = NoTask
         /\ Known(b) = Known(Now) \ {t}
         /\ \A k \in Loops : entry[k] \in Known(b) => b.entry[k] = entry[k]
<1>1. l \in Loops /\ entry[l] = t /\ t \in Tasks /\ t # NoTask
  BY NowIs, NoTaskIsNone DEF LoopOf
<1>2. Known(b) = Known(Now) \ {t}
  BY NowIs DEF Known, EndOf
<1>3. GoodPool(b)
  <2>1. IsFiniteSet(live \ {t})
    BY NowIs, FS_Subset
  <2>. QED
    BY <2>1, NowIs DEF GoodPool, EndOf
<1>4. /\ Good(b) /\ OldNames(b) /\ l \notin ToSet(queue)
      /\ Cardinality(Entries(b)) < MaxConcurrent
      /\ \A k \in Loops : k # l => b.entry[k] = entry[k]
      /\ b.entry[l] = NoTask
  BY <1>1, <1>2, <1>3, DropsEntry DEF EndOf
<1>. QED
  BY <1>1, <1>2, <1>4

(* A callback that processes the queues in the end. *)
LEMMA ProcessingKeeps ==
  ASSUME IInv, NEW b, Good(b), OldNames(b), ToSet(b.queue) \subseteq ToSet(queue),
         \A k \in Loops : entry[k] \in Known(b) => b.entry[k] = entry[k],
         NEW r \in {DrainQueue(b), Fill(DrainQueue(b))}, Becomes(r),
         history' \in [Loops -> 0 .. MaxRestarts], UNCHANGED phaseVars
  PROVE  IInv' /\ Continues(b, Now')
<1>1. /\ Good(r) /\ OldNames(r) /\ Continues(b, r) /\ NotIdle(r)
      /\ phase = "draining" => r.queue = <<>>
  BY ProcessQueueKeeps
<1>2. Room(r, Spare)
  BY <1>1, ProcessQueueRoom
<1>3. IInv' /\ Now' = r
  BY <1>1, <1>2, CallbackKeeps
<1>. QED
  BY <1>1, <1>3

(* The circuit breaker's answers keep its counter below the threshold *)
(* while it is closed. *)
LEMMA BreakerBelow ==
  ASSUME NEW c \in Breakers, c.state = "closed" => c.failures < FailureThreshold,
         NEW x \in {c, Checked(c), Succeeded(c), Failed(c)}
  PROVE  x \in Breakers /\ (x.state = "closed" => x.failures < FailureThreshold)
<1>1. c.state \in CircuitStates /\ c.failures \in 0 .. FailureThreshold
  BY DEF Breakers
<1>2. CASE x = c
  BY <1>2
<1>3. CASE x = Checked(c)
  BY <1>3, CheckedBreaker
<1>4. CASE x = Succeeded(c)
  BY <1>1, <1>4, BreakerAssumption DEF Breakers, CircuitStates, Succeeded
<1>5. CASE x = Failed(c)
  <2> DEFINE n == IF c.failures < FailureThreshold THEN c.failures + 1 ELSE c.failures
  <2>1. n \in 0 .. FailureThreshold
    BY <1>1, BreakerAssumption
  <2>. QED
    BY <1>1, <1>5, <2>1, BreakerAssumption DEF Breakers, CircuitStates, Failed
<1>. QED
  BY <1>2, <1>3, <1>4, <1>5

(* The entry is dropped in the record of the task's end. *)
LEMMA EndForgotten ==
  ASSUME IInv, NEW t \in Tasks, NEW l \in Loops
  PROVE  LET b == Forget(Ended(t), l)
         IN  /\ b \in Records /\ b.queue = queue
             /\ b.entry = [entry EXCEPT ![l] = NoTask]
             /\ b.gone = permanentlyFailed /\ b.breaker = breaker
             /\ b.waiting = waiting /\ b.live = live \ {t}
             /\ b.active = active \ {t} /\ b.timers = timers \ {t}
<1> DEFINE e == Ended(t)
           b == Forget(e, l)
<1>1. Now \in Records
  BY NowFields
<1>2. /\ Now.queue = queue /\ Now.entry = entry
      /\ Now.gone = permanentlyFailed /\ Now.breaker = breaker
      /\ Now.waiting = waiting /\ Now.live = live
      /\ Now.active = active /\ Now.timers = timers
  BY DEF Now
<1>3. /\ e \in Records /\ e.queue = queue /\ e.entry = entry
      /\ e.gone = permanentlyFailed /\ e.breaker = breaker
      /\ e.waiting = waiting /\ e.live = live \ {t}
      /\ e.active = active \ {t} /\ e.timers = timers \ {t}
  BY <1>1, <1>2 DEF Records, Ended
<1> HIDE DEF e
<1>4. /\ b \in Records /\ b.queue = queue
      /\ b.entry = [entry EXCEPT ![l] = NoTask]
      /\ b.gone = permanentlyFailed /\ b.breaker = breaker
      /\ b.waiting = waiting /\ b.live = live \ {t}
      /\ b.active = active \ {t} /\ b.timers = timers \ {t}
  BY <1>3 DEF Records, Forget
<1>. QED
  BY <1>4 DEF e

(* What task:completed, task:cancelled and task:failed do about the end of *)
(* a task.                                                                 *)
Handled(t) ==
  \E l \in LoopOf(t) : \E b : EndOf(t, l, b) /\ Continues(b, Now')

(* A loop completes and the queue moves on. *)
LEMMA CompletedKeeps ==
  ASSUME IInv, NEW t \in Tasks, Completed(t)
  PROVE  IInv' /\ Handled(t)
<1>1. PICK l \in LoopOf(t) :
        Becomes(Fill(DrainQueue([Forget(Ended(t), l) EXCEPT !.breaker = Succeeded(@)])))
  BY DEF Completed
<1> DEFINE b == [Forget(Ended(t), l) EXCEPT !.breaker = Succeeded(@)]
<1>2. t \in live /\ l \in Loops /\ Succeeded(breaker) \in Breakers
  BY NowIs, BreakerBelow DEF Completed, LoopOf
<1>3. EndOf(t, l, b)
  <2>1. /\ b \in Records /\ b.queue = queue /\ b.entry = [entry EXCEPT ![l] = NoTask]
        /\ b.gone = permanentlyFailed /\ b.breaker = Succeeded(breaker)
        /\ b.waiting = waiting /\ b.live = live \ {t}
        /\ b.active = active \ {t} /\ b.timers = timers \ {t}
    <3> DEFINE f == Forget(Ended(t), l)
    <3>1. /\ f \in Records /\ f.queue = queue
          /\ f.entry = [entry EXCEPT ![l] = NoTask]
          /\ f.gone = permanentlyFailed /\ f.breaker = breaker
          /\ f.waiting = waiting /\ f.live = live \ {t}
          /\ f.active = active \ {t} /\ f.timers = timers \ {t}
      BY <1>2, EndForgotten
    <3> HIDE DEF f
    <3>. QED
      BY <1>2, <3>1 DEF Records, f
  <2>. QED
    BY <2>1, NowIs, BreakerBelow DEF EndOf, GoodBreaker
<1>4. Becomes(Fill(DrainQueue(b)))
  BY <1>1
<1> HIDE DEF b
<1>5. history' \in [Loops -> 0 .. MaxRestarts] /\ UNCHANGED phaseVars
  BY DEF Completed, IInv
<1>6. IInv' /\ Continues(b, Now')
  BY <1>2, <1>3, <1>4, <1>5, EndsTask, ProcessingKeeps DEF EndOf
<1>. QED
  BY <1>3, <1>6 DEF Handled

(* The task of a loop is cancelled. *)
LEMMA CancelledKeeps ==
  ASSUME IInv, NEW t \in Tasks, Cancelled(t)
  PROVE  IInv' /\ Handled(t)
<1>1. PICK l \in LoopOf(t) : Becomes(Fill(DrainQueue(Forget(Ended(t), l))))
  BY DEF Cancelled
<1> DEFINE b == Forget(Ended(t), l)
<1>2. t \in live /\ l \in Loops
  BY DEF Cancelled, LoopOf
<1>3. EndOf(t, l, b)
  <2>1. /\ b \in Records /\ b.queue = queue /\ b.entry = [entry EXCEPT ![l] = NoTask]
        /\ b.gone = permanentlyFailed /\ b.breaker = breaker
        /\ b.waiting = waiting /\ b.live = live \ {t}
        /\ b.active = active \ {t} /\ b.timers = timers \ {t}
    BY <1>2, EndForgotten
  <2>. QED
    BY <2>1, NowIs DEF EndOf, GoodBreaker
<1>4. Becomes(Fill(DrainQueue(b)))
  BY <1>1
<1> HIDE DEF b
<1>5. history' \in [Loops -> 0 .. MaxRestarts] /\ UNCHANGED phaseVars
  BY DEF Cancelled, IInv
<1>6. IInv' /\ Continues(b, Now')
  BY <1>2, <1>3, <1>4, <1>5, EndsTask, ProcessingKeeps DEF EndOf
<1>. QED
  BY <1>3, <1>6 DEF Handled

(* A loop has failed too often and is given up. *)
LEMMA GivesUpKeeps ==
  ASSUME IInv, NEW t \in Tasks, GivesUp(t)
  PROVE  IInv' /\ Handled(t)
<1>1. PICK l \in LoopOf(t) :
        /\ CountFailure(l, MaxRestarts)
        /\ Becomes(Fill(DrainQueue([AfterFailure(t, l) EXCEPT !.gone = @ \cup {l}])))
  BY DEF GivesUp
<1> DEFINE b == [AfterFailure(t, l) EXCEPT !.gone = @ \cup {l}]
<1>2. t \in live /\ l \in Loops /\ Failed(breaker) \in Breakers
  BY NowIs, BreakerBelow DEF GivesUp, LoopOf
<1>3. EndOf(t, l, b)
  <2>1. /\ b \in Records /\ b.queue = queue /\ b.entry = [entry EXCEPT ![l] = NoTask]
        /\ b.gone = permanentlyFailed \cup {l} /\ b.breaker = Failed(breaker)
        /\ b.waiting = waiting /\ b.live = live \ {t}
        /\ b.active = active \ {t} /\ b.timers = timers \ {t}
    <3> DEFINE f == Forget(Ended(t), l)
    <3>1. /\ f \in Records /\ f.queue = queue
          /\ f.entry = [entry EXCEPT ![l] = NoTask]
          /\ f.gone = permanentlyFailed /\ f.breaker = breaker
          /\ f.waiting = waiting /\ f.live = live \ {t}
          /\ f.active = active \ {t} /\ f.timers = timers \ {t}
      BY <1>2, EndForgotten
    <3>2. b = [f EXCEPT !.breaker = Failed(@), !.gone = @ \cup {l}]
      BY DEF AfterFailure
    <3> HIDE DEF f, b
    <3>. QED
      BY <1>2, <3>1, <3>2 DEF Records
  <2>. QED
    BY <2>1, NowIs, BreakerBelow DEF EndOf, GoodBreaker
<1>4. Becomes(Fill(DrainQueue(b)))
  BY <1>1
<1> HIDE DEF b
<1>5. history' \in [Loops -> 0 .. MaxRestarts] /\ UNCHANGED phaseVars
  <2>1. history \in [Loops -> 0 .. MaxRestarts] /\ MaxRestarts \in 0 .. MaxRestarts
    BY SupervisorAssumption DEF IInv
  <2>. QED
    BY <1>1, <1>2, <2>1 DEF GivesUp, CountFailure
<1>6. IInv' /\ Continues(b, Now')
  BY <1>2, <1>3, <1>4, <1>5, EndsTask, ProcessingKeeps DEF EndOf
<1>. QED
  BY <1>3, <1>6 DEF Handled

(* A restart: the loop has a new task before the queues are processed. *)
Restarted(t) ==
  \E l \in LoopOf(t), n \in Tasks, u \in Records :
    /\ Owner(n) = l /\ n \notin Known(Now)
    /\ u.entry = [entry EXCEPT ![l] = n]
    /\ u.queue = queue /\ u.gone = permanentlyFailed
    /\ Known(u) = (Known(Now) \ {t}) \cup {n} /\ live \ {t} \subseteq u.live
    /\ Continues(u, Now')

(* A loop fails and gets its next task before the queue moves on. *)
LEMMA RestartsKeeps ==
  ASSUME IInv, NEW t \in Tasks, Restarts(t)
  PROVE  IInv' /\ Restarted(t)
<1>1. PICK l \in LoopOf(t), n \in 1 .. MaxRestarts - 1 :
        /\ CountFailure(l, n)
        /\ Becomes(Fill(DrainQueue(StartLoop(AfterFailure(t, l), l))))
  BY DEF Restarts
<1> DEFINE b == AfterFailure(t, l)
           x == FreeTask(b, l)
           u == StartLoop(b, l)
<1>2. t \in live /\ l \in Loops /\ Failed(breaker) \in Breakers
  BY NowIs, BreakerBelow DEF Restarts, LoopOf
<1>3. EndOf(t, l, b) /\ b.gone = permanentlyFailed
  <2>1. /\ b \in Records /\ b.queue = queue /\ b.entry = [entry EXCEPT ![l] = NoTask]
        /\ b.gone = permanentlyFailed /\ b.breaker = Failed(breaker)
        /\ b.waiting = waiting /\ b.live = live \ {t}
        /\ b.active = active \ {t} /\ b.timers = timers \ {t}
    <3> DEFINE f == Forget(Ended(t), l)
    <3>1. /\ f \in Records /\ f.queue = queue
          /\ f.entry = [entry EXCEPT ![l] = NoTask]
          /\ f.gone = permanentlyFailed /\ f.breaker = breaker
          /\ f.waiting = waiting /\ f.live = live \ {t}
          /\ f.active = active \ {t} /\ f.timers = timers \ {t}
      BY <1>2, EndForgotten
    <3>2. b = [f EXCEPT !.breaker = Failed(@)]
      BY DEF AfterFailure
    <3> HIDE DEF f, b
    <3>. QED
      BY <1>2, <3>1, <3>2 DEF Records
  <2> HIDE DEF b
  <2>. QED
    BY <2>1, NowIs, BreakerBelow DEF EndOf, GoodBreaker
<1>4. Becomes(Fill(DrainQueue(u)))
  BY <1>1
<1> HIDE DEF b
<1>5. /\ l \in Loops /\ entry[l] = t /\ t \in Tasks /\ t # NoTask
      /\ Good(b) /\ OldNames(b) /\ l \notin ToSet(queue)
      /\ Cardinality(Entries(b)) < MaxConcurrent
      /\ \A k \in Loops : k # l => b.entry[k] = entry[k]
      /\ b.entry[l] = NoTask
      /\ Known(b) = Known(Now) \ {t}
      /\ \A k \in Loops : entry[k] \in Known(b) => b.entry[k] = entry[k]
  BY <1>2, <1>3, EndsTask
<1>6. b.queue = queue /\ b.entry = [entry EXCEPT ![l] = NoTask] /\ b.live = live \ {t}
  BY <1>3 DEF EndOf
<1>7. l \notin b.gone
  BY <1>3, <1>5, NowIs
<1>8. /\ Good(u) /\ OldNames(u)
      /\ x \in Tasks /\ Owner(x) = l /\ x \notin live /\ x \notin Known(b)
      /\ u.entry = [b.entry EXCEPT ![l] = x]
      /\ u.queue = b.queue /\ u.gone = b.gone /\ u.breaker = b.breaker
      /\ Known(u) = Known(b) \cup {x} /\ b.live \subseteq u.live
  BY <1>5, <1>6, <1>7, StartLoopKeeps
<1> HIDE DEF x, u
<1>9. x \notin Known(Now)
  BY <1>2, <1>5, <1>8
<1>10. entry \in [Loops -> Tasks \cup {NoTask}] /\ u \in Records
  BY <1>8, NowIs DEF Good
<1>11. u.entry = [entry EXCEPT ![l] = x]
  BY <1>6, <1>8, <1>10
<1>12. ASSUME NEW k \in Loops, entry[k] \in Known(u)
       PROVE  u.entry[k] = entry[k]
  <2>1. entry[k] # x
    BY <1>8, <1>9, <1>10, NoTaskIsNone, NowIs
  <2>2. entry[k] \in Known(b) /\ k # l
    BY <1>5, <1>8, <1>12, <2>1
  <2>. QED
    BY <1>10, <1>11, <2>2
<1>13. history' \in [Loops -> 0 .. MaxRestarts] /\ UNCHANGED phaseVars
  <2>1. history \in [Loops -> 0 .. MaxRestarts] /\ n \in 0 .. MaxRestarts
    BY SupervisorAssumption DEF IInv
  <2>. QED
    BY <1>1, <1>2, <2>1 DEF Restarts, CountFailure
<1>14. IInv' /\ Continues(u, Now')
  BY <1>4, <1>6, <1>8, <1>12, <1>13, ProcessingKeeps
<1>. QED
  BY <1>3, <1>5, <1>6, <1>8, <1>9, <1>10, <1>11, <1>14 DEF Restarted

(* cancel() of a loop whose task waits: the entry goes with the task. *)
CancelledWaiting(l) ==
  \E b \in Records :
    /\ b.queue = queue /\ b.entry = [entry EXCEPT ![l] = NoTask]
    /\ b.gone = permanentlyFailed
    /\ Known(b) = Known(Now) \ {entry[l]} /\ b.live = live
    /\ Continues(b, Now')

(* A loop whose task waits in the pool is cancelled. *)
LEMMA CancelWaitingKeeps ==
  ASSUME IInv, NEW l \in Loops, CancelWaiting(l)
  PROVE  IInv' /\ CancelledWaiting(l) /\ entry[l] # NoTask /\ entry[l] \notin live
<1> DEFINE f == Forget(Now, l)
           w == Without(waiting, entry[l])
           b == [f EXCEPT !.waiting = Without(@, entry[l])]
<1>1. entry[l] \in ToSet(waiting) /\ Becomes(DrainQueue(b))
  BY DEF CancelWaiting
<1>2. /\ Now \in Records /\ Now.queue = queue /\ Now.entry = entry
      /\ Now.gone = permanentlyFailed /\ Now.breaker = breaker
      /\ Now.waiting = waiting /\ Now.live = live
      /\ Now.active = active /\ Now.timers = timers
  BY NowFields DEF Now
<1>3. /\ f \in Records /\ f.queue = queue /\ f.entry = [entry EXCEPT ![l] = NoTask]
      /\ f.gone = permanentlyFailed /\ f.breaker = breaker
      /\ f.waiting = waiting /\ f.live = live
      /\ f.active = active /\ f.timers = timers
  BY <1>2 DEF Records, Forget
<1>4. /\ waiting \in Seq(Tasks) /\ NoDuplicates(waiting)
      /\ ToSet(waiting) \cap live = {} /\ entry[l] \in Tasks
      /\ active \subseteq live /\ timers \subseteq live /\ IsFiniteSet(live)
      /\ Known(Now) = live \cup ToSet(waiting)
  BY <1>1, NowIs, ElementsFinite
<1>5. /\ w \in Seq(Tasks) /\ ToSet(w) = ToSet(waiting) \ {entry[l]} /\ NoDuplicates(w)
  BY <1>1, <1>4, WithoutRemoves
<1> HIDE DEF f, w
<1>6. /\ b \in Records /\ b.queue = queue /\ b.entry = [entry EXCEPT ![l] = NoTask]
      /\ b.gone = permanentlyFailed /\ b.breaker = breaker
      /\ b.waiting = w /\ b.live = live /\ b.active = active /\ b.timers = timers
  BY <1>3, <1>5 DEF Records, w
<1> HIDE DEF b
<1>7. Known(b) = Known(Now) \ {entry[l]} /\ entry[l] # NoTask
  BY <1>1, <1>4, <1>5, <1>6, NoTaskIsNone DEF Known
<1>8. GoodPool(b)
  BY <1>4, <1>5, <1>6 DEF GoodPool
<1>9. GoodBreaker(b)
  BY <1>6, NowIs DEF GoodBreaker
<1>10. /\ Good(b) /\ OldNames(b)
       /\ \A k \in Loops : k # l => b.entry[k] = entry[k]
  BY <1>6, <1>7, <1>8, <1>9, DropsEntry
<1>11. \A k \in Loops : entry[k] \in Known(b) => b.entry[k] = entry[k]
  BY <1>7, <1>10
<1>12. history' \in [Loops -> 0 .. MaxRestarts] /\ UNCHANGED phaseVars
  BY DEF CancelWaiting, IInv
<1>13. IInv' /\ Continues(b, Now')
  BY <1>1, <1>6, <1>10, <1>11, <1>12, ProcessingKeeps
<1>. QED
  BY <1>1, <1>4, <1>6, <1>7, <1>13 DEF CancelledWaiting

(* Where the guards leave room for one more task without an entry. *)
LEMMA RoomForOne ==
  ASSUME IInv, NEW r \in Records, Cardinality(Orphans) < MaxOrphans, NEW x,
         \A t \in Known(r) :
           (Owner(t) \in Loops => t # r.entry[Owner(t)]) => t \in Orphans \cup {x}
  PROVE  Room(r, Spare)
<1> SUFFICES ASSUME NEW o \in Loops \cup {Direct}
             PROVE  Cardinality(OrphansOf(r, o)) <= Spare
  BY DEF Room
<1> DEFINE A == OrphansOf(r, o)
           B == Orphans \cup {x}
<1>1. A \subseteq B
  BY DEF OrphansOf
<1>2. IsFiniteSet(Orphans)
  BY NowFields, NowIs, FS_Subset DEF Orphans
<1>3. IsFiniteSet(B) /\ Cardinality(B) <= MaxOrphans
  <2>1. Cardinality(Orphans) \in Nat
    BY <1>2, FS_CardinalityType
  <2>. QED
    BY <1>2, <2>1, FS_AddElement, SupervisorAssumption
<1>4. IsFiniteSet(A) /\ Cardinality(A) <= Cardinality(B)
  BY <1>1, <1>3, FS_Subset
<1>5. Cardinality(A) \in Nat /\ Cardinality(B) \in Nat
  BY <1>3, <1>4, FS_CardinalityType
<1>6. Spare \in Nat /\ Spare >= MaxOrphans
  BY SupervisorAssumption DEF Spare
<1>. QED
  BY <1>3, <1>4, <1>5, <1>6, SupervisorAssumption

(* killProcessGroup() drops the entry and leaves the child. *)
Dropped(l) ==
  \E b \in Records :
    /\ b.queue = queue /\ b.entry = [entry EXCEPT ![l] = NoTask]
    /\ b.gone = permanentlyFailed
    /\ Known(b) = Known(Now) /\ b.live = live
    /\ Continues(b, Now')

(* A signal to a process group that is not there drops the entry. *)
LEMMA KillProcessGroupKeeps ==
  ASSUME IInv, NEW l \in Loops, KillProcessGroup(l)
  PROVE  IInv' /\ Dropped(l)
<1> DEFINE b == Forget(Now, l)
           r == DrainQueue(b)
<1>1. Becomes(r) /\ Cardinality(Orphans) < MaxOrphans
  BY DEF KillProcessGroup
<1>2. /\ Now \in Records /\ Now.queue = queue /\ Now.entry = entry
      /\ Now.gone = permanentlyFailed /\ Now.breaker = breaker
      /\ Now.waiting = waiting /\ Now.live = live
      /\ Now.active = active /\ Now.timers = timers
  BY NowFields DEF Now
<1>3. /\ b \in Records /\ b.queue = queue /\ b.entry = [entry EXCEPT ![l] = NoTask]
      /\ b.gone = permanentlyFailed /\ b.breaker = breaker
      /\ b.waiting = waiting /\ b.live = live
      /\ b.active = active /\ b.timers = timers
  BY <1>2 DEF Records, Forget
<1> HIDE DEF b
<1>4. Known(b) = Known(Now)
  BY <1>3, NowIs DEF Known
<1>5. GoodPool(b) /\ GoodBreaker(b)
  BY <1>3, NowIs DEF GoodPool, GoodBreaker
<1>6. /\ Good(b) /\ OldNames(b)
      /\ \A k \in Loops : k # l => b.entry[k] = entry[k]
  <2>1. CASE entry[l] # NoTask
    BY <1>3, <1>4, <1>5, <2>1, DropsEntry
  <2>2. CASE entry[l] = NoTask
    <3>1. b.entry = entry
      BY <1>3, <2>2, NowIs
    <3>2. GoodEntries(b) /\ GoodQueue(b)
      <4>1. Entries(b) = Entries(Now) /\ GoodEntries(Now) /\ GoodQueue(Now)
        BY <1>2, <3>1, NowFields DEF Entries, Good
      <4>. QED
        BY <1>2, <1>3, <1>4, <3>1, <4>1 DEF GoodEntries, GoodQueue
    <3>. QED
      BY <1>3, <1>4, <1>5, <3>1, <3>2 DEF Good, OldNames
  <2>. QED
    BY <2>1, <2>2
<1>7. /\ Good(r) /\ OldNames(r) /\ Continues(b, r) /\ NotIdle(r)
      /\ phase = "draining" => r.queue = <<>>
  BY <1>3, <1>6, ProcessQueueKeeps
<1> HIDE DEF r
<1>8. ASSUME NEW t \in Known(r), Owner(t) \in Loops => t # r.entry[Owner(t)]
      PROVE  t \in Orphans \cup {entry[l]}
  <2>1. t \in Tasks
    <3>1. ToSet(r.waiting) \in SUBSET Tasks /\ r.live \subseteq Tasks
      BY <1>7, ElementsFinite DEF Good, Records
    <3>. QED
      BY <3>1 DEF Known
  <2>2. ASSUME NEW k \in Loops
        PROVE  t # r.entry[k]
    <3>1. t = r.entry[k] => Owner(t) = k
      BY <1>7, <2>1, NoTaskIsNone DEF Good, GoodEntries, Entries
    <3>. QED
      BY <1>8, <3>1
  <2>3. t \in Known(Now)
    BY <1>7, <2>2 DEF OldNames
  <2>4. ASSUME NEW k \in Loops, k # l, t = entry[k]
        PROVE  FALSE
    <3>1. b.entry[k] = t /\ t # NoTask
      BY <1>6, <2>1, <2>4, NoTaskIsNone
    <3>. QED
      BY <1>7, <2>2, <3>1 DEF Continues
  <2>. QED
    BY <2>3, <2>4, NowIs DEF Orphans
<1>9. Room(r, Spare)
  BY <1>1, <1>7, <1>8, RoomForOne DEF Good
<1>10. history' \in [Loops -> 0 .. MaxRestarts] /\ UNCHANGED phaseVars
  BY DEF KillProcessGroup, IInv
<1>11. IInv' /\ Now' = r
  BY <1>1, <1>7, <1>9, <1>10, CallbackKeeps
<1>. QED
  BY <1>3, <1>4, <1>7, <1>11 DEF Dropped

(* Steps after which the entries are the same. *)
LEMMA SameEntriesKeep ==
  ASSUME IInv, NEW r \in Records, GoodPool(r), GoodQueue(r), GoodBreaker(r),
         NotIdle(r), phase = "draining" => r.queue = <<>>,
         r.entry = entry, r.gone = permanentlyFailed, Known(r) \subseteq Known(Now),
         \A l \in Loops : entry[l] # NoTask => entry[l] \in Known(r),
         Becomes(r), history' \in [Loops -> 0 .. MaxRestarts], UNCHANGED phaseVars
  PROVE  IInv' /\ Now' = r
<1>1. Entries(r) = Entries(Now) /\ GoodEntries(Now) /\ Now.entry = entry
  BY NowFields DEF Entries, Good, Now
<1>2. GoodEntries(r)
  BY <1>1, NowIs DEF GoodEntries, Entries
<1>3. Good(r) /\ OldNames(r)
  BY <1>2 DEF Good, OldNames
<1>4. Room(r, Spare)
  BY <1>3, RoomKept
<1>. QED
  BY <1>3, <1>4, CallbackKeeps

(* What such steps leave. *)
Unmoved(known) ==
  /\ entry' = entry /\ permanentlyFailed' = permanentlyFailed
  /\ Known(Now') = known

(* A callback of the pool alone fills its slots and leaves the loops as    *)
(* they are.                                                               *)
LEMMA FillingKeeps ==
  ASSUME IInv, NEW b \in Records, GoodPool(b), b.queue = queue, b.entry = entry,
         b.gone = permanentlyFailed, b.breaker = breaker,
         Known(b) \subseteq Known(Now),
         \A l \in Loops : entry[l] # NoTask => entry[l] \in Known(b),
         Becomes(Fill(b)), history' \in [Loops -> 0 .. MaxRestarts], UNCHANGED phaseVars
  PROVE  IInv' /\ queue' = queue /\ breaker' = breaker /\ Unmoved(Known(b))
<1> DEFINE r == Fill(b)
<1>1. /\ r \in Records /\ GoodPool(r)
      /\ r.queue = b.queue /\ r.entry = b.entry
      /\ r.gone = b.gone /\ r.breaker = b.breaker
      /\ Known(r) = Known(b) /\ b.live \subseteq r.live
  BY FillKeeps
<1>2. Becomes(r)
  OBVIOUS
<1> HIDE DEF r
<1>3. /\ Now.queue = queue /\ Now.entry = entry
      /\ Now.gone = permanentlyFailed /\ Now.breaker = breaker
      /\ GoodQueue(Now) /\ GoodBreaker(Now) /\ NotIdle(Now)
  BY DEF Now, IInv, Good
<1>4. GoodQueue(r) /\ GoodBreaker(r) /\ NotIdle(r)
  BY <1>1, <1>3 DEF GoodQueue, GoodBreaker, NotIdle, Entries
<1>5. IInv' /\ Now' = r
  BY <1>1, <1>2, <1>4, SameEntriesKeep DEF IInv
<1>. QED
  BY <1>1, <1>2, <1>5 DEF Unmoved, Becomes

(* A task of the pool runs out of time. *)
LEMMA TimeoutKeeps ==
  ASSUME IInv, NEW t \in Tasks, Timeout(t)
  PROVE  IInv' /\ queue' = queue /\ breaker' = breaker /\ Unmoved(Known(Now))
<1> DEFINE b == [Now EXCEPT !.active = @ \ {t}, !.timers = @ \ {t}]
<1>1. /\ b \in Records /\ b.queue = queue /\ b.entry = entry
      /\ b.gone = permanentlyFailed /\ b.breaker = breaker
      /\ b.waiting = waiting /\ b.live = live
      /\ b.active = active \ {t} /\ b.timers = timers \ {t}
  <2>1. Now \in Records
    BY NowFields
  <2>. QED
    BY <2>1 DEF Records, Now
<1>2. Becomes(Fill(b)) /\ UNCHANGED <<history, phaseVars>>
  BY DEF Timeout
<1> HIDE DEF b
<1>3. Known(b) = Known(Now)
  BY <1>1, NowIs DEF Known
<1>4. GoodPool(b)
  BY <1>1, NowIs DEF GoodPool
<1>5. history' \in [Loops -> 0 .. MaxRestarts]
  BY <1>2 DEF IInv
<1>6. \A l \in Loops : entry[l] # NoTask => entry[l] \in Known(b)
  BY <1>3, NowIs
<1>. QED
  BY <1>1, <1>2, <1>3, <1>4, <1>5, <1>6, FillingKeeps

(* A task that no loop has any more ends. *)
LEMMA OrphanEndsKeeps ==
  ASSUME IInv, NEW t \in Tasks, OrphanEnds(t)
  PROVE  IInv' /\ queue' = queue /\ breaker' = breaker /\ Unmoved(Known(Now) \ {t})
<1> DEFINE b == Ended(t)
<1>1. /\ b \in Records /\ b.queue = queue /\ b.entry = entry
      /\ b.gone = permanentlyFailed /\ b.breaker = breaker
      /\ b.waiting = waiting /\ b.live = live \ {t}
      /\ b.active = active \ {t} /\ b.timers = timers \ {t}
  <2>1. Now \in Records
    BY NowFields
  <2>. QED
    BY <2>1 DEF Records, Now, Ended
<1>2. Becomes(Fill(b)) /\ UNCHANGED <<history, phaseVars>> /\ t \in live /\ LoopOf(t) = {}
  BY DEF OrphanEnds
<1> HIDE DEF b
<1>3. Known(b) = Known(Now) \ {t}
  BY <1>1, <1>2, NowIs DEF Known
<1>4. GoodPool(b)
  <2>1. IsFiniteSet(live \ {t})
    BY NowIs, FS_Subset
  <2>. QED
    BY <1>1, <2>1, NowIs DEF GoodPool
<1>5. history' \in [Loops -> 0 .. MaxRestarts]
  BY <1>2 DEF IInv
<1>6. \A l \in Loops : entry[l] # NoTask => entry[l] \in Known(b)
  BY <1>2, <1>3, NowIs DEF LoopOf
<1>. QED
  BY <1>1, <1>2, <1>3, <1>4, <1>5, <1>6, FillingKeeps

(* A loop is taken out of the queue. *)
LEMMA CancelQueuedKeeps ==
  ASSUME IInv, NEW l \in Loops, CancelQueued(l)
  PROVE  /\ IInv' /\ ToSet(queue') = ToSet(queue) \ {l} /\ breaker' = breaker
         /\ Unmoved(Known(Now)) /\ l \in ToSet(queue) /\ live' = live
<1> DEFINE q == Without(queue, l)
           r == [Now EXCEPT !.queue = q]
<1>1. l \in ToSet(queue) /\ queue' = q
  BY DEF CancelQueued
<1>2. /\ queue \in Seq(Loops) /\ NoDuplicates(queue) /\ Sorted(queue)
      /\ Len(queue) <= MaxQueueDepth
      /\ \A k \in ToSet(queue) : entry[k] = NoTask /\ k \notin permanentlyFailed
  BY NowIs
<1>3. /\ q \in Seq(Loops) /\ Len(q) = Len(queue) - 1
      /\ \A i, j \in DOMAIN q : i < j =>
           \E a, b \in DOMAIN queue : a < b /\ q[i] = queue[a] /\ q[j] = queue[b]
      /\ ToSet(q) = ToSet(queue) \ {l} /\ NoDuplicates(q)
  BY <1>1, <1>2, WithoutRemoves
<1> HIDE DEF q
<1>4. Sorted(q)
  BY <1>2, <1>3, PartSorted
<1>5. /\ r \in Records /\ r.queue = q /\ r.entry = entry /\ r.knownPid = knownPid
      /\ r.gone = permanentlyFailed /\ r.breaker = breaker
      /\ r.waiting = waiting /\ r.live = live
      /\ r.active = active /\ r.timers = timers
  <2>1. Now \in Records
    BY NowFields
  <2>. QED
    BY <1>3, <2>1 DEF Records, Now
<1> HIDE DEF r
<1>6. Becomes(r)
  BY <1>1, <1>5 DEF CancelQueued, Becomes, poolVars
<1>7. GoodPool(r) /\ GoodBreaker(r) /\ Known(r) = Known(Now)
  BY <1>5, NowIs DEF GoodPool, GoodBreaker, Known
<1>8. GoodQueue(r)
  <2>1. Len(q) <= MaxQueueDepth
    BY <1>2, <1>3, SupervisorAssumption
  <2>. QED
    BY <1>2, <1>3, <1>4, <1>5, <2>1 DEF GoodQueue
<1>9. queue # <<>>
  BY <1>1, EmptySequence
<1>10. NotIdle(r) /\ (phase = "draining" => r.queue = <<>>)
  <2>1. Now.queue = queue /\ Now.breaker = breaker /\ Entries(Now) = Entries(r)
    BY <1>5 DEF Now, Entries
  <2>. QED
    BY <1>5, <1>9, <2>1 DEF NotIdle, IInv
<1>11. history' \in [Loops -> 0 .. MaxRestarts] /\ UNCHANGED phaseVars
  BY DEF CancelQueued, IInv
<1>12. \A k \in Loops : entry[k] # NoTask => entry[k] \in Known(r)
  BY <1>7, NowIs
<1>13. IInv' /\ Now' = r
  BY <1>5, <1>6, <1>7, <1>8, <1>10, <1>11, <1>12, SameEntriesKeep
<1>. QED
  BY <1>1, <1>3, <1>5, <1>6, <1>7, <1>13 DEF Unmoved, Becomes

(* A task submitted past the supervisor is cancelled. *)
LEMMA CancelDirectKeeps ==
  ASSUME IInv, NEW t \in Tasks, CancelDirect(t)
  PROVE  IInv' /\ queue' = queue /\ breaker' = breaker /\ Unmoved(Known(Now) \ {t})
<1> DEFINE w == Without(waiting, t)
           r == [Now EXCEPT !.waiting = w]
<1>1. t \in ToSet(waiting) /\ waiting' = w /\ LoopOf(t) = {}
  BY DEF CancelDirect
<1>2. waiting \in Seq(Tasks) /\ NoDuplicates(waiting) /\ ToSet(waiting) \cap live = {}
  BY NowIs
<1>3. w \in Seq(Tasks) /\ ToSet(w) = ToSet(waiting) \ {t} /\ NoDuplicates(w)
  BY <1>1, <1>2, WithoutRemoves
<1> HIDE DEF w
<1>4. /\ r \in Records /\ r.queue = queue /\ r.entry = entry /\ r.knownPid = knownPid
      /\ r.gone = permanentlyFailed /\ r.breaker = breaker
      /\ r.waiting = w /\ r.live = live
      /\ r.active = active /\ r.timers = timers
  <2>1. Now \in Records
    BY NowFields
  <2>. QED
    BY <1>3, <2>1 DEF Records, Now
<1> HIDE DEF r
<1>5. Becomes(r)
  BY <1>1, <1>4 DEF CancelDirect, Becomes, loopVars
<1>6. Known(r) = Known(Now) \ {t}
  BY <1>1, <1>2, <1>3, <1>4, NowIs DEF Known
<1>7. GoodPool(r) /\ GoodBreaker(r)
  BY <1>2, <1>3, <1>4, NowIs DEF GoodPool, GoodBreaker
<1>8. GoodQueue(r) /\ NotIdle(r) /\ (phase = "draining" => r.queue = <<>>)
  <2>1. /\ Now.queue = queue /\ Now.breaker = breaker /\ Entries(Now) = Entries(r)
        /\ Now.entry = entry /\ Now.gone = permanentlyFailed
    BY <1>4 DEF Now, Entries
  <2>2. GoodQueue(Now) /\ NotIdle(Now)
    BY DEF IInv, Good
  <2>. QED
    BY <1>4, <2>1, <2>2 DEF NotIdle, GoodQueue, IInv
<1>9. history' \in [Loops -> 0 .. MaxRestarts] /\ UNCHANGED phaseVars
  BY DEF CancelDirect, IInv, loopVars
<1>10. \A k \in Loops : entry[k] # NoTask => entry[k] \in Known(r)
  BY <1>1, <1>6, NowIs DEF LoopOf
<1>11. IInv' /\ Now' = r
  BY <1>4, <1>5, <1>6, <1>7, <1>8, <1>9, <1>10, SameEntriesKeep
<1>. QED
  BY <1>4, <1>5, <1>6, <1>11 DEF Unmoved, Becomes

(* The breaker's own steps: none closes the circuit. *)
LEMMA BreakerKeeps ==
  ASSUME IInv, CooldownElapses \/ HalfOpens
  PROVE  IInv' /\ queue' = queue /\ Unmoved(Known(Now)) /\ live' = live
<1> DEFINE r == [Now EXCEPT !.breaker = breaker']
<1>1. /\ breaker' \in Breakers /\ breaker'.state # "closed"
      /\ UNCHANGED <<loopVars, poolVars, phaseVars>>
  BY NowIs DEF CooldownElapses, HalfOpens, Breakers, CircuitStates, Checked
<1>2. /\ r \in Records /\ r.queue = queue /\ r.entry = entry /\ r.knownPid = knownPid
      /\ r.gone = permanentlyFailed /\ r.breaker = breaker'
      /\ r.waiting = waiting /\ r.live = live
      /\ r.active = active /\ r.timers = timers
  <2>1. Now \in Records
    BY NowFields
  <2>. QED
    BY <1>1, <2>1 DEF Records, Now
<1> HIDE DEF r
<1>3. Becomes(r)
  BY <1>1, <1>2 DEF Becomes, loopVars, poolVars
<1>4. Known(r) = Known(Now)
  BY <1>2, NowIs DEF Known
<1>5. GoodPool(r) /\ GoodBreaker(r)
  BY <1>1, <1>2, NowIs DEF GoodPool, GoodBreaker
<1>6. GoodQueue(r) /\ NotIdle(r) /\ (phase = "draining" => r.queue = <<>>)
  <2>1. Now.queue = queue /\ Now.entry = entry /\ Now.gone = permanentlyFailed
    BY DEF Now
  <2>2. GoodQueue(Now)
    BY DEF IInv, Good
  <2>. QED
    BY <1>1, <1>2, <2>1, <2>2 DEF NotIdle, GoodQueue, IInv
<1>7. history' \in [Loops -> 0 .. MaxRestarts] /\ UNCHANGED phaseVars
  BY <1>1 DEF IInv, loopVars
<1>8. \A k \in Loops : entry[k] # NoTask => entry[k] \in Known(r)
  BY <1>4, NowIs
<1>9. IInv' /\ Now' = r
  BY <1>2, <1>3, <1>4, <1>5, <1>6, <1>7, <1>8, SameEntriesKeep
<1>. QED
  BY <1>1, <1>2, <1>3, <1>4, <1>9 DEF Unmoved, Becomes

(* submit() starts the loop or puts it into the queue. *)
Submitted(l) ==
  /\ permanentlyFailed' = permanentlyFailed /\ breaker'.state # "open"
  /\ \/ /\ queue' = queue
        /\ \E n \in Tasks :
             /\ Owner(n) = l /\ n \notin Known(Now)
             /\ entry' = [entry EXCEPT ![l] = n] /\ Known(Now') = Known(Now) \cup {n}
     \/ /\ ToSet(queue') = ToSet(queue) \cup {l}
        /\ entry' = entry /\ Known(Now') = Known(Now)

(* A loop is submitted: it starts at once or is queued. *)
LEMMA SubmitKeeps ==
  ASSUME IInv, NEW l \in Loops, Submit(l)
  PROVE  IInv' /\ Submitted(l)
<1> DEFINE c == [Now EXCEPT !.breaker = Checked(@)]
<1>1. /\ phase \in {"up", "drained"} /\ entry[l] = NoTask /\ l \notin ToSet(queue)
      /\ l \notin permanentlyFailed /\ breaker.state # "open"
      /\ Len(queue) < MaxQueueDepth
      /\ UNCHANGED <<history, phaseVars>>
      /\ IF Cardinality(Entries(Now)) < MaxConcurrent
         THEN Becomes(StartLoop(c, l))
         ELSE Becomes([c EXCEPT !.queue = Insert(@, l, LoopPriority)])
  BY DEF Submit, CanExecute
<1>2. /\ Checked(breaker) \in Breakers /\ Checked(breaker).state # "open"
      /\ Checked(breaker).state = "closed" <=> breaker.state = "closed"
      /\ Checked(breaker).failures = breaker.failures
  BY <1>1, CheckedBreaker, NowIs
<1>3. /\ Now \in Records /\ Now.queue = queue /\ Now.entry = entry
      /\ Now.gone = permanentlyFailed /\ Now.breaker = breaker
      /\ Now.waiting = waiting /\ Now.live = live
      /\ Now.active = active /\ Now.timers = timers
  BY NowFields DEF Now
<1>4. /\ c \in Records /\ c.queue = queue /\ c.entry = entry
      /\ c.gone = permanentlyFailed /\ c.breaker = Checked(breaker)
      /\ c.waiting = waiting /\ c.live = live
      /\ c.active = active /\ c.timers = timers
  BY <1>2, <1>3 DEF Records
<1> HIDE DEF c
<1>5. Known(c) = Known(Now) /\ Entries(c) = Entries(Now)
  BY <1>3, <1>4 DEF Known, Entries
<1>6. Good(c) /\ OldNames(c)
  <2>1. GoodPool(Now) /\ GoodEntries(Now) /\ GoodQueue(Now) /\ GoodBreaker(Now)
    BY DEF IInv, Good
  <2>. QED
    BY <1>2, <1>3, <1>4, <1>5, <2>1
       DEF Good, GoodPool, GoodEntries, GoodQueue, GoodBreaker, OldNames
<1>7. history' \in [Loops -> 0 .. MaxRestarts] /\ UNCHANGED phaseVars /\ phase # "draining"
  BY <1>1 DEF IInv
<1>8. NotIdle(Now) /\ queue \in Seq(Loops) /\ Cardinality(Entries(Now)) \in Nat
      /\ entry \in [Loops -> Tasks \cup {NoTask}]
  BY NowIs, FS_CardinalityType DEF IInv
<1>9. CASE Cardinality(Entries(Now)) < MaxConcurrent
  <2> DEFINE r == StartLoop(c, l)
             n == FreeTask(c, l)
  <2>1. Becomes(r)
    BY <1>1, <1>9
  <2>2. /\ Good(r) /\ OldNames(r)
        /\ n \in Tasks /\ Owner(n) = l /\ n \notin live /\ n \notin Known(c)
        /\ r.entry = [c.entry EXCEPT ![l] = n]
        /\ r.queue = c.queue /\ r.gone = c.gone /\ r.breaker = c.breaker
        /\ Known(r) = Known(c) \cup {n} /\ c.live \subseteq r.live
    BY <1>1, <1>4, <1>5, <1>6, <1>9, StartLoopKeeps
  <2> HIDE DEF r, n
  <2>3. NotIdle(r)
    BY <1>2, <1>3, <1>4, <1>8, <1>9, <2>2, SupervisorAssumption DEF NotIdle
  <2>4. ASSUME NEW k \in Loops, entry[k] \in Known(r)
        PROVE  r.entry[k] = entry[k]
    <3>1. entry[k] \in Tasks
      <4>1. ToSet(r.waiting) \in SUBSET Tasks /\ r.live \subseteq Tasks
        BY <2>2, ElementsFinite DEF Good, Records
      <4>. QED
        BY <2>4, <4>1 DEF Known
    <3>2. k # l
      BY <1>1, <3>1, NoTaskIsNone
    <3>. QED
      BY <1>4, <1>8, <2>2, <3>2
  <2>5. Room(r, Spare)
    BY <2>2, <2>4, RoomKept
  <2>6. IInv' /\ Now' = r
    BY <1>7, <2>1, <2>2, <2>3, <2>5, CallbackKeeps
  <2>. QED
    BY <1>2, <1>4, <1>5, <2>1, <2>2, <2>6 DEF Submitted, Becomes
<1>10. CASE ~(Cardinality(Entries(Now)) < MaxConcurrent)
  <2> DEFINE q == Insert(queue, l, LoopPriority)
             r == [c EXCEPT !.queue = q]
  <2>1. Becomes(r)
    BY <1>1, <1>4, <1>10
  <2>2. /\ q \in Seq(Loops) /\ Len(q) = Len(queue) + 1
        /\ ToSet(q) = ToSet(queue) \cup {l} /\ NoDuplicates(q)
    <3>1. NoDuplicates(queue)
      BY NowIs
    <3>. QED
      BY <1>1, <1>8, <3>1, InsertAdds
  <2>3. Sorted(q)
    <3>1. Sorted(queue)
      BY NowIs
    <3>. QED
      BY <1>8, <3>1, InsertSorts
  <2> HIDE DEF q
  <2>4. /\ r \in Records /\ r.queue = q /\ r.entry = entry
        /\ r.gone = permanentlyFailed /\ r.breaker = Checked(breaker)
        /\ r.waiting = waiting /\ r.live = live
        /\ r.active = active /\ r.timers = timers
    BY <1>4, <2>2 DEF Records
  <2> HIDE DEF r
  <2>5. GoodPool(r) /\ GoodBreaker(r) /\ Known(r) = Known(Now)
    BY <1>2, <2>4, NowIs DEF GoodPool, GoodBreaker, Known
  <2>6. GoodQueue(r)
    <3>1. Len(q) <= MaxQueueDepth
      BY <1>1, <1>8, <2>2, SupervisorAssumption
    <3>. QED
      BY <1>1, <2>2, <2>3, <2>4, <3>1, NowIs DEF GoodQueue
  <2>7. NotIdle(r)
    <3>1. Entries(r) = Entries(Now) /\ Cardinality(Entries(Now)) <= MaxConcurrent
      BY <1>3, <2>4, NowIs DEF Entries
    <3>. QED
      BY <1>8, <1>10, <3>1, SupervisorAssumption DEF NotIdle
  <2>8. \A k \in Loops : entry[k] # NoTask => entry[k] \in Known(r)
    BY <2>5, NowIs
  <2>9. IInv' /\ Now' = r
    BY <1>7, <2>1, <2>4, <2>5, <2>6, <2>7, <2>8, SameEntriesKeep
  <2>. QED
    BY <1>2, <2>1, <2>2, <2>4, <2>5, <2>9 DEF Submitted, Becomes
<1>. QED
  BY <1>9, <1>10

(* The pool's other callers. *)
LEMMA SubmitDirectKeeps ==
  ASSUME IInv, SubmitDirect
  PROVE  /\ IInv' /\ queue' = queue /\ breaker' = breaker
         /\ entry' = entry /\ permanentlyFailed' = permanentlyFailed
<1> DEFINE n == FreeTask(Now, Direct)
           r == SubmitTask(Now, n)
<1>1. /\ phase \in {"up", "drained"} /\ Cardinality(Orphans) < MaxOrphans
      /\ Becomes(r) /\ UNCHANGED <<history, phaseVars>>
  BY DEF SubmitDirect
<1>2. /\ Now \in Records /\ Now.queue = queue /\ Now.entry = entry
      /\ Now.gone = permanentlyFailed /\ Now.breaker = breaker
  BY NowFields DEF Now
<1>3. GoodPool(Now) /\ GoodEntries(Now) /\ GoodQueue(Now) /\ GoodBreaker(Now) /\ NotIdle(Now)
  BY DEF IInv, Good
<1>4. n \in Tasks /\ Owner(n) = Direct /\ n \notin Known(Now)
  <2>1. OldNames(Now) /\ Direct \notin Loops
    BY SupervisorAssumption DEF OldNames
  <2>. QED
    BY <1>2, <1>3, <2>1, FreeName
<1> HIDE DEF n
<1>5. /\ r \in Records /\ GoodPool(r)
      /\ r.queue = queue /\ r.entry = entry
      /\ r.gone = permanentlyFailed /\ r.breaker = breaker
      /\ Known(r) = Known(Now) \cup {n}
  BY <1>2, <1>3, <1>4, SubmitTaskKeeps
<1> HIDE DEF r
<1>6. Entries(r) = Entries(Now)
  BY <1>2, <1>5 DEF Entries
<1>7. Good(r) /\ NotIdle(r)
  BY <1>2, <1>3, <1>5, <1>6 DEF Good, GoodEntries, GoodQueue, GoodBreaker, NotIdle
<1>8. ASSUME NEW t \in Known(r), Owner(t) \in Loops => t # r.entry[Owner(t)]
      PROVE  t \in Orphans \cup {n}
  <2>1. CASE t = n
    BY <2>1
  <2>2. CASE t # n
    <3>1. t \in Known(Now) /\ t \in Tasks
      BY <1>5, <2>2, NowFields
    <3>2. \A k \in Loops : t # entry[k]
      BY <1>5, <1>8, <3>1, NoTaskIsNone, NowIs
    <3>. QED
      BY <3>1, <3>2, NowIs DEF Orphans
  <2>. QED
    BY <2>1, <2>2
<1>9. Room(r, Spare)
  BY <1>1, <1>5, <1>8, RoomForOne
<1>10. history' \in [Loops -> 0 .. MaxRestarts] /\ UNCHANGED phaseVars /\ phase # "draining"
  BY <1>1 DEF IInv
<1>11. IInv' /\ Now' = r
  BY <1>1, <1>7, <1>9, <1>10, CallbackKeeps
<1>. QED
  BY <1>1, <1>5, <1>11 DEF Becomes

(* Steps that empty the queue and drop entries: shutdown() and the crash.  *)
LEMMA EmptyingKeeps ==
  ASSUME IInv, NEW r \in Records, r.queue = <<>>, r.gone = permanentlyFailed,
         r.breaker \in {breaker, Closed},
         r.waiting \in {waiting, <<>>}, r.live \in {live, {}},
         r.active \subseteq r.live, r.timers \subseteq r.live,
         \A l \in Loops : r.entry[l] \in {entry[l], NoTask},
         \A l \in Loops : r.entry[l] # NoTask => r.entry[l] \in Known(r)
  PROVE  /\ Good(r) /\ NotIdle(r) /\ Room(r, Spare + 1)
         /\ Known(r) \subseteq Known(Now)
         /\ (\A l \in Loops : entry[l] \in Known(r) => r.entry[l] = entry[l])
              => Room(r, Spare)
<1>1. /\ NoDuplicates(<<>>) /\ Sorted(<<>>) /\ ToSet(<<>>) = {} /\ Len(<<>>) = 0
  BY EmptySequence
<1>2. GoodPool(r) /\ Known(r) \subseteq Known(Now)
  <2>1. IsFiniteSet(r.live)
    BY NowIs, FS_EmptySet
  <2>2. Known(r) \subseteq Known(Now)
    BY <1>1, NowIs DEF Known
  <2>. QED
    BY <1>1, <2>1, <2>2, NowIs DEF GoodPool
<1>3. GoodEntries(r)
  <2>1. Entries(r) \subseteq Entries(Now)
    <3>1. Now.entry = entry
      BY DEF Now
    <3>. QED
      BY <3>1 DEF Entries
  <2>2. /\ IsFiniteSet(Entries(Now)) /\ Cardinality(Entries(Now)) <= MaxConcurrent
        /\ Cardinality(Entries(Now)) \in Nat
    BY NowIs, FS_CardinalityType
  <2>3. IsFiniteSet(Entries(r)) /\ Cardinality(Entries(r)) <= Cardinality(Entries(Now))
    BY <2>1, <2>2, FS_Subset
  <2>4. Cardinality(Entries(r)) <= MaxConcurrent
    BY <2>2, <2>3, FS_CardinalityType, SupervisorAssumption
  <2>5. \A l \in Entries(r) : Owner(r.entry[l]) = l /\ r.entry[l] \in Known(r)
    BY NowIs DEF Entries
  <2>6. \A l \in r.gone : r.entry[l] = NoTask
    BY NowIs
  <2>. QED
    BY <2>3, <2>4, <2>5, <2>6 DEF GoodEntries
<1>4. GoodQueue(r)
  BY <1>1, SupervisorAssumption DEF GoodQueue
<1>5. GoodBreaker(r)
  BY NowIs, BreakerAssumption DEF GoodBreaker, Closed
<1>6. Good(r) /\ NotIdle(r)
  BY <1>2, <1>3, <1>4, <1>5 DEF Good, NotIdle
<1>7. Room(r, Spare + 1)
  <2> SUFFICES ASSUME NEW o \in Loops \cup {Direct}
               PROVE  Cardinality(OrphansOf(r, o)) <= Spare + 1
    BY DEF Room
  <2> DEFINE names == {t \in Known(Now) : Owner(t) = o}
  <2>1. IsFiniteSet(names) /\ Cardinality(names) <= Spare + 1
    BY FewNames
  <2>2. OrphansOf(r, o) \subseteq names
    BY <1>2 DEF OrphansOf
  <2> HIDE DEF names
  <2>3. IsFiniteSet(OrphansOf(r, o)) /\ Cardinality(OrphansOf(r, o)) <= Cardinality(names)
    BY <2>1, <2>2, FS_Subset
  <2>4. Cardinality(OrphansOf(r, o)) \in Nat /\ Cardinality(names) \in Nat
    BY <2>1, <2>3, FS_CardinalityType
  <2>5. Spare \in Nat
    BY SupervisorAssumption DEF Spare
  <2>. QED
    BY <2>1, <2>3, <2>4, <2>5
<1>8. OldNames(r)
  BY <1>2 DEF OldNames
<1>9. ASSUME \A l \in Loops : entry[l] \in Known(r) => r.entry[l] = entry[l]
      PROVE  Room(r, Spare)
  BY <1>6, <1>8, <1>9, RoomKept
<1>. QED
  BY <1>2, <1>6, <1>7, <1>9

(* What these steps leave. *)
Emptied ==
  /\ queue' = <<>> /\ permanentlyFailed' = permanentlyFailed
  /\ \A l \in Loops : entry'[l] \in {entry[l], NoTask}

(* A restart throws while the pool is shutting down. *)
LEMMA RestartThrowsKeeps ==
  ASSUME IInv, NEW t \in Tasks, RestartThrows(t)
  PROVE  IInv' /\ Emptied
<1> DEFINE r == [queue |-> queue, entry |-> [l \in Loops |-> NoTask], knownPid |-> {},
                 gone |-> permanentlyFailed, breaker |-> Closed, waiting |-> waiting,
                 active |-> {}, live |-> {}, timers |-> {}]
<1>1. phase = "draining" /\ phase' = "crashed" /\ UNCHANGED <<history, graceArmed>>
      /\ queue = <<>> /\ MayShutDown
  BY DEF RestartThrows, IInv
<1>2. Becomes(r)
  BY DEF RestartThrows, Becomes
<1>3. r \in Records /\ Now' = r
  <2>1. Closed \in Breakers
    BY BreakerAssumption DEF Closed, Breakers, CircuitStates
  <2>2. r \in Records
    BY <2>1, NowIs DEF Records
  <2>. QED
    BY <1>2, <2>2, Become
<1>4. Good(r) /\ NotIdle(r) /\ Room(r, Spare + 1)
  <2>1. /\ r.queue = <<>> /\ r.gone = permanentlyFailed /\ r.breaker = Closed
        /\ r.waiting = waiting /\ r.live = {} /\ r.active = {} /\ r.timers = {}
        /\ \A l \in Loops : r.entry[l] = NoTask
    BY <1>1
  <2> HIDE DEF r
  <2>. QED
    BY <1>3, <2>1, EmptyingKeeps
<1>5. queue' = <<>> /\ permanentlyFailed' = permanentlyFailed
      /\ \A l \in Loops : entry'[l] = NoTask
  BY <1>1, <1>2 DEF Becomes
<1> HIDE DEF r
<1>6. Spare' = Spare + 1
  BY <1>1, SupervisorAssumption DEF Spare
<1>7. Good(Now') /\ Room(Now', Spare') /\ NotIdle(Now')
  BY <1>3, <1>4, <1>6
<1>. QED
  BY <1>1, <1>5, <1>7 DEF IInv, Emptied

(* A shutdown comes to its end. *)
LEMMA EndShutdownKeeps ==
  ASSUME IInv, DrainDone \/ GraceExpires
  PROVE  IInv' /\ Emptied
<1> DEFINE r == [queue |-> queue, entry |-> [l \in Loops |-> NoTask], knownPid |-> {},
                 gone |-> permanentlyFailed, breaker |-> breaker, waiting |-> waiting,
                 active |-> {}, live |-> live, timers |-> timers]
<1>1. /\ phase = "draining" /\ phase' = "drained" /\ UNCHANGED history
      /\ graceArmed' \in BOOLEAN /\ queue = <<>> /\ MayShutDown
  BY DEF DrainDone, GraceExpires, EndShutdown, IInv
<1>2. Becomes(r)
  BY DEF DrainDone, GraceExpires, EndShutdown, Becomes
<1>3. r \in Records /\ Now' = r
  <2>1. r \in Records
    BY NowIs DEF Records
  <2>. QED
    BY <1>2, <2>1, Become
<1>4. Good(r) /\ NotIdle(r) /\ Room(r, Spare + 1)
  <2>1. /\ r.queue = <<>> /\ r.gone = permanentlyFailed /\ r.breaker = breaker
        /\ r.waiting = waiting /\ r.live = live /\ r.active = {} /\ r.timers = timers
        /\ \A l \in Loops : r.entry[l] = NoTask
    BY <1>1
  <2> HIDE DEF r
  <2>. QED
    BY <1>3, <2>1, NowIs, EmptyingKeeps
<1>5. queue' = <<>> /\ permanentlyFailed' = permanentlyFailed
      /\ \A l \in Loops : entry'[l] = NoTask
  BY <1>1, <1>2 DEF Becomes
<1> HIDE DEF r
<1>6. Spare' = Spare + 1
  BY <1>1, SupervisorAssumption DEF Spare
<1>7. Good(Now') /\ Room(Now', Spare') /\ NotIdle(Now')
  BY <1>3, <1>4, <1>6
<1>. QED
  BY <1>1, <1>5, <1>7 DEF IInv, Emptied

(* A shutdown begins: both queues are emptied. *)
LEMMA ShutdownKeeps ==
  ASSUME IInv, Shutdown
  PROVE  IInv' /\ Emptied
<1> DEFINE e == [l \in Loops |-> IF active = {} \/ entry[l] \in ToSet(waiting)
                                 THEN NoTask ELSE entry[l]]
           r == [queue |-> <<>>, entry |-> e, knownPid |-> knownPid',
                 gone |-> permanentlyFailed, breaker |-> breaker, waiting |-> <<>>,
                 active |-> active, live |-> live, timers |-> timers]
<1>1. /\ MayShutDown /\ phase = "up" /\ UNCHANGED <<history, graceArmed>>
      /\ phase' = IF active = {} THEN "drained" ELSE "draining"
      /\ knownPid' \subseteq knownPid
  BY DEF Shutdown
<1>2. Becomes(r)
  BY DEF Shutdown, Becomes
<1>3. \A l \in Loops : e[l] \in {entry[l], NoTask}
  OBVIOUS
<1>4. \A l \in Loops : e[l] # NoTask => e[l] \in live
  BY NowIs
<1>5. active # {} => \A l \in Loops : entry[l] \in live => e[l] = entry[l]
  BY NowIs
<1>6. e \in [Loops -> Tasks \cup {NoTask}]
  BY NowIs
<1> HIDE DEF e
<1>7. /\ r.queue = <<>> /\ r.gone = permanentlyFailed /\ r.breaker = breaker
      /\ r.waiting = <<>> /\ r.live = live /\ r.active = active /\ r.timers = timers
      /\ r.entry = e
  OBVIOUS
<1>8. r \in Records /\ Now' = r
  <2>1. r \in Records
    BY <1>1, <1>6, NowIs, EmptySequence DEF Records
  <2>. QED
    BY <1>2, <2>1, Become
<1> HIDE DEF r
<1>9. Known(r) = live
  BY <1>7, EmptySequence DEF Known
<1>10. /\ Good(r) /\ NotIdle(r) /\ Room(r, Spare + 1)
       /\ (\A l \in Loops : entry[l] \in Known(r) => r.entry[l] = entry[l]) => Room(r, Spare)
  BY <1>3, <1>4, <1>7, <1>8, <1>9, NowIs, EmptyingKeeps
<1>11. Room(r, Spare')
  <2>1. CASE active = {}
    <3>1. Spare' = Spare + 1
      BY <1>1, <2>1, SupervisorAssumption DEF Spare
    <3>. QED
      BY <1>10, <3>1
  <2>2. CASE active # {}
    <3>1. Spare' = Spare
      BY <1>1, <2>2 DEF Spare
    <3>2. Room(r, Spare)
      BY <1>5, <1>7, <1>9, <1>10, <2>2
    <3>. QED
      BY <3>1, <3>2
  <2>. QED
    BY <2>1, <2>2
<1>12. Good(Now') /\ Room(Now', Spare') /\ NotIdle(Now')
  BY <1>8, <1>10, <1>11
<1>13. queue' = <<>> /\ permanentlyFailed' = permanentlyFailed /\ entry' = e
  BY <1>2, <1>7 DEF Becomes
<1>. QED
  BY <1>1, <1>3, <1>12, <1>13 DEF IInv, Emptied

(* A grace timer of an earlier shutdown empties the pool. *)
LEMMA StaleGraceExpiresKeeps ==
  ASSUME IInv, StaleGraceExpires
  PROVE  /\ IInv' /\ queue' = queue /\ breaker' = breaker
         /\ entry' = entry /\ permanentlyFailed' = permanentlyFailed
<1> DEFINE r == [Now EXCEPT !.active = {}]
<1>1. /\ r \in Records /\ r.queue = queue /\ r.entry = entry /\ r.knownPid = knownPid
      /\ r.gone = permanentlyFailed /\ r.breaker = breaker
      /\ r.waiting = waiting /\ r.live = live
      /\ r.active = {} /\ r.timers = timers
  <2>1. Now \in Records
    BY NowFields
  <2>. QED
    BY <2>1 DEF Records, Now
<1> HIDE DEF r
<1>2. Becomes(r) /\ UNCHANGED <<history, phase>> /\ graceArmed' = FALSE
  BY <1>1 DEF StaleGraceExpires, Becomes, loopVars
<1>3. /\ Now.queue = queue /\ Now.entry = entry
      /\ Now.gone = permanentlyFailed /\ Now.breaker = breaker
      /\ GoodEntries(Now) /\ GoodQueue(Now) /\ GoodBreaker(Now) /\ NotIdle(Now)
  BY DEF Now, IInv, Good
<1>4. Known(r) = Known(Now) /\ Entries(r) = Entries(Now) /\ GoodPool(r)
  BY <1>1, <1>3, NowIs DEF Known, Entries, GoodPool
<1>5. Good(r) /\ NotIdle(r) /\ OldNames(r)
  BY <1>1, <1>3, <1>4 DEF Good, GoodEntries, GoodQueue, GoodBreaker, NotIdle, OldNames
<1>6. Room(r, Spare)
  BY <1>1, <1>5, RoomKept
<1>7. Now' = r /\ Spare' = Spare
  BY <1>1, <1>2, Become DEF Spare
<1>8. Good(Now') /\ Room(Now', Spare') /\ NotIdle(Now')
  BY <1>5, <1>6, <1>7
<1>. QED
  BY <1>1, <1>2, <1>8 DEF IInv, Becomes

-----------------------------------------------------------------------------
(* The invariant holds. *)
LEMMA InvariantInit ==
  ASSUME Init
  PROVE  IInv
<1>1. /\ NoDuplicates(<<>>) /\ Sorted(<<>>) /\ ToSet(<<>>) = {} /\ Len(<<>>) = 0
      /\ <<>> \in Seq(Loops) /\ <<>> \in Seq(Tasks)
  BY EmptySequence
<1>2. /\ Now.queue = <<>> /\ Now.entry = [l \in Loops |-> NoTask] /\ Now.knownPid = {}
      /\ Now.gone = {} /\ Now.breaker = Closed /\ Now.waiting = <<>>
      /\ Now.active = {} /\ Now.live = {} /\ Now.timers = {}
  BY DEF Init, Now
<1>3. Closed \in Breakers /\ 0 < FailureThreshold
  BY BreakerAssumption DEF Closed, Breakers, CircuitStates
<1>4. Now \in Records
  BY <1>1, <1>3 DEF Init, Now, Records
<1>5. Entries(Now) = {} /\ IsFiniteSet({}) /\ Cardinality({}) = 0
  BY <1>2, FS_EmptySet DEF Entries
<1>6. Known(Now) = {}
  BY <1>1, <1>2 DEF Known
<1>7. Good(Now)
  BY <1>1, <1>2, <1>3, <1>4, <1>5, SupervisorAssumption
     DEF Good, GoodPool, GoodEntries, GoodQueue, GoodBreaker, Closed
<1>8. Room(Now, Spare)
  <2>1. \A o : OrphansOf(Now, o) = {}
    BY <1>6 DEF OrphansOf
  <2>2. Spare >= 0
    BY SupervisorAssumption DEF Spare
  <2>. QED
    BY <1>5, <2>1, <2>2 DEF Room
<1>9. NotIdle(Now)
  BY <1>2 DEF NotIdle
<1>10. history \in [Loops -> 0 .. MaxRestarts]
  BY SupervisorAssumption DEF Init
<1>11. phase = "up" /\ graceArmed \in BOOLEAN
  BY DEF Init
<1>. QED
  BY <1>7, <1>8, <1>9, <1>10, <1>11 DEF IInv

(* Every step keeps the inductive invariant. *)
LEMMA InvariantNext ==
  ASSUME IInv, [Next]_vars
  PROVE  IInv'
<1>1. CASE Next
  BY <1>1, SubmitKeeps, SubmitDirectKeeps, CancelQueuedKeeps, CancelWaitingKeeps,
     KillProcessGroupKeeps, CancelDirectKeeps, OrphanEndsKeeps, CompletedKeeps,
     CancelledKeeps, GivesUpKeeps, RestartsKeeps, RestartThrowsKeeps, TimeoutKeeps,
     ShutdownKeeps, EndShutdownKeeps, StaleGraceExpiresKeeps, BreakerKeeps DEF Next
<1>2. CASE UNCHANGED vars
  <2>1. Now' = Now /\ Spare' = Spare
    BY <1>2 DEF vars, loopVars, poolVars, phaseVars, Now, Spare
  <2>2. Good(Now') /\ Room(Now', Spare') /\ NotIdle(Now')
    BY <2>1 DEF IInv
  <2>. QED
    BY <1>2, <2>2 DEF vars, loopVars, phaseVars, IInv
<1>. QED
  BY <1>1, <1>2

(* The inductive invariant of the supervisor and its pool holds in every   *)
(* behaviour, for all loops, limits and thresholds. (DaemonSupervisor)     *)
THEOREM SupervisorInvariant == Spec => []IInv
<1>1. Init => IInv
  BY InvariantInit
<1>2. IInv /\ [Next]_vars => IInv'
  BY InvariantNext
<1>. QED
  BY <1>1, <1>2, PTL DEF Spec

-----------------------------------------------------------------------------
(* The theorems about the supervisor. *)

(* Every variable has its type. *)
THEOREM SupervisorTypes == Spec => []TypeOK
<1>1. IInv => TypeOK
  <2> HAVE IInv
  <2>1. /\ queue \in Seq(Loops) /\ entry \in [Loops -> Tasks \cup {NoTask}]
        /\ knownPid \subseteq Loops /\ permanentlyFailed \subseteq Loops
        /\ breaker \in Breakers /\ waiting \in Seq(Tasks)
        /\ active \subseteq live /\ timers \subseteq live /\ live \subseteq Tasks
    BY NowIs
  <2>. QED
    BY <2>1 DEF IInv, TypeOK
<1>. QED
  BY <1>1, SupervisorInvariant, PTL

(* No callback leaves more entries than maxConcurrent, a longer queue than *)
(* maxQueueDepth, or an unsorted one. (submit, _processQueue, _startLoop)  *)
THEOREM SupervisorBounds == Spec => []LoopsBounded
<1>1. IInv => LoopsBounded
  BY NowIs DEF LoopsBounded, Sorted
<1>. QED
  BY <1>1, SupervisorInvariant, PTL

(* Every entry names a task of its own loop that the pool still has to     *)
(* report on: no slot leaks. (the handlers of the pool's events)           *)
THEOREM NoSlotLeaks == Spec => []EntriesPending
<1>1. IInv => EntriesPending
  <2> HAVE IInv
  <2>1. \A l \in Entries(Now) : l \in Loops /\ entry[l] # NoTask
    BY DEF Entries, Now
  <2>. QED
    BY <2>1, NowIs DEF EntriesPending
<1>. QED
  BY <1>1, SupervisorInvariant, PTL

(* While the circuit is closed a loop waits only if every slot is taken,   *)
(* because every callback that frees a slot processes the queue to its end.*)
THEOREM QueueNeverIdles == Spec => []ClosedNeverIdles
<1>1. IInv => ClosedNeverIdles
  <2>1. Now.queue = queue /\ Now.breaker = breaker
    BY DEF Now
  <2>. QED
    BY <2>1 DEF IInv, NotIdle, ClosedNeverIdles
<1>. QED
  BY <1>1, SupervisorInvariant, PTL

(* The circuit is closed only below its threshold. (recordFailure,         *)
(* recordSuccess)                                                          *)
THEOREM BreakerTrips == Spec => []ClosedBelowThreshold
<1>1. IInv => ClosedBelowThreshold
  BY NowIs DEF ClosedBelowThreshold
<1>. QED
  BY <1>1, SupervisorInvariant, PTL

(* A chain of calls gives an entry to a loop only while the circuit is not *)
(* open, and leaves it so.                                                 *)
LEMMA ContinuesStarts ==
  ASSUME NEW b \in Records, Continues(b, Now'), NEW l \in Loops,
         b.entry[l] = NoTask, entry'[l] # NoTask
  PROVE  breaker'.state # "open"
<1>1. Now'.entry = entry' /\ Now'.breaker = breaker'
  BY DEF Now
<1>2. b.breaker \in Breakers
  BY DEF Records
<1>3. b.breaker.state # "open" /\ breaker' \in {b.breaker, Checked(b.breaker)}
  BY <1>1 DEF Continues
<1>. QED
  BY <1>2, <1>3, CheckedBreaker

(* What each kind of step says of starts and of loops that were given up. *)
LEMMA StepStarts ==
  ASSUME IInv, Next
  PROVE  /\ \A l \in Loops : entry[l] = NoTask /\ entry'[l] # NoTask => breaker'.state # "open"
         /\ permanentlyFailed \subseteq permanentlyFailed'
<1>1. ASSUME NEW b \in Records, NEW l \in Loops, NEW n, Continues(b, Now'),
             b.entry = [entry EXCEPT ![l] = n], n = NoTask \/ entry[l] # NoTask,
             permanentlyFailed \subseteq b.gone
      PROVE  /\ \A k \in Loops : entry[k] = NoTask /\ entry'[k] # NoTask => breaker'.state # "open"
             /\ permanentlyFailed \subseteq permanentlyFailed'
  <2>1. Now'.gone = permanentlyFailed'
    BY DEF Now
  <2>2. permanentlyFailed \subseteq permanentlyFailed'
    BY <1>1, <2>1 DEF Continues
  <2>3. ASSUME NEW k \in Loops, entry[k] = NoTask, entry'[k] # NoTask
        PROVE  breaker'.state # "open"
    <3>1. b.entry[k] = NoTask
      BY <1>1, <2>3, NowIs
    <3>. QED
      BY <1>1, <2>3, <3>1, ContinuesStarts
  <2>. QED
    BY <2>2, <2>3
<1>2. ASSUME NEW t \in Tasks, Completed(t) \/ Cancelled(t) \/ GivesUp(t)
      PROVE  /\ \A l \in Loops : entry[l] = NoTask /\ entry'[l] # NoTask => breaker'.state # "open"
             /\ permanentlyFailed \subseteq permanentlyFailed'
  <2>1. PICK l \in LoopOf(t) : \E b : EndOf(t, l, b) /\ Continues(b, Now')
    BY <1>2, CompletedKeeps, CancelledKeeps, GivesUpKeeps DEF Handled
  <2>2. PICK b : EndOf(t, l, b) /\ Continues(b, Now')
    BY <2>1
  <2>. QED
    BY <1>1, <2>2 DEF EndOf, LoopOf
<1>3. ASSUME NEW t \in Tasks, Restarts(t)
      PROVE  /\ \A l \in Loops : entry[l] = NoTask /\ entry'[l] # NoTask => breaker'.state # "open"
             /\ permanentlyFailed \subseteq permanentlyFailed'
  <2>1. PICK l \in LoopOf(t), n \in Tasks, u \in Records :
          /\ u.entry = [entry EXCEPT ![l] = n] /\ u.gone = permanentlyFailed
          /\ Continues(u, Now')
    BY <1>3, RestartsKeeps DEF Restarted
  <2>2. l \in Loops /\ entry[l] # NoTask
    BY <1>3, NoTaskIsNone DEF LoopOf
  <2>. QED
    BY <1>1, <2>1, <2>2
<1>4. ASSUME NEW l \in Loops, CancelWaiting(l) \/ KillProcessGroup(l)
      PROVE  /\ \A k \in Loops : entry[k] = NoTask /\ entry'[k] # NoTask => breaker'.state # "open"
             /\ permanentlyFailed \subseteq permanentlyFailed'
  <2>1. PICK b \in Records :
          /\ b.entry = [entry EXCEPT ![l] = NoTask] /\ b.gone = permanentlyFailed
          /\ Continues(b, Now')
    BY <1>4, CancelWaitingKeeps, KillProcessGroupKeeps DEF CancelledWaiting, Dropped
  <2>. QED
    BY <1>1, <2>1
<1>5. ASSUME NEW l \in Loops, Submit(l)
      PROVE  breaker'.state # "open" /\ permanentlyFailed' = permanentlyFailed
  BY <1>5, SubmitKeeps DEF Submitted
<1>6. ASSUME \/ SubmitDirect \/ StaleGraceExpires \/ CooldownElapses \/ HalfOpens
             \/ \E l \in Loops : CancelQueued(l)
             \/ \E t \in Tasks : CancelDirect(t) \/ OrphanEnds(t) \/ Timeout(t)
      PROVE  entry' = entry /\ permanentlyFailed' = permanentlyFailed
  BY <1>6, SubmitDirectKeeps, StaleGraceExpiresKeeps, BreakerKeeps, CancelQueuedKeeps,
     CancelDirectKeeps, OrphanEndsKeeps, TimeoutKeeps DEF Unmoved
<1>7. ASSUME \/ Shutdown \/ DrainDone \/ GraceExpires
             \/ \E t \in Tasks : RestartThrows(t)
      PROVE  /\ permanentlyFailed' = permanentlyFailed
             /\ \A l \in Loops : entry'[l] \in {entry[l], NoTask}
  BY <1>7, ShutdownKeeps, EndShutdownKeeps, RestartThrowsKeeps DEF Emptied
<1>. QED
  BY <1>2, <1>3, <1>4, <1>5, <1>6, <1>7 DEF Next

(* The open circuit starts no loop, in whatever callback the queue is      *)
(* processed. (canExecute in submit and in _processQueue)                  *)
THEOREM OpenCircuitHolds == Spec => OpenStartsNoLoop
<1> DEFINE A == \A l \in Loops :
                  entry[l] = NoTask /\ entry'[l] # NoTask => breaker'.state # "open"
<1>1. IInv /\ [Next]_vars => [A]_vars
  BY StepStarts
<1>. QED
  BY <1>1, SupervisorInvariant, PTL DEF Spec, OpenStartsNoLoop

(* A loop that was given up is never started again. (_shouldRestart,       *)
(* submit, _processQueue)                                                  *)
THEOREM GivenUpStays == Spec => GivenUpForGood
<1> DEFINE A == \A l \in permanentlyFailed :
                  l \in permanentlyFailed' /\ (entry'[l] = NoTask)
<1>1. IInv /\ IInv' /\ [Next]_vars => [A]_vars
  <2> SUFFICES ASSUME IInv, IInv', Next
               PROVE  A
    OBVIOUS
  <2>1. permanentlyFailed \subseteq permanentlyFailed'
    BY StepStarts
  <2>2. Now'.gone = permanentlyFailed' /\ Now'.entry = entry'
    BY DEF Now
  <2>3. GoodEntries(Now')
    BY DEF IInv, Good
  <2>. QED
    BY <2>1, <2>2, <2>3 DEF GoodEntries
<1>. QED
  BY <1>1, SupervisorInvariant, PTL DEF Spec, GivenUpForGood

-----------------------------------------------------------------------------
(* The shim. *)

(* A mission's tasks: at most one, and none before it starts. *)
OneEach == \A t, u \in Known(Now) : Owner(t) = Owner(u) => t = u

Taskless(l) == \A t \in Known(Now) : Owner(t) # l

(* What the shim knows of a loop is what the supervisor does with it. *)
GoodMission(l) ==
  /\ l \in ToSet(queue) => l \in linked /\ Open(l) /\ Taskless(l)
  /\ mission[l] = "unknown" => l \notin linked \cup asked /\ Taskless(l)
  /\ entry[l] # NoTask => l \in linked
  /\ mission[l] = "assigned" => l \in ToSet(queue)
  /\ l \in linked => mission[l] \notin {"done", "failed"}

MissionInv ==
  /\ IInv /\ OneEach
  /\ mission \in [Loops -> {"unknown", "assigned", "running", "paused", "hitl-required"} \cup Terminal]
  /\ linked \subseteq Loops /\ asked \subseteq Loops
  /\ \A l \in Loops : GoodMission(l)

(* A step of the supervisor, as the shim sees it: of the loops in Q that   *)
(* wait some start, and else the entries are e and the pool's tasks K.     *)
Moves(Q, e, K) ==
  /\ ToSet(queue') \subseteq Q
  /\ \A l \in Loops :
       entry'[l] = e[l] \/ (e[l] = NoTask /\ l \in Q \ ToSet(queue'))
  /\ \A l \in Q : l \in ToSet(queue') \/ entry'[l] # NoTask
  /\ K \subseteq Known(Now')
  /\ \A t \in Known(Now') \ K :
       t \notin live /\ Owner(t) \in Q \ ToSet(queue') /\ t = entry'[Owner(t)]

(* What a part of a callback moves when it ends in the next state. *)
LEMMA ContinuesMoves ==
  ASSUME IInv', NEW b \in Records, Continues(b, Now')
  PROVE  Moves(ToSet(b.queue), b.entry, Known(b))
<1>1. Now'.queue = queue' /\ Now'.entry = entry'
  BY DEF Now
<1>2. /\ entry' \in [Loops -> Tasks \cup {NoTask}] /\ Known(Now') \subseteq Tasks
      /\ \A l \in Loops : entry'[l] # NoTask => Owner(entry'[l]) = l
      /\ \A l \in ToSet(queue') : entry'[l] = NoTask
  <2>1. Good(Now')
    BY DEF IInv
  <2>2. entry' \in [Loops -> Tasks \cup {NoTask}] /\ Known(Now') \subseteq Tasks
    <3>1. ToSet(Now'.waiting) \in SUBSET Tasks /\ Now'.live \subseteq Tasks
      BY <2>1, ElementsFinite DEF Good, Records
    <3>. QED
      BY <1>1, <2>1, <3>1 DEF Good, Records, Known
  <2>. QED
    BY <1>1, <2>1, <2>2 DEF Good, GoodEntries, GoodQueue, Entries
<1>3. ToSet(queue') \subseteq ToSet(b.queue)
  BY <1>1 DEF Continues
<1>4. ASSUME NEW l \in Loops
      PROVE  \/ entry'[l] = b.entry[l]
             \/ b.entry[l] = NoTask /\ l \in ToSet(b.queue) \ ToSet(queue')
  BY <1>1, <1>2 DEF Continues
<1>5. ASSUME NEW t \in Known(Now') \ Known(b)
      PROVE  /\ t \notin live /\ Owner(t) \in ToSet(b.queue) \ ToSet(queue')
             /\ t = entry'[Owner(t)]
  <2>1. PICK l \in Loops : b.entry[l] = NoTask /\ t = entry'[l] /\ t \notin live
    BY <1>1 DEF Continues
  <2>2. t # NoTask /\ Owner(t) = l
    BY <1>2, <2>1, NoTaskIsNone
  <2>. QED
    BY <1>4, <2>1, <2>2
<1>6. \A l \in ToSet(b.queue) : l \in ToSet(queue') \/ entry'[l] # NoTask
  BY <1>1 DEF Continues
<1>7. Known(b) \subseteq Known(Now')
  BY DEF Continues
<1>. QED
  BY <1>3, <1>4, <1>5, <1>6, <1>7 DEF Moves

(* A step that leaves queue and entries alone moves nothing. *)
LEMMA StillMoves ==
  ASSUME NEW K, queue' = queue, Unmoved(K)
  PROVE  Moves(ToSet(queue), entry, K)
  BY DEF Moves, Unmoved

(* A step that changes nothing moves nothing. *)
LEMMA UnchangedMoves ==
  ASSUME UNCHANGED vars
  PROVE  Moves(ToSet(queue), entry, Known(Now))
<1>1. Now' = Now /\ queue' = queue /\ entry' = entry
  BY DEF vars, loopVars, poolVars, Now
<1>2. Known(Now') = Known(Now)
  BY <1>1
<1>. QED
  BY <1>1, <1>2 DEF Moves

(* The steps of the supervisor below a mission, so described. *)
LEMMA EndMoves ==
  ASSUME IInv, IInv', NEW t \in Tasks, t \in live, Handled(t)
  PROVE  \E l \in Loops :
           /\ entry[l] = t /\ LoopOf(t) = {l} /\ l \notin ToSet(queue)
           /\ Moves(ToSet(queue), [entry EXCEPT ![l] = NoTask], Known(Now) \ {t})
<1>0. PICK l \in LoopOf(t) : \E b : EndOf(t, l, b) /\ Continues(b, Now')
  BY DEF Handled
<1>1. PICK b : EndOf(t, l, b) /\ Continues(b, Now')
  BY <1>0
<1>2. l \in Loops /\ entry[l] = t /\ l \notin ToSet(queue) /\ Known(b) = Known(Now) \ {t}
  BY <1>1, EndsTask
<1>3. b.queue = queue /\ b.entry = [entry EXCEPT ![l] = NoTask] /\ b \in Records
  BY <1>1 DEF EndOf
<1>4. Moves(ToSet(b.queue), b.entry, Known(b))
  BY <1>1, <1>3, ContinuesMoves
<1>5. LoopOf(t) = {l}
  <2>1. \A k \in Loops : entry[k] = t => Owner(t) = k
    BY NowIs, NoTaskIsNone
  <2>. QED
    BY <1>2, <2>1 DEF LoopOf
<1>. QED
  BY <1>2, <1>3, <1>4, <1>5

(* A restart gives its loop a new task. *)
LEMMA RestartMoves ==
  ASSUME IInv, IInv', NEW t \in Tasks, Restarts(t), Restarted(t)
  PROVE  \E l \in Loops, n \in Tasks :
           /\ entry[l] = t /\ t \in live /\ Owner(n) = l /\ n \notin Known(Now)
           /\ Moves(ToSet(queue), [entry EXCEPT ![l] = n], (Known(Now) \ {t}) \cup {n})
<1>1. PICK l \in LoopOf(t), n \in Tasks, u \in Records :
        /\ Owner(n) = l /\ n \notin Known(Now)
        /\ u.entry = [entry EXCEPT ![l] = n] /\ u.queue = queue
        /\ Known(u) = (Known(Now) \ {t}) \cup {n} /\ Continues(u, Now')
  BY DEF Restarted
<1>2. l \in Loops /\ entry[l] = t /\ t \in live
  BY DEF LoopOf, Restarts
<1>3. Moves(ToSet(u.queue), u.entry, Known(u))
  BY <1>1, ContinuesMoves
<1>. QED
  BY <1>1, <1>2, <1>3

(* A loop that loses its entry gets no task, and others may start. *)
LEMMA DropMoves ==
  ASSUME IInv', NEW l \in Loops, Dropped(l) \/ CancelledWaiting(l)
  PROVE  \E K \in {Known(Now), Known(Now) \ {entry[l]}} :
           Moves(ToSet(queue), [entry EXCEPT ![l] = NoTask], K)
<1>1. PICK b \in Records :
        /\ b.queue = queue /\ b.entry = [entry EXCEPT ![l] = NoTask]
        /\ Known(b) \in {Known(Now), Known(Now) \ {entry[l]}} /\ Continues(b, Now')
  BY DEF Dropped, CancelledWaiting
<1>2. Moves(ToSet(b.queue), b.entry, Known(b))
  BY <1>1, ContinuesMoves
<1>. QED
  BY <1>1, <1>2

(* A submission may start its loop or queue it. *)
LEMMA SubmitMoves ==
  ASSUME IInv, IInv', NEW l \in Loops, entry[l] = NoTask, l \notin ToSet(queue), Submitted(l)
  PROVE  Moves(ToSet(queue) \cup {l}, entry, Known(Now))
<1>1. entry \in [Loops -> Tasks \cup {NoTask}] /\ live \subseteq Known(Now)
  BY NowIs, NowFields
<1>2. CASE /\ queue' = queue
           /\ \E n \in Tasks :
                /\ Owner(n) = l /\ n \notin Known(Now)
                /\ entry' = [entry EXCEPT ![l] = n] /\ Known(Now') = Known(Now) \cup {n}
  <2>1. PICK n \in Tasks :
          /\ Owner(n) = l /\ n \notin Known(Now)
          /\ entry' = [entry EXCEPT ![l] = n] /\ Known(Now') = Known(Now) \cup {n}
    BY <1>2
  <2>2. entry'[l] = n /\ n # NoTask /\ \A k \in Loops : k # l => entry'[k] = entry[k]
    BY <1>1, <2>1, NoTaskIsNone
  <2>. QED
    BY <1>1, <1>2, <2>1, <2>2 DEF Moves
<1>3. CASE ToSet(queue') = ToSet(queue) \cup {l} /\ entry' = entry /\ Known(Now') = Known(Now)
  BY <1>3 DEF Moves
<1>. QED
  BY <1>2, <1>3 DEF Submitted

(* A mission has no second task after a step of the supervisor. *)
LEMMA MovesOneEach ==
  ASSUME IInv', NEW Q, NEW e, NEW K, Moves(Q, e, K),
         \A t, u \in K : Owner(t) = Owner(u) => t = u,
         \A t \in K : Owner(t) \notin Q
  PROVE  /\ OneEach'
         /\ \A l \in ToSet(queue') : \A t \in Known(Now') : Owner(t) # l
         /\ \A l : l \notin Q /\ (\A t \in K : Owner(t) # l)
              => \A t \in Known(Now') : Owner(t) # l
<1>1. \A t \in Known(Now') \ K :
        Owner(t) \in Q \ ToSet(queue') /\ t = entry'[Owner(t)]
  BY DEF Moves
<1>2. \A t, u \in Known(Now') : Owner(t) = Owner(u) => t = u
  BY <1>1
<1>3. ToSet(queue') \subseteq Q
  BY DEF Moves
<1>. QED
  BY <1>1, <1>2, <1>3 DEF OneEach

(* What the shim does about a step of the supervisor: told is what it says *)
(* of the missions before it hears of starts, and it is told the end of    *)
(* the loops in over.                                                      *)
Tells(Q, e, K, told, over) ==
  /\ Q \subseteq ToSet(queue) /\ Moves(Q, e, K)
  /\ Hears(told) /\ linked' = linked \ over /\ UNCHANGED asked
  /\ \A t, u \in K : Owner(t) = Owner(u) => t = u
  /\ \A t \in K : t \in Known(Now) \/ \E l \in Loops : Owner(t) = l /\ entry[l] # NoTask
  /\ \A t \in K : Owner(t) \notin Q
  /\ \A l \in Loops : e[l] # NoTask => entry[l] # NoTask
  /\ over \subseteq Loops /\ \A l \in over : l \notin Q /\ e[l] = NoTask
  /\ \A l \in Loops : told[l] # mission[l] =>
       /\ told[l] \in {"running", "paused"} \cup Terminal
       /\ mission[l] # "unknown"
       /\ l \in Q => told[l] \notin Terminal
       /\ l \in linked /\ told[l] \in {"done", "failed"} => l \in over
  /\ \A l \in ToSet(queue) \ Q : told[l] # "assigned"
  /\ \A l \in Loops : e[l] \notin {NoTask, entry[l]} => entry[l] \in live \ K
  /\ \A l \in Loops : told[l] # mission[l] /\ mission[l] \in Terminal =>
       l \in linked /\ entry[l] \in live \ K

(* When a step moves what Moves allows and the missions hear of it, the    *)
(* missions' invariant holds after it.                                     *)
LEMMA HearsKeeps ==
  ASSUME MissionInv, IInv', NEW Q, NEW e, NEW K, NEW told, NEW over,
         Tells(Q, e, K, told, over)
  PROVE  MissionInv'
<1> DEFINE States == {"unknown", "assigned", "running", "paused", "hitl-required"} \cup Terminal
<1>1. /\ mission \in [Loops -> States] /\ linked \subseteq Loops /\ asked \subseteq Loops
      /\ \A l \in Loops : GoodMission(l)
  BY DEF MissionInv
<1>2. /\ ToSet(queue') \subseteq Q
      /\ \A l \in Loops :
           entry'[l] = e[l] \/ (e[l] = NoTask /\ l \in Q \ ToSet(queue'))
      /\ \A l \in Q : l \in ToSet(queue') \/ entry'[l] # NoTask
  BY DEF Tells, Moves
<1>3. /\ OneEach'
      /\ \A l \in ToSet(queue') : \A t \in Known(Now') : Owner(t) # l
      /\ \A l : l \notin Q /\ (\A t \in K : Owner(t) # l)
           => \A t \in Known(Now') : Owner(t) # l
  BY MovesOneEach DEF Tells
<1>4. /\ mission' = [l \in Loops |-> IF l \in linked /\ Starts(l) THEN "running" ELSE told[l]]
      /\ linked' = linked \ over /\ asked' = asked /\ Q \subseteq ToSet(queue)
  BY DEF Tells, Hears
<1>5. mission' \in [Loops -> States]
  BY <1>1, <1>4 DEF Tells, Terminal
<1>6. linked' \subseteq Loops /\ asked' \subseteq Loops
  BY <1>1, <1>4
<1>7. \A l \in ToSet(queue') : entry'[l] = NoTask
  <2>1. Now'.queue = queue' /\ Now'.entry = entry' /\ GoodQueue(Now')
    BY DEF Now, IInv, Good
  <2>. QED
    BY <2>1 DEF GoodQueue
<1>8. ASSUME NEW l \in Loops
      PROVE  GoodMission(l)'
  <2>1. GoodMission(l)
    BY <1>1
  <2>2. mission'[l] = IF l \in linked /\ Starts(l) THEN "running" ELSE told[l]
    BY <1>4
  <2>3. l \in ToSet(queue') => l \in linked' /\ Open(l)' /\ Taskless(l)'
    <3> HAVE l \in ToSet(queue')
    <3>1. l \in Q /\ l \in ToSet(queue) /\ entry'[l] = NoTask
      BY <1>2, <1>4, <1>7
    <3>2. l \in linked' /\ Taskless(l)'
      BY <1>3, <1>4, <2>1, <3>1 DEF GoodMission, Taskless, Tells
    <3>3. mission'[l] = told[l]
      BY <2>2, <3>1 DEF Starts
    <3>4. told[l] \notin Terminal \cup {"unknown"}
      BY <2>1, <3>1 DEF GoodMission, Open, Tells, Terminal
    <3>. QED
      BY <3>2, <3>3, <3>4 DEF Open
  <2>4. mission'[l] = "unknown" => l \notin linked' \cup asked' /\ Taskless(l)'
    <3> HAVE mission'[l] = "unknown"
    <3>1. mission[l] = "unknown"
      BY <2>2 DEF Tells, Terminal
    <3>2. l \notin linked \cup asked /\ Taskless(l) /\ entry[l] = NoTask /\ l \notin Q
      BY <1>4, <2>1, <3>1 DEF GoodMission, Open
    <3>3. \A t \in K : Owner(t) # l
      BY <3>2 DEF Tells, Taskless
    <3>. QED
      BY <1>3, <1>4, <3>2, <3>3 DEF Taskless
  <2>5. entry'[l] # NoTask => l \in linked'
    <3> HAVE entry'[l] # NoTask
    <3>1. e[l] # NoTask \/ l \in Q
      BY <1>2
    <3>2. l \notin over
      BY <1>2 DEF Tells
    <3>3. l \in linked
      BY <1>4, <2>1, <3>1 DEF GoodMission, Tells
    <3>. QED
      BY <1>4, <3>2, <3>3
  <2>6. mission'[l] = "assigned" => l \in ToSet(queue')
    <3> SUFFICES ASSUME mission'[l] = "assigned", l \notin ToSet(queue')
                 PROVE  FALSE
      OBVIOUS
    <3>1. told[l] = "assigned" /\ ~(l \in linked /\ Starts(l))
      BY <2>2
    <3>2. mission[l] = "assigned"
      BY <3>1 DEF Tells, Terminal
    <3>3. l \in ToSet(queue) /\ l \in linked /\ l \in Q
      BY <2>1, <3>1, <3>2 DEF GoodMission, Tells
    <3>4. entry'[l] # NoTask /\ entry[l] = NoTask
      BY <1>2, <3>3, NowIs DEF MissionInv
    <3>. QED
      BY <3>1, <3>3, <3>4 DEF Starts
  <2>7. l \in linked' => mission'[l] \notin {"done", "failed"}
    BY <1>4, <2>1, <2>2 DEF GoodMission, Tells
  <2>. QED
    BY <2>3, <2>4, <2>5, <2>6, <2>7 DEF GoodMission
<1>. QED
  BY <1>3, <1>5, <1>6, <1>8 DEF MissionInv

(* A mission that is over changes only by the end of its child, unless a   *)
(* question is open.                                                       *)
EndedStays(l) ==
  mission[l] \in Terminal /\ mission'[l] # mission[l] =>
    \/ l \in asked
    \/ mission[l] = "aborted" /\ entry[l] \in live \ live'

(* In such a step a mission that is over stays over, but for an aborted    *)
(* one whose child ends.                                                   *)
LEMMA HearsEnded ==
  ASSUME MissionInv, NEW Q, NEW e, NEW K, NEW told, NEW over,
         Tells(Q, e, K, told, over), NEW l \in Loops
  PROVE  EndedStays(l)
<1> SUFFICES ASSUME mission[l] \in Terminal, mission'[l] # mission[l]
             PROVE  mission[l] = "aborted" /\ entry[l] \in live \ live'
  BY DEF EndedStays
<1>1. /\ \A k \in Loops :
           entry'[k] = e[k] \/ (e[k] = NoTask /\ k \in Q \ ToSet(queue'))
      /\ \A t \in Known(Now') \ K : t \notin live
      /\ Q \subseteq ToSet(queue)
  BY DEF Tells, Moves
<1>2. mission'[l] = IF l \in linked /\ Starts(l) THEN "running" ELSE told[l]
  BY DEF Tells, Hears
<1>3. GoodMission(l)
  BY DEF MissionInv
<1>4. l \in linked /\ entry[l] \in live \ K
  <2>1. CASE l \in linked /\ Starts(l)
    <3>1. l \notin Q
      BY <1>1, <1>3 DEF GoodMission, Open
    <3>2. e[l] \notin {NoTask, entry[l]}
      BY <1>1, <2>1, <3>1 DEF Starts
    <3>. QED
      BY <2>1, <3>2 DEF Tells
  <2>2. CASE ~(l \in linked /\ Starts(l))
    BY <1>2, <2>2 DEF Tells
  <2>. QED
    BY <2>1, <2>2
<1>5. mission[l] = "aborted"
  BY <1>3, <1>4 DEF GoodMission, Terminal
<1>6. live' \subseteq Known(Now')
  BY DEF Known, Now
<1>. QED
  BY <1>1, <1>4, <1>5, <1>6

(* Steps after which the pool has no new task but those of waiting loops. *)
LEMMA QuietTells ==
  ASSUME MissionInv, NEW Q, Q \subseteq ToSet(queue), NEW K, K \subseteq Known(Now),
         NEW e, \A l \in Loops : e[l] \in {entry[l], NoTask}, Moves(Q, e, K),
         NEW told, NEW over, Hears(told), linked' = linked \ over, UNCHANGED asked,
         over \subseteq Loops, \A l \in over : l \notin Q /\ e[l] = NoTask,
         \A l \in Loops : told[l] # mission[l] =>
           /\ told[l] \in {"running", "paused"} \cup Terminal
           /\ mission[l] # "unknown"
           /\ l \in Q => told[l] \notin Terminal
           /\ l \in linked /\ told[l] \in {"done", "failed"} => l \in over
           /\ mission[l] \in Terminal => l \in linked /\ entry[l] \in live \ K,
         \A l \in ToSet(queue) \ Q : told[l] # "assigned"
  PROVE  Tells(Q, e, K, told, over)
<1>1. \A l \in Loops : l \in ToSet(queue) => Taskless(l)
  BY DEF MissionInv, GoodMission
<1>2. \A l \in ToSet(queue) : l \in Loops
  BY NowIs DEF MissionInv
<1>3. \A t \in K : Owner(t) \notin Q
  BY <1>1, <1>2 DEF Taskless
<1>4. \A t, u \in K : Owner(t) = Owner(u) => t = u
  BY DEF MissionInv, OneEach
<1>. QED
  BY <1>3, <1>4 DEF Tells

(* The same, when nothing is said of a mission. *)
LEMMA SilentTells ==
  ASSUME MissionInv, NEW K, K \subseteq Known(Now),
         NEW e, \A l \in Loops : e[l] \in {entry[l], NoTask}, Moves(ToSet(queue), e, K),
         Hears(mission), UNCHANGED <<linked, asked>>
  PROVE  Tells(ToSet(queue), e, K, mission, {})
  BY QuietTells

(* A step of the supervisor on its own. *)
LEMMA SupervisorStepTells ==
  ASSUME MissionInv, IInv', SupervisorStep
  PROVE  \E e, K : Tells(ToSet(queue), e, K, mission, {})
<1>1. IInv /\ Hears(mission) /\ UNCHANGED <<linked, asked>>
  BY DEF SupervisorStep, MissionInv
<1>2. ASSUME NEW t \in Tasks, OrphanEnds(t)
      PROVE  \E e, K : Tells(ToSet(queue), e, K, mission, {})
  <2>1. Moves(ToSet(queue), entry, Known(Now) \ {t})
    BY <1>1, <1>2, OrphanEndsKeeps, StillMoves
  <2>. QED
    BY <1>1, <2>1, SilentTells
<1>3. ASSUME NEW t \in Tasks, Timeout(t)
      PROVE  \E e, K : Tells(ToSet(queue), e, K, mission, {})
  <2>1. Moves(ToSet(queue), entry, Known(Now))
    BY <1>1, <1>3, TimeoutKeeps, StillMoves
  <2>. QED
    BY <1>1, <2>1, SilentTells
<1>4. ASSUME CooldownElapses \/ HalfOpens
      PROVE  \E e, K : Tells(ToSet(queue), e, K, mission, {})
  <2>1. Moves(ToSet(queue), entry, Known(Now))
    BY <1>1, <1>4, BreakerKeeps, StillMoves
  <2>. QED
    BY <1>1, <2>1, SilentTells
<1>5. ASSUME NEW t \in Tasks, Cancelled(t)
      PROVE  \E e, K : Tells(ToSet(queue), e, K, mission, {})
  <2>1. t \in live /\ Handled(t)
    BY <1>1, <1>5, CancelledKeeps DEF Cancelled
  <2>2. PICK l \in Loops :
          Moves(ToSet(queue), [entry EXCEPT ![l] = NoTask], Known(Now) \ {t})
    BY <1>1, <2>1, EndMoves
  <2>3. \A k \in Loops : [entry EXCEPT ![l] = NoTask][k] \in {entry[k], NoTask}
    BY <1>1, NowIs
  <2>. QED
    BY <1>1, <2>2, <2>3, SilentTells
<1>6. ASSUME NEW t \in Tasks, Restarts(t)
      PROVE  \E e, K : Tells(ToSet(queue), e, K, mission, {})
  <2>1. PICK l \in Loops, n \in Tasks :
          /\ entry[l] = t /\ t \in live /\ Owner(n) = l /\ n \notin Known(Now)
          /\ Moves(ToSet(queue), [entry EXCEPT ![l] = n], (Known(Now) \ {t}) \cup {n})
    BY <1>1, <1>6, RestartsKeeps, RestartMoves
  <2> DEFINE e == [entry EXCEPT ![l] = n]
             K == (Known(Now) \ {t}) \cup {n}
  <2>2. /\ \A k \in Loops : k # l => e[k] = entry[k]
        /\ e[l] = n /\ t # NoTask /\ t \in Known(Now) /\ Owner(t) = l
        /\ l \notin ToSet(queue) /\ t # n
    BY <1>1, <1>6, <2>1, NowIs, NowFields, NoTaskIsNone
  <2>3. Moves(ToSet(queue), e, K)
    BY <2>1
  <2> HIDE DEF e
  <2>4. \A x \in K : Owner(x) \notin ToSet(queue)
    <3>1. \A k \in Loops : k \in ToSet(queue) => Taskless(k)
      BY DEF MissionInv, GoodMission
    <3>2. \A k \in ToSet(queue) : k \in Loops
      BY <1>1, NowIs
    <3>. QED
      BY <2>1, <2>2, <3>1, <3>2 DEF Taskless
  <2>5. \A x, y \in K : Owner(x) = Owner(y) => x = y
    BY <2>1, <2>2 DEF MissionInv, OneEach
  <2>6. t \notin K
    BY <2>2
  <2>7. \A x \in K : x \in Known(Now) \/ \E k \in Loops : Owner(x) = k /\ entry[k] # NoTask
    BY <2>1, <2>2
  <2>. QED
    BY <1>1, <2>1, <2>2, <2>3, <2>4, <2>5, <2>6, <2>7 DEF Tells
<1>. QED
  BY <1>2, <1>3, <1>4, <1>5, <1>6 DEF SupervisorStep

(* loop:completed and loop:failed. *)
LEMMA ReportTells ==
  ASSUME MissionInv, IInv', NEW t \in Tasks, t \in live, Handled(t),
         NEW outcome \in {"done", "failed"}, Reported(LoopOf(t), outcome)
  PROVE  \E e, K, told, over : Tells(ToSet(queue), e, K, told, over)
<1>1. IInv
  BY DEF MissionInv
<1>2. PICK l \in Loops :
        /\ entry[l] = t /\ LoopOf(t) = {l} /\ l \notin ToSet(queue)
        /\ Moves(ToSet(queue), [entry EXCEPT ![l] = NoTask], Known(Now) \ {t})
  BY <1>1, EndMoves
<1> DEFINE e == [entry EXCEPT ![l] = NoTask]
           K == Known(Now) \ {t}
           told == [k \in Loops |-> IF k \in {l} \cap linked THEN outcome ELSE mission[k]]
<1>3. \A k \in Loops : e[k] \in {entry[k], NoTask} /\ (k = l => e[k] = NoTask)
  BY <1>1, NowIs
<1>4. Moves(ToSet(queue), e, K) /\ K \subseteq Known(Now) /\ entry[l] \in live \ K
  BY <1>2
<1>5. Hears(told) /\ linked' = linked \ {l} /\ UNCHANGED asked
  BY <1>2 DEF Reported
<1>6. ASSUME NEW k \in Loops, told[k] # mission[k]
      PROVE  /\ told[k] \in {"running", "paused"} \cup Terminal
             /\ mission[k] # "unknown"
             /\ k \in ToSet(queue) => told[k] \notin Terminal
             /\ k \in linked /\ told[k] \in {"done", "failed"} => k \in {l}
             /\ mission[k] \in Terminal => k \in linked /\ entry[k] \in live \ K
  <2>1. k = l /\ l \in linked /\ told[k] = outcome
    BY <1>6
  <2>2. GoodMission(l)
    BY DEF MissionInv
  <2>. QED
    BY <1>2, <1>4, <2>1, <2>2 DEF GoodMission, Terminal
<1> HIDE DEF e, K, told
<1>7. {l} \subseteq Loops /\ \A k \in {l} : k \notin ToSet(queue) /\ e[k] = NoTask
  BY <1>2, <1>3
<1>8. Tells(ToSet(queue), e, K, told, {l})
  BY <1>3, <1>4, <1>5, <1>6, <1>7, QuietTells
<1>. QED
  BY <1>8

(* A request that says s of the mission of loop l, and has the supervisor  *)
(* do something about the loop.                                            *)
LEMMA RequestTells ==
  ASSUME MissionInv, NEW l \in Loops, NEW s \in {"paused", "running", "aborted"},
         Open(l), Hears([mission EXCEPT ![l] = s]), UNCHANGED <<linked, asked>>,
         NEW Q, Q \in {ToSet(queue), ToSet(queue) \ {l}},
         s = "aborted" => l \notin Q, NEW K, K \subseteq Known(Now),
         NEW e, \A k \in Loops : e[k] \in {entry[k], NoTask}, Moves(Q, e, K)
  PROVE  \E told : Tells(Q, e, K, told, {})
<1> DEFINE told == [mission EXCEPT ![l] = s]
<1>1. mission \in [Loops -> {"unknown", "assigned", "running", "paused", "hitl-required"} \cup Terminal]
  BY DEF MissionInv
<1>2. told[l] = s /\ \A k \in Loops : k # l => told[k] = mission[k]
  BY <1>1
<1>3. Hears(told)
  OBVIOUS
<1> HIDE DEF told
<1>4. \A k \in ToSet(queue) : k \in Loops
  BY NowIs DEF MissionInv
<1>5. Tells(Q, e, K, told, {})
  BY <1>2, <1>3, <1>4, QuietTells DEF Open, Terminal
<1>. QED
  BY <1>5

(* killProcessGroup() as the shim calls it. *)
LEMMA SignalMoves ==
  ASSUME MissionInv, NEW l \in Loops, Signal(l)
  PROVE  /\ IInv'
         /\ \E e, K : /\ K \subseteq Known(Now)
                      /\ \A k \in Loops : e[k] \in {entry[k], NoTask}
                      /\ Moves(ToSet(queue), e, K)
<1>1. IInv
  BY DEF MissionInv
<1>2. CASE KillProcessGroup(l)
  <2>1. IInv' /\ Dropped(l)
    BY <1>1, <1>2, KillProcessGroupKeeps
  <2>2. PICK K \in {Known(Now), Known(Now) \ {entry[l]}} :
          Moves(ToSet(queue), [entry EXCEPT ![l] = NoTask], K)
    BY <2>1, DropMoves
  <2>3. \A k \in Loops : [entry EXCEPT ![l] = NoTask][k] \in {entry[k], NoTask}
    BY <1>1, NowIs
  <2>. QED
    BY <2>1, <2>2, <2>3
<1>3. CASE UNCHANGED vars
  BY <1>1, <1>3, InvariantNext, UnchangedMoves
<1>. QED
  BY <1>2, <1>3 DEF Signal

(* An operator aborts a mission. *)
LEMMA AbortTells ==
  ASSUME MissionInv, NEW l \in Loops, Abort(l)
  PROVE  IInv' /\ \E Q, e, K, told : Tells(Q, e, K, told, {})
<1>1. /\ IInv /\ Open(l) /\ Hears([mission EXCEPT ![l] = "aborted"])
      /\ UNCHANGED <<linked, asked>>
      /\ CancelQueued(l) \/ CancelWaiting(l) \/ SendsSigterm(l)
  BY DEF Abort, MissionInv
<1>2. CASE CancelQueued(l)
  <2>1. /\ IInv' /\ ToSet(queue') = ToSet(queue) \ {l} /\ Unmoved(Known(Now))
    BY <1>1, <1>2, CancelQueuedKeeps
  <2>2. Moves(ToSet(queue) \ {l}, entry, Known(Now))
    BY <2>1 DEF Moves, Unmoved
  <2>. QED
    BY <1>1, <2>1, <2>2, RequestTells
<1>3. CASE CancelWaiting(l)
  <2>1. IInv' /\ CancelledWaiting(l) /\ entry[l] # NoTask
    BY <1>1, <1>3, CancelWaitingKeeps
  <2>2. PICK K \in {Known(Now), Known(Now) \ {entry[l]}} :
          Moves(ToSet(queue), [entry EXCEPT ![l] = NoTask], K)
    BY <2>1, DropMoves
  <2>3. \A k \in Loops : [entry EXCEPT ![l] = NoTask][k] \in {entry[k], NoTask}
    BY <1>1, NowIs
  <2>4. l \notin ToSet(queue)
    BY <1>1, <2>1, NowIs
  <2>. QED
    BY <1>1, <2>1, <2>2, <2>3, <2>4, RequestTells
<1>4. CASE SendsSigterm(l)
  <2>1. l \notin ToSet(queue) /\ UNCHANGED vars
    BY <1>4 DEF SendsSigterm
  <2>2. IInv' /\ Moves(ToSet(queue), entry, Known(Now))
    BY <1>1, <2>1, InvariantNext, UnchangedMoves
  <2>. QED
    BY <1>1, <2>1, <2>2, RequestTells
<1>. QED
  BY <1>1, <1>2, <1>3, <1>4

(* The steps in which the shim hears of the supervisor. *)
LEMMA HearingSteps ==
  ASSUME MissionInv,
         \/ \E l \in Loops : Pause(l) \/ Resume(l) \/ Abort(l)
         \/ \E t \in Tasks : LoopCompleted(t) \/ LoopFailed(t)
         \/ SupervisorStep
  PROVE  MissionInv' /\ \A l \in Loops : EndedStays(l)
<1>1. IInv
  BY DEF MissionInv
<1>2. IInv' /\ \E Q, e, K, told, over : Tells(Q, e, K, told, over)
  <2>1. ASSUME NEW l \in Loops, Pause(l) \/ Resume(l)
        PROVE  IInv' /\ \E Q, e, K, told, over : Tells(Q, e, K, told, over)
    <3>1. /\ Open(l) /\ Signal(l) /\ UNCHANGED <<linked, asked>>
          /\ \E s \in {"paused", "running"} : Hears([mission EXCEPT ![l] = s])
      BY <2>1 DEF Pause, Resume, Open, Terminal
    <3>2. /\ IInv'
          /\ \E e, K : /\ K \subseteq Known(Now)
                       /\ \A k \in Loops : e[k] \in {entry[k], NoTask}
                       /\ Moves(ToSet(queue), e, K)
      BY <3>1, SignalMoves
    <3>3. \E e, K, told : Tells(ToSet(queue), e, K, told, {})
      BY <3>1, <3>2, RequestTells
    <3>. QED
      BY <3>2, <3>3
  <2>2. ASSUME NEW l \in Loops, Abort(l)
        PROVE  IInv' /\ \E Q, e, K, told, over : Tells(Q, e, K, told, over)
    BY <2>2, AbortTells
  <2>3. ASSUME NEW t \in Tasks, LoopCompleted(t) \/ LoopFailed(t)
        PROVE  IInv' /\ \E Q, e, K, told, over : Tells(Q, e, K, told, over)
    <3>1. /\ t \in live /\ IInv' /\ Handled(t)
          /\ \E outcome \in {"done", "failed"} : Reported(LoopOf(t), outcome)
      BY <1>1, <2>3, CompletedKeeps, GivesUpKeeps
         DEF LoopCompleted, LoopFailed, Completed, GivesUp
    <3>. QED
      BY <3>1, ReportTells
  <2>4. ASSUME SupervisorStep
        PROVE  IInv' /\ \E Q, e, K, told, over : Tells(Q, e, K, told, over)
    <3>1. Next
      BY <2>4 DEF SupervisorStep, Next
    <3>2. IInv'
      BY <1>1, <3>1, InvariantNext
    <3>. QED
      BY <2>4, <3>2, SupervisorStepTells
  <2>. QED
    BY <2>1, <2>2, <2>3, <2>4
<1>. QED
  BY <1>2, HearsKeeps, HearsEnded

(* A mission is dispatched. *)
LEMMA DispatchKeeps ==
  ASSUME MissionInv, NEW l \in Loops, Dispatch(l)
  PROVE  MissionInv' /\ \A k \in Loops : EndedStays(k)
<1>1. /\ mission[l] = "unknown" /\ Submit(l) /\ linked' = linked \cup {l} /\ asked' = asked
      /\ mission' = [mission EXCEPT ![l] = IF Starts(l) THEN "running" ELSE "assigned"]
  BY DEF Dispatch
<1>2. /\ IInv /\ OneEach /\ linked \subseteq Loops /\ asked \subseteq Loops
      /\ mission \in [Loops -> {"unknown", "assigned", "running", "paused", "hitl-required"} \cup Terminal]
      /\ \A k \in Loops : GoodMission(k)
  BY DEF MissionInv
<1>3. IInv' /\ Submitted(l) /\ entry[l] = NoTask /\ l \notin ToSet(queue)
  BY <1>1, <1>2, SubmitKeeps DEF Submit
<1> DEFINE Q == ToSet(queue) \cup {l}
           K == Known(Now)
<1>4. Moves(Q, entry, K)
  BY <1>2, <1>3, SubmitMoves
<1>5. \A k \in ToSet(queue) : k \in Loops
  BY <1>2, NowIs
<1>6. \A t \in K : Owner(t) \notin Q
  BY <1>1, <1>2, <1>5 DEF GoodMission, Taskless
<1>7. \A t, u \in K : Owner(t) = Owner(u) => t = u
  BY <1>2 DEF OneEach
<1>8. /\ ToSet(queue') \subseteq Q
      /\ \A k \in Loops : entry'[k] = entry[k] \/ k \in Q
      /\ l \in ToSet(queue') \/ entry'[l] # NoTask
  BY <1>4 DEF Moves
<1>9. ToSet(queue) \subseteq ToSet(queue')
  BY <1>3 DEF Submitted
<1> HIDE DEF Q, K
<1>10. /\ OneEach'
       /\ \A k \in ToSet(queue') : \A t \in Known(Now') : Owner(t) # k
       /\ \A k : k \notin Q /\ (\A t \in K : Owner(t) # k)
            => \A t \in Known(Now') : Owner(t) # k
  BY <1>3, <1>4, <1>6, <1>7, MovesOneEach
<1>11. /\ mission'[l] = IF Starts(l) THEN "running" ELSE "assigned"
       /\ \A k \in Loops : k # l => mission'[k] = mission[k]
       /\ mission' \in [Loops -> {"unknown", "assigned", "running", "paused", "hitl-required"} \cup Terminal]
  BY <1>1, <1>2
<1>12. GoodMission(l)'
  <2>1. mission'[l] = "assigned" => l \in ToSet(queue')
    BY <1>3, <1>8, <1>11 DEF Starts
  <2>2. mission'[l] \in {"running", "assigned"} /\ l \in linked'
    BY <1>1, <1>11
  <2>. QED
    BY <1>10, <2>1, <2>2 DEF GoodMission, Open, Taskless, Terminal
<1>13. ASSUME NEW k \in Loops, k # l
       PROVE  GoodMission(k)'
  <2>1. GoodMission(k) /\ mission'[k] = mission[k] /\ (k \in Q => k \in ToSet(queue))
    BY <1>2, <1>11, <1>13 DEF Q
  <2>2. k \in ToSet(queue') => k \in linked' /\ Open(k)' /\ Taskless(k)'
    BY <1>1, <1>8, <1>10, <2>1 DEF GoodMission, Open, Taskless
  <2>3. mission'[k] = "unknown" => k \notin linked' \cup asked' /\ Taskless(k)'
    <3> HAVE mission'[k] = "unknown"
    <3>1. k \notin linked \cup asked /\ Taskless(k) /\ k \notin Q
      BY <2>1 DEF GoodMission, Open
    <3>. QED
      BY <1>1, <1>10, <1>13, <3>1 DEF Taskless, K
  <2>4. entry'[k] # NoTask => k \in linked'
    BY <1>1, <1>8, <2>1 DEF GoodMission
  <2>. QED
    BY <1>1, <1>9, <1>13, <2>1, <2>2, <2>3, <2>4 DEF GoodMission
<1>14. \A k \in Loops : EndedStays(k)
  BY <1>1, <1>11 DEF EndedStays, Terminal
<1>. QED
  BY <1>1, <1>2, <1>3, <1>10, <1>11, <1>12, <1>13, <1>14 DEF MissionInv

(* Questions and answers leave the supervisor alone. *)
LEMMA QuestionKeeps ==
  ASSUME MissionInv, NEW l \in Loops, Ask(l) \/ Answer(l)
  PROVE  MissionInv' /\ \A k \in Loops : EndedStays(k)
<1>1. /\ IInv /\ OneEach /\ linked \subseteq Loops /\ asked \subseteq Loops
      /\ mission \in [Loops -> {"unknown", "assigned", "running", "paused", "hitl-required"} \cup Terminal]
      /\ \A k \in Loops : GoodMission(k)
  BY DEF MissionInv
<1>2. /\ UNCHANGED vars /\ linked' = linked
      /\ \E s \in {"running", "hitl-required"} : mission' = [mission EXCEPT ![l] = s]
      /\ asked' \subseteq asked \cup {l}
      /\ l \in asked \/ mission[l] = "running"
  BY DEF Ask, Answer
<1>3. IInv' /\ Now' = Now /\ queue' = queue /\ entry' = entry
  BY <1>1, <1>2, InvariantNext DEF vars, loopVars, poolVars, Now
<1>4. Known(Now') = Known(Now)
  BY <1>3
<1>5. OneEach' /\ \A k \in Loops : Taskless(k) => Taskless(k)'
  BY <1>1, <1>4 DEF OneEach, Taskless
<1>6. /\ mission'[l] \in {"running", "hitl-required"}
      /\ \A k \in Loops : k # l => mission'[k] = mission[k]
      /\ mission' \in [Loops -> {"unknown", "assigned", "running", "paused", "hitl-required"} \cup Terminal]
  BY <1>1, <1>2
<1>7. mission[l] # "unknown"
  BY <1>1, <1>2 DEF GoodMission
<1>8. ASSUME NEW k \in Loops
      PROVE  GoodMission(k)'
  <2>1. GoodMission(k)
    BY <1>1
  <2>2. CASE k = l
    BY <1>2, <1>3, <1>5, <1>6, <2>1, <2>2 DEF GoodMission, Open, Terminal
  <2>3. CASE k # l
    <3>1. mission'[k] = mission[k] /\ (k \in asked' => k \in asked)
      BY <1>2, <1>6, <2>3
    <3>. QED
      BY <1>2, <1>3, <1>5, <2>1, <3>1 DEF GoodMission, Open
  <2>. QED
    BY <2>2, <2>3
<1>9. ASSUME NEW k \in Loops
      PROVE  EndedStays(k)
  BY <1>2, <1>6 DEF EndedStays, Terminal
<1>10. asked' \subseteq Loops
  BY <1>1, <1>2
<1>. QED
  BY <1>1, <1>2, <1>3, <1>5, <1>6, <1>8, <1>9, <1>10 DEF MissionInv

(* The missions' invariant holds at first. *)
LEMMA MissionInvariantInit ==
  ASSUME MissionInit
  PROVE  MissionInv
<1>1. IInv
  BY InvariantInit DEF MissionInit
<1>2. Known(Now) = {} /\ ToSet(queue) = {}
  BY EmptySequence DEF MissionInit, Init, Known, Now
<1>3. OneEach /\ \A l \in Loops : GoodMission(l)
  BY <1>2 DEF OneEach, GoodMission, Taskless, MissionInit, Init
<1>. QED
  BY <1>1, <1>3 DEF MissionInit, MissionInv

(* Every step keeps the missions' invariant. *)
LEMMA MissionInvariantNext ==
  ASSUME MissionInv, [MissionNext]_shimVars
  PROVE  MissionInv' /\ \A l \in Loops : EndedStays(l)
<1>1. CASE MissionNext
  BY <1>1, HearingSteps, DispatchKeeps, QuestionKeeps DEF MissionNext
<1>2. CASE UNCHANGED shimVars
  <2>1. /\ UNCHANGED vars /\ mission' = mission /\ linked' = linked /\ asked' = asked
    BY <1>2 DEF shimVars, missionVars
  <2>2. IInv' /\ Now' = Now /\ queue' = queue /\ entry' = entry
    BY <2>1, InvariantNext DEF MissionInv, vars, loopVars, poolVars, Now
  <2>3. Known(Now') = Known(Now)
    BY <2>2
  <2>. QED
    BY <2>1, <2>2, <2>3 DEF MissionInv, OneEach, GoodMission, Taskless, Open, EndedStays
<1>. QED
  BY <1>1, <1>2

(* The inductive invariant of the missions above the supervisor holds in   *)
(* every behaviour. (ExecutorShim)                                         *)
THEOREM MissionInvariant == MissionSpec => []MissionInv
<1>1. MissionInit => MissionInv
  BY MissionInvariantInit
<1>2. MissionInv /\ [MissionNext]_shimVars => MissionInv'
  BY MissionInvariantNext
<1>. QED
  BY <1>1, <1>2, PTL DEF MissionSpec

-----------------------------------------------------------------------------
(* The theorems about the shim. *)

(* The supervisor's variables and the shim's have their types. *)
THEOREM MissionTypes == MissionSpec => []MissionTypeOK
<1>1. MissionInv => MissionTypeOK
  <2> HAVE MissionInv
  <2>1. /\ queue \in Seq(Loops) /\ entry \in [Loops -> Tasks \cup {NoTask}]
        /\ knownPid \subseteq Loops /\ permanentlyFailed \subseteq Loops
        /\ breaker \in Breakers /\ waiting \in Seq(Tasks)
        /\ active \subseteq live /\ timers \subseteq live /\ live \subseteq Tasks
    BY NowIs DEF MissionInv
  <2>2. TypeOK
    BY <2>1 DEF MissionInv, IInv, TypeOK
  <2>. QED
    BY <2>2 DEF MissionInv, MissionTypeOK
<1>. QED
  BY <1>1, MissionInvariant, PTL

(* The supervisor works for no loop that the shim does not hear of, and    *)
(* keeps none in its queue whose mission is over. (dispatch, abortMission, *)
(* the listeners)                                                          *)
THEOREM ReportsReachMissions == MissionSpec => []LoopsReport
<1>1. MissionInv => LoopsReport
  BY DEF MissionInv, GoodMission, LoopsReport
<1>. QED
  BY <1>1, MissionInvariant, PTL

(* An accepted mission is not lost before it starts. (dispatch,            *)
(* loop:started)                                                           *)
THEOREM AcceptedMissionsWait == MissionSpec => []AssignedIsQueued
<1>1. MissionInv => AssignedIsQueued
  BY DEF MissionInv, GoodMission, AssignedIsQueued
<1>. QED
  BY <1>1, MissionInvariant, PTL

(* No mission has two agents, although pause and resume drop the entry of  *)
(* a child that lives on. (dispatch, killProcessGroup, the restart in      *)
(* task:failed)                                                            *)
THEOREM NoSecondAgent == MissionSpec => []OneAgentPerMission
<1>1. MissionInv => OneAgentPerMission
  <2> SUFFICES ASSUME MissionInv, NEW l \in Loops
               PROVE  Cardinality({t \in live \cup ToSet(waiting) : Owner(t) = l}) <= 1
    BY DEF OneAgentPerMission
  <2> DEFINE S == {t \in live \cup ToSet(waiting) : Owner(t) = l}
  <2>1. \A t, u \in S : t = u
    BY NowIs DEF MissionInv, OneEach
  <2>2. S = {} \/ \E t : S = {t}
    BY <2>1
  <2> HIDE DEF S
  <2>3. Cardinality(S) <= 1
    BY <2>2, FS_EmptySet, FS_Singleton
  <2>. QED
    BY <2>3 DEF S
<1>. QED
  BY <1>1, MissionInvariant, PTL

(* The supervisor below the shim keeps within its limits. (submit,         *)
(* _processQueue)                                                          *)
THEOREM MissionBounds == MissionSpec => []LoopsBounded
<1>1. MissionInv => LoopsBounded
  BY NowIs DEF MissionInv, LoopsBounded, Sorted
<1>. QED
  BY <1>1, MissionInvariant, PTL

(* A mission that is over stays so, but for an open question and for the   *)
(* end of an aborted child. (abortMission, the listeners)                  *)
THEOREM EndsAreFinal == MissionSpec => EndedStaysEnded
<1> DEFINE A == \A l \in Loops :
                  mission[l] \in Terminal /\ mission'[l] # mission[l] =>
                    \/ l \in asked
                    \/ mission[l] = "aborted" /\ entry[l] \in live \ live'
<1>1. MissionInv /\ [MissionNext]_shimVars => [A]_shimVars
  BY MissionInvariantNext DEF EndedStays
<1>. QED
  BY <1>1, MissionInvariant, PTL DEF MissionSpec, EndedStaysEnded

=============================================================================
