------------------------- MODULE LoopRegistryProofs -------------------------
(***************************************************************************)
(* Proofs about LoopRegistry for every set of processes and every limit.   *)
(***************************************************************************)
EXTENDS LoopRegistry, FiniteSetTheorems, TLAPS

(* Every step keeps the types. *)
LEMMA TypeStep == TypeOK /\ [Next]_vars => TypeOK'
<1>. SUFFICES ASSUME TypeOK, [Next]_vars
              PROVE  TypeOK'
  OBVIOUS
<1>. USE RegistryAssumption
<1>. USE DEF TypeOK, Goto, Jobs, Places, Contents, Readable, lockVars, fileVars
<1>1. ASSUME NEW p \in Procs, Start(p)
     PROVE  TypeOK'
  BY <1>1 DEF Start
<1>2. ASSUME NEW p \in Procs, TakeLock(p)
     PROVE  TypeOK'
  BY <1>2 DEF TakeLock
<1>3. ASSUME NEW p \in Procs, FindLock(p)
     PROVE  TypeOK'
  BY <1>3 DEF FindLock
<1>4. ASSUME NEW p \in Procs, StampLock(p)
     PROVE  TypeOK'
  BY <1>4 DEF StampLock
<1>5. ASSUME NEW p \in Procs, Inspect(p)
     PROVE  TypeOK'
  BY <1>5 DEF Inspect
<1>6. ASSUME NEW p \in Procs, ProbeDead(p)
     PROVE  TypeOK'
  BY <1>6 DEF ProbeDead
<1>7. ASSUME NEW p \in Procs, ProbeAlive(p)
     PROVE  TypeOK'
  BY <1>7 DEF ProbeAlive
<1>8. ASSUME NEW p \in Procs, RemoveLock(p)
     PROVE  TypeOK'
  BY <1>8 DEF RemoveLock
<1>9. ASSUME NEW p \in Procs, CheckOwner(p)
     PROVE  TypeOK'
  BY <1>9 DEF CheckOwner, Released
<1>10. ASSUME NEW p \in Procs, Unlock(p)
     PROVE  TypeOK'
  BY <1>10 DEF Unlock, Released
<1>11. ASSUME NEW p \in Procs, LoadFails(p)
     PROVE  TypeOK'
  BY <1>11 DEF LoadFails, Fails
<1>12. ASSUME NEW p \in Procs, Load(p)
     PROVE  TypeOK'
  BY <1>12 DEF Load
<1>13. ASSUME NEW p \in Procs, LoadNoEntry(p)
     PROVE  TypeOK'
  BY <1>13 DEF LoadNoEntry
<1>14. ASSUME NEW p \in Procs, OpenTemp(p)
     PROVE  TypeOK'
  BY <1>14 DEF OpenTemp
<1>15. ASSUME NEW p \in Procs, WriteTemp(p)
     PROVE  TypeOK'
  BY <1>15 DEF WriteTemp, Overwritten
<1>16. ASSUME NEW p \in Procs, RenameTemp(p)
     PROVE  TypeOK'
  BY <1>16 DEF RenameTemp, Renamed
<1>17. ASSUME NEW p \in Procs, RenameFails(p)
     PROVE  TypeOK'
  BY <1>17 DEF RenameFails, Fails
<1>18. ASSUME NEW p \in Procs, Complete(p)
     PROVE  TypeOK'
  BY <1>18 DEF Complete
<1>19. ASSUME NEW p \in Procs, Exit(p)
     PROVE  TypeOK'
  BY <1>19 DEF Exit
<1>20. ASSUME NEW p \in Procs, Crash(p)
     PROVE  TypeOK'
  BY <1>20 DEF Crash, Gone
<1>21. CASE LeaseExpires
  BY <1>21 DEF LeaseExpires
<1>22. CASE UNCHANGED vars
  BY <1>22 DEF vars
<1>23. ASSUME NEW q \in Procs, Relink(q)
     PROVE  TypeOK'
  BY <1>23 DEF Relink
<1>24. ASSUME NEW q \in Procs, RelinkFails(q)
     PROVE  TypeOK'
  BY <1>24 DEF RelinkFails, Fails
<1>. QED
  BY <1>23, <1>24, <1>1, <1>2, <1>3, <1>4, <1>5, <1>6, <1>7, <1>8, <1>9, <1>10, <1>11, <1>12, <1>13, <1>14, <1>15, <1>16, <1>17, <1>18, <1>19, <1>20, <1>21, <1>22 DEF Next, Step

(* Every variable keeps its type; in particular a process has a file open  *)
(* exactly while it writes. (TypeOK)                                       *)
THEOREM TypeCorrect == Spec => []TypeOK
<1>1. Init => TypeOK
  BY RegistryAssumption DEF Init, TypeOK, Jobs, Places, Contents, Readable
<1>. QED
  BY <1>1, TypeStep, PTL DEF Spec

-----------------------------------------------------------------------------
(* Nothing has happened yet that lets a process remove another's lock. *)
Intact == ~MayExpire /\ \A p \in Procs : ~Gone(p)

(* A process that created the lock file and has still to remove it. *)
Owns(p) ==
  \/ pc[p] \in {"stamp", "relink", "release", "unlock"}
  \/ pc[p] \in {"load", "open", "write", "rename"} /\ job[p] \notin {"init", "update"}

(* As long as the lock is intact nobody is about to remove one it found,   *)
(* and whoever is between creation and removal is the one the file names.  *)
OwnerNamed ==
  /\ lease # "expired"
  /\ \A p \in Procs :
       /\ pc[p] # "remove"
       /\ Owns(p) => lock = p
       /\ job[p] = "init" =>
            pc[p] \notin {"start", "acquire", "inspect", "probe", "stamp", "load"}

(* A process that is gone stays gone. *)
LEMMA IntactBefore == TypeOK /\ [Next]_vars /\ Intact' => Intact
<1>. SUFFICES ASSUME TypeOK, [Next]_vars, NEW p \in Procs, Gone(p)
              PROVE  Gone(p)'
  BY DEF Intact
<1>1. \A q \in Procs : Step(q) => Gone(p)'
  BY DEF Step, Start, TakeLock, FindLock, StampLock, Inspect, ProbeDead, ProbeAlive,
         RemoveLock, CheckOwner, Unlock, LoadFails, Load, LoadNoEntry, OpenTemp,
         WriteTemp, RenameTemp, RenameFails, Relink, RelinkFails, Complete, Exit, Fails, Released, Goto,
         Gone, TypeOK
<1>2. \A q \in Procs : Crash(q) => Gone(p)'
  BY DEF Crash, Goto, Gone, TypeOK
<1>3. LeaseExpires => Gone(p)'
  BY DEF LeaseExpires, Gone
<1>4. UNCHANGED vars => Gone(p)'
  BY DEF vars, Gone
<1>. QED
  BY <1>1, <1>2, <1>3, <1>4 DEF Next

(* Every step keeps the lock naming its owner. *)
LEMMA OwnerNamedStep ==
  TypeOK /\ (Intact => OwnerNamed) /\ [Next]_vars => (Intact => OwnerNamed)'
<1>. SUFFICES ASSUME TypeOK, Intact => OwnerNamed, [Next]_vars, Intact'
              PROVE  OwnerNamed'
  OBVIOUS
<1>1. TypeOK'
  BY TypeStep
<1>2. Intact
  BY IntactBefore
<1>3. OwnerNamed
  BY <1>2
<1>. USE <1>1, <1>2, <1>3, RegistryAssumption
<1>. USE DEF TypeOK, OwnerNamed, Owns, Goto, lockVars, fileVars
<1>4. ASSUME NEW q \in Procs, Start(q)
     PROVE  OwnerNamed'
  BY <1>4 DEF Start
<1>5. ASSUME NEW q \in Procs, TakeLock(q)
     PROVE  OwnerNamed'
  BY <1>5 DEF TakeLock
<1>6. ASSUME NEW q \in Procs, FindLock(q)
     PROVE  OwnerNamed'
  BY <1>6 DEF FindLock
<1>7. ASSUME NEW q \in Procs, StampLock(q)
     PROVE  OwnerNamed'
  BY <1>7 DEF StampLock
<1>8. ASSUME NEW q \in Procs, Inspect(q)
     PROVE  OwnerNamed'
  BY <1>8 DEF Inspect
<1>9. ASSUME NEW q \in Procs, ProbeDead(q)
     PROVE  OwnerNamed'
  BY <1>9 DEF ProbeDead, Intact
<1>10. ASSUME NEW q \in Procs, ProbeAlive(q)
     PROVE  OwnerNamed'
  BY <1>10 DEF ProbeAlive
<1>11. ASSUME NEW q \in Procs, RemoveLock(q)
     PROVE  OwnerNamed'
  BY <1>11 DEF RemoveLock
<1>12. ASSUME NEW q \in Procs, CheckOwner(q)
     PROVE  OwnerNamed'
  BY <1>12 DEF CheckOwner, Released
<1>13. ASSUME NEW q \in Procs, Unlock(q)
     PROVE  OwnerNamed'
  BY <1>13 DEF Unlock, Released
<1>14. ASSUME NEW q \in Procs, LoadFails(q)
     PROVE  OwnerNamed'
  BY <1>14 DEF LoadFails, Fails, Refused
<1>15. ASSUME NEW q \in Procs, Load(q)
     PROVE  OwnerNamed'
  BY <1>15 DEF Load, Refused
<1>16. ASSUME NEW q \in Procs, LoadNoEntry(q)
     PROVE  OwnerNamed'
  BY <1>16 DEF LoadNoEntry
<1>17. ASSUME NEW q \in Procs, OpenTemp(q)
     PROVE  OwnerNamed'
  BY <1>17 DEF OpenTemp
<1>18. ASSUME NEW q \in Procs, WriteTemp(q)
     PROVE  OwnerNamed'
  BY <1>18 DEF WriteTemp
<1>19. ASSUME NEW q \in Procs, RenameTemp(q)
     PROVE  OwnerNamed'
  BY <1>19 DEF RenameTemp
<1>20. ASSUME NEW q \in Procs, RenameFails(q)
     PROVE  OwnerNamed'
  BY <1>20 DEF RenameFails, Fails
<1>21. ASSUME NEW q \in Procs, Complete(q)
     PROVE  OwnerNamed'
  BY <1>21 DEF Complete
<1>22. ASSUME NEW q \in Procs, Exit(q)
     PROVE  OwnerNamed'
  BY <1>22 DEF Exit
<1>23. ASSUME NEW q \in Procs, Crash(q)
     PROVE  OwnerNamed'
  BY <1>23 DEF Crash, Intact, Gone
<1>24. CASE LeaseExpires
  BY <1>24 DEF LeaseExpires, Intact
<1>25. CASE UNCHANGED vars
  BY <1>25 DEF vars
<1>26. ASSUME NEW q \in Procs, Relink(q)
     PROVE  OwnerNamed'
  BY <1>26 DEF Relink
<1>27. ASSUME NEW q \in Procs, RelinkFails(q)
     PROVE  OwnerNamed'
  BY <1>27 DEF RelinkFails, Fails
<1>. QED
  BY <1>26, <1>27, <1>4, <1>5, <1>6, <1>7, <1>8, <1>9, <1>10, <1>11, <1>12, <1>13, <1>14, <1>15, <1>16, <1>17, <1>18, <1>19, <1>20, <1>21, <1>22, <1>23, <1>24, <1>25 DEF Next, Step

(* Until the first process ends or a lease runs out, two processes are     *)
(* never in the registry together under the lock, whatever the number of   *)
(* processes and attempts. (ExcludesUntilExit)                             *)
THEOREM LockExcludes == Spec => []ExcludesUntilExit
<1>1. Init => OwnerNamed
  BY DEF Init, OwnerNamed, Owns
<1>2. TypeOK /\ (Intact => OwnerNamed) => ExcludesUntilExit
  BY DEF ExcludesUntilExit, MutualExclusion, Holding, Intact, OwnerNamed, Owns
<1>3. Init => TypeOK
  BY RegistryAssumption DEF Init, TypeOK, Jobs, Places, Contents, Readable
<1>. QED
  BY <1>1, <1>2, <1>3, TypeStep, OwnerNamedStep, PTL DEF Spec

-----------------------------------------------------------------------------
(* A list of finitely many loops, of which at most MaxLoops unforced.  The *)
(* set of all processes need not be finite.                                *)
Bounded(list) == IsFiniteSet(list) /\ Cardinality(list \ Forced) <= MaxLoops

ListsBounded ==
  /\ Readable(registry) => Bounded(registry)
  /\ Readable(tmp) => Bounded(tmp)
  /\ \A p \in Procs : Bounded(seen[p])

(* The empty list is within the limit. *)
LEMMA EmptyBounded == Bounded({})
<1>1. {} \ Forced = {}
  OBVIOUS
<1>. QED
  BY <1>1, FS_EmptySet, RegistryAssumption DEF Bounded

(* So is a part of a list within it. *)
LEMMA SubsetBounded ==
  ASSUME NEW list, NEW part \in SUBSET list, Bounded(list)
  PROVE  Bounded(part)
<1>1. IsFiniteSet(list) /\ IsFiniteSet(list \ Forced) /\ IsFiniteSet(part)
  BY FS_Subset, list \ Forced \subseteq list DEF Bounded
<1>2. part \ Forced \subseteq list \ Forced
  OBVIOUS
<1>3. /\ Cardinality(part \ Forced) <= Cardinality(list \ Forced)
      /\ Cardinality(part \ Forced) \in Nat /\ Cardinality(list \ Forced) \in Nat
  BY <1>1, <1>2, FS_Subset, FS_CardinalityType
<1>. QED
  BY <1>1, <1>3, RegistryAssumption DEF Bounded

(* createLoop's check leaves room for one more. *)
LEMMA CreatedBounded ==
  ASSUME NEW STATE list, NEW p \in Procs, Bounded(list),
         p \in Forced \/ Cardinality(list) < MaxLoops
  PROVE  Bounded(list \cup {p})
<1>1. IsFiniteSet(list \cup {p})
  BY FS_AddElement DEF Bounded
<1>2. CASE p \in Forced
  <2>1. (list \cup {p}) \ Forced = list \ Forced
    BY <1>2
  <2>. QED
    BY <1>1, <2>1 DEF Bounded
<1>3. CASE Cardinality(list) < MaxLoops
  <2>1. /\ Cardinality(list) \in Nat
        /\ Cardinality(list \cup {p}) <= Cardinality(list) + 1
        /\ Cardinality(list \cup {p}) \in Nat
    BY <1>1, FS_AddElement, FS_CardinalityType DEF Bounded
  <2>2. (list \cup {p}) \ Forced \subseteq list \cup {p}
    OBVIOUS
  <2>3. /\ Cardinality((list \cup {p}) \ Forced) <= Cardinality(list \cup {p})
        /\ Cardinality((list \cup {p}) \ Forced) \in Nat
    BY <1>1, <2>2, FS_Subset, FS_CardinalityType
  <2>. QED
    BY <1>1, <1>3, <2>1, <2>3, RegistryAssumption DEF Bounded
<1>. QED
  BY <1>2, <1>3

(* Every step keeps every list bounded, wherever it is. *)
LEMMA ListsBoundedStep == TypeOK /\ ListsBounded /\ [Next]_vars => ListsBounded'
<1>. SUFFICES ASSUME TypeOK, ListsBounded, [Next]_vars
              PROVE  ListsBounded'
  OBVIOUS
<1>. USE RegistryAssumption, EmptyBounded
<1>. USE DEF TypeOK, ListsBounded, Readable, lockVars, fileVars
<1>1. ASSUME NEW q \in Procs, Start(q)
     PROVE  ListsBounded'
  BY <1>1 DEF Start
<1>2. ASSUME NEW q \in Procs, TakeLock(q)
     PROVE  ListsBounded'
  BY <1>2 DEF TakeLock
<1>3. ASSUME NEW q \in Procs, FindLock(q)
     PROVE  ListsBounded'
  BY <1>3 DEF FindLock
<1>4. ASSUME NEW q \in Procs, StampLock(q)
     PROVE  ListsBounded'
  BY <1>4 DEF StampLock
<1>5. ASSUME NEW q \in Procs, Inspect(q)
     PROVE  ListsBounded'
  BY <1>5 DEF Inspect
<1>6. ASSUME NEW q \in Procs, ProbeDead(q)
     PROVE  ListsBounded'
  BY <1>6 DEF ProbeDead
<1>7. ASSUME NEW q \in Procs, ProbeAlive(q)
     PROVE  ListsBounded'
  BY <1>7 DEF ProbeAlive
<1>8. ASSUME NEW q \in Procs, RemoveLock(q)
     PROVE  ListsBounded'
  BY <1>8 DEF RemoveLock
<1>9. ASSUME NEW q \in Procs, CheckOwner(q)
     PROVE  ListsBounded'
  BY <1>9 DEF CheckOwner, Released
<1>10. ASSUME NEW q \in Procs, Unlock(q)
     PROVE  ListsBounded'
  BY <1>10 DEF Unlock, Released
<1>11. ASSUME NEW q \in Procs, LoadFails(q)
     PROVE  ListsBounded'
  BY <1>11 DEF LoadFails, Fails, Refused
<1>12. ASSUME NEW q \in Procs, Load(q)
     PROVE  ListsBounded'
  <2>1. Bounded(registry) /\ Cardinality(registry) \in Nat
    BY <1>12, FS_CardinalityType DEF Load, Bounded
  <2>2. CASE job[q] = "create"
    <3>1. q \in Forced \/ Cardinality(registry) < MaxLoops
      BY <1>12, <2>1, <2>2 DEF Load, Refused
    <3>2. Bounded(registry \cup {q})
      BY <2>1, <3>1, CreatedBounded
    <3>. QED
      BY <1>12, <2>2, <3>2 DEF Load
  <2>3. CASE job[q] # "create"
    <3>1. Bounded(registry \ {q})
      BY <2>1, SubsetBounded
    <3>. QED
      BY <1>12, <2>1, <2>3, <3>1 DEF Load
  <2>. QED
    BY <2>2, <2>3
<1>13. ASSUME NEW q \in Procs, LoadNoEntry(q)
     PROVE  ListsBounded'
  BY <1>13 DEF LoadNoEntry
<1>14. ASSUME NEW q \in Procs, OpenTemp(q)
     PROVE  ListsBounded'
  BY <1>14 DEF OpenTemp
<1>15. ASSUME NEW q \in Procs, WriteTemp(q)
     PROVE  ListsBounded'
  BY <1>15 DEF WriteTemp, Overwritten
<1>16. ASSUME NEW q \in Procs, RenameTemp(q)
     PROVE  ListsBounded'
  BY <1>16 DEF RenameTemp, Renamed
<1>17. ASSUME NEW q \in Procs, RenameFails(q)
     PROVE  ListsBounded'
  BY <1>17 DEF RenameFails, Fails
<1>18. ASSUME NEW q \in Procs, Complete(q)
     PROVE  ListsBounded'
  BY <1>18 DEF Complete
<1>19. ASSUME NEW q \in Procs, Exit(q)
     PROVE  ListsBounded'
  BY <1>19 DEF Exit
<1>20. ASSUME NEW q \in Procs, Crash(q)
     PROVE  ListsBounded'
  BY <1>20 DEF Crash
<1>21. CASE LeaseExpires
  BY <1>21 DEF LeaseExpires
<1>22. CASE UNCHANGED vars
  BY <1>22 DEF vars
<1>23. ASSUME NEW q \in Procs, Relink(q)
     PROVE  ListsBounded'
  BY <1>23 DEF Relink
<1>24. ASSUME NEW q \in Procs, RelinkFails(q)
     PROVE  ListsBounded'
  BY <1>24 DEF RelinkFails, Fails
<1>. QED
  BY <1>23, <1>24, <1>1, <1>2, <1>3, <1>4, <1>5, <1>6, <1>7, <1>8, <1>9, <1>10, <1>11,
     <1>12, <1>13, <1>14, <1>15, <1>16, <1>17, <1>18, <1>19, <1>20, <1>21,
     <1>22
     DEF Next, Step

(* No file that is ever saved lists more than the limit of unforced loops, *)
(* however the saves overtake each other and whatever crashes.             *)
(* (ListWithinLimit)                                                       *)
THEOREM SavedWithinLimit == Spec => []ListWithinLimit
<1>1. Init => ListsBounded
  BY EmptyBounded DEF Init, ListsBounded, Readable
<1>2. ListsBounded => ListWithinLimit
  BY DEF ListsBounded, ListWithinLimit, Bounded
<1>3. Init => TypeOK
  BY RegistryAssumption DEF Init, TypeOK, Jobs, Places, Contents, Readable
<1>. QED
  BY <1>1, <1>2, <1>3, TypeStep, ListsBoundedStep, PTL DEF Spec

-----------------------------------------------------------------------------
(* A registry that exists is never created again. *)
NeverInit == ~FirstRun => registry # Absent /\ \A p \in Procs : job[p] # "init"

(* No step makes a process create a registry that exists. *)
LEMMA NeverInitStep == TypeOK /\ NeverInit /\ [Next]_vars => NeverInit'
<1>. SUFFICES ASSUME TypeOK, NeverInit, ~FirstRun, [Next]_vars
              PROVE  NeverInit'
  BY DEF NeverInit
<1>. USE RegistryAssumption
<1>. USE DEF TypeOK, NeverInit, Contents, Goto, lockVars, fileVars
<1>1. ASSUME NEW q \in Procs, Start(q)
     PROVE  NeverInit'
  BY <1>1 DEF Start
<1>2. ASSUME NEW q \in Procs, TakeLock(q)
     PROVE  NeverInit'
  BY <1>2 DEF TakeLock
<1>3. ASSUME NEW q \in Procs, FindLock(q)
     PROVE  NeverInit'
  BY <1>3 DEF FindLock
<1>4. ASSUME NEW q \in Procs, StampLock(q)
     PROVE  NeverInit'
  BY <1>4 DEF StampLock
<1>5. ASSUME NEW q \in Procs, Inspect(q)
     PROVE  NeverInit'
  BY <1>5 DEF Inspect
<1>6. ASSUME NEW q \in Procs, ProbeDead(q)
     PROVE  NeverInit'
  BY <1>6 DEF ProbeDead
<1>7. ASSUME NEW q \in Procs, ProbeAlive(q)
     PROVE  NeverInit'
  BY <1>7 DEF ProbeAlive
<1>8. ASSUME NEW q \in Procs, RemoveLock(q)
     PROVE  NeverInit'
  BY <1>8 DEF RemoveLock
<1>9. ASSUME NEW q \in Procs, CheckOwner(q)
     PROVE  NeverInit'
  BY <1>9 DEF CheckOwner, Released
<1>10. ASSUME NEW q \in Procs, Unlock(q)
     PROVE  NeverInit'
  BY <1>10 DEF Unlock, Released
<1>11. ASSUME NEW q \in Procs, LoadFails(q)
     PROVE  NeverInit'
  BY <1>11 DEF LoadFails, Fails, Refused
<1>12. ASSUME NEW q \in Procs, Load(q)
     PROVE  NeverInit'
  BY <1>12 DEF Load, Refused
<1>13. ASSUME NEW q \in Procs, LoadNoEntry(q)
     PROVE  NeverInit'
  BY <1>13 DEF LoadNoEntry
<1>14. ASSUME NEW q \in Procs, OpenTemp(q)
     PROVE  NeverInit'
  BY <1>14 DEF OpenTemp
<1>15. ASSUME NEW q \in Procs, WriteTemp(q)
     PROVE  NeverInit'
  BY <1>15 DEF WriteTemp, Overwritten
<1>16. ASSUME NEW q \in Procs, RenameTemp(q)
     PROVE  NeverInit'
  BY <1>16 DEF RenameTemp, Renamed
<1>17. ASSUME NEW q \in Procs, RenameFails(q)
     PROVE  NeverInit'
  BY <1>17 DEF RenameFails, Fails
<1>18. ASSUME NEW q \in Procs, Complete(q)
     PROVE  NeverInit'
  BY <1>18 DEF Complete
<1>19. ASSUME NEW q \in Procs, Exit(q)
     PROVE  NeverInit'
  BY <1>19 DEF Exit
<1>20. ASSUME NEW q \in Procs, Crash(q)
     PROVE  NeverInit'
  BY <1>20 DEF Crash
<1>21. CASE LeaseExpires
  BY <1>21 DEF LeaseExpires
<1>22. CASE UNCHANGED vars
  BY <1>22 DEF vars
<1>23. ASSUME NEW q \in Procs, Relink(q)
     PROVE  NeverInit'
  BY <1>23 DEF Relink
<1>24. ASSUME NEW q \in Procs, RelinkFails(q)
     PROVE  NeverInit'
  BY <1>24 DEF RelinkFails, Fails
<1>. QED
  BY <1>23, <1>24, <1>1, <1>2, <1>3, <1>4, <1>5, <1>6, <1>7, <1>8, <1>9, <1>10, <1>11,
     <1>12, <1>13, <1>14, <1>15, <1>16, <1>17, <1>18, <1>19, <1>20, <1>21,
     <1>22
     DEF Next, Step

(* No loop has been over yet: only registrations have touched the files,   *)
(* of which the registry was there to begin with.                          *)
Registering ==
  Intact /\ ~FirstRun /\ \A p \in Procs : job[p] \in {"create", "refused"}

(* What the holder of the lock is about to save adds its loop to the list, *)
(* and nobody else touches the temporary file meanwhile.                   *)
Listed ==
  /\ Readable(registry)
  /\ \A p \in Procs :
       /\ pc[p] \in {"open", "write"} => registry \cup {p} \subseteq seen[p]
       /\ pc[p] = "write" => fd[p] = "tmp" /\ tmp = Empty
       /\ pc[p] = "rename" => Readable(tmp) /\ registry \cup {p} \subseteq tmp
       /\ pc[p] = "running" => p \in registry
       /\ job[p] = "refused" =>
            pc[p] \in {"release", "unlock", "solo", "ended", "crashed"}
       /\ pc[p] \in {"relink", "release", "unlock"} /\ job[p] = "create" => p \in registry

(* Every step keeps the loops of the registering processes listed. *)
LEMMA ListedStep ==
  TypeOK /\ (Intact => OwnerNamed) /\ NeverInit /\ (Registering => Listed) /\ [Next]_vars
    => (Registering => Listed)'
<1>. SUFFICES ASSUME TypeOK, Intact => OwnerNamed, NeverInit, Registering => Listed,
                     [Next]_vars, Registering'
              PROVE  Listed'
  OBVIOUS
<1>1. Intact
  BY IntactBefore DEF Registering
<1>2. \A p \in Procs : job[p] \in {"create", "refused"}
  <2>. SUFFICES ASSUME NEW p \in Procs, job[p] \in {"update", "archive"}
                PROVE  job'[p] \in {"update", "archive"}
    BY DEF Registering, NeverInit, TypeOK, Jobs
  <2>1. \A q \in Procs : Step(q) => job'[p] \in {"update", "archive"}
    BY DEF Registering, NeverInit, Step, Start, TakeLock, FindLock, StampLock, Inspect, ProbeDead, ProbeAlive,
           RemoveLock, CheckOwner, Unlock, LoadFails, Load, LoadNoEntry, OpenTemp,
           WriteTemp, RenameTemp, RenameFails, Relink, RelinkFails, Complete, Exit, Fails, TypeOK, fileVars
  <2>. QED
    BY <2>1 DEF Next, Crash, LeaseExpires, vars
<1>3. Listed /\ OwnerNamed
  BY <1>1, <1>2 DEF Registering
<1>. USE <1>1, <1>2, <1>3, RegistryAssumption
<1>. USE DEF TypeOK, OwnerNamed, Owns, Listed, Contents, Readable, Goto, lockVars, fileVars
<1>4. ASSUME NEW q \in Procs, Start(q)
     PROVE  Listed'
  BY <1>4 DEF Start
<1>5. ASSUME NEW q \in Procs, TakeLock(q)
     PROVE  Listed'
  BY <1>5 DEF TakeLock
<1>6. ASSUME NEW q \in Procs, FindLock(q)
     PROVE  Listed'
  BY <1>6 DEF FindLock
<1>7. ASSUME NEW q \in Procs, StampLock(q)
     PROVE  Listed'
  BY <1>7 DEF StampLock
<1>8. ASSUME NEW q \in Procs, Inspect(q)
     PROVE  Listed'
  BY <1>8 DEF Inspect
<1>9. ASSUME NEW q \in Procs, ProbeDead(q)
     PROVE  Listed'
  BY <1>9 DEF ProbeDead
<1>10. ASSUME NEW q \in Procs, ProbeAlive(q)
     PROVE  Listed'
  BY <1>10 DEF ProbeAlive
<1>11. ASSUME NEW q \in Procs, RemoveLock(q)
     PROVE  Listed'
  BY <1>11 DEF RemoveLock
<1>12. ASSUME NEW q \in Procs, CheckOwner(q)
     PROVE  Listed'
  BY <1>12 DEF CheckOwner, Released
<1>13. ASSUME NEW q \in Procs, Unlock(q)
     PROVE  Listed'
  BY <1>13 DEF Unlock, Released
<1>14. ASSUME NEW q \in Procs, LoadFails(q)
     PROVE  Listed'
  BY <1>14 DEF LoadFails, Fails, Refused
<1>15. ASSUME NEW q \in Procs, Load(q)
     PROVE  Listed'
  BY <1>15 DEF Load, Refused
<1>16. ASSUME NEW q \in Procs, LoadNoEntry(q)
     PROVE  Listed'
  BY <1>16 DEF LoadNoEntry
<1>17. ASSUME NEW q \in Procs, OpenTemp(q)
     PROVE  Listed'
  BY <1>17 DEF OpenTemp
<1>18. ASSUME NEW q \in Procs, WriteTemp(q)
     PROVE  Listed'
  BY <1>18 DEF WriteTemp, Overwritten
<1>19. ASSUME NEW q \in Procs, RenameTemp(q)
     PROVE  Listed'
  BY <1>19 DEF RenameTemp, Renamed
<1>20. ASSUME NEW q \in Procs, RenameFails(q)
     PROVE  Listed'
  BY <1>20 DEF RenameFails, Fails
<1>21. ASSUME NEW q \in Procs, Complete(q)
     PROVE  Listed'
  BY <1>21 DEF Complete
<1>22. ASSUME NEW q \in Procs, Exit(q)
     PROVE  Listed'
  BY <1>22 DEF Exit
<1>23. ASSUME NEW q \in Procs, Crash(q)
     PROVE  Listed'
  BY <1>23 DEF Crash, Registering, Intact, Gone
<1>24. CASE LeaseExpires
  BY <1>24 DEF LeaseExpires
<1>25. CASE UNCHANGED vars
  BY <1>25 DEF vars
<1>26. ASSUME NEW q \in Procs, Relink(q)
     PROVE  Listed'
  BY <1>26 DEF Relink
<1>27. ASSUME NEW q \in Procs, RelinkFails(q)
     PROVE  Listed'
  BY <1>27 DEF RelinkFails, Fails
<1>. QED
  BY <1>26, <1>27, <1>4, <1>5, <1>6, <1>7, <1>8, <1>9, <1>10, <1>11, <1>12, <1>13,
     <1>14, <1>15, <1>16, <1>17, <1>18, <1>19, <1>20, <1>21, <1>22, <1>23,
     <1>24, <1>25
     DEF Next, Step

(* Where the registry file existed before the first process looked at it   *)
(* (~FirstRun) and no lease runs out (~MayExpire): while loops only        *)
(* register, a running loop is listed in a registry that can be read.      *)
(* (RegistrationsKept)                                                     *)
THEOREM NoRegistrationLost == Spec => []RegistrationsKept
<1>1. Init => TypeOK /\ OwnerNamed /\ NeverInit /\ (~FirstRun => Listed)
  BY RegistryAssumption DEF Init, TypeOK, Jobs, Places, Contents, Readable, OwnerNamed,
     Owns, NeverInit, Listed
<1>2. (Registering => Listed) => RegistrationsKept
  BY DEF Registering, Intact, Listed, RegistrationsKept, RunningListed
<1>3. Init => (Registering => Listed)
  BY <1>1 DEF Registering
<1>. QED
  BY <1>1, <1>2, <1>3, TypeStep, OwnerNamedStep, NeverInitStep, ListedStep, PTL DEF Spec

=============================================================================
