---------------------------- MODULE LoopRegistry ----------------------------
(***************************************************************************)
(* The registry of external loops: ExternalMultiLoopStateManager, as       *)
(* orchestrator.mjs uses it.                                               *)
(*                                                                         *)
(* Each process runs one loop: it looks at the registry file, registers    *)
(* its loop under the lock file, runs, writes the loop's last status into  *)
(* the registry without the lock, and removes the loop under the lock.     *)
(* Processes share nothing but files and run in parallel, so an action is  *)
(* one file-system call, not one JavaScript turn.                          *)
(*                                                                         *)
(* A file is an inode with a name: the registry is saved by writing        *)
(* registry.json.tmp, a name all processes share, and renaming it.  fd     *)
(* follows the inode a process has open through the renames of others.     *)
(***************************************************************************)
EXTENDS Naturals, FiniteSets

CONSTANTS Procs,        \* orchestrator processes, and the loop of each
          Forced,       \* those started with --force
          MayCrash,     \* bound: those that may crash
          MayExpire,    \* bound: whether a lease may run out while it is held
          FirstRun,     \* bound: whether the registry file may not exist yet
          MaxLoops,     \* MAX_CONCURRENT_LOOPS
          MaxAttempts,  \* MAX_LOCK_ATTEMPTS
          Nobody,       \* no lock file
          Absent, Empty, Torn  \* a file that is not there, has no content, is no JSON

ASSUME RegistryAssumption ==
  /\ Forced \subseteq Procs /\ MayCrash \subseteq Procs
  /\ MayExpire \in BOOLEAN /\ FirstRun \in BOOLEAN
  /\ MaxLoops \in Nat /\ MaxAttempts \in Nat \ {0}
  /\ Nobody \notin Procs
  /\ \A text \in SUBSET Procs : text \notin {Absent, Empty, Torn}
  /\ Absent \notin {Empty, Torn} /\ Empty # Torn

VARIABLES
  lock,      \* the creator of the lock file
  lease,     \* "none" until its content is written, "valid", then "expired"
  registry,  \* registry.json: the loops it lists
  tmp,       \* registry.json.tmp
  job,       \* what a process has the registry for
  pc,        \* its next file-system call
  attempts,  \* its attempts in acquireLock
  suspect,   \* the pid it read in the lock file
  seen,      \* the registry it is about to write
  fd         \* the name of the inode it has open for writing

lockVars == <<lock, lease>>
fileVars == <<registry, tmp, seen, fd>>
vars == <<lockVars, fileVars, job, pc, attempts, suspect>>

(* "refused" is a create that failed and still holds the lock. *)
Jobs == {"init", "create", "refused", "update", "archive"}

Contents == SUBSET Procs
Readable(file) == file \notin {Absent, Empty, Torn}

Gone(p) == pc[p] \in {"ended", "crashed"}

-----------------------------------------------------------------------------
Init ==
  /\ lock = Nobody /\ lease = "none"
  /\ registry \in {{}} \cup (IF FirstRun THEN {Absent} ELSE {})
  /\ tmp = Absent
  /\ job = [p \in Procs |-> "create"] /\ pc = [p \in Procs |-> "start"]
  /\ attempts = [p \in Procs |-> 0] /\ suspect = [p \in Procs |-> Nobody]
  /\ seen = [p \in Procs |-> {}] /\ fd = [p \in Procs |-> "none"]

Goto(p, place) == pc' = [pc EXCEPT ![p] = place]

(* The catch blocks of the orchestrator: a loop that cannot be registered  *)
(* runs all the same, a failed completion is logged.                       *)
Fails(p) ==
  /\ Goto(p, CASE job[p] = "init" -> "solo"
               [] job[p] = "update" -> "exiting"
               [] OTHER -> "release")
  /\ job' = [job EXCEPT ![p] = IF @ = "create" THEN "refused" ELSE @]

(* listActiveLoops() before the loop is registered, which may create the   *)
(* registry.                                                               *)
Start(p) ==
  /\ pc[p] = "start"
  /\ Goto(p, IF registry = Absent THEN "open"
             ELSE IF Readable(registry) THEN "acquire" ELSE "solo")
  /\ job' = [job EXCEPT ![p] = IF registry = Absent THEN "init" ELSE @]
  /\ UNCHANGED <<lockVars, fileVars, attempts, suspect>>

-----------------------------------------------------------------------------
(* acquireLock *)

(* Mutant of TakeLock: flag 'w' instead of 'wx'. *)
TakeLockAnyway(p) ==
  /\ pc[p] = "acquire"
  /\ lock' = p /\ lease' = "none"
  /\ Goto(p, "stamp")
  /\ UNCHANGED <<fileVars, job, attempts, suspect>>

(* openSync(lockPath, 'wx') creates an empty file, or fails with EEXIST. *)
TakeLock(p) ==
  /\ pc[p] = "acquire" /\ lock = Nobody
  /\ lock' = p /\ lease' = "none"
  /\ Goto(p, "stamp")
  /\ UNCHANGED <<fileVars, job, attempts, suspect>>

FindLock(p) ==
  /\ pc[p] = "acquire" /\ lock # Nobody
  /\ Goto(p, "inspect")
  /\ UNCHANGED <<lockVars, fileVars, job, attempts, suspect>>

(* The content is written into the file that was created, which may be     *)
(* gone from the directory by now.                                         *)
StampLock(p) ==
  /\ pc[p] = "stamp"
  /\ lease' = IF lock = p THEN "valid" ELSE lease
  /\ Goto(p, "load")
  /\ attempts' = [attempts EXCEPT ![p] = 0]
  /\ UNCHANGED <<lock, fileVars, job, suspect>>

(* Mutant of Inspect: no unlink of an expired lock. *)
InspectKeepsExpired(p) ==
  /\ pc[p] = "inspect"
  /\ IF lock = Nobody \/ lease \in {"none", "expired"}
     THEN Goto(p, "acquire") /\ UNCHANGED suspect
     ELSE Goto(p, "probe") /\ suspect' = [suspect EXCEPT ![p] = lock]
  /\ UNCHANGED <<lockVars, fileVars, job, attempts>>

(* Mutant of Inspect: a lock file that cannot be parsed is removed. *)
InspectRemovesUnwritten(p) ==
  /\ pc[p] = "inspect"
  /\ IF lock = Nobody THEN Goto(p, "acquire") /\ UNCHANGED suspect
     ELSE IF lease \in {"none", "expired"} THEN Goto(p, "remove") /\ UNCHANGED suspect
     ELSE Goto(p, "probe") /\ suspect' = [suspect EXCEPT ![p] = lock]
  /\ UNCHANGED <<lockVars, fileVars, job, attempts>>

(* The lock file is read.  One that is gone or has no content is tried     *)
(* again at once, without counting the attempt.                            *)
Inspect(p) ==
  /\ pc[p] = "inspect"
  /\ IF lock = Nobody \/ lease = "none"
     THEN Goto(p, "acquire") /\ UNCHANGED suspect
     ELSE IF lease = "expired"
     THEN Goto(p, "remove") /\ UNCHANGED suspect
     ELSE Goto(p, "probe") /\ suspect' = [suspect EXCEPT ![p] = lock]
  /\ UNCHANGED <<lockVars, fileVars, job, attempts>>

(* processExists(pid), of the pid that was read.  Pids are not reused. *)
ProbeDead(p) ==
  /\ pc[p] = "probe" /\ Gone(suspect[p])
  /\ Goto(p, "remove")
  /\ suspect' = [suspect EXCEPT ![p] = Nobody]
  /\ UNCHANGED <<lockVars, fileVars, job, attempts>>

ProbeAlive(p) ==
  /\ pc[p] = "probe" /\ ~Gone(suspect[p])
  /\ suspect' = [suspect EXCEPT ![p] = Nobody]
  /\ IF attempts[p] + 1 < MaxAttempts
     THEN /\ Goto(p, "acquire")
          /\ attempts' = [attempts EXCEPT ![p] = @ + 1]
     ELSE /\ Goto(p, IF job[p] = "create" THEN "solo" ELSE "exiting")
          /\ attempts' = [attempts EXCEPT ![p] = 0]
  /\ UNCHANGED <<lockVars, fileVars, job>>

(* unlinkSync of whatever has the name now. *)
RemoveLock(p) ==
  /\ pc[p] = "remove"
  /\ lock' = Nobody /\ lease' = "none"
  /\ Goto(p, "acquire")
  /\ UNCHANGED <<fileVars, job, attempts, suspect>>

(* The clock passes leaseExpiry while the holder is suspended or busy. *)
LeaseExpires ==
  /\ MayExpire /\ lease = "valid"
  /\ lease' = "expired"
  /\ UNCHANGED <<lock, fileVars, job, pc, attempts, suspect>>

-----------------------------------------------------------------------------
(* releaseLock *)

Released(p) ==
  Goto(p, CASE job[p] = "create" -> "running"
            [] job[p] = "refused" -> "solo"
            [] OTHER -> "exiting")

CheckOwner(p) ==
  /\ pc[p] = "release"
  /\ IF lock = p /\ lease # "none" THEN Goto(p, "unlock") ELSE Released(p)
  /\ UNCHANGED <<lockVars, fileVars, job, attempts, suspect>>

Unlock(p) ==
  /\ pc[p] = "unlock"
  /\ lock' = Nobody /\ lease' = "none"
  /\ Released(p)
  /\ UNCHANGED <<fileVars, job, attempts, suspect>>

-----------------------------------------------------------------------------
(* The registry file *)

(* createLoop's check of the limit. *)
(* Mutant: > instead of >=. *)
RefusedLate(p) ==
  job[p] = "create" /\ p \notin Forced /\ Cardinality(registry) > MaxLoops

Refused(p) ==
  job[p] = "create" /\ p \notin Forced /\ Cardinality(registry) >= MaxLoops

(* loadRegistry(), and what createLoop, updateLoop and archiveLoop do with *)
(* the registry they read.                                                 *)
LoadFails(p) ==
  /\ pc[p] = "load"
  /\ Readable(registry) => Refused(p)
  /\ Fails(p)
  /\ UNCHANGED <<lockVars, fileVars, attempts, suspect>>

Load(p) ==
  /\ pc[p] = "load" /\ Readable(registry) /\ ~Refused(p)
  /\ job[p] = "create" \/ p \in registry
  /\ seen' = [seen EXCEPT ![p] = CASE job[p] = "create" -> registry \cup {p}
                                   [] job[p] = "update" -> registry
                                   [] OTHER -> registry \ {p}]
  /\ Goto(p, "open")
  /\ UNCHANGED <<lockVars, registry, tmp, fd, job, attempts, suspect>>

(* The loop is not listed: nothing is saved. *)
LoadNoEntry(p) ==
  /\ pc[p] = "load" /\ Readable(registry)
  /\ job[p] # "create" /\ p \notin registry
  /\ Goto(p, IF job[p] = "update" THEN "acquire" ELSE "release")
  /\ job' = [job EXCEPT ![p] = "archive"]
  /\ UNCHANGED <<lockVars, fileVars, attempts, suspect>>

(* saveRegistry(): writeFileSync truncates the temporary file and writes   *)
(* it, renameSync gives it the registry's name.                            *)
OpenTemp(p) ==
  /\ pc[p] = "open"
  /\ tmp' = Empty
  /\ fd' = [fd EXCEPT ![p] = "tmp"]
  /\ Goto(p, "write")
  /\ UNCHANGED <<lockVars, registry, seen, job, attempts, suspect>>

(* A text written over a longer one leaves the end of that one behind. *)
Overwritten(file, text) == IF file = Empty THEN {text} ELSE {text, Torn}

WriteTemp(p) ==
  /\ pc[p] = "write"
  /\ IF fd[p] = "tmp" THEN tmp' \in Overwritten(tmp, seen[p]) ELSE UNCHANGED tmp
  /\ IF fd[p] = "registry" THEN registry' \in Overwritten(registry, seen[p])
                           ELSE UNCHANGED registry
  /\ fd' = [fd EXCEPT ![p] = "none"]
  /\ seen' = [seen EXCEPT ![p] = {}]
  /\ Goto(p, "rename")
  /\ UNCHANGED <<lockVars, job, attempts, suspect>>

Renamed(name) ==
  CASE name = "tmp" -> "registry" [] name = "registry" -> "gone" [] OTHER -> name

RenameTemp(p) ==
  /\ pc[p] = "rename" /\ tmp # Absent
  /\ registry' = tmp /\ tmp' = Absent
  /\ fd' = [q \in Procs |-> Renamed(fd[q])]
  /\ Goto(p, CASE job[p] \in {"init", "update"} -> "acquire"
               [] job[p] = "create" -> "relink"
               [] OTHER -> "release")
  /\ job' = [job EXCEPT ![p] = CASE @ = "init" -> "create"
                                 [] @ = "update" -> "archive"
                                 [] OTHER -> @]
  /\ UNCHANGED <<lockVars, seen, attempts, suspect>>

(* Another process has renamed the file away: ENOENT. *)
RenameFails(p) ==
  /\ pc[p] = "rename" /\ tmp = Absent
  /\ Fails(p)
  /\ UNCHANGED <<lockVars, fileVars, attempts, suspect>>

(* createLoop goes on with updateLegacySymlink(), which reads the registry  *)
(* again unless the legacy path is a regular file.                         *)
Relink(p) ==
  /\ pc[p] = "relink"
  /\ Goto(p, "release")
  /\ UNCHANGED <<lockVars, fileVars, job, attempts, suspect>>

(* It throws on a registry it cannot parse: the loop is listed, but its    *)
(* process takes it for one that could not be registered.  (archiveLoop    *)
(* calls it too; there an exception changes nothing.)                      *)
RelinkFails(p) ==
  /\ pc[p] = "relink" /\ registry \in {Empty, Torn}
  /\ Fails(p)
  /\ UNCHANGED <<lockVars, fileVars, attempts, suspect>>

-----------------------------------------------------------------------------
(* The loop is over: completeMultiLoop, which starts with updateLoop. *)
Complete(p) ==
  /\ pc[p] = "running"
  /\ job' = [job EXCEPT ![p] = "update"]
  /\ Goto(p, "load")
  /\ UNCHANGED <<lockVars, fileVars, attempts, suspect>>

Exit(p) ==
  /\ pc[p] \in {"solo", "exiting"}
  /\ Goto(p, "ended")
  /\ UNCHANGED <<lockVars, fileVars, job, attempts, suspect>>

Crash(p) ==
  /\ p \in MayCrash /\ pc[p] # "start" /\ ~Gone(p)
  /\ Goto(p, "crashed")
  /\ fd' = [fd EXCEPT ![p] = "none"]
  /\ attempts' = [attempts EXCEPT ![p] = 0]
  /\ suspect' = [suspect EXCEPT ![p] = Nobody]
  /\ seen' = [seen EXCEPT ![p] = {}]
  /\ UNCHANGED <<lockVars, registry, tmp, job>>

Step(p) ==
  \/ Start(p)
  \/ TakeLock(p)
  \/ FindLock(p)
  \/ StampLock(p)
  \/ Inspect(p)
  \/ ProbeDead(p)
  \/ ProbeAlive(p)
  \/ RemoveLock(p)
  \/ CheckOwner(p)
  \/ Unlock(p)
  \/ LoadFails(p)
  \/ Load(p)
  \/ LoadNoEntry(p)
  \/ OpenTemp(p)
  \/ WriteTemp(p)
  \/ RenameTemp(p)
  \/ RenameFails(p)
  \/ Relink(p)
  \/ RelinkFails(p)
  \/ Complete(p)
  \/ Exit(p)

Next ==
  \/ \E p \in Procs : Step(p)
  \/ \E p \in Procs : Crash(p)
  \/ LeaseExpires

Spec == Init /\ [][Next]_vars

(* A process that does not crash keeps running, and so does its loop only  *)
(* for a number of iterations.                                             *)
FairSpec == Spec /\ \A p \in Procs : WF_vars(Step(p))

-----------------------------------------------------------------------------
Places == {"start", "acquire", "stamp", "inspect", "probe", "remove", "load", "open",
           "write", "rename", "relink", "release", "unlock", "running", "solo",
           "exiting", "ended", "crashed"}

(* Type invariant.  A process has a file open only between OpenTemp and    *)
(* WriteTemp, and names a suspect only while it probes it.                 *)
TypeOK ==
  /\ lock \in Procs \cup {Nobody} /\ lease \in {"none", "valid", "expired"}
  /\ (Readable(registry) => registry \in Contents)
  /\ (Readable(tmp) => tmp \in Contents)
  /\ job \in [Procs -> Jobs] /\ pc \in [Procs -> Places]
  /\ attempts \in [Procs -> 0 .. MaxAttempts - 1]
  /\ suspect \in [Procs -> Procs \cup {Nobody}]
  /\ seen \in [Procs -> Contents]
  /\ fd \in [Procs -> {"none", "tmp", "registry", "gone"}]
  /\ \A p \in Procs : (pc[p] = "write" <=> fd[p] # "none")
                      /\ (pc[p] = "probe" <=> suspect[p] # Nobody)

(* A process that works on the registry under the lock. *)
Holding(p) ==
  /\ job[p] \in {"create", "archive"}
  /\ pc[p] \in {"load", "open", "write", "rename", "relink"}

(* No two processes work on the registry under the lock at a time.         *)
(* (acquireLock)                                                           *)
MutualExclusion == \A p, q \in Procs : Holding(p) /\ Holding(q) => p = q

(* The lock excludes until the first process ends or a lease runs out:     *)
(* from then on a lock file can be removed by a process that judged an     *)
(* earlier one. (acquireLock, releaseLock)                                 *)
ExcludesUntilExit ==
  ~MayExpire /\ (\A p \in Procs : ~Gone(p)) => MutualExclusion

(* Every running loop is listed in a registry that can be read. *)
RunningListed ==
  \A p \in Procs : pc[p] = "running" => Readable(registry) /\ p \in registry

(* Where the registry file existed before the first process looked at it,  *)
(* and no lease runs out, loops that only register drop none of each       *)
(* other: every running loop is listed. (createLoop)                       *)
RegistrationsKept ==
  ~MayExpire /\ ~FirstRun
    /\ (\A p \in Procs : ~Gone(p) /\ job[p] \in {"create", "refused"}) =>
  RunningListed

(* Whatever saves overtake each other, no registry that is ever saved      *)
(* lists more loops than the limit, unless some were forced. (createLoop)  *)
ListWithinLimit ==
  Readable(registry) => Cardinality(registry \ Forced) <= MaxLoops

(* Every process ends, or is stopped for good by a lock file whose creator *)
(* crashed before it wrote its content. (acquireLock, the finally blocks)  *)
OnlyUnwrittenLockBlocks ==
  \/ \A p \in Procs : <>Gone(p)
  \/ <>[](lock # Nobody /\ lease = "none" /\ pc[lock] = "crashed")

=============================================================================
