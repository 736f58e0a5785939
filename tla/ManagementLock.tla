--------------------------- MODULE ManagementLock ---------------------------
(***************************************************************************)
(* acquireManagementLock of src/engine/engine-core.ts, one task's          *)
(* <task>.management.lock: every file-system call is a step of its own, so *)
(* that the calls of operations in one or several processes interleave and *)
(* a process may die between any two of them.                              *)
(*                                                                         *)
(* An operation is one asynchronous call (saveTask or                      *)
(* setEngineManagementState) in a host process.  The lock file is          *)
(* abstracted to who created it (a ghost: nothing reads it but the         *)
(* properties), the process id its metadata names and whether it is at     *)
(* least 60 s old.  The stat comparison of the recovery (same mtime, same  *)
(* size) is the flag unchanged: no step has created, written or removed    *)
(* the file since the operation observed it.                               *)
(***************************************************************************)
CONSTANTS Op,      \* operations
          Proc,    \* processes, each with its process id
          Host,    \* the process an operation runs in
          None,    \* no file, or metadata that names no process
          Free, Orphan   \* the two ownerless states of the abstract lock

ASSUME LockAssumption == /\ Host \in [Op -> Proc]
                         /\ None \notin Op /\ None \notin Proc
                         /\ Free \notin Op /\ Orphan \notin Op
                         /\ Free # Orphan

VARIABLES
    alive,      \* the processes that process.kill(pid, 0) finds
    pc,         \* where each operation is inside acquireManagementLock
    creator,    \* the operation that created the lock file, None when absent
    metaPid,    \* the pid in the lock file, None while it is empty
    old,        \* the lock file has not been written for 60 s
    recovery,   \* the .recovery.lock file exists
    nested,     \* operations that created .recovery.lock and not removed it
    unchanged,  \* operations whose observation of the lock file still matches
    seenPid     \* the dead-or-alive pid an operation read from the lock file

lockFile == <<creator, metaPid, old>>
memory == <<nested, seenPid>>
vars == <<alive, pc, creator, metaPid, old, recovery, nested, unchanged, seenPid>>

Pc == {"idle", "open", "write", "observe", "readMeta", "probe", "recover",
       "recheck", "quarantine", "enter", "abort", "held"}

TypeOK == /\ alive \in SUBSET Proc
          /\ pc \in [Op -> Pc]
          /\ creator \in Op \cup {None}
          /\ metaPid \in Proc \cup {None}
          /\ old \in BOOLEAN
          /\ recovery \in BOOLEAN
          /\ nested \in SUBSET Op
          /\ unchanged \in SUBSET Op
          /\ seenPid \in [Op -> Proc \cup {None}]

Init == /\ alive = Proc
        /\ pc = [o \in Op |-> "idle"]
        /\ creator = None /\ metaPid = None /\ old = FALSE
        /\ recovery = FALSE
        /\ nested = {} /\ unchanged = {}
        /\ seenPid = [o \in Op |-> None]

Goto(o, l) == pc' = [pc EXCEPT ![o] = l]

\* The lock file is created, written or removed: no earlier stat matches it.
SetLock(c, p) == /\ creator' = c /\ metaPid' = p /\ old' = FALSE
                 /\ unchanged' = {}

RemoveLock == SetLock(None, None)

-----------------------------------------------------------------------------
\* saveTask or setEngineManagementState calls acquireManagementLock.
Request(o) == /\ pc[o] = "idle" /\ Host[o] \in alive
              /\ Goto(o, "open")
              /\ UNCHANGED <<alive, lockFile, recovery, memory, unchanged>>

\* open(lockPath, "wx"), by the call itself or by the recursive call of a
\* recovery: creates an empty file, or fails with EEXIST.
Open(o) == /\ pc[o] = "open"
           /\ \/ /\ creator = None
                 /\ SetLock(o, None)
                 /\ Goto(o, "write")
              \/ /\ creator # None
                 /\ Goto(o, "observe")
                 /\ UNCHANGED <<lockFile, unchanged>>
           /\ UNCHANGED <<alive, recovery, memory>>

\* Mutant: the metadata names the operation instead of the process.
WriteMetadataOfOperation(o) ==
    /\ pc[o] = "write"
    /\ SetLock(creator, o) /\ Goto(o, "enter")
    /\ UNCHANGED <<alive, recovery, memory>>

\* handle.writeFile of the metadata; a failed write removes the file again.
WriteMetadata(o) == /\ pc[o] = "write"
                    /\ \/ SetLock(creator, Host[o]) /\ Goto(o, "enter")
                       \/ RemoveLock /\ Goto(o, "abort")
                    /\ UNCHANGED <<alive, recovery, memory>>

\* First stat: a file that is gone or younger than 60 s means busy.
Observe(o) == /\ pc[o] = "observe"
              /\ \/ /\ creator # None /\ old
                    /\ unchanged' = unchanged \cup {o}
                    /\ Goto(o, "readMeta")
                 \/ /\ ~(creator # None /\ old)
                    /\ Goto(o, "abort")
                    /\ UNCHANGED unchanged
              /\ UNCHANGED <<alive, lockFile, recovery, memory>>

\* readFile: busy when the metadata is malformed or names this process.
ReadMetadata(o) ==
    /\ pc[o] = "readMeta"
    /\ \/ /\ metaPid \notin {None, Host[o]}
          /\ seenPid' = [seenPid EXCEPT ![o] = metaPid]
          /\ Goto(o, "probe")
       \/ /\ metaPid \in {None, Host[o]}
          /\ Goto(o, "abort")
          /\ UNCHANGED seenPid
    /\ UNCHANGED <<alive, lockFile, recovery, nested, unchanged>>

\* Mutant: ESRCH is taken for busy too.
ProbeAlwaysBusy(o) == /\ pc[o] = "probe"
                      /\ Goto(o, "abort")
                      /\ UNCHANGED <<alive, lockFile, recovery, memory, unchanged>>

\* process.kill(pid, 0): anything but ESRCH means busy.
Probe(o) == /\ pc[o] = "probe"
            /\ Goto(o, IF seenPid[o] \in alive THEN "abort" ELSE "recover")
            /\ UNCHANGED <<alive, lockFile, recovery, memory, unchanged>>

\* open(recoveryPath, "wx"): one recoverer at a time, the others are busy.
OpenRecovery(o) ==
    /\ pc[o] = "recover"
    /\ \/ /\ ~recovery
          /\ recovery' = TRUE
          /\ nested' = nested \cup {o}
          /\ Goto(o, "recheck")
       \/ /\ recovery
          /\ Goto(o, "abort")
          /\ UNCHANGED <<recovery, nested>>
    /\ UNCHANGED <<alive, lockFile, unchanged, seenPid>>

\* Mutant: the second stat only asks whether the file still exists.
RecheckExistsOnly(o) == /\ pc[o] = "recheck"
                        /\ Goto(o, IF creator # None THEN "quarantine" ELSE "abort")
                        /\ UNCHANGED <<alive, lockFile, recovery, memory, unchanged>>

\* Second stat: the file must be the one that was observed.
Recheck(o) == /\ pc[o] = "recheck"
              /\ Goto(o, IF creator # None /\ o \in unchanged
                         THEN "quarantine" ELSE "abort")
              /\ UNCHANGED <<alive, lockFile, recovery, memory, unchanged>>

\* rename(lockPath, quarantine), then the recursive call; a rename that finds
\* no file throws.
Quarantine(o) == /\ pc[o] = "quarantine"
                 /\ RemoveLock
                 /\ Goto(o, IF creator = None THEN "abort" ELSE "open")
                 /\ UNCHANGED <<alive, recovery, memory>>

\* The finally of the recovery removes .recovery.lock, then the call returns
\* the handle ("enter") or throws ("abort").
Return(o) == /\ pc[o] \in {"enter", "abort"}
             /\ recovery' = (recovery /\ o \notin nested)
             /\ nested' = nested \ {o}
             /\ unchanged' = unchanged \ {o}
             /\ seenPid' = [seenPid EXCEPT ![o] = None]
             /\ Goto(o, IF pc[o] = "enter" THEN "held" ELSE "idle")
             /\ UNCHANGED <<alive, lockFile>>

\* The finally of saveTask and setEngineManagementState: close and unlink.
Release(o) == /\ pc[o] = "held"
              /\ RemoveLock
              /\ Goto(o, "idle")
              /\ UNCHANGED <<alive, recovery, memory>>

-----------------------------------------------------------------------------
\* The lock file becomes 60 s old, whatever its holder is doing.
Age == /\ creator # None /\ ~old
       /\ old' = TRUE
       /\ UNCHANGED <<alive, pc, creator, metaPid, recovery, memory, unchanged>>

\* A process dies: its operations vanish, the files stay.
Crash(p) == /\ p \in alive
            /\ alive' = alive \ {p}
            /\ pc' = [o \in Op |-> IF Host[o] = p THEN "idle" ELSE pc[o]]
            /\ nested' = {o \in nested : Host[o] # p}
            /\ UNCHANGED <<lockFile, recovery, unchanged, seenPid>>

\* A process with the id of a dead one appears.
Restart(p) == /\ p \notin alive
              /\ alive' = alive \cup {p}
              /\ UNCHANGED <<pc, lockFile, recovery, memory, unchanged>>

Step(o) == \/ Open(o) \/ WriteMetadata(o) \/ Observe(o) \/ ReadMetadata(o)
           \/ Probe(o) \/ OpenRecovery(o) \/ Recheck(o) \/ Quarantine(o)
           \/ Return(o) \/ Release(o)

Next == \/ \E o \in Op : Request(o) \/ Step(o)
        \/ Age
        \/ \E p \in Proc : Crash(p) \/ Restart(p)

Spec == Init /\ [][Next]_vars

\* The event loop of a live process resumes every pending file-system call.
FairSpec == Spec /\ \A o \in Op : WF_vars(Step(o))

\* Time passes, and every live operation keeps coming back for the lock, as the
\* 100 attempts of saveTask and the saves that follow it do.
AskingSpec == FairSpec /\ WF_vars(Age) /\ \A o \in Op : WF_vars(Request(o))

-----------------------------------------------------------------------------
\* The operations that have the lock file: from its creation to its unlink.
Holding(o) == pc[o] \in {"write", "enter", "held"}

\* At most one operation at a time is inside the section that the management
\* lock protects (readTask .. writeTaskFile), even while dead holders' locks
\* are being reclaimed.
MutualExclusion == \A o, q \in Op : Holding(o) /\ Holding(q) => o = q

\* "Never reclaim live, malformed, recently created, or unverifiable locks":
\* the rename of a recovery only ever removes a complete lock file, 60 s old,
\* that no operation holds.
ReclaimsOnlyDeadLocks ==
    [][\A o \in Op : Quarantine(o) =>
           /\ creator # None /\ metaPid # None /\ old
           /\ ~Holding(creator)]_vars

\* Once processes stop dying, the complete lock file of a dead process does not
\* block the task for ever, unless a recoverer died and left .recovery.lock:
\* some operation of a live process that keeps asking reclaims it.
DeadHoldersAreReclaimed ==
    <>[][\A p \in Proc : ~Crash(p)]_vars
        => []<>~(/\ metaPid \notin alive \cup {None}
                 /\ ~recovery
                 /\ \E o \in Op : Host[o] \in alive)

-----------------------------------------------------------------------------
\* The abstract lock: it is held by the operation in the protected section,
\* whatever file there is; a file that stays when nobody is there is an orphan.
mutexOwner == IF \E o \in Op : Holding(o) THEN CHOOSE o \in Op : Holding(o)
              ELSE IF creator = None THEN Free ELSE Orphan

Mutex == INSTANCE TaskMutex WITH owner <- mutexOwner
MutexSpec == Mutex!Spec
=============================================================================
