----------------------------- MODULE CycleLease -----------------------------
(***************************************************************************)
(* The lock files around a run of a task's cycle: runEngineCycleRounds of  *)
(* src/engine/engine-cycle-browser.ts takes one of the global execution    *)
(* slots and then the cycle lease of its task, runs, and gives both back.  *)
(* Every file-system call is a step, runs of several processes interleave, *)
(* and processes die.                                                      *)
(*                                                                         *)
(* A lock file is known by its owner, the run whose lease id is in it, and *)
(* by the pid it names.  The owner is set when the file is created and     *)
(* forgotten (Gone, Left) when the run ends without removing its file:     *)
(* nothing reads it while the file is empty, and no later run has its id.  *)
(*                                                                         *)
(* The names of what other specifications have too begin with Lease, so    *)
(* that the proofs can be about the cycle and its lease together.          *)
(***************************************************************************)
EXTENDS Integers

CONSTANTS Op,     \* calls of runEngineCycleRounds
          Proc,   \* processes, each with its process id
          Host,   \* the process a call runs in
          TaskId,   \* tasks
          For,    \* the task a call runs
          Limit,  \* number of execution slots
          Absent,   \* no file, no pid, no slot
          Gone,   \* the owner of a file whose run died with its process
          Left    \* the owner of a file whose run could not write it

Slot == 0..(Limit - 1)
File == Slot \cup TaskId

ASSUME LeaseAssumption == /\ Host \in [Op -> Proc] /\ For \in [Op -> TaskId]
                          /\ Limit \in Nat \ {0} /\ TaskId \cap Slot = {}
                          /\ Absent \notin Op /\ Absent \notin Proc /\ Absent \notin Slot
                          /\ Gone \notin Op /\ Left \notin Op
                          /\ Gone # Absent /\ Left # Absent /\ Gone # Left

VARIABLES alive,   \* the processes that process.kill(pid, 0) finds
          owner,   \* owner of each lock file, Absent when the file is absent
          pid,     \* the pid in each lock file, Absent while it is empty
          place,   \* where each run is
          at,      \* the lock file it works on
          slot,    \* the slot it was given
          seen,    \* the pid it read from a lock file that existed
          retried, \* runs that removed the lease of a dead process before
          died     \* a process has died (a ghost, for the properties)

files == <<owner, pid>>
leaseVars == <<alive, owner, pid, place, at, slot, seen, retried, died>>

Pc == {"idle", "open", "write", "read", "probe", "remove", "run", "check", "unlink"}

LeaseTypeOK == /\ alive \in SUBSET Proc
               /\ owner \in [File -> Op \cup {Absent, Gone, Left}]
               /\ pid \in [File -> Proc \cup {Absent}]
               /\ place \in [Op -> Pc]
               /\ at \in [Op -> File]
               /\ slot \in [Op -> Slot \cup {Absent}]
               /\ seen \in [Op -> Proc \cup {Absent}]
               /\ retried \in SUBSET Op
               /\ died \in BOOLEAN

LeaseInit == /\ alive = Proc
             /\ owner = [f \in File |-> Absent] /\ pid = [f \in File |-> Absent]
             /\ place = [o \in Op |-> "idle"] /\ at = [o \in Op |-> 0]
             /\ slot = [o \in Op |-> Absent] /\ seen = [o \in Op |-> Absent]
             /\ retried = {} /\ died = FALSE

Goto(o, l) == place' = [place EXCEPT ![o] = l]
\* The run goes on with step l on the lock file f.
GotoAt(o, l, f) == Goto(o, l) /\ at' = [at EXCEPT ![o] = f]
SetFile(f, who, p) == /\ owner' = [owner EXCEPT ![f] = who]
                      /\ pid' = [pid EXCEPT ![f] = p]
\* The run is over.
Ended(o) == GotoAt(o, "idle", 0) /\ slot' = [slot EXCEPT ![o] = Absent]

-----------------------------------------------------------------------------
\* acquireEngineRuntimeSlot, slot after slot, and acquireEngineCycleLease

Start(o) == /\ place[o] = "idle" /\ Host[o] \in alive
            /\ GotoAt(o, "open", 0)
            /\ UNCHANGED <<alive, files, slot, seen, retried, died>>

\* Mutant: the file is created whether or not it exists.
OpenShared(o) == /\ place[o] = "open"
                 /\ SetFile(at[o], o, Absent) /\ Goto(o, "write")
                 /\ UNCHANGED <<alive, at, slot, seen, retried, died>>
\* open(lockPath, "wx")
Open(o) == /\ place[o] = "open"
           /\ IF owner[at[o]] = Absent
              THEN SetFile(at[o], o, Absent) /\ Goto(o, "write")
              ELSE Goto(o, "read") /\ UNCHANGED files
           /\ UNCHANGED <<alive, at, slot, seen, retried, died>>

\* The attempt at this lock file is over.
Forget(o) == retried' = retried \ {o} /\ seen' = [seen EXCEPT ![o] = Absent]
\* The run has the lock file: it goes on to the lease, or begins.
Taken(o) == IF at[o] \in Slot
            THEN GotoAt(o, "open", For[o]) /\ slot' = [slot EXCEPT ![o] = at[o]]
            ELSE Goto(o, "run") /\ UNCHANGED <<at, slot>>
\* Mutant: a run that does not get the lease keeps its slot.
NotTakenKeepsSlot(o) == IF at[o] \in Slot /\ at[o] + 1 \in Slot
                        THEN GotoAt(o, "open", at[o] + 1) /\ UNCHANGED slot
                        ELSE Ended(o)
\* It does not: it tries the next slot, ends when there is none, and gives its
\* slot back when the lease is not to be had.
NotTaken(o) == IF at[o] \notin Slot THEN GotoAt(o, "check", slot[o]) /\ UNCHANGED slot
               ELSE IF at[o] + 1 \in Slot THEN GotoAt(o, "open", at[o] + 1) /\ UNCHANGED slot
               ELSE Ended(o)

\* Mutant: the file names the run instead of its process.
WriteRun(o) == /\ place[o] = "write"
               /\ IF owner[at[o]] = o THEN SetFile(at[o], o, o) ELSE UNCHANGED files
               /\ Taken(o) /\ Forget(o)
               /\ UNCHANGED <<alive, died>>
\* handle.writeFile, which reaches the file even if another run unlinked it.
Write(o) == /\ place[o] = "write"
            /\ IF owner[at[o]] = o THEN SetFile(at[o], o, Host[o]) ELSE UNCHANGED files
            /\ Taken(o) /\ Forget(o)
            /\ UNCHANGED <<alive, died>>

\* A write that fails leaves the file empty; for a slot the run ends, for the
\* lease it gives its slot back.
WriteFails(o) == /\ place[o] = "write"
                 /\ IF owner[at[o]] = o THEN SetFile(at[o], Left, Absent) ELSE UNCHANGED files
                 /\ IF at[o] \in Slot THEN Ended(o)
                    ELSE GotoAt(o, "check", slot[o]) /\ UNCHANGED slot
                 /\ Forget(o)
                 /\ UNCHANGED <<alive, died>>

\* readEngineCycleLease, readEngineRuntimeSlotLease: an absent or empty file
\* names no process and counts as taken.
Read(o) == /\ place[o] = "read"
           /\ \/ /\ pid[at[o]] = Absent
                 /\ NotTaken(o) /\ Forget(o)
              \/ /\ pid[at[o]] # Absent
                 /\ seen' = [seen EXCEPT ![o] = pid[at[o]]]
                 /\ Goto(o, "probe") /\ UNCHANGED <<at, slot, retried>>
           /\ UNCHANGED <<alive, files, died>>

\* The lock of a dead process is recovered, the lease once per attempt.
Recoverable(o) == seen[o] \notin alive /\ (at[o] \in Slot \/ o \notin retried)

\* Mutant: a slot that is taken is tried again.
ProbeAgain(o) == /\ place[o] = "probe"
                 /\ \/ /\ Recoverable(o)
                       /\ Goto(o, "remove") /\ UNCHANGED <<at, slot, seen, retried>>
                    \/ /\ ~Recoverable(o)
                       /\ IF at[o] \in Slot THEN Goto(o, "open") /\ UNCHANGED <<at, slot>>
                                            ELSE NotTaken(o)
                       /\ Forget(o)
                 /\ UNCHANGED <<alive, files, died>>
\* isProcessAlive
Probe(o) == /\ place[o] = "probe"
            /\ \/ /\ Recoverable(o)
                  /\ Goto(o, "remove") /\ UNCHANGED <<at, slot, seen, retried>>
               \/ /\ ~Recoverable(o)
                  /\ NotTaken(o) /\ Forget(o)
            /\ UNCHANGED <<alive, files, died>>

\* rm(lockPath, force): whatever the file is by now.
Remove(o) == /\ place[o] = "remove"
             /\ SetFile(at[o], Absent, Absent)
             /\ retried' = IF at[o] \in Slot THEN retried ELSE retried \cup {o}
             /\ seen' = [seen EXCEPT ![o] = Absent]
             /\ Goto(o, "open")
             /\ UNCHANGED <<alive, at, slot, died>>

-----------------------------------------------------------------------------
\* runEngineCycleRoundsWithLease returns or throws; releaseEngineCycleLease,
\* releaseEngineRuntimeSlot

Finish(o) == /\ place[o] = "run"
             /\ Goto(o, "check")
             /\ UNCHANGED <<alive, files, at, slot, seen, retried, died>>

\* The lease is given back, then the slot.
GivenBack(o) == IF at[o] \in Slot THEN Ended(o)
                ELSE GotoAt(o, "check", slot[o]) /\ UNCHANGED slot

\* Only a file with the run's lease id is removed.
Check(o) == /\ place[o] = "check"
            /\ IF owner[at[o]] = o THEN Goto(o, "unlink") /\ UNCHANGED <<at, slot>>
                                   ELSE GivenBack(o)
            /\ UNCHANGED <<alive, files, seen, retried, died>>

Unlink(o) == /\ place[o] = "unlink"
             /\ SetFile(at[o], Absent, Absent)
             /\ GivenBack(o)
             /\ UNCHANGED <<alive, seen, retried, died>>

-----------------------------------------------------------------------------
\* A process dies: its runs vanish, their files stay.
Death(p) == /\ p \in alive
            /\ alive' = alive \ {p}
            /\ owner' = [f \in File |-> IF \E o \in Op : owner[f] = o /\ Host[o] = p
                                        THEN Gone ELSE owner[f]]
            /\ place' = [o \in Op |-> IF Host[o] = p THEN "idle" ELSE place[o]]
            /\ at' = [o \in Op |-> IF Host[o] = p THEN 0 ELSE at[o]]
            /\ slot' = [o \in Op |-> IF Host[o] = p THEN Absent ELSE slot[o]]
            /\ seen' = [o \in Op |-> IF Host[o] = p THEN Absent ELSE seen[o]]
            /\ retried' = {o \in retried : Host[o] # p}
            /\ died' = TRUE
            /\ UNCHANGED pid

\* A process with the id of a dead one appears.
Restart(p) == /\ p \notin alive
              /\ alive' = alive \cup {p}
              /\ UNCHANGED <<files, place, at, slot, seen, retried, died>>

Step(o) == \/ Open(o) \/ Write(o) \/ WriteFails(o) \/ Read(o) \/ Probe(o) \/ Remove(o)
           \/ Finish(o) \/ Check(o) \/ Unlink(o)

LeaseNext == \/ \E o \in Op : Start(o) \/ Step(o)
             \/ \E p \in Proc : Death(p) \/ Restart(p)

LeaseSpec == LeaseInit /\ [][LeaseNext]_leaseVars

\* The event loop of a live process resumes every pending call, and every
\* round of a run is bounded.
FairLeaseSpec == LeaseSpec /\ \A o \in Op : WF_leaseVars(Step(o))

-----------------------------------------------------------------------------
\* The run o was given the file f and has not begun to give it back.
Has(o, f) == \/ /\ f \in TaskId /\ For[o] = f /\ place[o] = "run"
             \/ /\ f \in Slot /\ slot[o] = f
                /\ ~(at[o] = f /\ place[o] \in {"check", "unlink"})

\* Runs exclude one another from leases and slots as long as no process has
\* died: it takes a recovery to break the exclusion (acquireEngineCycleLease,
\* acquireEngineRuntimeSlot and their releases).
ExclusiveUntilADeath ==
    ~died => \A o, q \in Op, f \in File : Has(o, f) /\ Has(q, f) => o = q

\* A complete lock file belongs to a run that has it, is giving it back or is
\* about to know it has it; a run that was refused, or is over, leaves none,
\* unless its process died (the finally blocks of runEngineCycleRounds).
NothingLeaks ==
    \A f \in File : pid[f] # Absent /\ owner[f] # Gone =>
        /\ owner[f] \in Op
        /\ Has(owner[f], f) \/ (at[owner[f]] = f /\ place[owner[f]] \in {"check", "unlink"})

\* A call gets its run or returns, once processes stop dying: slots of dead
\* processes are retried without a bound, but each retry removes one.
AttemptsEnd ==
    <>[][\A p \in Proc : ~Death(p)]_leaseVars
        => \A o \in Op : place[o] = "open" ~> place[o] \in {"run", "idle"}
=============================================================================
