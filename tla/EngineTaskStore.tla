-------------------------- MODULE EngineTaskStore --------------------------
(***************************************************************************)
(* One engine task file and the operations that read, change and save it   *)
(* (src/engine/engine-core.ts): workerTick, the record* operations that    *)
(* change the execution state (authorizeEngineTaskExecution and            *)
(* recordEngineExecutionOutcome), and the operator's pause and resume      *)
(* (setEngineManagementState).  Every operation works on the copy it read  *)
(* at its start; saveTask takes the management lock only to re-read the    *)
(* management state and write the copy.  The lock is the abstract one of   *)
(* TaskMutex, which ManagementLock implements.                             *)
(***************************************************************************)
EXTENDS Naturals

CONSTANTS Ticker,    \* calls of workerTick
          Recorder,  \* calls of a record* operation
          Operator,  \* calls of setEngineManagementState
          LastPhase, \* index of the last phase of REPO_RC_PHASE_PLAN
          Free, Orphan, NoTask

Op == Ticker \cup Recorder \cup Operator

ASSUME StoreAssumption == /\ LastPhase \in Nat
                          /\ Free \notin Op /\ Orphan \notin Op /\ Free # Orphan
                          /\ Ticker \cap Recorder = {} /\ Operator \cap Recorder = {}
                          /\ Ticker \cap Operator = {}

VARIABLES task,      \* the task file
          tickLock,  \* the file <task>.lock exists
          owner,     \* the management lock: an operation, Free or Orphan
          pc,        \* where each operation is
          copy       \* the task object each operation works on

vars == <<task, tickLock, owner, pc, copy>>

Lock == INSTANCE TaskMutex

\* One status stands for the terminal ones (completed, failed, blocked, ...).
Terminal == {"ended"}
Status == {"queued", "running", "dispatch_ready", "waiting_user", "waiting_runtime"}
             \cup Terminal
Task == [status : Status, phase : 0..LastPhase,
         mgmt : {"active", "paused"}, authorized : BOOLEAN]

Pc == {"idle", "checkLock", "writeLock", "decide", "acquire", "merge", "write",
       "release", "unlock", "manage", "manageWrite"}

TypeOK == /\ task \in Task
          /\ tickLock \in BOOLEAN
          /\ owner \in Op \cup {Free, Orphan}
          /\ pc \in [Op -> Pc]
          /\ copy \in [Op -> Task \cup {NoTask}]

\* enqueueTask has written the task.
Init == /\ task = [status |-> "queued", phase |-> 0, mgmt |-> "active",
                   authorized |-> FALSE]
        /\ tickLock = FALSE
        /\ Lock!Init
        /\ pc = [o \in Op |-> "idle"]
        /\ copy = [o \in Op |-> NoTask]

Goto(o, l) == pc' = [pc EXCEPT ![o] = l]

\* The operation ends, its objects are gone.
Done(o) == /\ Goto(o, "idle")
           /\ copy' = [copy EXCEPT ![o] = NoTask]

\* saveTask or setEngineManagementState returns or throws: a tick still has its
\* finally block.
Returns(o) == IF o \in Ticker THEN Goto(o, "unlock") /\ UNCHANGED copy ELSE Done(o)

-----------------------------------------------------------------------------
\* workerTick

\* Reads the task; a task on hold or a terminal one is left alone.
TickRead(o) == /\ pc[o] = "idle"
               /\ task.mgmt # "paused" /\ task.status \notin Terminal
               /\ copy' = [copy EXCEPT ![o] = task]
               /\ Goto(o, "checkLock")
               /\ UNCHANGED <<task, tickLock, owner>>

\* existsSync(lockPath): a tick that finds the lock is skipped ...
TickSkip(o) == /\ pc[o] = "checkLock" /\ tickLock
               /\ Done(o)
               /\ UNCHANGED <<task, tickLock, owner>>

\* ... one that does not goes on to write it.
TickSeesNoLock(o) == /\ pc[o] = "checkLock" /\ ~tickLock
                     /\ Goto(o, "writeLock")
                     /\ UNCHANGED <<task, tickLock, owner, copy>>

\* writeFile(lockPath): not exclusive, it overwrites a lock written meanwhile.
TickWriteLock(o) == /\ pc[o] = "writeLock"
                    /\ tickLock' = TRUE
                    /\ Goto(o, "decide")
                    /\ UNCHANGED <<task, owner, copy>>

\* normalizePhase
Normalized(p) == IF p > LastPhase THEN LastPhase ELSE p

\* Mutant: the last phase is taken for one more to complete.
TickedPastEnd(t) ==
    LET p == Normalized(t.phase)
    IN  IF p > LastPhase
        THEN [t EXCEPT !.phase = p,
                       !.status = IF t.authorized THEN "dispatch_ready" ELSE "waiting_user"]
        ELSE [t EXCEPT !.phase = p + 1, !.status = "running"]

\* The decision on the copy: the next phase, or the end of the plan.
Ticked(t) ==
    LET p == Normalized(t.phase)
    IN  IF p >= LastPhase
        THEN [t EXCEPT !.phase = p,
                       !.status = IF t.authorized THEN "dispatch_ready" ELSE "waiting_user"]
        ELSE [t EXCEPT !.phase = p + 1, !.status = "running"]

TickDecide(o) == /\ pc[o] = "decide"
                 /\ copy' = [copy EXCEPT ![o] = Ticked(@)]
                 /\ Goto(o, "acquire")
                 /\ UNCHANGED <<task, tickLock, owner>>

\* The finally of the tick renames the lock away, whoever wrote it.
TickUnlock(o) == /\ pc[o] = "unlock"
                 /\ tickLock' = FALSE
                 /\ Done(o)
                 /\ UNCHANGED <<task, owner>>

-----------------------------------------------------------------------------
\* authorizeEngineTaskExecution and recordEngineExecutionOutcome: read, change
\* the copy, save.  Neither looks at the management state or the tick lock.
Recorded == {[task EXCEPT !.authorized = TRUE]}
              \cup {[task EXCEPT !.status = s] :
                       s \in {"waiting_runtime", "ended"}}

RecordRead(o) == /\ pc[o] = "idle"
                 /\ \E t \in Recorded : copy' = [copy EXCEPT ![o] = t]
                 /\ Goto(o, "acquire")
                 /\ UNCHANGED <<task, tickLock, owner>>

-----------------------------------------------------------------------------
\* saveTask

SaveAcquire(o) == /\ pc[o] = "acquire"
                  /\ Lock!Acquire(o)
                  /\ Goto(o, "merge")
                  /\ UNCHANGED <<task, tickLock, copy>>

\* A hundred attempts found the lock busy: ENGINE_MANAGEMENT_LOCK_BUSY is
\* thrown and nothing is saved.
SaveGiveUp(o) == /\ pc[o] = "acquire"
                 /\ Returns(o)
                 /\ UNCHANGED <<task, tickLock, owner>>

\* The lock's metadata cannot be written: acquireManagementLock takes the lock
\* away again and throws.
AcquireFails(o) == /\ pc[o] \in {"merge", "manage"}
                   /\ Lock!Release(o)
                   /\ Returns(o)
                   /\ UNCHANGED <<task, tickLock>>

\* readTask or writeTaskFile throws under the lock.
SectionFails(o) == /\ pc[o] \in {"merge", "write", "manageWrite"}
                   /\ Goto(o, "release")
                   /\ UNCHANGED <<task, tickLock, owner, copy>>

\* Mutant: the save does not look at the persisted management state.
SaveMergeNothing(o) == /\ pc[o] = "merge"
                       /\ Goto(o, "write")
                       /\ UNCHANGED <<task, tickLock, owner, copy>>

\* Mutant: the persisted phase wins as well.
SaveMergePhase(o) == /\ pc[o] = "merge"
                     /\ copy' = [copy EXCEPT ![o].mgmt = task.mgmt, ![o].phase = task.phase]
                     /\ Goto(o, "write")
                     /\ UNCHANGED <<task, tickLock, owner>>

\* readTask under the lock: the persisted management state wins.
SaveMerge(o) == /\ pc[o] = "merge"
                /\ copy' = [copy EXCEPT ![o].mgmt = task.mgmt]
                /\ Goto(o, "write")
                /\ UNCHANGED <<task, tickLock, owner>>

\* writeTaskFile: temporary file and rename.
SaveWrite(o) == /\ pc[o] = "write"
                /\ task' = copy[o]
                /\ Goto(o, "release")
                /\ UNCHANGED <<tickLock, owner, copy>>

\* The finally of saveTask and of setEngineManagementState.
Release(o) == /\ pc[o] = "release"
              /\ Lock!Release(o)
              /\ Returns(o)
              /\ UNCHANGED <<task, tickLock>>

-----------------------------------------------------------------------------
\* setEngineManagementState: one attempt at the lock, ENGINE_TASK_BUSY if taken.
ManageAcquire(o) == /\ pc[o] = "idle"
                    /\ Lock!Acquire(o)
                    /\ Goto(o, "manage")
                    /\ UNCHANGED <<task, tickLock, copy>>

\* Reads the task under the lock; refuses a terminal task.  Any other is
\* flipped: pause when active, resume when paused (the other two requests
\* change nothing).
ManageRead(o) == /\ pc[o] = "manage"
                 /\ \/ /\ task.status \notin Terminal
                       /\ copy' = [copy EXCEPT ![o] = [task EXCEPT !.mgmt =
                                     IF @ = "active" THEN "paused" ELSE "active"]]
                       /\ Goto(o, "manageWrite")
                    \/ Goto(o, "release") /\ UNCHANGED copy
                 /\ UNCHANGED <<task, tickLock, owner>>

ManageWrite(o) == /\ pc[o] = "manageWrite"
                  /\ task' = copy[o]
                  /\ Goto(o, "release")
                  /\ UNCHANGED <<tickLock, owner, copy>>

-----------------------------------------------------------------------------
\* A process dies and its operations with it; their lock files stay.
Crash(gone) == /\ \E o \in gone : pc[o] # "idle"
               /\ IF owner \in gone THEN Lock!Abandon(owner) ELSE UNCHANGED owner
               /\ pc' = [o \in Op |-> IF o \in gone THEN "idle" ELSE pc[o]]
               /\ copy' = [o \in Op |-> IF o \in gone THEN NoTask ELSE copy[o]]
               /\ UNCHANGED <<task, tickLock>>

\* A later operation reclaims the management lock of a dead one.
Reclaim == /\ Lock!Reclaim
           /\ UNCHANGED <<task, tickLock, pc, copy>>

Fails(o) == AcquireFails(o) \/ SectionFails(o)
Save(o) == \/ SaveAcquire(o) \/ SaveGiveUp(o) \/ SaveMerge(o) \/ SaveWrite(o)
           \/ Release(o) \/ Fails(o)
Tick(o) == \/ TickRead(o) \/ TickSkip(o) \/ TickSeesNoLock(o) \/ TickWriteLock(o)
           \/ TickDecide(o) \/ Save(o) \/ TickUnlock(o)
Record(o) == RecordRead(o) \/ Save(o)
Manage(o) == \/ ManageAcquire(o) \/ ManageRead(o) \/ ManageWrite(o)
             \/ Release(o) \/ Fails(o)

Next == \/ \E o \in Ticker : Tick(o)
        \/ \E o \in Recorder : Record(o)
        \/ \E o \in Operator : Manage(o)
        \/ \E gone \in SUBSET Op : Crash(gone)
        \/ Reclaim

Spec == Init /\ [][Next]_vars

\* The worker loop keeps ticking, a live operation runs on, and an operation
\* that meets an orphaned management lock reclaims it.
FairSpec == /\ Spec
            /\ \A o \in Ticker : WF_vars(Tick(o)) /\ SF_vars(SaveAcquire(o))
            /\ \A o \in Recorder : WF_vars(Save(o))
            /\ \A o \in Operator : WF_vars(ManageRead(o) \/ ManageWrite(o) \/ Release(o))
            /\ WF_vars(Reclaim)

-----------------------------------------------------------------------------
\* "operator pause must persist despite active worker execution lock": only
\* the operator's own write changes the management state, whatever saves were
\* under way with a copy read before the pause or the resume.
PauseSurvives ==
    [][task'.mgmt # task.mgmt => \E o \in Operator : ManageWrite(o)]_vars

\* A pause or a resume changes the management state and nothing else: it never
\* takes back what a tick or a record* operation saved.
ManagementKeepsRecord ==
    [][\A o \in Operator : ManageWrite(o) =>
           task' = [task EXCEPT !.mgmt = task'.mgmt]]_vars

\* The tick lock of a dead worker.
StaleTickLock == tickLock /\ \A o \in Ticker : pc[o] \in {"idle", "checkLock", "writeLock"}

\* When operators leave the task active, recorders leave it alone, nobody dies,
\* saves find the lock within their hundred attempts and do not fail, and no dead
\* worker's tick lock is in the way, the phase plan comes to its end, whatever two
\* overlapping ticks undo of each other.  (A write that changes nothing looks like
\* one that failed.)
PlanCompletes ==
    /\ <>[](task.mgmt = "active" /\ ~StaleTickLock)
    /\ <>[][/\ \A o \in Op : /\ ~SaveGiveUp(o)
                             /\ Fails(o) => SaveWrite(o) \/ ManageWrite(o)
                             /\ ~(o \in Recorder /\ RecordRead(o))
           /\ \A gone \in SUBSET Op : ~Crash(gone)]_vars
    => <>(task.status \in {"dispatch_ready", "waiting_user"} \cup Terminal)
=============================================================================
