------------------------ MODULE ManagementLockProofs ------------------------
(***************************************************************************)
(* For every set of operations and processes: the management lock excludes *)
(* operations from one another, a recovery only ever removes the lock of a *)
(* dead holder, the protocol implements the abstract lock, and with it the *)
(* operations of TaskFiles implement those of EngineTaskStore.             *)
(***************************************************************************)
EXTENDS TaskFiles, TLAPS

\* Between its first stat and its rename a recoverer knows the file.
Observing(o) == o \in unchanged
                /\ pc[o] \in {"readMeta", "probe", "recover", "recheck", "quarantine"}

\* A holder's lock file is the one it created, and its process lives.
HolderInv ==
    /\ \A o \in Op : Holding(o) => creator = o
    /\ \A o \in Op : pc[o] # "idle" => Host[o] \in alive
    /\ metaPid # None => creator # None /\ metaPid = Host[creator]

\* .recovery.lock admits one recoverer.
RecoveryInv ==
    /\ \A o \in Op : pc[o] \in {"recheck", "quarantine"} => o \in nested
    /\ \A o \in nested : recovery
    /\ \A o, q \in nested : o = q

\* What an operation has observed stays true of the file while it is unchanged.
ObserveInv ==
    /\ \A o \in Op : Observing(o) => creator # None /\ old
    /\ \A o \in Op : Observing(o) /\ pc[o] # "readMeta"
                        => metaPid # None /\ seenPid[o] = metaPid
    /\ \A o \in Op : Observing(o) /\ pc[o] \notin {"readMeta", "probe"}
                        => ~Holding(creator)
    /\ \A o \in Op : pc[o] = "quarantine" => o \in unchanged

IInv == TypeOK /\ HolderInv /\ RecoveryInv /\ ObserveInv

-----------------------------------------------------------------------------
LEMMA Initially == Init => IInv
BY LockAssumption DEF Init, IInv, TypeOK, HolderInv, RecoveryInv, ObserveInv,
   Holding, Observing, Pc

\* No step leaves the type of a variable.
LEMMA Typing == ASSUME TypeOK, [Next]_vars PROVE TypeOK'
<1> USE LockAssumption DEF TypeOK, Pc, Goto, SetLock, RemoveLock, lockFile, memory
<1>1. ASSUME NEW o \in Op, Request(o) PROVE TypeOK'
  BY <1>1 DEF Request
<1>2. ASSUME NEW o \in Op, Step(o) PROVE TypeOK'
  <2>1. CASE Open(o) BY <2>1 DEF Open
  <2>2. CASE WriteMetadata(o)
    <3>1. creator' \in {creator, None} /\ metaPid' \in {Host[o], None} /\ old' = FALSE
          /\ unchanged' = {}
      BY <2>2 DEF WriteMetadata
    <3>2. pc' \in [Op -> Pc] /\ UNCHANGED <<alive, recovery, nested, seenPid>>
      BY <2>2 DEF WriteMetadata
    <3>3. Host[o] \in Proc OBVIOUS
    <3> QED BY <3>1, <3>2, <3>3
  <2>3. CASE Observe(o) BY <2>3 DEF Observe
  <2>4. CASE ReadMetadata(o) BY <2>4 DEF ReadMetadata
  <2>5. CASE Probe(o) BY <2>5 DEF Probe
  <2>6. CASE OpenRecovery(o) BY <2>6 DEF OpenRecovery
  <2>7. CASE Recheck(o) BY <2>7 DEF Recheck
  <2>8. CASE Quarantine(o) BY <2>8 DEF Quarantine
  <2>9. CASE Return(o) BY <2>9 DEF Return
  <2>10. CASE Release(o) BY <2>10 DEF Release
  <2> QED BY <1>2, <2>1, <2>2, <2>3, <2>4, <2>5, <2>6, <2>7, <2>8, <2>9, <2>10
          DEF Step
<1>3. CASE Age BY <1>3 DEF Age
<1>4. ASSUME NEW p \in Proc, Crash(p) PROVE TypeOK'
  BY <1>4 DEF Crash
<1>5. ASSUME NEW p \in Proc, Restart(p) PROVE TypeOK'
  BY <1>5 DEF Restart
<1>6. CASE UNCHANGED vars BY <1>6 DEF vars
<1> QED BY <1>1, <1>2, <1>3, <1>4, <1>5, <1>6 DEF Next

\* Every step preserves the inductive invariant.
LEMMA Inductive == ASSUME IInv, [Next]_vars PROVE IInv'
<1>t. TypeOK' BY Typing DEF IInv
<1> SUFFICES ASSUME IInv, TypeOK'
             PROVE  [Next]_vars => (HolderInv /\ RecoveryInv /\ ObserveInv)'
  BY <1>t DEF IInv
<1> USE LockAssumption DEF IInv, TypeOK, HolderInv, RecoveryInv, ObserveInv,
        Holding, Observing, Goto, lockFile, memory
<1>1. ASSUME NEW o \in Op, Request(o) PROVE (HolderInv /\ RecoveryInv /\ ObserveInv)'
  BY <1>1 DEF Request
<1>2. ASSUME NEW o \in Op, Step(o) PROVE (HolderInv /\ RecoveryInv /\ ObserveInv)'
  <2>1. CASE Open(o) BY <2>1 DEF Open, SetLock
  <2>2. CASE WriteMetadata(o) BY <2>2 DEF WriteMetadata, SetLock, RemoveLock
  <2>3. CASE Observe(o) BY <2>3 DEF Observe
  <2>4. CASE ReadMetadata(o) BY <2>4 DEF ReadMetadata
  <2>5. CASE Probe(o) BY <2>5 DEF Probe
  <2>6. CASE OpenRecovery(o) BY <2>6 DEF OpenRecovery
  <2>7. CASE Recheck(o) BY <2>7 DEF Recheck
  <2>8. CASE Quarantine(o) BY <2>8 DEF Quarantine, SetLock, RemoveLock
  <2>9. CASE Return(o) BY <2>9 DEF Return
  <2>10. CASE Release(o) BY <2>10 DEF Release, SetLock, RemoveLock
  <2> QED BY <1>2, <2>1, <2>2, <2>3, <2>4, <2>5, <2>6, <2>7, <2>8, <2>9, <2>10
          DEF Step
<1>3. CASE Age BY <1>3 DEF Age
<1>4. ASSUME NEW p \in Proc, Crash(p) PROVE (HolderInv /\ RecoveryInv /\ ObserveInv)'
  BY <1>4 DEF Crash
<1>5. ASSUME NEW p \in Proc, Restart(p) PROVE (HolderInv /\ RecoveryInv /\ ObserveInv)'
  BY <1>5 DEF Restart
<1>6. CASE UNCHANGED vars BY <1>6 DEF vars
<1> QED BY <1>1, <1>2, <1>3, <1>4, <1>5, <1>6 DEF Next

\* The invariant of the protocol.
LEMMA Invariance == Spec => []IInv
<1>1. Init => IInv BY Initially
<1>2. IInv /\ [Next]_vars => IInv' BY Inductive
<1> QED BY <1>1, <1>2, PTL DEF Spec

-----------------------------------------------------------------------------
\* Every variable of the lock protocol keeps its type.
THEOREM TypeCorrect == Spec => []TypeOK
<1>1. IInv => TypeOK BY DEF IInv
<1> QED BY <1>1, Invariance, PTL

\* Two saves, or a save and an operator's pause, are never in the protected
\* section of the same task together, whatever dies and whatever is reclaimed.
THEOREM Exclusion == Spec => []MutualExclusion
<1>1. IInv => MutualExclusion BY DEF IInv, HolderInv, MutualExclusion
<1> QED BY <1>1, Invariance, PTL

\* A recovery's rename removes a complete, old lock file of a dead holder.
THEOREM ReclaimSafe == Spec => ReclaimsOnlyDeadLocks
<1>1. IInv => [\A o \in Op : Quarantine(o) =>
                  /\ creator # None /\ metaPid # None /\ old
                  /\ ~Holding(creator)]_vars
  BY DEF IInv, ObserveInv, Observing, Quarantine
<1> QED BY <1>1, Invariance, PTL DEF ReclaimsOnlyDeadLocks

\* Since a holder created the file that is there, the abstract owner can be told
\* from the file.
fileOwner == IF creator = None THEN Free
             ELSE IF Holding(creator) THEN creator ELSE Orphan

LEMMA OwnerOfFile ==
    ASSUME IInv, IInv'
    PROVE  mutexOwner = fileOwner /\ mutexOwner' = fileOwner'
<1> USE LockAssumption DEF IInv, TypeOK, HolderInv, mutexOwner, fileOwner
<1>1. mutexOwner = fileOwner
  <2>1. CASE \E o \in Op : Holding(o) BY <2>1
  <2>2. CASE ~\E o \in Op : Holding(o) BY <2>2
  <2> QED BY <2>1, <2>2
<1>2. mutexOwner' = fileOwner'
  <2>1. CASE \E o \in Op : Holding(o)' BY <2>1
  <2>2. CASE ~\E o \in Op : Holding(o)' BY <2>2
  <2> QED BY <2>1, <2>2
<1> QED BY <1>1, <1>2

\* Every step of the file protocol is a step of the abstract lock or a stutter.
LEMMA StepMaps ==
    ASSUME IInv, IInv', [Next]_vars
    PROVE  [Mutex!Next]_mutexOwner
<1>0. mutexOwner = fileOwner /\ mutexOwner' = fileOwner' BY OwnerOfFile
<1> USE <1>0, LockAssumption DEF IInv, TypeOK, HolderInv, fileOwner, Holding, Goto,
        lockFile, memory
<1>1. ASSUME NEW o \in Op, Request(o) PROVE mutexOwner' = mutexOwner
  BY <1>1 DEF Request
<1>2. ASSUME NEW o \in Op, Step(o) PROVE [Mutex!Next]_mutexOwner
  <2>1. CASE Open(o)
    <3>1. CASE creator = None
      <4>1. mutexOwner = Free /\ mutexOwner' = o
        BY <2>1, <3>1 DEF Open, SetLock
      <4> QED BY <4>1 DEF Mutex!Next, Mutex!Acquire
    <3>2. CASE creator # None
      <4>1. mutexOwner' = mutexOwner BY <2>1, <3>2 DEF Open
      <4> QED BY <4>1
    <3> QED BY <3>1, <3>2
  <2>2. CASE WriteMetadata(o)
    <3>1. mutexOwner = o BY <2>2 DEF WriteMetadata
    <3>2. mutexOwner' \in {o, Free}
      BY <2>2 DEF WriteMetadata, SetLock, RemoveLock
    <3> QED BY <3>1, <3>2 DEF Mutex!Next, Mutex!Release
  <2>3. CASE Observe(o) BY <2>3 DEF Observe
  <2>4. CASE ReadMetadata(o) BY <2>4 DEF ReadMetadata
  <2>5. CASE Probe(o) BY <2>5 DEF Probe
  <2>6. CASE OpenRecovery(o) BY <2>6 DEF OpenRecovery
  <2>7. CASE Recheck(o) BY <2>7 DEF Recheck
  <2>8. CASE Quarantine(o)
    <3>1. mutexOwner = Orphan
      BY <2>8 DEF Quarantine, ObserveInv, Observing
    <3>2. mutexOwner' = Free BY <2>8 DEF Quarantine, SetLock, RemoveLock
    <3> QED BY <3>1, <3>2 DEF Mutex!Next, Mutex!Reclaim
  <2>9. CASE Return(o) BY <2>9 DEF Return
  <2>10. CASE Release(o)
    <3>1. mutexOwner = o /\ mutexOwner' = Free
      BY <2>10 DEF Release, SetLock, RemoveLock
    <3> QED BY <3>1 DEF Mutex!Next, Mutex!Release
  <2> QED BY <1>2, <2>1, <2>2, <2>3, <2>4, <2>5, <2>6, <2>7, <2>8, <2>9, <2>10
          DEF Step
<1>3. CASE Age BY <1>3 DEF Age
<1>4. ASSUME NEW p \in Proc, Crash(p) PROVE [Mutex!Next]_mutexOwner
  <2>1. CASE creator # None /\ Holding(creator) /\ Host[creator] = p
    <3>1. mutexOwner = creator /\ mutexOwner' = Orphan /\ creator \in Op
      BY <1>4, <2>1 DEF Crash
    <3> QED BY <3>1 DEF Mutex!Next, Mutex!Abandon
  <2>2. CASE ~(creator # None /\ Holding(creator) /\ Host[creator] = p)
    <3>1. mutexOwner' = mutexOwner BY <1>4, <2>2 DEF Crash
    <3> QED BY <3>1
  <2> QED BY <2>1, <2>2
<1>5. ASSUME NEW p \in Proc, Restart(p) PROVE mutexOwner' = mutexOwner
  BY <1>5 DEF Restart
<1>6. CASE UNCHANGED vars BY <1>6 DEF vars
<1> QED BY <1>1, <1>2, <1>3, <1>4, <1>5, <1>6 DEF Next

\* acquireManagementLock and its release implement the abstract lock: only the
\* holder releases a held lock, and only an orphan is reclaimed.
THEOREM Implements == Spec => MutexSpec
<1>1. Init => Mutex!Init
  BY LockAssumption DEF Init, Mutex!Init, mutexOwner, Holding
<1>2. IInv /\ IInv' /\ [Next]_vars => [Mutex!Next]_mutexOwner
  BY StepMaps
<1> QED BY <1>1, <1>2, Invariance, PTL DEF Spec, MutexSpec, Mutex!Spec

-----------------------------------------------------------------------------
(* The operations of the task store with the files in the place of their lock. *)

\* What is proved of the task store, for the files.
Facts == INSTANCE EngineTaskStoreProofs WITH pc <- stage, owner <- mutexOwner

\* The calls of acquireManagementLock before it has the file.
Calling(o) == pc[o] \in {"open", "observe", "readMeta", "probe", "recover", "recheck",
                         "quarantine"}

\* Where an operation is in its own code and where it is in the lock's agree.
LinkInv ==
    /\ \A o \in Op : Holding(o) <=> Facts!Locked(o)
    /\ \A o \in Op : pc[o] \in {"write", "enter"} => stage[o] \in {"merge", "manage"}
    /\ \A o \in Op : Calling(o) => stage[o] = IF o \in Operator THEN "idle" ELSE "acquire"
    /\ \A o \in Op : stage[o] # "idle" => Host[o] \in alive
    /\ \A o \in Op : stage[o] = "idle" => copy[o] = NoTask

FilesInv == IInv /\ Facts!IInv /\ LinkInv

\* The assumption on the constants of the task store.
LEMMA StoreConstants ==
    ASSUME Roles
    PROVE  /\ LastPhase \in Nat
           /\ Free \notin Facts!Op /\ Orphan \notin Facts!Op /\ Free # Orphan
           /\ Ticker \cap Recorder = {} /\ Operator \cap Recorder = {}
           /\ Ticker \cap Operator = {}
BY LockAssumption DEF Roles, Facts!Op

\* Both instances of the task store are the same specification.
LEMMA SameInit == Store!Init <=> Facts!Init
BY DEF Store!Init, Facts!Init, Store!Lock!Init, Facts!Lock!Init, Store!Op, Facts!Op

LEMMA SameNext == Store!Next <=> Facts!Next
BY DEF Store!Next, Store!Tick, Store!Record, Store!Manage, Store!Save, Store!Fails,
       Store!TickRead, Store!TickSkip, Store!TickSeesNoLock, Store!TickWriteLock,
       Store!TickDecide, Store!TickUnlock, Store!RecordRead, Store!SaveAcquire,
       Store!SaveGiveUp, Store!AcquireFails, Store!SectionFails, Store!SaveMerge,
       Store!SaveWrite, Store!Release, Store!ManageAcquire, Store!ManageRead,
       Store!ManageWrite, Store!Crash, Store!Reclaim, Store!Returns, Store!Done, Store!Goto,
       Store!Recorded, Store!Ticked, Store!Normalized, Store!Terminal, Store!Op,
       Store!Lock!Acquire, Store!Lock!Release, Store!Lock!Abandon, Store!Lock!Reclaim,
       Facts!Next, Facts!Tick, Facts!Record, Facts!Manage, Facts!Save, Facts!Fails,
       Facts!TickRead, Facts!TickSkip, Facts!TickSeesNoLock, Facts!TickWriteLock,
       Facts!TickDecide, Facts!TickUnlock, Facts!RecordRead, Facts!SaveAcquire,
       Facts!SaveGiveUp, Facts!AcquireFails, Facts!SectionFails, Facts!SaveMerge,
       Facts!SaveWrite, Facts!Release, Facts!ManageAcquire, Facts!ManageRead,
       Facts!ManageWrite, Facts!Crash, Facts!Reclaim, Facts!Returns, Facts!Done, Facts!Goto,
       Facts!Recorded, Facts!Ticked, Facts!Normalized, Facts!Terminal, Facts!Op,
       Facts!Lock!Acquire, Facts!Lock!Release, Facts!Lock!Abandon, Facts!Lock!Reclaim

\* Every step of the files is a step of the lock.
LEMMA LockSteps == [FilesNext]_filesVars => [Next]_vars
BY DEF FilesNext, filesVars, Outside, Inside, Call, Create, Write, Judge, Back, Close, Die,
       Next, Step

\* A step that leaves the lock alone, or is a step of a call that does not have
\* the file, leaves its owner.
LEMMA SameOwner ==
    ASSUME IInv, IInv',
           \/ UNCHANGED vars
           \/ \E o \in Op : \/ Request(o) \/ Observe(o) \/ ReadMetadata(o) \/ Probe(o)
                            \/ OpenRecovery(o) \/ Recheck(o) \/ Return(o)
                            \/ Open(o) /\ creator # None
           \/ Age
           \/ \E p \in Proc : Restart(p)
    PROVE  mutexOwner' = mutexOwner
<1>0. mutexOwner = fileOwner /\ mutexOwner' = fileOwner' BY OwnerOfFile
<1> USE <1>0, LockAssumption DEF IInv, TypeOK, HolderInv, fileOwner, Holding, Goto,
        lockFile, memory
<1>1. CASE UNCHANGED vars BY <1>1 DEF vars
<1>2. ASSUME NEW o \in Op,
             \/ Request(o) \/ Observe(o) \/ ReadMetadata(o) \/ Probe(o)
             \/ OpenRecovery(o) \/ Recheck(o) \/ Return(o)
      PROVE  mutexOwner' = mutexOwner
  <2>1. CASE Request(o) BY <2>1 DEF Request
  <2>2. CASE Observe(o) BY <2>2 DEF Observe
  <2>3. CASE ReadMetadata(o) BY <2>3 DEF ReadMetadata
  <2>4. CASE Probe(o) BY <2>4 DEF Probe
  <2>5. CASE OpenRecovery(o) BY <2>5 DEF OpenRecovery
  <2>6. CASE Recheck(o) BY <2>6 DEF Recheck
  <2>7. CASE Return(o) BY <2>7 DEF Return
  <2> QED BY <1>2, <2>1, <2>2, <2>3, <2>4, <2>5, <2>6, <2>7
<1>3. ASSUME NEW o \in Op, Open(o), creator # None PROVE mutexOwner' = mutexOwner
  BY <1>3 DEF Open
<1>4. CASE Age BY <1>4 DEF Age
<1>5. ASSUME NEW p \in Proc, Restart(p) PROVE mutexOwner' = mutexOwner
  BY <1>5 DEF Restart
<1> QED BY <1>1, <1>2, <1>3, <1>4, <1>5

\* Whoever has the file is the owner of the abstract lock.
LEMMA HolderOwns == ASSUME IInv, IInv', NEW o \in Op
                    PROVE  /\ Holding(o) => mutexOwner = o
                           /\ Holding(o)' => mutexOwner' = o
                           /\ creator = None => mutexOwner = Free
                           /\ creator' = None => mutexOwner' = Free
<1>0. mutexOwner = fileOwner /\ mutexOwner' = fileOwner' BY OwnerOfFile
<1> QED BY <1>0, LockAssumption DEF IInv, TypeOK, HolderInv, fileOwner

\* Every step of the files is a step of the task store or a stutter.
LEMMA FilesStepMaps ==
    ASSUME Roles, FilesInv, IInv', [FilesNext]_filesVars
    PROVE  [Store!Next]_Store!vars
<1> DEFINE Same == UNCHANGED <<task, tickLock, mutexOwner, stage, copy>>
<1>s. Same => [Store!Next]_Store!vars BY DEF Store!vars
<1>op. /\ Op = Ticker \cup Recorder \cup Operator
       /\ \A o \in Op : o \in Operator => o \notin Ticker /\ o \notin Recorder
       /\ \A o \in Ticker : o \notin Recorder
  BY DEF Roles
<1>c. /\ \A o \in Operator : stage[o] \in {"idle", "manage", "manageWrite", "release"}
      /\ \A o \in Op : o \notin Operator => stage[o] \notin {"manage", "manageWrite"}
  BY <1>op DEF FilesInv, Facts!IInv, Facts!CodeInv, Facts!Saver
<1>i. IInv /\ IInv' BY DEF FilesInv
<1>n. /\ \A o \in Ticker : Store!Tick(o) => Store!Next
      /\ \A o \in Recorder : Store!Record(o) => Store!Next
      /\ \A o \in Operator : Store!Manage(o) => Store!Next
      /\ \A o \in Op : o \notin Operator /\ Store!Save(o) => Store!Next
  BY <1>op DEF Store!Next, Store!Tick, Store!Record
<1>1. ASSUME NEW o \in Op, Outside(o) PROVE Store!Next
  <2>1. CASE o \in Ticker BY <1>1, <2>1, <1>n, <1>op DEF Outside, Store!Tick
  <2>2. CASE o \in Recorder BY <1>1, <2>2, <1>n, <1>op DEF Outside, Store!Record
  <2> QED BY <1>1, <2>1, <2>2 DEF Outside
<1>2. ASSUME NEW o \in Op, Inside(o) PROVE Store!Next
  <2>1. CASE o \in Operator
    <3>1. ~Store!SaveMerge(o) /\ ~Store!SaveWrite(o)
      BY <1>c, <2>1 DEF Store!SaveMerge, Store!SaveWrite
    <3> QED BY <1>2, <2>1, <3>1, <1>n DEF Inside, Store!Manage, Store!Fails
  <2>2. CASE o \notin Operator
    <3>1. ~Store!ManageRead(o) /\ ~Store!ManageWrite(o)
      BY <1>c, <2>2 DEF Store!ManageRead, Store!ManageWrite
    <3> QED BY <1>2, <2>2, <3>1, <1>n DEF Inside, Store!Save, Store!Fails
  <2> QED BY <2>1, <2>2
<1>3. ASSUME NEW o \in Op, Call(o) PROVE Same
  BY <1>3, <1>i, SameOwner DEF Call, data
<1>4. ASSUME NEW o \in Op, Create(o) PROVE [Store!Next]_Store!vars
  <2>1. CASE creator = None
    <3>1. mutexOwner = Free /\ mutexOwner' = o
      <4>1. Holding(o)'
        BY <1>4, <2>1, <1>i DEF Create, Open, Goto, Holding, IInv, TypeOK
      <4> QED BY <2>1, <4>1, <1>i, HolderOwns
    <3>2. Enter(o) /\ stage[o] = IF o \in Operator THEN "idle" ELSE "acquire"
      BY <1>4, <2>1 DEF Create, Open, FilesInv, LinkInv, Calling
    <3>3. CASE o \in Operator
      BY <3>1, <3>2, <3>3, <1>n
      DEF Enter, Store!Manage, Store!ManageAcquire, Store!Lock!Acquire, Store!Goto
    <3>4. CASE o \notin Operator
      BY <3>1, <3>2, <3>4, <1>n
      DEF Enter, Store!Save, Store!SaveAcquire, Store!Lock!Acquire, Store!Goto
    <3> QED BY <3>3, <3>4
  <2>2. CASE creator # None
    BY <1>4, <2>2, <1>i, <1>s, SameOwner DEF Create, data
  <2> QED BY <2>1, <2>2
<1>5. ASSUME NEW o \in Op, Write(o) PROVE [Store!Next]_Store!vars
  <2>1. mutexOwner = o /\ stage[o] \in {"merge", "manage"}
    BY <1>5, <1>i, HolderOwns DEF Write, WriteMetadata, Holding, FilesInv, LinkInv
  <2>2. CASE pc'[o] = "abort"
    <3>1. creator' = None
      BY <1>5, <2>2, <1>i
      DEF Write, WriteMetadata, Goto, SetLock, RemoveLock, IInv, TypeOK
    <3>2. mutexOwner' = Free BY <3>1, <1>i, HolderOwns
    <3>3. Store!AcquireFails(o)
      BY <1>5, <2>1, <2>2, <3>2 DEF Write, Leave, Store!AcquireFails, Store!Lock!Release
    <3> QED BY <3>3, <1>n, <1>op DEF Store!Manage, Store!Save, Store!Fails
  <2>3. CASE pc'[o] # "abort"
    <3>1. Holding(o)'
      BY <1>5, <2>3, <1>i DEF Write, WriteMetadata, Goto, Holding, IInv, TypeOK
    <3>2. mutexOwner' = o BY <3>1, <1>i, HolderOwns
    <3> QED BY <1>5, <2>1, <2>3, <3>2, <1>s DEF Write, data
  <2> QED BY <2>2, <2>3
<1>6. ASSUME NEW o \in Op, Judge(o) PROVE [Store!Next]_Store!vars
  <2>1. CASE Quarantine(o)
    <3>1. creator # None /\ ~Holding(creator)
      BY <2>1, <1>i DEF Quarantine, IInv, ObserveInv, Observing
    <3>2. mutexOwner = Orphan BY <3>1, <1>i, OwnerOfFile DEF fileOwner
    <3>3. mutexOwner' = Free
      BY <2>1, <1>i, HolderOwns DEF Quarantine, SetLock, RemoveLock
    <3> QED BY <1>6, <3>2, <3>3
            DEF Judge, data, Store!Next, Store!Reclaim, Store!Lock!Reclaim
  <2>2. CASE ~Quarantine(o)
    BY <1>6, <2>2, <1>i, <1>s, SameOwner DEF Judge, data
  <2> QED BY <2>1, <2>2
<1>7. ASSUME NEW o \in Op, Back(o) PROVE [Store!Next]_Store!vars
  <2>1. mutexOwner' = mutexOwner BY <1>7, <1>i, SameOwner DEF Back
  <2>2. CASE UNCHANGED data BY <2>1, <2>2, <1>s DEF data
  <2>3. CASE stage[o] = "acquire" /\ Leave(o)
    <3>1. o \notin Operator BY <2>3, <1>c
    <3>2. Store!SaveGiveUp(o) BY <2>1, <2>3 DEF Leave, Store!SaveGiveUp
    <3> QED BY <3>1, <3>2, <1>n DEF Store!Save
  <2> QED BY <1>7, <2>2, <2>3 DEF Back
<1>8. ASSUME NEW o \in Op, Close(o) PROVE Store!Next
  <2>1. mutexOwner = o /\ mutexOwner' = Free
    BY <1>8, <1>i, HolderOwns DEF Close, Release, Holding, SetLock, RemoveLock
  <2>2. Store!Release(o)
    BY <1>8, <2>1 DEF Close, Leave, Store!Release, Store!Lock!Release
  <2> QED BY <2>2, <1>n, <1>op DEF Store!Manage, Store!Save
<1>9. CASE Age /\ UNCHANGED data BY <1>9, <1>i, <1>s, SameOwner DEF data
<1>10. ASSUME NEW p \in Proc, Die(p) PROVE [Store!Next]_Store!vars
  <2> DEFINE gone == {o \in Op : Host[o] = p}
  <2>o. Store!Op = Op BY <1>op DEF Store!Op
  <2>1. /\ stage' = [o \in Op |-> IF o \in gone THEN "idle" ELSE stage[o]]
        /\ copy' = [o \in Op |-> IF o \in gone THEN NoTask ELSE copy[o]]
        /\ UNCHANGED <<task, tickLock>>
    BY <1>10 DEF Die
  <2>2. mutexOwner = fileOwner /\ mutexOwner' = fileOwner' BY <1>i, OwnerOfFile
  <2>3. /\ creator' = creator
        /\ pc' = [o \in Op |-> IF o \in gone THEN "idle" ELSE pc[o]]
    BY <1>10 DEF Die, Crash, lockFile
  <2>4. CASE creator \in gone /\ Holding(creator)
    <3>1. mutexOwner = creator /\ creator # None
      BY <2>2, <2>4, LockAssumption DEF fileOwner
    <3>2. mutexOwner' = Orphan
      BY <2>2, <2>3, <2>4, <3>1 DEF fileOwner, Holding
    <3>3. stage[creator] # "idle"
      BY <2>4 DEF FilesInv, LinkInv, Facts!Locked
    <3>4. Store!Crash(gone)
      BY <2>1, <2>4, <2>o, <3>1, <3>2, <3>3 DEF Store!Crash, Store!Lock!Abandon
    <3> QED BY <3>4, <2>o DEF Store!Next
  <2>5. CASE ~(creator \in gone /\ Holding(creator))
    <3>1. mutexOwner' = mutexOwner /\ mutexOwner \notin gone
      BY <2>2, <2>3, <2>5, <1>i, LockAssumption
      DEF fileOwner, Holding, IInv, TypeOK, HolderInv
    <3>2. CASE \E o \in gone : stage[o] # "idle"
      <4>1. Store!Crash(gone) BY <2>1, <2>o, <3>1, <3>2 DEF Store!Crash
      <4> QED BY <4>1, <2>o DEF Store!Next
    <3>3. CASE \A o \in gone : stage[o] = "idle"
      <4>1. stage \in [Op -> Facts!Pc] /\ copy \in [Op -> Facts!Task \cup {NoTask}]
        BY <1>op DEF FilesInv, Facts!IInv, Facts!TypeOK, Facts!Op
      <4>2. \A o \in gone : copy[o] = NoTask
        BY <3>3 DEF FilesInv, LinkInv
      <4>3. stage' = stage /\ copy' = copy BY <2>1, <3>3, <4>1, <4>2
      <4> QED BY <2>1, <3>1, <4>3, <1>s
    <3> QED BY <3>2, <3>3
  <2> QED BY <2>4, <2>5
<1>11. ASSUME NEW p \in Proc, Restart(p) /\ UNCHANGED data PROVE Same
  BY <1>11, <1>i, SameOwner DEF data
<1>12. CASE UNCHANGED filesVars
  <2>1. UNCHANGED vars /\ UNCHANGED data BY <1>12 DEF filesVars
  <2> QED BY <2>1, <1>i, <1>s, SameOwner DEF data
<1> QED BY <1>1, <1>2, <1>3, <1>4, <1>5, <1>6, <1>7, <1>8, <1>9, <1>10, <1>11, <1>12, <1>s
        DEF FilesNext

\* The two parts of the specification stay in agreement.
LEMMA LinkInductive ==
    ASSUME Roles, FilesInv, IInv', Facts!IInv', [FilesNext]_filesVars
    PROVE  LinkInv'
<1> USE DEF Roles, Goto, lockFile, memory
<1>i. IInv /\ LinkInv /\ Facts!IInv BY DEF FilesInv
<1>t. /\ pc \in [Op -> Pc] /\ pc' \in [Op -> Pc]
      /\ stage \in [Op -> Facts!Pc] /\ stage' \in [Op -> Facts!Pc]
      /\ copy \in [Op -> Facts!Task \cup {NoTask}]
  BY <1>i DEF IInv, TypeOK, Facts!IInv, Facts!TypeOK, Facts!Op
<1>c. /\ \A o \in Operator : stage[o] \in {"idle", "manage", "manageWrite", "release"}
      /\ \A o \in Op : o \notin Operator => stage[o] \notin {"manage", "manageWrite"}
  BY <1>i DEF Facts!IInv, Facts!CodeInv, Facts!Saver
<1>a. \A o \in Op : pc[o] # "idle" => Host[o] \in alive
  BY <1>i DEF IInv, HolderInv
<1> USE <1>i, <1>t, <1>c DEF LinkInv, Holding, Facts!Locked, Calling
<1>1. ASSUME NEW o \in Op, Outside(o) PROVE LinkInv'
  <2>1. UNCHANGED <<pc, alive>> /\ pc[o] = "idle" /\ Host[o] \in alive
    BY <1>1 DEF Outside, vars
  <2>2. /\ stage[o] \notin {"merge", "write", "release", "manage", "manageWrite"}
        /\ \A q \in Op \ {o} : stage'[q] = stage[q] /\ copy'[q] = copy[q]
        /\ stage'[o] \notin {"merge", "write", "release", "manage", "manageWrite"}
        /\ stage'[o] = "idle" => copy'[o] = NoTask
    BY <1>1, <2>1
    DEF Outside, Store!TickRead, Store!TickSkip, Store!TickSeesNoLock, Store!TickWriteLock,
        Store!TickDecide, Store!TickUnlock, Store!RecordRead, Store!Goto, Store!Done
  <2> QED BY <2>1, <2>2
<1>2. ASSUME NEW o \in Op, Inside(o) PROVE LinkInv'
  <2>1. UNCHANGED <<pc, alive>> /\ pc[o] = "held" /\ Host[o] \in alive
    BY <1>2, <1>a DEF Inside, vars
  <2>2. /\ \A q \in Op \ {o} : stage'[q] = stage[q] /\ copy'[q] = copy[q]
        /\ stage'[o] \in {"write", "release", "manageWrite"}
    BY <1>2, <2>1
    DEF Inside, Store!SaveMerge, Store!SaveWrite, Store!SectionFails, Store!ManageRead,
        Store!ManageWrite, Store!Goto
  <2> QED BY <2>1, <2>2
<1>3. ASSUME NEW o \in Op, Call(o) PROVE LinkInv'
  BY <1>3 DEF Call, Request, data
<1>4. ASSUME NEW o \in Op, Create(o) PROVE LinkInv'
  <2>1. UNCHANGED alive /\ pc[o] = "open" /\ Host[o] \in alive
    BY <1>4, <1>a DEF Create, Open
  <2>2. CASE creator = None
    <3>1. /\ pc' = [pc EXCEPT ![o] = "write"] /\ UNCHANGED copy
          /\ stage' = [stage EXCEPT ![o] = IF o \in Operator THEN "manage" ELSE "merge"]
      BY <1>4, <2>2 DEF Create, Open, Enter, Store!Goto
    <3> QED BY <2>1, <3>1
  <2>3. CASE creator # None
    BY <1>4, <2>1, <2>3 DEF Create, Open, data
  <2> QED BY <2>2, <2>3
<1>5. ASSUME NEW o \in Op, Write(o) PROVE LinkInv'
  <2>1. UNCHANGED alive /\ pc[o] = "write" /\ Host[o] \in alive
    BY <1>5, <1>a DEF Write, WriteMetadata
  <2>2. CASE pc'[o] = "abort"
    <3>1. pc' = [pc EXCEPT ![o] = "abort"]
      BY <1>5, <2>2 DEF Write, WriteMetadata
    <3>2. /\ \A q \in Op \ {o} : stage'[q] = stage[q] /\ copy'[q] = copy[q]
          /\ (stage'[o] = "idle" /\ copy'[o] = NoTask) \/ stage'[o] = "unlock"
      BY <1>5, <2>2 DEF Write, Leave, Store!Returns, Store!Done, Store!Goto
    <3> QED BY <2>1, <3>1, <3>2
  <2>3. CASE pc'[o] # "abort"
    <3>1. pc' = [pc EXCEPT ![o] = "enter"] /\ UNCHANGED data
      BY <1>5, <2>3 DEF Write, WriteMetadata
    <3> QED BY <2>1, <3>1 DEF data
  <2> QED BY <2>2, <2>3
<1>6. ASSUME NEW o \in Op, Judge(o) PROVE LinkInv'
  <2>1. UNCHANGED <<data, alive>> /\ Calling(o)
    BY <1>6 DEF Judge, Observe, ReadMetadata, Probe, OpenRecovery, Recheck, Quarantine
  <2>2. \E l \in {"open", "observe", "readMeta", "probe", "recover", "recheck",
                  "quarantine", "abort"} : pc' = [pc EXCEPT ![o] = l]
    BY <1>6 DEF Judge, Observe, ReadMetadata, Probe, OpenRecovery, Recheck, Quarantine
  <2> QED BY <2>1, <2>2 DEF data
<1>7. ASSUME NEW o \in Op, Back(o) PROVE LinkInv'
  <2>1. /\ UNCHANGED alive /\ Host[o] \in alive /\ pc[o] \in {"enter", "abort"}
        /\ pc' = [pc EXCEPT ![o] = IF pc[o] = "enter" THEN "held" ELSE "idle"]
    BY <1>7, <1>a DEF Back, Return
  <2>2. CASE UNCHANGED data BY <2>1, <2>2 DEF data
  <2>3. CASE pc[o] = "abort" /\ Leave(o)
    <3>1. /\ \A q \in Op \ {o} : stage'[q] = stage[q] /\ copy'[q] = copy[q]
          /\ (stage'[o] = "idle" /\ copy'[o] = NoTask) \/ stage'[o] = "unlock"
      BY <2>3 DEF Leave, Store!Returns, Store!Done, Store!Goto
    <3> QED BY <2>1, <2>3, <3>1
  <2> QED BY <1>7, <2>2, <2>3 DEF Back
<1>8. ASSUME NEW o \in Op, Close(o) PROVE LinkInv'
  <2>1. UNCHANGED alive /\ Host[o] \in alive /\ pc' = [pc EXCEPT ![o] = "idle"]
    BY <1>8, <1>a DEF Close, Release
  <2>2. /\ \A q \in Op \ {o} : stage'[q] = stage[q] /\ copy'[q] = copy[q]
        /\ (stage'[o] = "idle" /\ copy'[o] = NoTask) \/ stage'[o] = "unlock"
    BY <1>8 DEF Close, Leave, Store!Returns, Store!Done, Store!Goto
  <2> QED BY <2>1, <2>2
<1>9. CASE Age /\ UNCHANGED data BY <1>9 DEF Age, data
<1>10. ASSUME NEW p \in Proc, Die(p) PROVE LinkInv'
  BY <1>10 DEF Die, Crash
<1>11. ASSUME NEW p \in Proc, Restart(p) /\ UNCHANGED data PROVE LinkInv'
  BY <1>11 DEF Restart, data
<1>12. CASE UNCHANGED filesVars BY <1>12 DEF filesVars, vars, data
<1> QED BY <1>1, <1>2, <1>3, <1>4, <1>5, <1>6, <1>7, <1>8, <1>9, <1>10, <1>11, <1>12
        DEF FilesNext

LEMMA FilesInitially == ASSUME Roles, FilesInit PROVE FilesInv
<1>1. IInv BY Initially DEF FilesInit
<1>2. Facts!IInv BY StoreConstants, Facts!Initially, SameInit DEF FilesInit
<1>3. LinkInv
  BY DEF Roles, FilesInit, Init, Store!Init, Store!Op, LinkInv, Holding, Facts!Locked, Calling
<1> QED BY <1>1, <1>2, <1>3 DEF FilesInv

\* The step of the files as a step of the task store, and the invariant after it.
LEMMA FilesInductive ==
    ASSUME Roles, FilesInv, [FilesNext]_filesVars
    PROVE  FilesInv' /\ [Store!Next]_Store!vars
<1>1. IInv' BY LockSteps, Inductive DEF FilesInv
<1>2. [Store!Next]_Store!vars BY <1>1, FilesStepMaps
<1>3. [Facts!Next]_Facts!vars BY <1>2, SameNext DEF Store!vars, Facts!vars
<1>4. Facts!IInv' BY <1>3, StoreConstants, Facts!Inductive DEF FilesInv
<1>5. LinkInv' BY <1>1, <1>4, LinkInductive
<1> QED BY <1>1, <1>2, <1>4, <1>5 DEF FilesInv

LEMMA FilesInvariance == ASSUME Roles PROVE FilesSpec => []FilesInv
<1>1. FilesInit => FilesInv BY FilesInitially
<1>2. FilesInv /\ [FilesNext]_filesVars => FilesInv' BY FilesInductive
<1> QED BY <1>1, <1>2, PTL DEF FilesSpec

\* saveTask and setEngineManagementState with the lock files of dead processes
\* among them do what they do with the abstract lock.
THEOREM FilesImplement == ASSUME Roles PROVE FilesSpec => StoreSpec
<1>1. FilesInit => Store!Init BY DEF FilesInit
<1>2. FilesInv /\ [FilesNext]_filesVars => [Store!Next]_Store!vars BY FilesInductive
<1> QED BY <1>1, <1>2, FilesInvariance, PTL DEF FilesSpec, StoreSpec, Store!Spec

\* Every variable of the files and of the operations keeps its type.
THEOREM FilesTypeCorrect == ASSUME Roles PROVE FilesSpec => []FilesTypeOK
<1>1. FilesInv => FilesTypeOK
  BY DEF FilesInv, IInv, Facts!IInv, FilesTypeOK, Facts!TypeOK, Store!TypeOK,
         Facts!Op, Store!Op, Facts!Pc, Store!Pc, Facts!Task, Store!Task,
         Facts!Status, Store!Status, Facts!Terminal, Store!Terminal
<1> QED BY <1>1, FilesInvariance, PTL

\* With the files, too, nobody but an operator changes the management state: no
\* save, and no recovery of a dead operation's lock, takes back a pause.
THEOREM FilesKeepPause == ASSUME Roles PROVE FilesSpec => Store!PauseSurvives
<1>1. FilesInit => Facts!Init BY SameInit DEF FilesInit
<1>2. FilesInv /\ [FilesNext]_filesVars => [Facts!Next]_Facts!vars
  BY FilesInductive, SameNext DEF Store!vars, Facts!vars
<1>3. FilesSpec => Facts!Spec
  BY <1>1, <1>2, FilesInvariance, PTL DEF FilesSpec, Facts!Spec
<1>4. Facts!Spec => Facts!PauseSurvives BY StoreConstants, Facts!PausePersists
<1>5. [task'.mgmt # task.mgmt => \E o \in Operator : Facts!ManageWrite(o)]_Facts!vars
      => [task'.mgmt # task.mgmt => \E o \in Operator : Store!ManageWrite(o)]_Store!vars
  BY DEF Facts!vars, Store!vars, Facts!ManageWrite, Store!ManageWrite, Facts!Goto, Store!Goto
<1> QED BY <1>3, <1>4, <1>5, PTL DEF Facts!PauseSurvives, Store!PauseSurvives
=============================================================================
