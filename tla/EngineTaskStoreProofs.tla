------------------------ MODULE EngineTaskStoreProofs ------------------------
(***************************************************************************)
(* For every number of ticks, record operations and operators: only an     *)
(* operator changes the management state, and an operator changes nothing  *)
(* else.                                                                   *)
(***************************************************************************)
EXTENDS EngineTaskStore, TLAPS

Saver == Ticker \cup Recorder

\* The section of saveTask and setEngineManagementState.
Locked(o) == pc[o] \in {"merge", "write", "release", "manage", "manageWrite"}

\* Savers and operators run their own code.
CodeInv ==
    /\ \A o \in Operator : pc[o] \in {"idle", "manage", "manageWrite", "release"}
    /\ \A o \in Saver : pc[o] \notin {"manage", "manageWrite"}

\* An operation in the section owns the lock.
LockInv == \A o \in Op : Locked(o) => owner = o

\* The copies that are about to be written agree with the file: a saver's in
\* the management state, an operator's in everything else.
CopyInv ==
    /\ \A o \in Op : pc[o] \in {"checkLock", "writeLock", "decide", "acquire",
                                "merge", "write", "manageWrite"} => copy[o] \in Task
    /\ \A o \in Op : pc[o] = "write" => copy[o].mgmt = task.mgmt
    /\ \A o \in Op : pc[o] = "manageWrite" =>
                        copy[o] = [task EXCEPT !.mgmt = copy[o].mgmt]

IInv == TypeOK /\ CodeInv /\ LockInv /\ CopyInv

-----------------------------------------------------------------------------
\* A tick changes the phase and the status of its copy, within their types.
LEMMA TickedType == ASSUME NEW t \in Task
                    PROVE  Ticked(t) \in Task
<1> USE StoreAssumption DEF Task, Status, Terminal
<1>1. t.phase \in 0..LastPhase /\ t.authorized \in BOOLEAN OBVIOUS
<1>2. Normalized(t.phase) = t.phase BY <1>1 DEF Normalized
<1>3. CASE t.phase >= LastPhase BY <1>1, <1>2, <1>3 DEF Ticked
<1>4. CASE ~(t.phase >= LastPhase)
  <2>1. t.phase + 1 \in 0..LastPhase BY <1>1, <1>4
  <2> QED BY <1>2, <1>4, <2>1 DEF Ticked
<1> QED BY <1>3, <1>4

LEMMA RecordedType == ASSUME task \in Task, NEW t \in Recorded
                      PROVE  t \in Task
BY DEF Recorded, Task, Status, Terminal

LEMMA Initially == Init => IInv
<1> SUFFICES ASSUME Init PROVE IInv OBVIOUS
<1>1. TypeOK
  <2>1. 0 \in 0..LastPhase BY StoreAssumption
  <2>2. task \in Task BY <2>1 DEF Init, Task, Status
  <2>3. "idle" \in Pc BY DEF Pc
  <2> QED BY <2>2, <2>3 DEF Init, Lock!Init, TypeOK
<1>2. CodeInv /\ LockInv /\ CopyInv
  BY DEF Init, CodeInv, LockInv, CopyInv, Locked, Op, Saver
<1> QED BY <1>1, <1>2 DEF IInv

\* Every step preserves the inductive invariant.
LEMMA Inductive == ASSUME IInv, [Next]_vars PROVE IInv'
<1> USE StoreAssumption DEF IInv, CodeInv, LockInv, CopyInv, Locked, TypeOK, Saver, Goto, Done, Returns
<1>pc. "idle" \in Pc /\ "checkLock" \in Pc /\ "writeLock" \in Pc /\ "decide" \in Pc
       /\ "acquire" \in Pc /\ "merge" \in Pc /\ "write" \in Pc /\ "release" \in Pc
       /\ "unlock" \in Pc /\ "manage" \in Pc /\ "manageWrite" \in Pc
  BY DEF Pc
<1>op. Op = Ticker \cup Recorder \cup Operator BY DEF Op
<1>1. ASSUME NEW o \in Ticker, TickRead(o) PROVE IInv'
  BY <1>1, <1>pc, <1>op DEF TickRead
<1>2. ASSUME NEW o \in Ticker, TickSkip(o) PROVE IInv'
  BY <1>2, <1>pc, <1>op DEF TickSkip
<1>3. ASSUME NEW o \in Ticker, TickSeesNoLock(o) PROVE IInv'
  BY <1>3, <1>pc, <1>op DEF TickSeesNoLock
<1>4. ASSUME NEW o \in Ticker, TickWriteLock(o) PROVE IInv'
  BY <1>4, <1>pc, <1>op DEF TickWriteLock
<1>5. ASSUME NEW o \in Ticker, TickDecide(o) PROVE IInv'
  <2>1. Ticked(copy[o]) \in Task BY <1>5, <1>op, TickedType DEF TickDecide
  <2> QED BY <1>5, <2>1, <1>pc, <1>op DEF TickDecide
<1>6. ASSUME NEW o \in Ticker, TickUnlock(o) PROVE IInv'
  BY <1>6, <1>pc, <1>op DEF TickUnlock
<1>7. ASSUME NEW o \in Recorder, RecordRead(o) PROVE IInv'
  BY <1>7, <1>pc, <1>op, RecordedType DEF RecordRead
<1>8. ASSUME NEW o \in Saver, SaveAcquire(o) PROVE IInv'
  BY <1>8, <1>pc, <1>op DEF SaveAcquire, Lock!Acquire
<1>9. ASSUME NEW o \in Saver, SaveGiveUp(o) PROVE IInv'
  BY <1>9, <1>pc, <1>op DEF SaveGiveUp
<1>10. ASSUME NEW o \in Saver, SaveMerge(o) PROVE IInv'
  <2>1. copy[o] \in Task /\ task.mgmt \in {"active", "paused"}
    BY <1>10, <1>op DEF SaveMerge, Task
  <2>2. [copy[o] EXCEPT !.mgmt = task.mgmt] \in Task BY <2>1 DEF Task
  <2>3. copy' = [copy EXCEPT ![o] = [copy[o] EXCEPT !.mgmt = task.mgmt]]
    BY <1>10 DEF SaveMerge
  <2>4. copy'[o] \in Task /\ copy'[o].mgmt = task.mgmt
    BY <2>1, <2>2, <2>3, <1>op DEF Task
  <2> QED BY <1>10, <2>2, <2>3, <2>4, <1>pc, <1>op DEF SaveMerge
<1>11. ASSUME NEW o \in Saver, SaveWrite(o) PROVE IInv'
  <2>1. task' \in Task BY <1>11, <1>op DEF SaveWrite
  <2>2. \A q \in Op \ {o} : ~Locked(q) BY <1>11, <1>op DEF SaveWrite
  <2> QED BY <1>11, <2>1, <2>2, <1>pc, <1>op DEF SaveWrite
<1>12. ASSUME NEW o \in Op, Release(o) PROVE IInv'
  BY <1>12, <1>pc, <1>op DEF Release, Lock!Release
<1>13. ASSUME NEW o \in Operator, ManageAcquire(o) PROVE IInv'
  BY <1>13, <1>pc, <1>op DEF ManageAcquire, Lock!Acquire
<1>14. ASSUME NEW o \in Operator, ManageRead(o) PROVE IInv'
  <2> DEFINE m == IF task.mgmt = "active" THEN "paused" ELSE "active"
  <2>1. [task EXCEPT !.mgmt = m] \in Task BY DEF Task
  <2>2. [task EXCEPT !.mgmt = m] = [task EXCEPT !.mgmt = [task EXCEPT !.mgmt = m].mgmt]
    BY DEF Task
  <2>3. CASE copy' = [copy EXCEPT ![o] = [task EXCEPT !.mgmt = m]] /\ Goto(o, "manageWrite")
    BY <1>14, <2>1, <2>2, <2>3, <1>pc, <1>op DEF ManageRead
  <2>4. CASE Goto(o, "release") /\ UNCHANGED copy
    BY <1>14, <2>4, <1>pc, <1>op DEF ManageRead
  <2> QED BY <1>14, <2>3, <2>4 DEF ManageRead
<1>15. ASSUME NEW o \in Operator, ManageWrite(o) PROVE IInv'
  <2>1. task' \in Task BY <1>15, <1>op DEF ManageWrite
  <2>2. \A q \in Op \ {o} : ~Locked(q) BY <1>15, <1>op DEF ManageWrite
  <2> QED BY <1>15, <2>1, <2>2, <1>pc, <1>op DEF ManageWrite
<1>16. ASSUME NEW gone \in SUBSET Op, Crash(gone) PROVE IInv'
  <2>1. owner' \in Op \cup {Free, Orphan} /\ (owner \notin gone => owner' = owner)
    BY <1>16 DEF Crash, Lock!Abandon
  <2> QED BY <1>16, <2>1, <1>pc, <1>op DEF Crash
<1>17. CASE Reclaim
  BY <1>17, <1>pc, <1>op DEF Reclaim, Lock!Reclaim
<1>18. CASE UNCHANGED vars BY <1>18 DEF vars
<1>19. ASSUME NEW o \in Op, AcquireFails(o) PROVE IInv'
  BY <1>19, <1>pc, <1>op DEF AcquireFails, Lock!Release
<1>20. ASSUME NEW o \in Op, SectionFails(o) PROVE IInv'
  BY <1>20, <1>pc, <1>op DEF SectionFails
<1> QED
  BY <1>1, <1>2, <1>3, <1>4, <1>5, <1>6, <1>7, <1>8, <1>9, <1>10, <1>11, <1>12, <1>13,
     <1>14, <1>15, <1>16, <1>17, <1>18, <1>19, <1>20, <1>op
  DEF Next, Tick, Record, Save, Manage, Fails

LEMMA Invariance == Spec => []IInv
<1>1. IInv /\ [Next]_vars => IInv' BY Inductive
<1> QED BY Initially, <1>1, PTL DEF Spec

-----------------------------------------------------------------------------
\* Every variable of the task store keeps its type.
THEOREM TypeCorrect == Spec => []TypeOK
<1>1. IInv => TypeOK BY DEF IInv
<1> QED BY <1>1, Invariance, PTL

\* A pause or a resume, once written, is changed by operators only: no tick and
\* no record operation, however old its copy of the task, takes it back.
THEOREM PausePersists == Spec => PauseSurvives
<1>1. ASSUME IInv, [Next]_vars, task'.mgmt # task.mgmt
      PROVE  \E o \in Operator : ManageWrite(o)
  <2> USE <1>1 DEF IInv, CopyInv, TypeOK
  <2>1. ASSUME NEW o \in Saver, SaveWrite(o) PROVE FALSE
    BY <2>1 DEF SaveWrite, Saver, Op
  <2>2. task' = task \/ (\E o \in Saver : SaveWrite(o)) \/ (\E o \in Operator : ManageWrite(o))
    BY DEF Next, vars, Saver, Tick, Record, Save, Manage, TickRead, TickSkip, TickSeesNoLock,
       TickWriteLock, TickDecide, TickUnlock, RecordRead, SaveAcquire, SaveGiveUp, SaveMerge,
       Release, Fails, AcquireFails, SectionFails, ManageAcquire, ManageRead, Crash, Reclaim
  <2> QED BY <2>1, <2>2
<1>2. IInv /\ [Next]_vars
        => [task'.mgmt # task.mgmt => \E o \in Operator : ManageWrite(o)]_vars
  BY <1>1
<1> QED BY <1>2, Invariance, PTL DEF PauseSurvives, Spec

\* A pause or a resume never takes back what a save wrote.
THEOREM ManagementIsolated == Spec => ManagementKeepsRecord
<1>1. IInv => [\A o \in Operator : ManageWrite(o) =>
                  task' = [task EXCEPT !.mgmt = task'.mgmt]]_vars
  BY DEF IInv, CopyInv, ManageWrite, Op
<1> QED BY <1>1, Invariance, PTL DEF ManagementKeepsRecord
=============================================================================
