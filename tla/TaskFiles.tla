------------------------------ MODULE TaskFiles ------------------------------
(***************************************************************************)
(* The operations of EngineTaskStore on one task with the file protocol of *)
(* ManagementLock in the place of their abstract lock: saveTask and        *)
(* setEngineManagementState of src/engine/engine-core.ts as they call      *)
(* acquireManagementLock, in processes that die in any of its file-system  *)
(* calls and in any step of the operations.                                *)
(*                                                                         *)
(* Every step is a step of the lock, of the operations' data, or of both:  *)
(* the call that creates the lock file begins the protected section, and   *)
(* the unlink of the finally block ends it.                                *)
(***************************************************************************)
EXTENDS ManagementLock, Naturals

CONSTANTS Ticker, Recorder, Operator, LastPhase, NoTask

\* Who the operations are; the theorems assume it.
Roles == /\ Op = Ticker \cup Recorder \cup Operator
         /\ Ticker \cap Recorder = {} /\ Operator \cap Recorder = {}
         /\ Ticker \cap Operator = {}
         /\ LastPhase \in Nat

VARIABLES task, tickLock, stage, copy

data == <<task, tickLock, stage, copy>>
filesVars == <<vars, data>>

\* What the operations do to the data, and the specification the files implement.
\* Of the steps that touch its lock none is used below.
Store == INSTANCE EngineTaskStore WITH pc <- stage, owner <- mutexOwner

FilesInit == Init /\ Store!Init

-----------------------------------------------------------------------------
\* workerTick and the record operations while they hold no lock.
Outside(o) == /\ pc[o] = "idle" /\ Host[o] \in alive /\ UNCHANGED vars
              /\ \/ o \in Ticker /\ \/ Store!TickRead(o) \/ Store!TickSkip(o)
                                    \/ Store!TickSeesNoLock(o) \/ Store!TickWriteLock(o)
                                    \/ Store!TickDecide(o) \/ Store!TickUnlock(o)
                 \/ o \in Recorder /\ Store!RecordRead(o)

\* saveTask and setEngineManagementState between the lock and the finally block.
Inside(o) == /\ pc[o] = "held" /\ UNCHANGED vars
             /\ \/ Store!SaveMerge(o) \/ Store!SaveWrite(o) \/ Store!SectionFails(o)
                \/ Store!ManageRead(o) \/ Store!ManageWrite(o)

-----------------------------------------------------------------------------
\* acquireManagementLock is called: again and again by a save, once by an operator.
Call(o) == /\ stage[o] = "acquire" \/ (o \in Operator /\ stage[o] = "idle")
           /\ Request(o)
           /\ UNCHANGED data

\* The call that creates the file begins the section.
Enter(o) == /\ Store!Goto(o, IF o \in Operator THEN "manage" ELSE "merge")
            /\ UNCHANGED <<task, tickLock, copy>>
Create(o) == Open(o) /\ IF creator = None THEN Enter(o) ELSE UNCHANGED data

\* saveTask or setEngineManagementState is over.
Leave(o) == Store!Returns(o) /\ UNCHANGED <<task, tickLock>>

\* A failed write of the metadata is thrown on.
Write(o) == WriteMetadata(o) /\ IF pc'[o] = "abort" THEN Leave(o) ELSE UNCHANGED data

Judge(o) == /\ \/ Observe(o) \/ ReadMetadata(o) \/ Probe(o) \/ OpenRecovery(o)
               \/ Recheck(o) \/ Quarantine(o)
            /\ UNCHANGED data

\* The call is back: a save that found the lock busy tries again, or has done so
\* for the hundredth time.
Back(o) == /\ Return(o)
           /\ \/ UNCHANGED data
              \/ pc[o] = "abort" /\ stage[o] = "acquire" /\ Leave(o)

\* close and unlink, in the finally block.
Close(o) == stage[o] = "release" /\ Release(o) /\ Leave(o)

-----------------------------------------------------------------------------
\* A process dies: its calls and its objects are gone.
Die(p) == /\ Crash(p)
          /\ stage' = [o \in Op |-> IF Host[o] = p THEN "idle" ELSE stage[o]]
          /\ copy' = [o \in Op |-> IF Host[o] = p THEN NoTask ELSE copy[o]]
          /\ UNCHANGED <<task, tickLock>>

FilesNext == \/ \E o \in Op : \/ Outside(o) \/ Inside(o)
                              \/ Call(o) \/ Create(o) \/ Write(o) \/ Judge(o)
                              \/ Back(o) \/ Close(o)
             \/ Age /\ UNCHANGED data
             \/ \E p \in Proc : Die(p) \/ (Restart(p) /\ UNCHANGED data)

FilesSpec == FilesInit /\ [][FilesNext]_filesVars

-----------------------------------------------------------------------------
\* Every variable has its type.
FilesTypeOK == TypeOK /\ Store!TypeOK

\* The files implement the task store with its abstract lock, so that a pause
\* survives the saves also while locks of dead processes are taken over
\* (acquireManagementLock, saveTask, setEngineManagementState).
StoreSpec == Store!Spec
=============================================================================
