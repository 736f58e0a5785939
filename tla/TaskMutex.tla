------------------------------ MODULE TaskMutex ------------------------------
(***************************************************************************)
(* What the per-task management lock of the engine promises: the lock of a *)
(* task is free, or held by one operation, or orphaned by an operation     *)
(* whose process died while it held the lock.  Only the holder releases a  *)
(* held lock, and only an orphan is ever reclaimed by somebody else.       *)
(* ManagementLock implements this specification with files.                *)
(***************************************************************************)
CONSTANTS Op,        \* the operations that may take the lock
          Free,      \* nobody holds the lock
          Orphan     \* the holder died and left the lock behind

VARIABLE owner

TypeOK == owner \in Op \cup {Free, Orphan}

Init == owner = Free

Acquire(o) == owner = Free /\ owner' = o

Release(o) == owner = o /\ owner' = Free

\* The process of the holder dies.
Abandon(o) == owner = o /\ owner' = Orphan

\* A later operation proves the holder dead and removes the lock.
Reclaim == owner = Orphan /\ owner' = Free

Next == \/ \E o \in Op : Acquire(o) \/ Release(o) \/ Abandon(o)
        \/ Reclaim

Spec == Init /\ [][Next]_owner
=============================================================================
