-------------------------- MODULE MCManagementLock --------------------------
(* Instances of ManagementLock for TLC. *)
EXTENDS ManagementLock, TLC
CONSTANTS o1, o2, o3, p1, p2

MCOp == {o1, o2, o3}
MCProc == {p1, p2}

\* One operation in the first process, two in the second: a death can take one
\* caller or two with it, and two callers can recover one dead holder, out of
\* one process or out of two.
SharedHost == o1 :> p1 @@ o2 :> p2 @@ o3 :> p2
=============================================================================
