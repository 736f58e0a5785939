---------------------------- MODULE MCCycleLease ----------------------------
(* Instances of CycleLease for TLC. *)
EXTENDS CycleLease, TLC
CONSTANTS o1, o2, o3, p1, p2, t1

MCProc == {p1, p2}
MCTask == {t1}

\* Two runs of one task, each in its own process.
TwoOp == {o1, o2}
TwoHost == o1 :> p1 @@ o2 :> p2
TwoFor == [o \in TwoOp |-> t1]

\* Three runs of one task, two of them in one process.
ThreeOp == {o1, o2, o3}
ThreeHost == o1 :> p1 @@ o2 :> p2 @@ o3 :> p2
ThreeFor == [o \in ThreeOp |-> t1]
=============================================================================
