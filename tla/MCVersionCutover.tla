--------------------------- MODULE MCVersionCutover ---------------------------
(* Instances of VersionCutover for TLC. *)
EXTENDS VersionCutover
CONSTANTS k1, k2, k3, k4, blue, green

\* A selection that may be killed, a recovery, a selection of another version, and a
\* selection that is told of another previous version.
MCTask == [c \in Controller |-> IF c = k2 THEN "recover" ELSE "select"]
MCWants == [c \in Controller |-> IF c = k3 THEN green ELSE blue]

\* Bound: the last of them is launched instead of the two before it.
MCNext == Next /\ (pc'[k4] = "idle" \/ {pc'[k2], pc'[k3]} = {"idle"})

\* FairSpec with that bound, which takes none of the fair steps away.
MCSpec == Init /\ [][MCNext]_vars /\ Fairness
=============================================================================
