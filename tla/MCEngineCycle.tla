-------------------------- MODULE MCEngineCycle --------------------------
(* Instances of EngineCycle for TLC. *)
EXTENDS EngineCycle
CONSTANTS t1, t2
=============================================================================
