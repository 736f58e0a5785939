-------------------------- MODULE MCRepositoryWorker --------------------------
(* Instances of RepositoryWorker for TLC. *)
EXTENDS RepositoryWorker
CONSTANTS r1, r2, w1, w2

Calm == [watchdogFresh |-> TRUE, ownershipConsistent |-> TRUE, telemetryFresh |-> TRUE,
         pressure |-> "NORMAL", stability |-> "NORMAL", failures |-> FALSE,
         enginePressure |-> "NORMAL"]

\* Light work only, and a watchdog nobody hears of with an engine that is busy.
MCVerdict == {Calm, [Calm EXCEPT !.pressure = "WATCH"],
              [Calm EXCEPT !.watchdogFresh = FALSE, !.enginePressure = "HIGH"]}
=============================================================================
