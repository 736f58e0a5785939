-------------------------- MODULE MCEngineTaskStore --------------------------
(***************************************************************************)
(* An instance of EngineTaskStore for TLC.  The calls that come are those   *)
(* of one of two scenarios: two callers tick the same task and an operator  *)
(* manages it, or one ticks it while an operation records and two operators *)
(* manage it.                                                              *)
(***************************************************************************)
EXTENDS EngineTaskStore
CONSTANTS t1, t2, r1, m1, m2

VARIABLE calling \* the operations that are called

MCCalling == {{t1, t2, m1}, {t1, r1, m1, m2}}

MCInit == Init /\ calling \in MCCalling

MCNext == /\ \/ \E o \in Ticker \cap calling : Tick(o)
             \/ \E o \in Recorder \cap calling : Record(o)
             \/ \E o \in Operator \cap calling : Manage(o)
             \/ \E gone \in SUBSET calling : Crash(gone)
             \/ Reclaim
          /\ UNCHANGED calling

\* FairSpec for the operations that are called.
MCSpec ==
    /\ MCInit /\ [][MCNext]_<<vars, calling>>
    /\ \A o \in Ticker : /\ WF_vars(o \in calling /\ Tick(o))
                         /\ SF_vars(o \in calling /\ SaveAcquire(o))
    /\ \A o \in Recorder : WF_vars(Save(o))
    /\ \A o \in Operator : WF_vars(ManageRead(o) \/ ManageWrite(o) \/ Release(o))
    /\ WF_vars(Reclaim)
=============================================================================
