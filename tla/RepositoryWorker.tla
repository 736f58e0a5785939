--------------------------- MODULE RepositoryWorker ---------------------------
(***************************************************************************)
(* The gateway's repository workers (src/Infrastructure/Process/           *)
(* RepositoryWorkerHost.ts, repository-worker-entry.ts) and the admission  *)
(* of heavy work (src/service/runtime-capacity.ts).  Workers are kept by   *)
(* repository scope and scopes share nothing, so one scope is modelled: its *)
(* entry in the gateway's map, the worker processes forked for it, the      *)
(* requests sent to them, and the idle timers that retire them.  A worker  *)
(* starts the command it is asked for and alone listens to its child       *)
(* (module AsyncCommandRun has that life in detail); here a run is started, *)
(* runs, and is recorded by its worker or, once that is gone, by a status  *)
(* call of the gateway.                                                    *)
(***************************************************************************)
EXTENDS Integers, FiniteSets

CONSTANTS Request, \* calls of startRepositoryWorkerCommand
          Worker,  \* worker processes that may be forked
          Verdict, \* runtime-capacity observations, see Observation
          Mortal,  \* workers that may crash (bound)
          Slow,    \* requests the worker may answer late or not at all (bound)
          None

Level == {"NORMAL", "WATCH", "WARN", "CRITICAL"}
Stability == {"NORMAL", "DEGRADED", "UNSTABLE", "CRITICAL"}
Observation == [watchdogFresh : BOOLEAN, ownershipConsistent : BOOLEAN,
                telemetryFresh : BOOLEAN, pressure : Level, stability : Stability,
                failures : BOOLEAN, enginePressure : {"NORMAL", "HIGH"}]

ASSUME WorkerAssumption == /\ Verdict \subseteq Observation
                           /\ Mortal \subseteq Worker /\ Slow \subseteq Request
                           /\ None \notin Worker

VARIABLES registered, \* workers: the map's entry for the scope
          proc,       \* each worker process, as far as it has come
          connected,  \* workers whose IPC channel the gateway sees open
          pending,    \* requests each worker record waits for
          idle,       \* workers whose idle timer is set
          condemned,  \* retired workers, to be killed in a second
          lastOk,     \* workers whose last settled request succeeded (a ghost)
          overtaken,  \* an exit was handled after a successor was there (a ghost)
          req,        \* outcome of each request
          to,         \* the worker a request was sent to
          inbox, outbox, \* messages on their way to a worker and back
          run,        \* the child of each request's run
          rec         \* status in the run's record

vars == <<registered, proc, connected, pending, idle, condemned, lastOk, overtaken,
          req, to, inbox, outbox, run, rec>>
host == <<registered, proc, connected, idle, condemned, overtaken>>

Settled == {"waiting", "ok", "error", "timeout", "exited", "unsent"}
TypeOK == /\ registered \in Worker \cup {None}
          /\ proc \in [Worker -> {"none", "live", "dead", "gone"}]
          /\ connected \in SUBSET Worker
          /\ pending \in [Worker -> SUBSET Request]
          /\ idle \in SUBSET Worker /\ condemned \in SUBSET Worker
          /\ lastOk \in SUBSET Worker /\ overtaken \in BOOLEAN
          /\ req \in [Request -> {"new", "sent"} \cup Settled]
          /\ to \in [Request -> Worker \cup {None}]
          /\ inbox \in SUBSET Request /\ outbox \in SUBSET (Request \X BOOLEAN)
          /\ run \in [Request -> {"none", "live", "ok", "bad"}]
          /\ rec \in [Request -> {"none", "running", "succeeded", "failed"}]

Init == /\ registered = None
        /\ proc = [w \in Worker |-> "none"] /\ connected = {}
        /\ pending = [w \in Worker |-> {}]
        /\ idle = {} /\ condemned = {} /\ lastOk = {} /\ overtaken = FALSE
        /\ req = [r \in Request |-> "new"] /\ to = [r \in Request |-> None]
        /\ inbox = {} /\ outbox = {}
        /\ run = [r \in Request |-> "none"] /\ rec = [r \in Request |-> "none"]
-----------------------------------------------------------------------------
\* evaluateRuntimeCapacity: the gravest of the reasons decides.
Rank == [d \in {"ADMIT", "ADMIT_LIGHT_ONLY", "WAIT", "DRAIN"} |->
            CASE d = "ADMIT" -> 0 [] d = "ADMIT_LIGHT_ONLY" -> 1 [] d = "WAIT" -> 2 [] d = "DRAIN" -> 3]

Reasons(o) ==
    {"ADMIT"}
    \cup {d \in {"DRAIN"} : ~o.watchdogFresh \/ ~o.ownershipConsistent
                            \/ o.pressure = "CRITICAL" \/ o.stability = "CRITICAL"}
    \cup {d \in {"WAIT"} : ~o.telemetryFresh \/ o.failures
                           \/ o.pressure = "WARN" \/ o.stability = "UNSTABLE"}
    \cup {d \in {"ADMIT_LIGHT_ONLY"} : o.pressure = "WATCH" \/ o.stability = "DEGRADED"
                                       \/ o.enginePressure = "HIGH"}

Decision(o) == CHOOSE d \in Reasons(o) : \A e \in Reasons(o) : Rank[e] <= Rank[d]

AllowsHeavyWork(o) == Decision(o) = "ADMIT"
-----------------------------------------------------------------------------
\* startRepositoryWorkerCommand

\* Mutant: the refusal is answered with the decision in place of the status.
RefuseWithDecision(r, o) == /\ req[r] = "new" /\ ~AllowsHeavyWork(o)
                            /\ req' = [req EXCEPT ![r] = Decision(o)]
                            /\ UNCHANGED <<host, pending, lastOk, to, inbox, outbox, run, rec>>

\* REPOSITORY_WORKER_WAITING_RUNTIME_CAPACITY
Refuse(r, o) == /\ req[r] = "new" /\ ~AllowsHeavyWork(o)
                /\ req' = [req EXCEPT ![r] = "waiting"]
                /\ UNCHANGED <<host, pending, lastOk, to, inbox, outbox, run, rec>>

\* ensureWorker keeps the worker of the map while its channel is open and its
\* exit unknown.
Usable == registered # None /\ registered \in connected /\ proc[registered] # "gone"

\* The request r goes to w: it is waited for, or, when send() says that the
\* channel is backed up, given up at once although it is on its way.
Send(r, w) == /\ to' = [to EXCEPT ![r] = w]
              /\ idle' = idle \ {w}
              /\ inbox' = inbox \cup {r}
              /\ \/ /\ pending' = [pending EXCEPT ![w] = @ \cup {r}]
                    /\ req' = [req EXCEPT ![r] = "sent"]
                    /\ UNCHANGED lastOk
                 \/ /\ r \in Slow
                    /\ req' = [req EXCEPT ![r] = "unsent"]
                    /\ lastOk' = lastOk \ {w}
                    /\ UNCHANGED pending
              /\ UNCHANGED <<condemned, overtaken, outbox, run, rec>>

Reuse(r, o) == /\ req[r] = "new" /\ AllowsHeavyWork(o) /\ Usable
               /\ Send(r, registered)
               /\ UNCHANGED <<registered, proc, connected>>

\* Mutant: a worker is forked whether or not there is one.
ForkAlways(r, o, w) == /\ req[r] = "new" /\ AllowsHeavyWork(o)
                       /\ proc[w] = "none"
                       /\ proc' = [proc EXCEPT ![w] = "live"]
                       /\ connected' = connected \cup {w}
                       /\ registered' = w
                       /\ Send(r, w)

Fork(r, o, w) == /\ req[r] = "new" /\ AllowsHeavyWork(o) /\ ~Usable
                 /\ proc[w] = "none"
                 /\ proc' = [proc EXCEPT ![w] = "live"]
                 /\ connected' = connected \cup {w}
                 /\ registered' = w
                 /\ Send(r, w)

Settle(r, w, outcome) == /\ pending' = [pending EXCEPT ![w] = @ \ {r}]
                         /\ req' = [req EXCEPT ![r] = outcome]
                         /\ lastOk' = IF outcome = "ok" THEN lastOk \cup {w} ELSE lastOk \ {w}

\* Mutant: the timer forgets the request and rejects nobody.
TimeoutSilent(r) == /\ r \in Slow /\ req[r] = "sent" /\ r \in pending[to[r]]
                    /\ pending' = [pending EXCEPT ![to[r]] = @ \ {r}]
                    /\ lastOk' = lastOk \ {to[r]}
                    /\ UNCHANGED <<host, req, to, inbox, outbox, run, rec>>

\* Thirty seconds without an answer.
Timeout(r) == /\ r \in Slow /\ req[r] = "sent" /\ r \in pending[to[r]]
              /\ Settle(r, to[r], "timeout")
              /\ UNCHANGED <<host, to, inbox, outbox, run, rec>>

\* handleWorkerMessage; after a success scheduleIdleRetirement.  An answer to a
\* request that is not waited for any more is dropped.
Message(r, ok) ==
    LET w == to[r]
    IN /\ <<r, ok>> \in outbox /\ w \in connected
       /\ outbox' = outbox \ {<<r, ok>>}
       /\ IF r \in pending[w]
          THEN /\ Settle(r, w, IF ok THEN "ok" ELSE "error")
               /\ idle' = IF ok THEN idle \cup {w} ELSE idle
          ELSE UNCHANGED <<pending, req, lastOk, idle>>
       /\ UNCHANGED <<registered, proc, connected, condemned, overtaken, to, inbox, run, rec>>
-----------------------------------------------------------------------------
\* workers.delete(scopeId), on behalf of w: whichever worker is there.
Deregister(w) == /\ registered' = None
                 /\ overtaken' = (overtaken \/ registered \notin {w, None})

\* Mutant: the pending requests are not looked at.
RetireBusy(w) == /\ w \in idle
                 /\ idle' = idle \ {w}
                 /\ Deregister(w)
                 /\ connected' = connected \ {w}
                 /\ condemned' = condemned \cup {w}
                 /\ UNCHANGED <<proc, pending, lastOk, req, to, inbox, outbox, run, rec>>

\* Mutant: the worker is disconnected and not killed.
RetireUnkilled(w) == /\ w \in idle
                     /\ idle' = idle \ {w}
                     /\ IF pending[w] = {}
                        THEN Deregister(w) /\ connected' = connected \ {w}
                        ELSE UNCHANGED <<registered, overtaken, connected>>
                     /\ UNCHANGED <<condemned, proc, pending, lastOk, req, to, inbox, outbox, run, rec>>

\* The idle timer, 30 seconds after a success: a worker with a request pending
\* is left alone, and the timer is not set again.
Retire(w) == /\ w \in idle
             /\ idle' = idle \ {w}
             /\ IF pending[w] = {}
                THEN /\ Deregister(w)
                     /\ connected' = connected \ {w}
                     /\ condemned' = condemned \cup {w}
                ELSE UNCHANGED <<registered, overtaken, connected, condemned>>
             /\ UNCHANGED <<proc, pending, lastOk, req, to, inbox, outbox, run, rec>>

\* A retired worker goes: by itself when nothing holds it, by the kill otherwise.
Killed(w) == /\ w \in condemned /\ proc[w] = "live"
             /\ proc' = [proc EXCEPT ![w] = "dead"]
             /\ UNCHANGED <<registered, connected, idle, condemned, overtaken, pending, lastOk,
                            req, to, inbox, outbox, run, rec>>

Crash(w) == /\ w \in Mortal /\ proc[w] = "live"
            /\ proc' = [proc EXCEPT ![w] = "dead"]
            /\ UNCHANGED <<registered, connected, idle, condemned, overtaken, pending, lastOk,
                           req, to, inbox, outbox, run, rec>>

\* The gateway sees the channel closed, once what was in it has been read.
ChannelClosed(w) == /\ w \in connected /\ proc[w] \in {"dead", "gone"}
                    /\ \A m \in outbox : to[m[1]] # w
                    /\ connected' = connected \ {w}
                    /\ UNCHANGED <<registered, proc, idle, condemned, overtaken, pending, lastOk,
                                   req, to, inbox, outbox, run, rec>>

\* The exit event (and the error event, whose handler does the same).
ExitEvent(w) == /\ proc[w] = "dead"
                /\ proc' = [proc EXCEPT ![w] = "gone"]
                /\ Deregister(w)
                /\ idle' = idle \ {w}
                /\ req' = [r \in Request |-> IF r \in pending[w] THEN "exited" ELSE req[r]]
                /\ lastOk' = IF pending[w] # {} THEN lastOk \ {w} ELSE lastOk
                /\ pending' = [pending EXCEPT ![w] = {}]
                /\ UNCHANGED <<connected, condemned, to, inbox, outbox, run, rec>>
-----------------------------------------------------------------------------
\* The worker: a request starts a run on record, or is refused a heavy slot
\* (an answer as any other), or throws.
Begin(r) == /\ r \in inbox /\ proc[to[r]] = "live"
            /\ inbox' = inbox \ {r}
            /\ \/ /\ run' = [run EXCEPT ![r] = "live"] /\ rec' = [rec EXCEPT ![r] = "running"]
                  /\ outbox' = outbox \cup {<<r, TRUE>>}
               \/ /\ \E ok \in BOOLEAN : outbox' = outbox \cup {<<r, ok>>}
                  /\ UNCHANGED <<run, rec>>
            /\ UNCHANGED <<host, pending, lastOk, req, to>>

\* The child of a run ends by itself.  A live worker hears the close event and
\* records the end; a child whose worker has gone has lost the reader of its
\* output too, and may fail for that.
ChildEnds(r) == /\ run[r] = "live"
                /\ \E end \in {"ok", "bad"} :
                       /\ run' = [run EXCEPT ![r] = end]
                       /\ rec' = IF proc[to[r]] # "live" THEN rec
                                 ELSE [rec EXCEPT ![r] = IF end = "ok" THEN "succeeded" ELSE "failed"]
                /\ UNCHANGED <<host, pending, lastOk, req, to, inbox, outbox>>

\* A status call in the gateway: process_not_running.
Status(r) == /\ run[r] \in {"ok", "bad"} /\ rec[r] = "running"
             /\ rec' = [rec EXCEPT ![r] = "failed"]
             /\ UNCHANGED <<host, pending, lastOk, req, to, inbox, outbox, run>>

Next == \/ \E r \in Request : \/ \E o \in Verdict : \/ Refuse(r, o) \/ Reuse(r, o)
                                                     \/ \E w \in Worker : Fork(r, o, w)
                              \/ Timeout(r) \/ Begin(r) \/ ChildEnds(r) \/ Status(r)
                              \/ \E ok \in BOOLEAN : Message(r, ok)
        \/ \E w \in Worker : Retire(w) \/ Killed(w) \/ Crash(w) \/ ChannelClosed(w) \/ ExitEvent(w)

Spec == Init /\ [][Next]_vars

\* Timers fire, events are delivered, and a live worker answers.
FairSpec == /\ Spec
            /\ \A r \in Request : /\ WF_vars(Timeout(r)) /\ WF_vars(Begin(r))
                                  /\ \A ok \in BOOLEAN : WF_vars(Message(r, ok))
            /\ \A w \in Worker : WF_vars(Retire(w)) /\ WF_vars(Killed(w)) /\ WF_vars(ExitEvent(w))
-----------------------------------------------------------------------------
\* The idle timer of a worker and the requests sent to it, in whatever order:
\* no request that is waited for is with a worker that has been retired.
RetirementCutsNobody == \A r \in Request : req[r] = "sent" => to[r] \notin condemned

\* "Fork one worker process per active canonical repository scope": until the
\* exit or the retirement of a worker deletes the entry of its successor, every
\* live worker that has not been retired is the one in the map.
OneWorker == ~overtaken =>
    \A w \in Worker : proc[w] = "live" /\ w \notin condemned => w = registered

\* Every request sent is settled: answered, timed out, or rejected with the
\* worker's exit.
RequestsSettle == \A r \in Request : req[r] = "sent" ~> req[r] # "sent"

\* "Retire idle workers after a short idle period", of a worker whose last
\* request succeeded: it goes or gets another request, even if the map has lost
\* it.  (After a request that failed or timed out no idle timer is set.)
WorkersRetire == \A w \in Worker :
    proc[w] = "live" /\ w \in lastOk /\ pending[w] = {} ~>
        proc[w] # "live" \/ w \notin lastOk \/ pending[w] # {}
=============================================================================
