------------------------ MODULE RepositoryWorkerProofs ------------------------
(***************************************************************************)
(* For every number of requests, workers and capacity verdicts: a worker   *)
(* that is retired has no request waited for, and one worker serves the    *)
(* repository until an exit or a retirement deletes its successor.         *)
(***************************************************************************)
EXTENDS RepositoryWorker, TLAPS

\* The requests that are waited for are those of the pending maps.
PendingInv == /\ \A w \in Worker : \A r \in pending[w] : to[r] = w /\ req[r] = "sent"
              /\ \A r \in Request : req[r] = "sent" => to[r] \in Worker /\ r \in pending[to[r]]

\* A retired worker is cut off with nothing pending; timers and channels are of
\* workers that have been forked.
RetiredInv == /\ \A w \in condemned : pending[w] = {} /\ w \notin connected
              /\ \A w \in condemned \cup connected \cup idle : proc[w] # "none"

\* Only a worker that has gone or was retired is without a channel.
ChannelInv == \A w \in Worker : proc[w] = "live" /\ w \notin condemned => w \in connected

IInv == TypeOK /\ PendingInv /\ RetiredInv /\ ChannelInv /\ OneWorker

LEMMA Initially == Init => IInv
<1> SUFFICES ASSUME Init PROVE IInv
  OBVIOUS
<1>1. TypeOK
  BY DEF Init, TypeOK
<1>2. PendingInv /\ RetiredInv /\ ChannelInv /\ OneWorker
  BY DEF Init, PendingInv, RetiredInv, ChannelInv, OneWorker
<1> QED BY <1>1, <1>2 DEF IInv

-----------------------------------------------------------------------------
\* Sending a request to a worker that is connected.
LEMMA Sending ==
  ASSUME TypeOK, PendingInv, NEW r \in Request, NEW w \in Worker, req[r] = "new", Send(r, w)
  PROVE  /\ PendingInv'
         /\ \A v \in Worker \ {w} : pending'[v] = pending[v]
         /\ pending' \in [Worker -> SUBSET Request] /\ lastOk' \in SUBSET Worker
         /\ req' \in [Request -> {"new", "sent"} \cup Settled]
         /\ to' \in [Request -> Worker \cup {None}]
         /\ idle' \in SUBSET Worker /\ inbox' \in SUBSET Request
         /\ idle' \subseteq idle
         /\ UNCHANGED <<condemned, overtaken, outbox, run, rec>>
BY DEF Send, TypeOK, PendingInv, Settled

LEMMA ReuseStep ==
  ASSUME IInv, NEW r \in Request, NEW o, Reuse(r, o) PROVE IInv'
<1> USE DEF IInv
<1>1. registered \in Worker /\ registered \in connected /\ req[r] = "new" /\ Send(r, registered)
  BY DEF Reuse, Usable, TypeOK
<1>2. UNCHANGED <<registered, proc, connected>>
  BY DEF Reuse
<1>3. registered \notin condemned
  BY <1>1 DEF RetiredInv
<1>4. TypeOK'
  BY <1>1, <1>2, Sending DEF TypeOK
<1>5. PendingInv' /\ RetiredInv'
  BY <1>1, <1>2, <1>3, Sending DEF RetiredInv, TypeOK
<1>6. ChannelInv' /\ OneWorker'
  BY <1>1, <1>2, Sending DEF ChannelInv, OneWorker, TypeOK
<1> QED BY <1>4, <1>5, <1>6

LEMMA ForkStep ==
  ASSUME IInv, NEW r \in Request, NEW o, NEW w \in Worker, Fork(r, o, w) PROVE IInv'
<1> USE DEF IInv
<1>1. req[r] = "new" /\ Send(r, w) /\ proc[w] = "none" /\ ~Usable
  BY DEF Fork
<1>2. /\ proc' = [proc EXCEPT ![w] = "live"] /\ connected' = connected \cup {w}
      /\ registered' = w
  BY DEF Fork
<1>3. w \notin condemned
  BY <1>1 DEF RetiredInv, TypeOK
<1>4. TypeOK'
  BY <1>1, <1>2, Sending DEF TypeOK
<1>5. PendingInv' /\ RetiredInv'
  BY <1>1, <1>2, <1>3, Sending DEF RetiredInv, TypeOK
<1>6. ChannelInv'
  BY <1>1, <1>2, Sending DEF ChannelInv, TypeOK
<1>7. OneWorker'
  <2> SUFFICES ASSUME ~overtaken', NEW v \in Worker, proc'[v] = "live", v \notin condemned', v # w
               PROVE FALSE
    BY <1>2 DEF OneWorker
  <2>1. ~overtaken /\ proc[v] = "live" /\ v \notin condemned
    BY <1>1, <1>2, Sending DEF TypeOK
  <2>2. v = registered /\ v \in connected
    BY <2>1 DEF OneWorker, ChannelInv
  <2> QED BY <1>1, <2>1, <2>2, WorkerAssumption DEF Usable
<1> QED BY <1>4, <1>5, <1>6, <1>7

LEMMA SettleStep ==
  ASSUME IInv, NEW r \in Request,
         \/ \E o \in Verdict : Refuse(r, o)
         \/ Timeout(r)
         \/ \E ok \in BOOLEAN : Message(r, ok)
  PROVE IInv'
<1> USE DEF IInv
<1>1. ASSUME NEW o \in Verdict, Refuse(r, o) PROVE IInv'
  BY <1>1 DEF Refuse, host, TypeOK, PendingInv, RetiredInv, ChannelInv, OneWorker, Settled
<1>2. CASE Timeout(r)
  <2>1. TypeOK' BY <1>2 DEF Timeout, Settle, host, TypeOK, PendingInv, Settled
  <2>2. PendingInv' BY <1>2 DEF Timeout, Settle, TypeOK, PendingInv
  <2>3. RetiredInv' BY <1>2 DEF Timeout, Settle, host, TypeOK, RetiredInv, PendingInv
  <2>4. ChannelInv' /\ OneWorker' BY <1>2 DEF Timeout, host, ChannelInv, OneWorker
  <2> QED BY <2>1, <2>2, <2>3, <2>4
<1>3. ASSUME NEW ok \in BOOLEAN, Message(r, ok) PROVE IInv'
  <2>1. TypeOK'
    BY <1>3 DEF Message, Settle, TypeOK, PendingInv, Settled
  <2>2. PendingInv'
    BY <1>3 DEF Message, Settle, TypeOK, PendingInv
  <2>3. RetiredInv'
    BY <1>3 DEF Message, Settle, TypeOK, RetiredInv, PendingInv
  <2>4. ChannelInv' /\ OneWorker'
    BY <1>3 DEF Message, ChannelInv, OneWorker
  <2> QED BY <2>1, <2>2, <2>3, <2>4
<1> QED BY <1>1, <1>2, <1>3

\* A worker answers the request it was sent.
LEMMA Answered ==
  ASSUME TypeOK, NEW r \in Request, Begin(r)
  PROVE  /\ outbox' \in SUBSET (Request \X BOOLEAN)
         /\ UNCHANGED <<host, pending, lastOk, req, to>> /\ inbox' = inbox \ {r}
         /\ \/ run' = [run EXCEPT ![r] = "live"] /\ rec' = [rec EXCEPT ![r] = "running"]
            \/ UNCHANGED <<run, rec>>
<1>1. PICK ok \in BOOLEAN : outbox' = outbox \cup {<<r, ok>>}
  BY Zenon DEF Begin
<1>2. <<r, ok>> \in Request \X BOOLEAN
  OBVIOUS
<1>3. outbox' \in SUBSET (Request \X BOOLEAN)
  BY <1>1, <1>2 DEF TypeOK
<1>4. /\ UNCHANGED <<host, pending, lastOk, req, to>> /\ inbox' = inbox \ {r}
      /\ \/ run' = [run EXCEPT ![r] = "live"] /\ rec' = [rec EXCEPT ![r] = "running"]
         \/ UNCHANGED <<run, rec>>
  BY Zenon DEF Begin
<1> QED BY <1>3, <1>4

LEMMA RunStep ==
  ASSUME IInv, NEW r \in Request, Begin(r) \/ ChildEnds(r) \/ Status(r)
  PROVE IInv'
<1> USE DEF IInv, host, TypeOK, PendingInv, RetiredInv, ChannelInv, OneWorker
<1>1. CASE Begin(r)
  <2>1. /\ outbox' \in SUBSET (Request \X BOOLEAN)
        /\ UNCHANGED <<host, pending, lastOk, req, to>> /\ inbox' = inbox \ {r}
        /\ \/ run' = [run EXCEPT ![r] = "live"] /\ rec' = [rec EXCEPT ![r] = "running"]
           \/ UNCHANGED <<run, rec>>
    BY <1>1, Answered
  <2> QED BY <2>1
<1>2. CASE ChildEnds(r)
  BY <1>2 DEF ChildEnds
<1>3. CASE Status(r)
  BY <1>3 DEF Status
<1> QED BY <1>1, <1>2, <1>3

LEMMA WorkerStep ==
  ASSUME IInv, NEW w \in Worker,
         Retire(w) \/ Killed(w) \/ Crash(w) \/ ChannelClosed(w) \/ ExitEvent(w)
  PROVE IInv'
<1> USE DEF IInv
<1>1. CASE Retire(w)
  <2>1. TypeOK' BY <1>1, WorkerAssumption DEF Retire, Deregister, TypeOK
  <2>2. PendingInv' BY <1>1 DEF Retire, PendingInv
  <2>3. RetiredInv' BY <1>1 DEF Retire, RetiredInv, TypeOK
  <2>4. ChannelInv' BY <1>1 DEF Retire, ChannelInv
  <2>5. OneWorker' BY <1>1, WorkerAssumption DEF Retire, Deregister, OneWorker, TypeOK
  <2> QED BY <2>1, <2>2, <2>3, <2>4, <2>5
<1>2. CASE Killed(w) \/ Crash(w)
  BY <1>2 DEF Killed, Crash, TypeOK, PendingInv, RetiredInv, ChannelInv, OneWorker
<1>3. CASE ChannelClosed(w)
  BY <1>3 DEF ChannelClosed, TypeOK, PendingInv, RetiredInv, ChannelInv, OneWorker
<1>4. CASE ExitEvent(w)
  <2>1. TypeOK' BY <1>4 DEF ExitEvent, Deregister, TypeOK, Settled
  <2>2. PendingInv' BY <1>4 DEF ExitEvent, PendingInv, TypeOK
  <2>3. RetiredInv' BY <1>4 DEF ExitEvent, RetiredInv, TypeOK
  <2>4. ChannelInv' BY <1>4 DEF ExitEvent, ChannelInv, TypeOK
  <2>5. OneWorker' BY <1>4, WorkerAssumption DEF ExitEvent, Deregister, OneWorker, TypeOK
  <2> QED BY <2>1, <2>2, <2>3, <2>4, <2>5
<1> QED BY <1>1, <1>2, <1>3, <1>4

LEMMA Inductive == IInv /\ [Next]_vars => IInv'
<1> SUFFICES ASSUME IInv, [Next]_vars PROVE IInv'
  OBVIOUS
<1>1. CASE UNCHANGED vars
  BY <1>1 DEF vars, IInv, TypeOK, PendingInv, RetiredInv, ChannelInv, OneWorker
<1>2. CASE Next
  BY <1>2, ReuseStep, ForkStep, SettleStep, RunStep, WorkerStep DEF Next
<1> QED BY <1>1, <1>2

LEMMA Cut == IInv => RetirementCutsNobody
BY DEF IInv, PendingInv, RetiredInv, RetirementCutsNobody

LEMMA Always == Spec => []IInv
BY Initially, Inductive, PTL DEF Spec

-----------------------------------------------------------------------------
\* The types of the gateway's maps and of the messages.
THEOREM TypeCorrect == Spec => []TypeOK
<1>1. IInv => TypeOK BY DEF IInv
<1> QED BY Always, <1>1, PTL

\* The idle timer retires no worker whose answer somebody waits for, and nobody
\* sends a request to a worker that has been retired.
THEOREM NobodyIsCut == Spec => []RetirementCutsNobody
BY Always, Cut, PTL

\* Until an exit or a retirement deletes the entry of another worker, one worker
\* serves the repository.
THEOREM OneWorkerServes == Spec => []OneWorker
<1>1. IInv => OneWorker BY DEF IInv
<1> QED BY Always, <1>1, PTL
=============================================================================
