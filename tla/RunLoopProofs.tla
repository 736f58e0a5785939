---------------------------- MODULE RunLoopProofs ----------------------------
(***************************************************************************)
(* For any daemons, pages, inputs, bounds on steps and number of restarts: *)
(* a daemon that was asked to stop begins at most the step whose check was *)
(* under way; and, as long as no two actors are at the run at once, the    *)
(* map and the state file tell the truth about it.                         *)
(***************************************************************************)
EXTENDS RunLoop, TLAPS

\* What an actor has for itself: its input, and the counts that bound its steps.
LocalInv(a) ==
    /\ AtWork(a) \/ pc[a] \in {"entering", "read"} => input[a] \in Asked
    /\ pc[a] \in {"write", "wait", "waited"} /\ step[a].next = "WAIT_AND_PROBE"
          => at[a].iteration < MaxIterations
CountInv(d) ==
    /\ pc[d] # "read"
    /\ pc[d] \in {"new", "entering", "begin", "check", "stat", "clear", "probe", "write"}
          => used[d] = at[d].iteration
    /\ pc[d] \in {"wait", "waited"} => used[d] = at[d].iteration + 1
    /\ pc[d] = "waited" => step[d].next = "WAIT_AND_PROBE"
    /\ pc[d] \in {"stat", "clear", "probe", "write"} => used[d] < MaxAuto

Locals == /\ \A a \in Actor : LocalInv(a)
          /\ \A d \in Daemon : CountInv(d)
          /\ pc[Recovery] \in {"new", "read", "probe", "write"}

\* A daemon that has begun a step since it was flagged is before no other.
LateInv == \A d \in late : d \in flag /\ pc[d] \notin {"stat", "clear"}

\* Who is at the run, as long as no two have been.
LastInv == last # None => pc[last] \notin {"new", "entering"}
AloneInv == /\ \A d \in Daemon : (AtWork(d) <=> map = d) /\ (AtWork(d) => last = d)
            /\ AtWork(Recovery) => last # None /\ pc[last] = "dead"

\* What the state file then says of the latest daemon.
Whole == file \notin {None, Torn}
FileInv ==
    /\ last = None => file = None
    /\ last # None =>
        /\ pc[last] \in {"begin", "write", "final", "fatal"} => file = Torn
        /\ pc[last] \in {"check", "stat", "clear", "probe", "wait", "waited", "dead"} /\ Whole => file.active /\ ~file.completed
        /\ pc[last] \in {"drop", "over"} /\ Whole => ~file.active

IInv == TypeOK /\ Locals /\ LateInv /\ LastInv /\ (~shared => AloneInv /\ FileInv)

-----------------------------------------------------------------------------
LEMMA TypeInit == Init => TypeOK
<1>1. 0 \in 0 .. MaxIterations /\ 0 \in 0 .. MaxAuto /\ 0 \in 0 .. MaxCrashes
  BY RunLoopAssumption
<1>2. Start0 \in Position BY <1>1 DEF Start0, Position
<1>3. NoStep \in Outcome BY DEF NoStep, Outcome
<1> QED BY <1>1, <1>2, <1>3 DEF Init, TypeOK, Place

\* The planner lets a loop wait only while it has iterations left.
LEMMA PlanWaits ==
  ASSUME NEW i \in 0 .. MaxIterations, NEW decision
  PROVE  /\ Plan(i, decision) \in {"STOP_FOR_USER", "RUN_PRE_ASK_CAPTURE", "WAIT_AND_PROBE"}
         /\ Plan(i, decision) \in {"RUN_PRE_ASK_CAPTURE", "WAIT_AND_PROBE"} => i < MaxIterations
<1>1. i \in Int /\ MaxIterations \in Nat BY RunLoopAssumption
<1> QED BY <1>1 DEF Plan

\* What a step comes to.
LEMMA StepOutcome ==
  ASSUME TypeOK, NEW a \in Actor, Step(a)
  PROVE  /\ step' \in [Actor -> Outcome]
         /\ \A b \in Actor \ {a} : step'[b] = step[b]
         /\ step'[a].next = "WAIT_AND_PROBE" => at[a].iteration < MaxIterations
<1>1. PICK p \in Page, q \in Page, m \in Moment, n \in Moment :
        LET plan == Plan(at[a].iteration, WatchNext(p, at[a].phase, at[a].seen, m))
            asks == plan = "RUN_PRE_ASK_CAPTURE" /\ input[a].preAsk
        IN \E preAsk \in IF asks THEN PreAsk(q, p.text, n) ELSE {"none"} :
              Becomes(a, [next |-> CASE preAsk = "none" -> plan [] preAsk = "ready" -> "RETURN_TO_CHAT"
                                        [] preAsk \in {"early", "blocked"} -> "WAIT_AND_PROBE",
                            preAsk |-> preAsk,
                            seen |-> IF p.tab = "ok" THEN p.text ELSE at[a].seen])
  BY DEF Step
<1> DEFINE plan == Plan(at[a].iteration, WatchNext(p, at[a].phase, at[a].seen, m))
           asks == plan = "RUN_PRE_ASK_CAPTURE" /\ input[a].preAsk
           seen == IF p.tab = "ok" THEN p.text ELSE at[a].seen
<1>2. /\ at[a] \in Position /\ at[a].iteration \in 0 .. MaxIterations
      /\ at[a].seen \in Texts \cup {None} /\ p.text \in Texts
  BY DEF TypeOK, Position, Texts
<1>3. /\ plan \in {"STOP_FOR_USER", "RUN_PRE_ASK_CAPTURE", "WAIT_AND_PROBE"}
      /\ plan \in {"RUN_PRE_ASK_CAPTURE", "WAIT_AND_PROBE"} => at[a].iteration < MaxIterations
  BY <1>2, PlanWaits
<1>4. seen \in Texts \cup {None} BY <1>2
<1> HIDE DEF plan, seen
<1>5. PICK preAsk \in IF asks THEN PreAsk(q, p.text, n) ELSE {"none"} :
        Becomes(a, [next |-> CASE preAsk = "none" -> plan [] preAsk = "ready" -> "RETURN_TO_CHAT"
                                  [] preAsk \in {"early", "blocked"} -> "WAIT_AND_PROBE",
                    preAsk |-> preAsk, seen |-> seen])
  BY <1>1 DEF plan, seen
<1>6. /\ preAsk \in {"none", "early", "blocked", "ready"}
      /\ preAsk # "none" => plan = "RUN_PRE_ASK_CAPTURE"
  BY <1>5 DEF PreAsk
<1> DEFINE s == [next |-> CASE preAsk = "none" -> plan [] preAsk = "ready" -> "RETURN_TO_CHAT"
                            [] preAsk \in {"early", "blocked"} -> "WAIT_AND_PROBE",
                 preAsk |-> preAsk, seen |-> seen]
<1>7. s.next = IF preAsk = "none" THEN plan
               ELSE IF preAsk = "ready" THEN "RETURN_TO_CHAT" ELSE "WAIT_AND_PROBE"
  BY <1>6
<1>8. s \in Outcome BY <1>3, <1>4, <1>6, <1>7 DEF Outcome
<1>9. s.next = "WAIT_AND_PROBE" => at[a].iteration < MaxIterations BY <1>3, <1>6, <1>7
<1>10. step' = [step EXCEPT ![a] = s] BY <1>5 DEF Becomes
<1> HIDE DEF s
<1> QED BY <1>8, <1>9, <1>10 DEF TypeOK

LEMMA PlaceType ==
  ASSUME TypeOK, NEW a \in Actor, NEW i \in 0 .. MaxIterations
  PROVE  NextAt(a, i) \in Position
BY DEF TypeOK, NextAt, Position, Outcome

LEMMA StateType ==
  ASSUME NEW a \in Actor, input[a] \in Asked, NEW p \in Position, NEW active \in BOOLEAN,
         Fills(a, p, active)
  PROVE  file' \in State /\ file'.active = active /\ file'.completed = ~active
BY DEF Fills, State

LEMMA Start0Type == Start0 \in Position /\ NoStep \in Outcome
<1>1. 0 \in 0 .. MaxIterations BY RunLoopAssumption
<1> QED BY <1>1 DEF Start0, Position, NoStep, Outcome

LEMMA ForgetsType ==
  ASSUME TypeOK, NEW S \in SUBSET Actor, Forgets(S)
  PROVE  /\ input' \in [Actor -> Asked \cup {None}] /\ at' \in [Actor -> Position]
         /\ used' \in [Actor -> 0 .. MaxAuto] /\ step' \in [Actor -> Outcome]
         /\ \A a \in Actor : a \in S => at'[a] = Start0 /\ used'[a] = 0 /\ step'[a] = NoStep
         /\ \A a \in Actor \ S : /\ at'[a] = at[a] /\ used'[a] = used[a] /\ step'[a] = step[a]
                                 /\ input'[a] = input[a]
<1>1. 0 \in 0 .. MaxAuto BY RunLoopAssumption
<1> QED BY <1>1, Start0Type DEF TypeOK, Forgets

\* No step of a daemon leaves the type of a variable ...
LEMMA ServeTypes == ASSUME TypeOK, Locals, NEW d \in Daemon, Serve(d) \/ Throw(d) PROVE TypeOK'
<1>0. /\ d \in Actor /\ LocalInv(d) /\ CountInv(d) /\ Start0 \in Position
      /\ at[d] \in Position /\ at[d].iteration \in 0 .. MaxIterations
      /\ used[d] \in 0 .. MaxAuto /\ MaxAuto \in Nat /\ MaxIterations \in Nat
  BY Start0Type, RunLoopAssumption DEF Actor, Locals, TypeOK, Position
<1> USE <1>0 DEF TypeOK, Goes, Place, Running, disk, calls, ghost, local
<1>1. CASE Register(d)
  <2>1. input[d].phase \in {"startup", "after_send", "reply_watch"}
    BY <1>1 DEF Register, LocalInv, Asked
  <2>2. [at[d] EXCEPT !.phase = input[d].phase] \in Position BY <2>1 DEF Position
  <2>3. shared' \in BOOLEAN BY <1>1, Zenon DEF Register
  <2>4. at' \in [Actor -> Position] BY <1>1, <2>2 DEF Register
  <2>5. pc' \in [Actor -> Place] BY <1>1 DEF Register
  <2> QED BY <1>1, <2>3, <2>4, <2>5 DEF Register
<1>2. CASE Began(d)
  <2>1. input[d] \in Asked BY <1>2 DEF Began, LocalInv, AtWork
  <2>2. [Start0 EXCEPT !.phase = at[d].phase] \in Position BY DEF Position
  <2>3. file' \in State BY <1>2, <2>1, <2>2, StateType DEF Began
  <2> QED BY <1>2, <2>3 DEF Began
<1>3. CASE Check(d) \/ Stat(d) \/ Begins(d) BY <1>3 DEF Check, Head, Stat, Begins
<1>4. CASE Step(d)
  <2>1. step' \in [Actor -> Outcome] BY <1>4, StepOutcome
  <2> QED BY <1>4, <2>1 DEF Step
<1>5. CASE Wrote(d)
  <2>1. input[d] \in Asked /\ used[d] < MaxAuto
    BY <1>5 DEF Wrote, LocalInv, CountInv, AtWork
  <2>2. file' \in State BY <1>5, <2>1, StateType DEF Wrote
  <2>3. used[d] + 1 \in 0 .. MaxAuto BY <2>1
  <2> QED BY <1>5, <2>2, <2>3 DEF Wrote
<1>6. CASE Stops(d) \/ Wait(d) BY <1>6 DEF Stops, Wait
<1>7. CASE Again(d)
  <2>1. used[d] \in 0 .. MaxIterations BY <1>7 DEF Again, LocalInv, CountInv
  <2>2. NextAt(d, used[d]) \in Position BY <2>1, PlaceType
  <2> QED BY <1>7, <2>2 DEF Again, Head
<1>8. CASE Finalized(d)
  <2>1. input[d] \in Asked BY <1>8 DEF Finalized, LocalInv, AtWork
  <2>2. file' \in State BY <1>8, <2>1, StateType DEF Finalized
  <2> QED BY <1>8, <2>2 DEF Finalized
<1>9. CASE Failed(d)
  <2>1. input[d] \in Asked BY <1>9 DEF Failed, LocalInv, AtWork
  <2>2. file' \in State BY <1>9, <2>1, StateType DEF Failed
  <2> QED BY <1>9, <2>2 DEF Failed
<1>10. CASE Drop(d) BY <1>10, ForgetsType DEF Drop
<1>11. CASE Throw(d) BY <1>11 DEF Throw
<1> QED BY <1>1, <1>2, <1>3, <1>4, <1>5, <1>6, <1>7, <1>8, <1>9, <1>10, <1>11 DEF Serve

\* ... nor does any other step.
LEMMA Typing == ASSUME TypeOK, Locals, [Next]_vars PROVE TypeOK'
<1>0. Recovery \in Actor /\ LocalInv(Recovery) BY DEF Actor, Locals
<1>1. ASSUME NEW d \in Daemon, Serve(d) \/ Throw(d) PROVE TypeOK' BY <1>1, ServeTypes
<1> USE <1>0 DEF TypeOK, Goes, Place, Running, disk, calls, ghost, local
<1>2. ASSUME NEW d \in Daemon, NEW i \in Input, Start(d, i) PROVE TypeOK'
  <2>1. i \in Asked /\ d \in Actor BY RunLoopAssumption DEF Actor
  <2> QED BY <1>2, <2>1 DEF Start
<1>3. CASE Step(Recovery)
  <2>1. step' \in [Actor -> Outcome] BY <1>3, StepOutcome
  <2> QED BY <1>3, <2>1 DEF Step
<1>4. CASE ReadState
  <2>1. file \in State BY <1>4 DEF ReadState
  <2>2. PICK override \in Input :
          input' = [input EXCEPT ![Recovery] = [file.input EXCEPT !.preAsk = override.preAsk]]
    BY <1>4 DEF ReadState
  <2>3. [file.input EXCEPT !.preAsk = override.preAsk] \in Asked /\ file.at \in Position
    BY <2>1, RunLoopAssumption DEF State, Asked
  <2>4. at' \in [Actor -> Position] /\ input' \in [Actor -> Asked \cup {None}]
    BY <1>4, <2>2, <2>3 DEF ReadState
  <2>5. pc' \in [Actor -> Place] BY <1>4 DEF ReadState
  <2> QED BY <1>4, <2>4, <2>5 DEF ReadState
<1>5. CASE Checkpointed
  <2>1. input[Recovery] \in Asked BY <1>5 DEF Checkpointed, LocalInv, AtWork
  <2>2. at[Recovery] \in Position /\ at[Recovery].iteration \in 0 .. MaxIterations
        /\ MaxIterations \in Nat
    BY RunLoopAssumption DEF Position
  <2>3. CASE step[Recovery].next = "WAIT_AND_PROBE"
    <3>1. at[Recovery].iteration + 1 \in 0 .. MaxIterations
      BY <1>5, <2>2, <2>3 DEF Checkpointed, LocalInv
    <3>2. NextAt(Recovery, at[Recovery].iteration + 1) \in Position BY <3>1, PlaceType
    <3>3. file' \in State BY <1>5, <2>1, <2>3, <3>2, StateType DEF Checkpointed
    <3> QED BY <1>5, <3>3, ForgetsType DEF Checkpointed
  <2>4. CASE step[Recovery].next # "WAIT_AND_PROBE"
    <3>1. file' \in State BY <1>5, <2>1, <2>2, <2>4, StateType DEF Checkpointed
    <3> QED BY <1>5, <3>1, ForgetsType DEF Checkpointed
  <2> QED BY <2>3, <2>4
<1>6. CASE Stop BY <1>6 DEF Stop
<1>7. CASE StopFile BY <1>7 DEF StopFile
<1>8. CASE Prunes \/ Prune
  <2>1. CASE Prunes BY <2>1 DEF Prunes
  <2>2. CASE Prune
    <3>1. shared' \in BOOLEAN BY <2>2, Zenon DEF Prune
    <3> QED BY <2>2, <3>1 DEF Prune
  <2> QED BY <1>8, <2>1, <2>2
<1>9. CASE Crash
  <2>1. crashes' \in 0 .. MaxCrashes BY <1>9, RunLoopAssumption DEF Crash
  <2>2. pc' \in [Actor -> Place] BY <1>9 DEF Crash
  <2> QED BY <1>9, <2>1, <2>2, ForgetsType DEF Crash
<1>10. CASE UNCHANGED vars BY <1>10 DEF vars
<1>11. CASE Recover
  <2>1. shared' \in BOOLEAN BY <1>11, Zenon DEF Recover
  <2>2. pc' \in [Actor -> Place] BY <1>11 DEF Recover
  <2> QED BY <1>11, <2>1, <2>2 DEF Recover
<1>12. CASE Refused
  <2>1. pc' \in [Actor -> Place] BY <1>12 DEF Refused
  <2> QED BY <1>12, <2>1, ForgetsType DEF Refused
<1> QED BY <1>1, <1>2, <1>3, <1>4, <1>5, <1>6, <1>7, <1>8, <1>9, <1>10, <1>11, <1>12 DEF Next

-----------------------------------------------------------------------------
\* What actors keep for themselves: a step touches one actor, but for the death of
\* the server.
LEMMA ServeLocals ==
  ASSUME TypeOK, TypeOK', Locals, NEW d \in Daemon, Serve(d) \/ Throw(d) PROVE Locals'
<1>0. /\ d \in Actor /\ LocalInv(d) /\ CountInv(d) /\ d # Recovery
      /\ at[d].iteration \in 0 .. MaxIterations
      /\ used[d] \in 0 .. MaxAuto /\ MaxAuto \in Nat /\ MaxIterations \in Nat
  BY RunLoopAssumption DEF Actor, Locals, TypeOK, Position
<1>1. SUFFICES /\ LocalInv(d)' /\ CountInv(d)'
               /\ \A a \in Actor \ {d} : /\ pc'[a] = pc[a] /\ input'[a] = input[a]
                                         /\ at'[a] = at[a] /\ used'[a] = used[a] /\ step'[a] = step[a]
  <2>1. ASSUME NEW a \in Actor PROVE LocalInv(a)'
    BY <1>1, <2>1 DEF Locals, LocalInv, AtWork
  <2>2. ASSUME NEW e \in Daemon PROVE CountInv(e)'
    BY <1>1, <2>2 DEF Locals, CountInv, Actor
  <2>3. pc'[Recovery] = pc[Recovery] BY <1>0, <1>1 DEF Actor
  <2> QED BY <2>1, <2>2, <2>3 DEF Locals
<1> USE <1>0 DEF TypeOK, Goes, Running, AtWork, disk, calls, ghost, local, LocalInv, CountInv
<1>2. CASE Register(d)
  <2>1. at'[d].iteration = at[d].iteration
    <3>1. at[d] \in Position OBVIOUS
    <3> QED BY <1>2, <3>1 DEF Register, Position
  <2> QED BY <1>2, <2>1 DEF Register
<1>3. CASE Began(d) BY <1>3 DEF Began
<1>4. CASE Check(d) \/ Stat(d) \/ Begins(d) BY <1>4 DEF Check, Head, Stat, Begins
<1>5. CASE Step(d)
  <2>1. /\ \A b \in Actor \ {d} : step'[b] = step[b]
        /\ step'[d].next = "WAIT_AND_PROBE" => at[d].iteration < MaxIterations
    BY <1>5, StepOutcome
  <2> QED BY <1>5, <2>1 DEF Step
<1>6. CASE Wrote(d) BY <1>6 DEF Wrote
<1>7. CASE Stops(d) \/ Wait(d) BY <1>7 DEF Stops, Wait, GoesOn
<1>8. CASE Again(d)
  <2>1. at'[d] = NextAt(d, used[d]) /\ at'[d].iteration = used[d]
    BY <1>8 DEF Again, NextAt
  <2> QED BY <1>8, <2>1 DEF Again, Head
<1>9. CASE Finalized(d) BY <1>9 DEF Finalized
<1>10. CASE Failed(d) BY <1>10 DEF Failed
<1>11. CASE Drop(d)
  <2>1. \A a \in Actor \ {d} : /\ at'[a] = at[a] /\ used'[a] = used[a] /\ step'[a] = step[a]
                               /\ input'[a] = input[a]
    BY <1>11, ForgetsType DEF Drop
  <2> QED BY <1>11, <2>1 DEF Drop
<1>12. CASE Throw(d) BY <1>12 DEF Throw
<1> QED BY <1>2, <1>3, <1>4, <1>5, <1>6, <1>7, <1>8, <1>9, <1>10, <1>11, <1>12 DEF Serve

LEMMA LocalsNext == ASSUME TypeOK, TypeOK', Locals, [Next]_vars PROVE Locals'
<1>0. Recovery \in Actor /\ Recovery \notin Daemon /\ LocalInv(Recovery)
  BY RunLoopAssumption DEF Actor, Locals
<1>1. ASSUME NEW d \in Daemon, Serve(d) \/ Throw(d) PROVE Locals' BY <1>1, ServeLocals
<1>2. ASSUME NEW d \in Daemon, NEW i \in Input, Start(d, i) PROVE Locals'
  <2>1. i \in Asked /\ d \in Actor /\ d # Recovery BY <1>0, RunLoopAssumption DEF Actor
  <2> QED BY <1>0, <1>2, <2>1 DEF Start, Locals, LocalInv, CountInv, AtWork, Goes, TypeOK, Actor, disk, calls, ghost
<1>3. CASE Step(Recovery)
  <2>1. /\ \A b \in Actor \ {Recovery} : step'[b] = step[b] /\ pc'[b] = pc[b]
        /\ step'[Recovery].next = "WAIT_AND_PROBE" => at[Recovery].iteration < MaxIterations
        /\ pc'[Recovery] = "write" /\ pc[Recovery] = "probe" /\ UNCHANGED <<input, at, used>>
    BY <1>0, <1>3, StepOutcome DEF Step, Goes, TypeOK
  <2> QED BY <1>0, <2>1 DEF Locals, LocalInv, CountInv, AtWork, Running, Actor
<1>4. CASE ReadState
  <2>1. /\ \A b \in Actor \ {Recovery} : pc'[b] = pc[b] /\ input'[b] = input[b] /\ at'[b] = at[b]
        /\ pc'[Recovery] = "read" /\ UNCHANGED <<used, step>>
    BY <1>0, <1>4 DEF ReadState, Goes, TypeOK
  <2>2. input'[Recovery] \in Asked
    <3>1. file \in State BY <1>4 DEF ReadState, TypeOK
    <3>2. PICK override \in Input :
            input' = [input EXCEPT ![Recovery] = [file.input EXCEPT !.preAsk = override.preAsk]]
      BY <1>4 DEF ReadState
    <3>3. [file.input EXCEPT !.preAsk = override.preAsk] \in Asked
      BY <3>1, RunLoopAssumption DEF State, Asked
    <3> QED BY <1>0, <3>2, <3>3 DEF TypeOK
  <2> QED BY <1>0, <2>1, <2>2 DEF Locals, LocalInv, CountInv, AtWork, Running, Actor
<1>5. CASE Checkpointed \/ Refused
  <2>1. /\ \A b \in Actor \ {Recovery} :
              /\ pc'[b] = pc[b] /\ input'[b] = input[b] /\ at'[b] = at[b] /\ used'[b] = used[b]
              /\ step'[b] = step[b]
        /\ pc'[Recovery] = "new"
    BY <1>0, <1>5, ForgetsType DEF Checkpointed, Refused, Goes, TypeOK
  <2> QED BY <1>0, <2>1 DEF Locals, LocalInv, CountInv, AtWork, Running, Actor
<1>6. CASE UNCHANGED <<pc, local>>
  BY <1>6 DEF Locals, LocalInv, CountInv, AtWork, local
<1>7. CASE Stop \/ StopFile \/ Prunes \/ Prune \/ UNCHANGED vars
  BY <1>6, <1>7 DEF Stop, StopFile, Prunes, Prune, vars, local
<1>8. CASE Crash
  <2>1. \A a \in Actor : at'[a] = Start0 /\ used'[a] = 0
    BY <1>8, ForgetsType DEF Crash
  <2>2. \A a \in Actor : pc'[a] \in {"new", "over", "dead"}
    BY <1>0, <1>8 DEF Crash, TypeOK, Place, Running, AtWork, Locals, CountInv, Actor
  <2>3. pc'[Recovery] = "new" BY <1>0, <1>8 DEF Crash
  <2> QED BY <2>1, <2>2, <2>3 DEF Locals, LocalInv, CountInv, AtWork, Running, Actor, Start0
<1>9. CASE Recover
  <2>1. /\ \A b \in Actor \ {Recovery} : pc'[b] = pc[b]
        /\ pc[Recovery] = "read" /\ pc'[Recovery] = "probe" /\ UNCHANGED local
    BY <1>0, <1>9 DEF Recover, Goes, TypeOK
  <2> QED BY <1>0, <2>1 DEF Locals, LocalInv, CountInv, AtWork, Running, Actor, local
<1> QED BY <1>1, <1>2, <1>3, <1>4, <1>5, <1>7, <1>8, <1>9 DEF Next

-----------------------------------------------------------------------------
\* Only a daemon that finds its flag unset comes to look for the file, and only one
\* that has looked begins a step.
LEMMA LateNext == ASSUME TypeOK, LateInv, [Next]_vars PROVE LateInv'
<1> USE RunLoopAssumption DEF TypeOK, LateInv, Goes, Actor, disk, calls, ghost, local
<1>1. ASSUME NEW d \in Daemon, Check(d) \/ Again(d) PROVE LateInv'
  BY <1>1 DEF Check, Again, Head, Flagged
<1>2. ASSUME NEW d \in Daemon, Begins(d) PROVE LateInv' BY <1>2 DEF Begins
<1>3. ASSUME NEW d \in Daemon, Stat(d) \/ Drop(d) PROVE LateInv' BY <1>3 DEF Stat, Drop
<1>4. ASSUME NEW d \in Daemon,
             \/ Register(d) \/ Began(d) \/ Step(d) \/ Wrote(d) \/ Stops(d) \/ Wait(d)
             \/ Finalized(d) \/ Failed(d) \/ Throw(d) \/ \E i \in Input : Start(d, i)
      PROVE  LateInv'
  <2>1. UNCHANGED <<late, flag>>
    BY <1>4 DEF Register, Began, Step, Wrote, Stops, Wait, Finalized, Failed, Throw, Start
  <2>2. pc'[d] \notin {"stat", "clear"} /\ \A e \in Daemon \ {d} : pc'[e] = pc[e]
    <3>1. CASE Register(d) \/ Began(d) \/ Wait(d) BY <3>1 DEF Register, Began, Wait
    <3>3. CASE Stops(d) BY <3>3 DEF Stops
    <3>4. ASSUME NEW i \in Input, Start(d, i)
          PROVE  pc'[d] = "entering" /\ \A e \in Daemon \ {d} : pc'[e] = pc[e]
      BY <3>4 DEF Start
    <3>2. CASE Step(d) \/ Wrote(d) \/ Finalized(d) \/ Failed(d) \/ Throw(d)
      BY <3>2 DEF Step, Wrote, Finalized, Failed, Throw
    <3> QED BY <1>4, <3>1, <3>2, <3>3, <3>4
  <2> QED BY <2>1, <2>2
<1>5. CASE Step(Recovery) \/ ReadState \/ Recover \/ Refused \/ Checkpointed
  BY <1>5 DEF Step, ReadState, Recover, Refused, Checkpointed
<1>6. CASE Stop \/ StopFile \/ Prunes \/ Prune \/ Crash \/ UNCHANGED vars
  BY <1>6 DEF Stop, StopFile, Prunes, Prune, Crash, vars
<1> QED BY <1>1, <1>2, <1>3, <1>4, <1>5, <1>6 DEF Next, Serve

-----------------------------------------------------------------------------
\* The latest daemon is one that has registered.
LEMMA LastNext == ASSUME TypeOK, LastInv, [Next]_vars PROVE LastInv'
<1> USE DEF TypeOK, LastInv, Goes, disk, calls, ghost, local, Actor
<1>1. ASSUME NEW d \in Daemon, Serve(d) \/ Throw(d) PROVE LastInv'
  <2>1. CASE Register(d) BY <2>1 DEF Register
  <2>2. CASE ~Register(d)
    BY <1>1, <2>2 DEF Serve, Throw, Began, Check, Head, Stat, Begins, Step, Wrote, Stops, Wait, Again,
                     Finalized, Failed, Drop
  <2> QED BY <2>1, <2>2
<1>2. ASSUME NEW d \in Daemon, NEW i \in Input, Start(d, i) PROVE LastInv' BY <1>2 DEF Start
<1>3. CASE Step(Recovery) \/ ReadState \/ Recover \/ Refused \/ Checkpointed
  <2>1. last # None => last # Recovery BY RunLoopAssumption
  <2>2. (last' = last /\ pc'[last] = pc[last]) \/ last = None
    BY <1>3, <2>1 DEF Step, ReadState, Recover, Refused, Checkpointed
  <2>3. last' = last BY <1>3 DEF Step, ReadState, Recover, Refused, Checkpointed
  <2> QED BY <2>2, <2>3
<1>4. CASE Stop \/ StopFile \/ Prunes \/ Prune \/ UNCHANGED vars
  BY <1>4 DEF Stop, StopFile, Prunes, Prune, vars
<1>5. CASE Crash BY <1>5, RunLoopAssumption DEF Crash, AtWork, Running
<1> QED BY <1>1, <1>2, <1>3, <1>4, <1>5 DEF Next

LEMMA SharedStays == ASSUME [Next]_vars, shared PROVE shared'
<1>1. ASSUME NEW d \in Daemon, Register(d) PROVE shared' BY <1>1 DEF Register
<1>2. CASE Recover \/ Prune BY <1>2 DEF Recover, Prune
<1>3. CASE shared' = shared BY <1>3
<1> QED BY <1>1, <1>2, <1>3
  DEF Next, Serve, Throw, Began, Check, Head, Stat, Begins, Step, Wrote, Stops, Wait, Again,
      Finalized, Failed, Drop, Start, ReadState, Refused, Checkpointed, Stop, StopFile, Prunes,
      Crash, vars, ghost

\* Who is at the run: two are only ever there once "shared" says so.
LEMMA AloneNext ==
  ASSUME TypeOK, Locals, LastInv, ~shared => AloneInv /\ FileInv, [Next]_vars, ~shared'
  PROVE  AloneInv'
<1>0. ~shared /\ (~shared => AloneInv /\ FileInv) /\ Recovery \in Actor /\ Recovery \notin Daemon
      /\ Daemon \subseteq Actor
  BY SharedStays, RunLoopAssumption DEF Actor
<1>00. AloneInv /\ FileInv BY <1>0
<1> USE <1>0, <1>00 DEF TypeOK, AloneInv, AtWork, Running, Goes, disk, calls, ghost, local, LastInv
<1>1. ASSUME NEW d \in Daemon, Register(d) PROVE AloneInv'
  BY <1>1, RunLoopAssumption DEF Register
<1>2. ASSUME NEW d \in Daemon, Drop(d) PROVE AloneInv'
  BY <1>2, RunLoopAssumption DEF Drop
<1>3. ASSUME NEW d \in Daemon,
             \/ Began(d) \/ Check(d) \/ Stat(d) \/ Begins(d) \/ Step(d) \/ Wrote(d)
             \/ Stops(d) \/ Wait(d) \/ Again(d) \/ Finalized(d) \/ Failed(d) \/ Throw(d)
      PROVE  AloneInv'
  BY <1>3 DEF Began, Check, Head, Stat, Begins, Step, Wrote, Stops, Wait, Again, Finalized,
              Failed, Throw
<1>4. ASSUME NEW d \in Daemon, NEW i \in Input, Start(d, i) PROVE AloneInv'
  BY <1>4 DEF Start
<1>5. CASE Step(Recovery) \/ ReadState \/ Refused \/ Checkpointed
  <2>1. /\ UNCHANGED <<map, last>> /\ \A a \in Daemon : pc'[a] = pc[a]
        /\ AtWork(Recovery)' => AtWork(Recovery)
    BY <1>5 DEF Step, ReadState, Refused, Checkpointed
  <2> QED BY <2>1
<1>6. CASE Recover
  <2>1. /\ file.active /\ Whole /\ map = None /\ \A d \in Daemon : ~AtWork(d)
        /\ pc' = [pc EXCEPT ![Recovery] = "probe"] /\ UNCHANGED <<map, last>>
    BY <1>6, RunLoopAssumption DEF Recover, Recoverable, Whole
  <2>2. last # None /\ last \in Daemon BY <2>1 DEF FileInv, Whole
  <2>3. pc[last] = "dead" BY <2>1, <2>2 DEF FileInv, Place, Locals, CountInv
  <2> QED BY <2>1, <2>2, <2>3
<1>7. CASE Stop \/ StopFile \/ Prunes \/ Prune \/ UNCHANGED vars
  BY <1>7 DEF Stop, StopFile, Prunes, Prune, vars
<1>8. CASE Crash BY <1>8, RunLoopAssumption DEF Crash
<1> QED BY <1>1, <1>2, <1>3, <1>4, <1>5, <1>6, <1>7, <1>8 DEF Next, Serve

\* What the state file says of the latest daemon.
LEMMA FileNext ==
  ASSUME TypeOK, Locals, LastInv, AloneInv, FileInv, [Next]_vars, ~shared'
  PROVE  FileInv'
<1>0. Recovery \in Actor /\ Recovery \notin Daemon /\ Daemon \subseteq Actor /\ None \notin Daemon
  BY RunLoopAssumption DEF Actor
<1> USE <1>0 DEF TypeOK, LastInv, AloneInv, FileInv, Whole, AtWork, Running, Goes, disk, calls, ghost, local
<1>1. ASSUME NEW d \in Daemon, Register(d) PROVE FileInv'
  BY <1>1 DEF Register
<1>2. ASSUME NEW d \in Daemon, NEW position, Fills(d, position, TRUE),
             last' = d, pc'[d] \in {"check", "wait"}
      PROVE  FileInv'
  <2>1. file'.active /\ ~file'.completed BY <1>2 DEF Fills
  <2> QED BY <1>2, <2>1
<1>3. ASSUME NEW d \in Daemon, NEW position, Fills(d, position, FALSE),
             last' = d, pc'[d] = "drop"
      PROVE  FileInv'
  BY <1>3 DEF Fills
<1>4. ASSUME NEW d \in Daemon, file' = Torn, last' = d, pc'[d] \in {"write", "final", "fatal"}
      PROVE  FileInv'
  BY <1>4
<1>5. ASSUME NEW d \in Daemon, Began(d) \/ Wrote(d) PROVE FileInv' BY <1>2, <1>5 DEF Began, Wrote
<1>6. ASSUME NEW d \in Daemon, Finalized(d) \/ Failed(d) PROVE FileInv'
  BY <1>3, <1>6 DEF Finalized, Failed
<1>7. ASSUME NEW d \in Daemon, Step(d) \/ Stops(d) \/ Throw(d) PROVE FileInv'
  BY <1>4, <1>7 DEF Step, Stops, Throw
<1>8. ASSUME NEW d \in Daemon, Check(d) \/ Again(d) PROVE FileInv'
  <2>1. last = d /\ last' = d /\ pc[d] \in {"check", "waited"} BY <1>8 DEF Check, Again, Head
  <2>2. CASE pc'[d] = "final" /\ file' = Torn BY <1>4, <2>1, <2>2
  <2>3. CASE pc'[d] = "stat" /\ file' = file BY <2>1, <2>3
  <2> QED BY <1>8, <2>2, <2>3 DEF Check, Again, Head
<1>17. ASSUME NEW d \in Daemon, Stat(d) \/ Begins(d) \/ Wait(d) PROVE FileInv'
  BY <1>17 DEF Stat, Begins, Wait
<1>9. ASSUME NEW d \in Daemon, Drop(d) PROVE FileInv' BY <1>9 DEF Drop
<1>10. ASSUME NEW d \in Daemon, NEW i \in Input, Start(d, i) PROVE FileInv' BY <1>10 DEF Start
<1>11. CASE Step(Recovery) BY <1>11 DEF Step
<1>12. CASE ReadState \/ Recover \/ Refused
  <2>1. UNCHANGED <<file, last>> /\ (last # None => pc'[last] = pc[last])
    BY <1>12 DEF ReadState, Recover, Refused
  <2> QED BY <2>1
<1>13. CASE Checkpointed
  <2>1. last # None /\ pc[last] = "dead" /\ last' = last /\ pc'[last] = "dead"
    BY <1>13 DEF Checkpointed
  <2>2. file'.active /\ ~file'.completed BY <1>13 DEF Checkpointed, Fills
  <2> QED BY <2>1, <2>2
<1>14. CASE Prune
  <2>1. /\ file' = None /\ UNCHANGED <<pc, last>> /\ \A a \in Actor : ~AtWork(a)
        /\ last # None => last \in Actor
    BY <1>14 DEF Prune
  <2>2. last # None => ~AtWork(last) BY <2>1
  <2> QED BY <2>1, <2>2
<1>15. CASE Stop \/ StopFile \/ Prunes \/ UNCHANGED vars BY <1>15 DEF Stop, StopFile, Prunes, vars
<1>16. CASE Crash
  <2>1. UNCHANGED <<file, last>> BY <1>16 DEF Crash
  <2>2. ASSUME last # None
        PROVE  \/ pc[last] \in {"begin", "drop", "over"} /\ pc'[last] = "over"
               \/ pc[last] \in {"check", "stat", "clear", "probe", "write", "wait", "waited", "final",
                               "fatal", "dead"}
                  /\ pc'[last] = "dead"
    BY <1>16, <2>2 DEF Crash, Place, Locals, CountInv
  <2> QED BY <2>1, <2>2
<1> QED BY <1>1, <1>5, <1>6, <1>7, <1>8, <1>9, <1>10, <1>11, <1>12, <1>13, <1>14, <1>15, <1>16,
       <1>17 DEF Next, Serve

\* The inductive invariant.
LEMMA Invariance == Spec => []IInv
<1>1. Init => IInv
  <2> SUFFICES ASSUME Init PROVE IInv OBVIOUS
  <2>1. TypeOK BY TypeInit
  <2>2. Locals /\ LateInv /\ LastInv /\ AloneInv /\ FileInv
    BY RunLoopAssumption DEF Init, Locals, LocalInv, CountInv, LateInv, LastInv, AloneInv, FileInv, AtWork,
       Running, Start0, NoStep, Actor
  <2> QED BY <2>1, <2>2 DEF IInv
<1>2. IInv /\ [Next]_vars => IInv'
  <2> SUFFICES ASSUME IInv, [Next]_vars PROVE IInv' OBVIOUS
  <2>1. TypeOK' BY Typing DEF IInv
  <2>2. Locals' BY <2>1, LocalsNext DEF IInv
  <2>3. LateInv' /\ LastInv' BY LateNext, LastNext DEF IInv
  <2>4. ASSUME ~shared' PROVE AloneInv' /\ FileInv'
    <3>1. AloneInv /\ FileInv BY <2>4, SharedStays DEF IInv
    <3> QED BY <2>4, <3>1, AloneNext, FileNext DEF IInv
  <2> QED BY <2>1, <2>2, <2>3, <2>4 DEF IInv
<1> QED BY <1>1, <1>2, PTL DEF Spec

-----------------------------------------------------------------------------
\* No start, step, stop, recovery or restart leaves a variable of the run loop outside
\* its type; a loop told to wait has iterations left for its next position.
THEOREM TypeCorrect == Spec => []TypeOK
<1>1. IInv => TypeOK BY DEF IInv
<1> QED BY <1>1, Invariance, PTL

\* The state file of a daemon that a restart of the server cut short offers it for
\* recovery, unless it was being written or was pruned, and that of one which ended
\* does not, as long as no two actors have been at the run at once.
THEOREM FileTellsTruth == Spec => []StateFileIsTruthful
<1>1. IInv => StateFileIsTruthful
  BY RunLoopAssumption DEF IInv, TypeOK, AloneInv, FileInv, LastInv, Whole, StateFileIsTruthful,
     Recoverable, AtWork, Running
<1> QED BY <1>1, Invariance, PTL

\* activeRunLoopDaemons has the daemon that is at work and no other, as long as no two
\* actors have been at the run at once.
THEOREM MapTellsTruth == Spec => []MapIsTruthful
<1>1. IInv => MapIsTruthful BY DEF IInv, AloneInv, MapIsTruthful
<1> QED BY <1>1, Invariance, PTL

\* A daemon whose runtime was flagged by a stop begins at most one step of its loop,
\* the one before which it was already looking for the stop file.
THEOREM StopHeard == Spec => StopIsHeard
<1>1. IInv /\ [Next]_vars => [\A d \in late : pc'[d] = "probe" => pc[d] = "probe"]_vars
  <2> SUFFICES ASSUME TypeOK, LateInv, [Next]_vars, NEW d \in late, pc'[d] = "probe",
                      pc[d] # "probe"
               PROVE  FALSE
    BY DEF IInv
  <2> USE RunLoopAssumption DEF TypeOK, Goes, Actor, disk, calls, ghost, local
  <2>1. d \in Daemon /\ d # Recovery /\ pc[d] # "clear" BY DEF LateInv
  <2>2. ASSUME NEW e \in Daemon,
               Check(e) \/ Again(e) \/ Stat(e) \/ Begins(e) \/ Stops(e) \/ Wait(e)
        PROVE  FALSE
    BY <2>1, <2>2 DEF Check, Again, Head, Stat, Begins, Stops, Wait
  <2>3. ASSUME NEW e \in Daemon,
               \/ Register(e) \/ Began(e) \/ Step(e) \/ Wrote(e) \/ Finalized(e)
               \/ Failed(e) \/ Drop(e) \/ Throw(e) \/ \E i \in Input : Start(e, i)
        PROVE  FALSE
    BY <2>1, <2>3 DEF Register, Began, Step, Wrote, Finalized, Failed, Drop, Throw, Start
  <2>4. CASE Step(Recovery) \/ ReadState \/ Recover \/ Refused \/ Checkpointed
    BY <2>1, <2>4 DEF Step, ReadState, Recover, Refused, Checkpointed
  <2>5. CASE Stop \/ StopFile \/ Prunes \/ Prune \/ Crash \/ UNCHANGED vars
    BY <2>1, <2>5 DEF Stop, StopFile, Prunes, Prune, Crash, vars, AtWork, Running
  <2> QED BY <2>2, <2>3, <2>4, <2>5 DEF Next, Serve
<1> QED BY <1>1, Invariance, PTL DEF StopIsHeard, Spec
=============================================================================
