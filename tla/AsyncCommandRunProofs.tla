------------------------ MODULE AsyncCommandRunProofs ------------------------
(***************************************************************************)
(* For every number of calls, processes and slots, and every mix of        *)
(* capacity classes, dedupe keys, stops, deadlines and a death: what ends  *)
(* on record has ended, capacity comes back, and no more children run than *)
(* there are slots until a slot is taken from its live owner.              *)
(***************************************************************************)
EXTENDS AsyncCommandRun, FiniteSetTheorems, TLAPS

\* A start that has made no child; one that may have made a record; one that will
\* not touch its slot file again.
Early == {"idle", "look", "unlease", "create", "open", "fill", "probe", "reclaim", "refuse",
          "spawn", "waiting", "reused"}
OnRecord == {"publish", "unlock", "done", "left", "dead"}
Past == OnRecord \cup {"abort", "threw"}

\* What the phase of a start, its child and its record imply of one another.
StartInv(c) ==
    /\ pc[c] \in Early => child[c] = "none"
    /\ pc[c] \in {"bindCheck", "bindOpen", "bindFill", "record"} => child[c] # "none"
    /\ rec[c] # "none" => child[c] # "none" /\ pc[c] \in OnRecord
    /\ pc[c] \in {"publish", "unlock", "done"} /\ child[c] = "live" => rec[c] \in Open
    /\ rec[c] \in Terminal => child[c] # "live"
    /\ rec[c] = "succeeded" => child[c] = "ok"
    /\ c \in closing => child[c] \in {"ok", "bad"}
    /\ c \in lost => pc[c] \in Ended /\ ask.mortal = {}
    /\ pc[c] = "dead" => c \in lost
    /\ pc[c] \in {"open", "fill", "probe", "reclaim", "refuse", "bindCheck", "bindOpen", "bindFill"}
          => c \in Heavy
    /\ at[c] < ask.limit

\* What an actor that ends a run has seen to.
FinishInv(a) ==
    /\ fin[a].step \in {"mark", "confirm", "write"} =>
          child[fin[a].run] # "none" /\ pc[fin[a].run] \in OnRecord
    /\ fin[a].step \in {"mark", "confirm"} => fin[a].to \in {"stopped", "failed"}
    /\ fin[a].step = "write" =>
          /\ fin[a].to \in Terminal /\ child[fin[a].run] # "live"
          /\ fin[a].to = "succeeded" => child[fin[a].run] = "ok"
    /\ fin[a].step = "unlink" =>
          pc[fin[a].run] \in Past /\ (~broken => child[fin[a].run] # "live")

\* Whose slot file is there in which phase.
Releasing(c) == fin[Self(c)].step = "unlink" /\ fin[Self(c)].run = c
FileInv(k) ==
    file[k] # None =>
        LET c == file[k].lease
        IN /\ c \in Heavy /\ at[c] = k
           /\ file[k].pid = "empty" => pc[c] \in {"fill", "bindFill", "left", "dead"}
           /\ file[k].pid = "host" => \/ pc[c] \in {"spawn", "bindCheck", "bindOpen", "left", "dead"}
                                      \/ pc[c] = "abort" /\ Releasing(c)
           /\ file[k].pid = "child" => pc[c] \in {"record"} \cup OnRecord

\* A run on record, or that somebody found there and is about to end.
Known(c) == \/ rec[c] # "none"
            \/ \E a \in Actor : fin[a].run = c /\ fin[a].step \in {"mark", "confirm", "write"}

\* The slot file of a start that is to have one, while no slot was taken from a
\* live owner.
Bound == {"record", "publish", "unlock", "done", "left"}
Mine(c, pid) == file[at[c]] = [lease |-> c, pid |-> pid]
HoldInv(c) ==
    /\ pc[c] \in {"fill", "bindFill"} => Mine(c, "empty")
    /\ pc[c] \in {"spawn", "bindCheck", "bindOpen"} => Mine(c, "host")
    /\ Running(c) /\ c \notin freed /\ (pc[c] \in Bound \/ Known(c)) => Mine(c, "child")
    /\ pc[c] \in {"abort", "threw"} => child[c] = "none"

Starts == \A c \in Call : StartInv(c)
Finishes == \A a \in Actor : FinishInv(a)
Files == \A k \in Slot : FileInv(k)
Holding == ~broken => \A c \in Heavy : HoldInv(c)

IInv == TypeOK /\ Starts /\ Finishes /\ Files /\ Holding

-----------------------------------------------------------------------------
\* Actors and what they work on.
LEMMA Actors ==
  /\ \A c \in Call : <<"start", c>> \in Actor /\ <<"close", c>> \in Actor /\ <<"timer", c>> \in Actor
  /\ Asker \in Actor /\ Stopper \in Actor
  /\ \A c, d \in Call : Self(c) = Self(d) => c = d
BY DEF Actor, Asker, Stopper, Self

LEMMA Finishing ==
  ASSUME TypeOK, NEW a \in Actor, fin[a].step \in Step
  PROVE  fin[a] \in Errand /\ fin[a].run \in Call /\ fin[a].to \in Terminal \cup {None}
BY NoneAssumption DEF TypeOK, Idle, Errand

\* What an actor is set to do next.
LEMMA DoType ==
  ASSUME TypeOK, NEW a \in Actor, NEW r \in Call, NEW to \in Terminal \cup {None},
         NEW step \in Step, Do(a, r, to, step)
  PROVE  fin' \in [Actor -> {Idle} \cup Errand]
BY DEF TypeOK, Do, Errand

LEMMA RestType ==
  ASSUME TypeOK, NEW a \in Actor, Rest(a)
  PROVE  fin' \in [Actor -> {Idle} \cup Errand]
BY DEF TypeOK, Rest

LEMMA ReleaseType ==
  ASSUME TypeOK, NEW a \in Actor, NEW r \in Call, NEW mine, Release(a, r, mine)
  PROVE  fin' \in [Actor -> {Idle} \cup Errand]
<1>1. CASE mine BY <1>1, DoType DEF Release, Step
<1>2. CASE ~mine BY <1>2, RestType DEF Release
<1> QED BY <1>1, <1>2

LEMMA TypeInit == Init => TypeOK
<1> SUFFICES ASSUME Init PROVE TypeOK OBVIOUS
<1>1. 0 \in Slot BY RunAssumption DEF Slot
<1>2. ask \in Ask BY RunAssumption DEF Init
<1> QED BY <1>1, <1>2 DEF Init, TypeOK, Pc

\* The next slot of those asked for is a slot.
LEMMA NextSlot ==
  ASSUME TypeOK, NEW c \in Call, at[c] + 1 < ask.limit PROVE at[c] + 1 \in Slot
<1>1. at[c] \in 0..(MaxLimit - 1) /\ ask.limit \in 1..MaxLimit BY DEF TypeOK, Slot, Ask
<1> QED BY <1>1, RunAssumption DEF Slot

\* No step of a start leaves the type of a variable ...
LEMMA StartTypes == ASSUME TypeOK, NEW c \in Call, Start(c) PROVE TypeOK'
<1> USE DEF TypeOK, Goto, slots, dedupe, watch
<1>1. CASE Prune(c)
  <2>1. rec' \in [Call -> {"none"} \cup Open \cup Terminal] BY <1>1 DEF Prune
  <2>2. pc' \in [Call -> Pc] BY <1>1 DEF Prune, Pc, Section
  <2> QED BY <1>1, <2>1, <2>2 DEF Prune
<1>2. CASE Look(c)
  <2>1. CASE Do(Self(c), lease, "failed", "confirm") /\ lease # None /\ UNCHANGED pc
    <3>1. lease \in Call /\ "failed" \in Terminal \cup {None} /\ "confirm" \in Step
      BY <2>1 DEF Terminal, Step
    <3>2. fin' \in [Actor -> {Idle} \cup Errand]
      BY <2>1, <3>1, DoType, Actors DEF Self
    <3> QED BY <1>2, <2>1, <3>2 DEF Look
  <2>2. CASE UNCHANGED fin /\ \E l \in {"create", "reused", "unlease"} : Goto(c, l)
    BY <1>2, <2>2 DEF Look, Pc, Ended
  <2> QED BY <1>2, <2>1, <2>2 DEF Look
<1>3. CASE Unlease(c) BY <1>3 DEF Unlease, Pc
<1>4. CASE Create(c) BY <1>4 DEF Create, AfterLock, Pc, Section
<1>5. CASE Busy(c) BY <1>5 DEF Busy, Pc
<1>6. CASE Exhaust(c) BY <1>6 DEF Exhaust, AfterLock, Pc, Section
<1>7. CASE OpenSlot(c) BY <1>7 DEF OpenSlot, Becomes, SlotFile, Pc, Section
<1>8. CASE Fill(c) BY <1>8 DEF Fill, Filled, Becomes, SlotFile, Pc, Section
<1>9. CASE Probe(c) BY <1>9, NextSlot DEF Probe, Pc, Section
<1>10. CASE Reclaim(c)
  <2>1. Used(file[at[c]]) \in BOOLEAN BY DEF Used
  <2> QED BY <1>10, <2>1 DEF Reclaim, Becomes, Break, Pc, Section
<1>11. CASE Refuse(c) BY <1>11 DEF Refuse, ReleaseLock, Pc, Ended
<1>12. CASE Spawn(c) BY <1>12 DEF Spawn, Pc, Section
<1>13. CASE SpawnFails(c)
  <2>1. fin' \in [Actor -> {Idle} \cup Errand]
    BY <1>13, ReleaseType, Actors DEF SpawnFails, Self
  <2> QED BY <1>13, <2>1 DEF SpawnFails, Pc, Section
<1>14. CASE BindCheck(c)
  <2>1. fin' \in [Actor -> {Idle} \cup Errand]
    BY <1>14, ReleaseType, Actors DEF BindCheck, Self
  <2> QED BY <1>14, <2>1 DEF BindCheck, Pc, Section
<1>15. CASE BindOpen(c) BY <1>15 DEF BindOpen, Becomes, Break, SlotFile, Pc, Section
<1>16. CASE BindFill(c) BY <1>16 DEF BindFill, Filled, Becomes, SlotFile, Pc, Section
<1>17. CASE Abort(c) \/ Throw(c) BY <1>17 DEF Abort, Throw, ReleaseLock, Pc, Ended
<1>18. CASE Record(c) BY <1>18 DEF Record, Open, Pc, Section
<1>19. CASE Publish(c) BY <1>19 DEF Publish, Pc, Section
<1>20. CASE Unlock(c) BY <1>20 DEF Unlock, ReleaseLock, Pc, Ended
<1> QED BY <1>1, <1>2, <1>3, <1>4, <1>5, <1>6, <1>7, <1>8, <1>9, <1>10, <1>11, <1>12, <1>13,
           <1>14, <1>15, <1>16, <1>17, <1>18, <1>19, <1>20 DEF Start

\* ... and no other step does.
LEMMA Typing == ASSUME TypeOK, Finishes, [Next]_vars PROVE TypeOK'
<1> USE DEF TypeOK, slots, dedupe, watch
<1>1. ASSUME NEW c \in Call, Start(c) PROVE TypeOK' BY <1>1, StartTypes
<1>2. ASSUME NEW c \in Call, Exit(c) PROVE TypeOK' BY <1>2 DEF Exit
<1>3. ASSUME NEW c \in Call, Close(c) PROVE TypeOK'
  <2>1. fin' \in [Actor -> {Idle} \cup Errand]
    BY <1>3, DoType, Actors DEF Close, Terminal, Step
  <2> QED BY <1>3, <2>1 DEF Close
<1>4. ASSUME NEW c \in Call, Deadline(c) PROVE TypeOK' BY <1>4 DEF Deadline
<1>5. ASSUME NEW c \in Call, Timer(c) PROVE TypeOK'
  <2>1. fin' \in [Actor -> {Idle} \cup Errand]
    BY <1>5, DoType, Actors DEF Timer, Terminal, Step
  <2> QED BY <1>5, <2>1 DEF Timer, Terminate
<1>6. ASSUME NEW r \in Call, Status(r) PROVE TypeOK'
  <2>1. fin' \in [Actor -> {Idle} \cup Errand]
    BY <1>6, DoType, Actors DEF Status, Terminal, Step
  <2> QED BY <1>6, <2>1 DEF Status, Terminate
<1>7. ASSUME NEW r \in Call, Stop(r) PROVE TypeOK'
  <2>1. fin' \in [Actor -> {Idle} \cup Errand]
    BY <1>7, DoType, Actors DEF Stop, Terminal, Step
  <2>2. ask' \in Ask BY <1>7 DEF Stop, Ask
  <2> QED BY <1>7, <2>1, <2>2 DEF Stop
<1>8. ASSUME NEW a \in Actor, Finish(a) PROVE TypeOK'
  <2>1. fin[a].run \in Call /\ fin[a].to \in Terminal \cup {None}
        /\ fin[a] \in Errand
    BY <1>8, Finishing, NoneAssumption DEF Finish, Mark, Confirm, Write, Unlink, Step, Idle, Errand
  <2>2. CASE Mark(a)
    <3>1. [fin[a] EXCEPT !.step = "write"] \in Errand
      BY <2>1 DEF Step, Errand
    <3> QED BY <2>1, <2>2, <3>1 DEF Mark, Terminate, Open
  <2>3. CASE Confirm(a)
    <3>1. [fin[a] EXCEPT !.step = "write"] \in Errand
      BY <2>1 DEF Step, Errand
    <3> QED BY <2>1, <2>3, <3>1, RestType DEF Confirm
  <2>4. CASE Write(a)
    <3>1. fin' \in [Actor -> {Idle} \cup Errand]
      BY <2>1, <2>4, ReleaseType DEF Write
    <3>2. fin[a].to \in Terminal BY <2>4 DEF Write, Finishes, FinishInv
    <3> QED BY <2>1, <2>4, <3>1, <3>2 DEF Write
  <2>5. CASE Unlink(a)
    BY <2>1, <2>5, RestType DEF Unlink, Becomes, Break
  <2> QED BY <1>8, <2>2, <2>3, <2>4, <2>5 DEF Finish
<1>9. ASSUME NEW p \in Proc, Crash(p) PROVE TypeOK'
  <2>1. ask' \in Ask BY <1>9 DEF Crash, Ask
  <2>2. pc' \in [Call -> Pc] BY <1>9 DEF Crash, Pc, Ended
  <2>3. fin' \in [Actor -> {Idle} \cup Errand]
    BY <1>9 DEF Crash
  <2> QED BY <1>9, <2>1, <2>2, <2>3 DEF Crash
<1>10. CASE UNCHANGED vars BY <1>10 DEF vars
<1> QED BY <1>1, <1>2, <1>3, <1>4, <1>5, <1>6, <1>7, <1>8, <1>9, <1>10 DEF Next

-----------------------------------------------------------------------------
\* What a start, its child and its record imply of one another is kept by the
\* steps of every start ...
LEMMA StartStarts ==
  ASSUME IInv, TypeOK', NEW c \in Call, Start(c) PROVE Starts'
<1> SUFFICES ASSUME NEW d \in Call PROVE StartInv(d)' BY DEF Starts
<1>0. TypeOK /\ StartInv(d) /\ StartInv(c) BY DEF IInv, Starts
<1> USE <1>0 DEF TypeOK, StartInv, Goto, slots, dedupe, watch, Heavy, Early, OnRecord, Open,
           Terminal, Ended
<1>1. CASE Prune(c) BY <1>1 DEF Prune
<1>2. CASE Look(c)
  <2>1. UNCHANGED <<ask, at, child, closing, rec, lost>> /\ pc[c] = "look"
        /\ (UNCHANGED pc \/ \E l \in {"create", "reused", "unlease"} : Goto(c, l))
    BY <1>2 DEF Look
  <2> QED BY <2>1
<1>3. CASE Unlease(c) BY <1>3 DEF Unlease
<1>4. CASE Create(c) BY <1>4 DEF Create, AfterLock
<1>5. CASE Busy(c) BY <1>5 DEF Busy
<1>6. CASE Exhaust(c) BY <1>6 DEF Exhaust, AfterLock
<1>7. CASE OpenSlot(c) BY <1>7 DEF OpenSlot
<1>8. CASE Fill(c) BY <1>8 DEF Fill
<1>9. CASE Probe(c) BY <1>9 DEF Probe
<1>10. CASE Reclaim(c) BY <1>10 DEF Reclaim
<1>11. CASE Refuse(c) BY <1>11 DEF Refuse
<1>12. CASE Spawn(c) BY <1>12 DEF Spawn
<1>13. CASE SpawnFails(c) BY <1>13 DEF SpawnFails
<1>14. CASE BindCheck(c) BY <1>14 DEF BindCheck
<1>15. CASE BindOpen(c) BY <1>15 DEF BindOpen
<1>16. CASE BindFill(c) BY <1>16 DEF BindFill
<1>17. CASE Abort(c) BY <1>17 DEF Abort, Ended
<1>21. CASE Throw(c) BY <1>21 DEF Throw
<1>18. CASE Record(c) BY <1>18 DEF Record
<1>19. CASE Publish(c) BY <1>19 DEF Publish
<1>20. CASE Unlock(c) BY <1>20 DEF Unlock, Ended
<1> QED BY <1>1, <1>2, <1>3, <1>4, <1>5, <1>6, <1>7, <1>8, <1>9, <1>10, <1>11, <1>12, <1>13,
           <1>14, <1>15, <1>16, <1>17, <1>18, <1>19, <1>20, <1>21 DEF Start

\* ... of its child, its listeners and its timer, of those who end its run, and by
\* the death of a process.
LEMMA OtherStarts ==
  ASSUME IInv, TypeOK', Next, \A c \in Call : ~Start(c) PROVE Starts'
<1> SUFFICES ASSUME NEW d \in Call PROVE StartInv(d)' BY DEF Starts
<1>0. TypeOK /\ StartInv(d) BY DEF IInv, Starts
<1> USE <1>0 DEF TypeOK, StartInv, slots, dedupe, watch, Heavy, Early, OnRecord, Open,
           Terminal, Ended
<1>1. ASSUME NEW c \in Call, Exit(c) PROVE StartInv(d)' BY <1>1 DEF Exit, Running
<1>2. ASSUME NEW c \in Call, Close(c) PROVE StartInv(d)' BY <1>2 DEF Close
<1>3. ASSUME NEW c \in Call, Deadline(c) PROVE StartInv(d)' BY <1>3 DEF Deadline
<1>4. ASSUME NEW c \in Call, Timer(c) PROVE StartInv(d)' BY <1>4 DEF Timer, Terminate
<1>5. ASSUME NEW r \in Call, Status(r) PROVE StartInv(d)' BY <1>5 DEF Status, Terminate
<1>6. ASSUME NEW r \in Call, Stop(r) PROVE StartInv(d)' BY <1>6 DEF Stop, Ask
<1>7. ASSUME NEW a \in Actor, Finish(a) PROVE StartInv(d)'
  <2>1. fin[a].run \in Call /\ FinishInv(a)
    BY <1>7, Finishing DEF Finish, Mark, Confirm, Write, Unlink, Step, IInv, Finishes
  <2>2. CASE Mark(a) BY <2>1, <2>2 DEF Mark, Terminate, FinishInv
  <2>3. CASE Confirm(a) BY <2>3 DEF Confirm
  <2>4. CASE Write(a) BY <2>1, <2>4 DEF Write, FinishInv
  <2>5. CASE Unlink(a) BY <2>5 DEF Unlink
  <2> QED BY <1>7, <2>2, <2>3, <2>4, <2>5 DEF Finish
<1>8. ASSUME NEW p \in Proc, Crash(p) PROVE StartInv(d)' BY <1>8 DEF Crash, Ended, Ask
<1> QED BY <1>1, <1>2, <1>3, <1>4, <1>5, <1>6, <1>7, <1>8 DEF Next

-----------------------------------------------------------------------------
\* What every step keeps: children do not come back to life, and a start that has
\* made its child or its record has made it.
Onward(d) ==
    /\ child[d] # "none" => child'[d] # "none"
    /\ child[d] # "live" => child'[d] # "live" \/ pc[d] = "spawn"
    /\ child[d] = "ok" => child'[d] = "ok"
    /\ pc[d] \in OnRecord => pc'[d] \in OnRecord
    /\ pc[d] \in Past => pc'[d] \in Past

LEMMA StartsOnward ==
  ASSUME TypeOK, Starts, NEW c \in Call, Start(c), NEW d \in Call PROVE Onward(d)
<1> USE DEF TypeOK, Onward, Goto, OnRecord, Past, Early
<1>1. CASE UNCHANGED child /\ \E l \in Early : Goto(c, l) /\ pc[c] \in Early
  BY <1>1
<1>2. CASE \/ Prune(c) \/ Unlease(c) \/ Create(c) \/ Busy(c) \/ Exhaust(c) \/ OpenSlot(c)
           \/ Probe(c) \/ Reclaim(c) \/ Refuse(c) \/ Fill(c)
  BY <1>2, <1>1 DEF Prune, Unlease, Create, Busy, Exhaust, OpenSlot, Probe, Reclaim, Refuse,
                    Fill, AfterLock
<1>3. CASE Look(c)
  <2>1. UNCHANGED child /\ pc[c] = "look"
        /\ (UNCHANGED pc \/ \E l \in {"create", "reused", "unlease"} : Goto(c, l))
    BY <1>3 DEF Look
  <2> QED BY <2>1, <1>1
<1>4. CASE Spawn(c) BY <1>4 DEF Spawn, Starts, StartInv
<1>5. CASE \/ SpawnFails(c) \/ BindCheck(c) \/ BindOpen(c) \/ BindFill(c) \/ Abort(c)
  BY <1>5 DEF SpawnFails, BindCheck, BindOpen, BindFill, Throw, Abort
<1>6. CASE Record(c) \/ Publish(c) \/ Unlock(c) \/ Throw(c)
  BY <1>6 DEF Record, Publish, Unlock, Throw
<1> QED BY <1>2, <1>3, <1>4, <1>5, <1>6 DEF Start

LEMMA OthersOnward ==
  ASSUME TypeOK, Next, \A c \in Call : ~Start(c), NEW d \in Call PROVE Onward(d)
<1> USE DEF TypeOK, Onward
<1>1. CASE UNCHANGED <<child, pc>> BY <1>1
<1>2. ASSUME NEW c \in Call, Exit(c) PROVE Onward(d) BY <1>2 DEF Exit, Running
<1>3. ASSUME NEW r \in Call, NEW p, Terminate(r, p), UNCHANGED pc PROVE Onward(d)
  BY <1>3 DEF Terminate
<1>4. ASSUME NEW c \in Call, Close(c) \/ Deadline(c) \/ Stop(c) PROVE Onward(d)
  BY <1>1, <1>4 DEF Close, Deadline, Stop
<1>5. ASSUME NEW c \in Call, Timer(c) \/ Status(c) PROVE Onward(d)
  BY <1>1, <1>3, <1>5 DEF Timer, Status
<1>6. ASSUME NEW a \in Actor, Finish(a) PROVE Onward(d)
  <2>1. fin[a].run \in Call
    BY <1>6, Finishing DEF Finish, Mark, Confirm, Write, Unlink, Step
  <2> QED BY <1>1, <1>3, <1>6, <2>1 DEF Finish, Mark, Confirm, Write, Unlink
<1>7. ASSUME NEW p \in Proc, Crash(p) PROVE Onward(d)
  BY <1>7 DEF Crash, OnRecord, Past, Ended
<1> QED BY <1>2, <1>4, <1>5, <1>6, <1>7 DEF Next

LEMMA BrokenStays == ASSUME TypeOK, Next PROVE broken => broken'
<1>1. ASSUME NEW c \in Call, Start(c) PROVE broken => broken'
  BY <1>1 DEF Start, Prune, Look, Unlease, Create, Busy, Exhaust, OpenSlot, Fill, Probe, Reclaim,
     Refuse, Spawn, SpawnFails, BindCheck, BindOpen, BindFill, Throw, Abort, Record, Publish, Unlock, Break
<1> QED BY <1>1 DEF Next, Exit, Close, Deadline, Timer, Status, Stop, Finish, Mark, Confirm,
           Write, Unlink, Crash, Break

\* What an actor that a step leaves alone has seen to stays so.
LEMMA Untouched ==
  ASSUME NEW a \in Actor, TypeOK, FinishInv(a), fin'[a] = fin[a],
         \A d \in Call : Onward(d), broken => broken'
  PROVE  FinishInv(a)'
<1>1. CASE fin[a].step \notin Step BY <1>1 DEF FinishInv, Step
<1>2. CASE fin[a].step \in Step
  <2>1. fin[a].run \in Call BY <1>2, Finishing
  <2> QED BY <2>1 DEF FinishInv, Onward, Past, OnRecord
<1> QED BY <1>1, <1>2

\* What an actor has just been set to do.
LEMMA DoStep ==
  ASSUME NEW a \in Actor, TypeOK, NEW r, NEW to, NEW step, Do(a, r, to, step)
  PROVE  /\ fin'[a] = [run |-> r, to |-> to, step |-> step]
         /\ \A b \in Actor \ {a} : fin'[b] = fin[b]
BY DEF Do, TypeOK

LEMMA RestStep ==
  ASSUME NEW a \in Actor, TypeOK, Rest(a)
  PROVE  FinishInv(a)' /\ \A b \in Actor \ {a} : fin'[b] = fin[b]
<1>1. fin'[a] = Idle /\ \A b \in Actor \ {a} : fin'[b] = fin[b] BY DEF Rest, TypeOK
<1>2. Idle.step \notin Step BY NoneAssumption DEF Idle
<1> QED BY <1>1, <1>2 DEF FinishInv, Step

LEMMA ReleaseStep ==
  ASSUME NEW a \in Actor, TypeOK, NEW r \in Call, NEW mine, Release(a, r, mine),
         pc'[r] \in Past, ~broken' /\ mine => child'[r] # "live"
  PROVE  FinishInv(a)' /\ \A b \in Actor \ {a} : fin'[b] = fin[b]
<1>1. CASE mine
  <2>1. fin'[a] = [run |-> r, to |-> None, step |-> "unlink"]
        /\ \A b \in Actor \ {a} : fin'[b] = fin[b]
    BY <1>1, DoStep DEF Release
  <2> QED BY <1>1, <2>1 DEF FinishInv
<1>2. CASE ~mine BY <1>2, RestStep DEF Release
<1> QED BY <1>1, <1>2

-----------------------------------------------------------------------------
\* The actors that end runs: those of a start that met its lease or could not go on,
LEMMA StartFinishes ==
  ASSUME IInv, NEW c \in Call, Start(c) PROVE Finishes'
<1> DEFINE me == Self(c)
<1>0. /\ TypeOK /\ Starts /\ \A a \in Actor : FinishInv(a)
      /\ me \in Actor /\ \A d \in Call : Onward(d)
      /\ broken => broken'
  BY StartsOnward, BrokenStays, Actors DEF IInv, Finishes, Next, Self
<1>1. SUFFICES /\ FinishInv(me)' \/ fin'[me] = fin[me]
               /\ \A b \in Actor \ {me} : fin'[b] = fin[b]
  BY <1>0, Untouched DEF Finishes
<1>2. CASE UNCHANGED fin BY <1>2
<1>3. CASE Look(c) /\ ~UNCHANGED fin
  <2>1. /\ Do(me, lease, "failed", "confirm") /\ lease # None /\ rec[lease] = "running"
        /\ lease \in Call /\ UNCHANGED <<child, pc>>
    BY <1>0, <1>3 DEF Look, Missing, TypeOK
  <2>2. child'[lease] # "none" /\ pc'[lease] \in OnRecord
    BY <1>0, <2>1 DEF Starts, StartInv
  <2>3. fin'[me] = [run |-> lease, to |-> "failed", step |-> "confirm"]
        /\ \A b \in Actor \ {me} : fin'[b] = fin[b]
    BY <1>0, <2>1, DoStep
  <2> QED BY <2>2, <2>3 DEF FinishInv
<1>4. CASE SpawnFails(c)
  <2>1. pc'[c] = "abort" /\ child'[c] = "none" /\ Release(me, c, Holds(c))
    BY <1>0, <1>4 DEF SpawnFails, Goto, Starts, StartInv, Early, TypeOK
  <2> QED BY <1>0, <2>1, ReleaseStep DEF Past
<1>5. CASE BindCheck(c) /\ ~UNCHANGED fin
  <2>1. pc'[c] = "abort" /\ Release(me, c, Holds(c)) /\ pc[c] = "bindCheck"
        /\ file[at[c]] # [lease |-> c, pid |-> "host"] /\ broken' = broken
    BY <1>0, <1>5, NoneAssumption DEF BindCheck, Goto, TypeOK, SlotFile
  <2>2. broken
    BY <1>0, <2>1 DEF IInv, Holding, HoldInv, Mine, Starts, StartInv
  <2> QED BY <1>0, <2>1, <2>2, ReleaseStep DEF Past
<1> QED
  BY <1>2, <1>3, <1>4, <1>5 DEF Start, Prune, Look, Unlease, Create, Busy, Exhaust, OpenSlot, Fill,
     Probe, Reclaim, Refuse, Spawn, BindOpen, BindFill, Throw, Abort, Record, Publish, Unlock

\* the listeners and the timer of a run, status and stop calls,
LEMMA EventFinishes ==
  ASSUME IInv, Next, NEW c \in Call,
         Exit(c) \/ Close(c) \/ Deadline(c) \/ Timer(c) \/ Status(c) \/ Stop(c),
         \A d \in Call : Onward(d)
  PROVE  Finishes'
<1>0. /\ TypeOK /\ StartInv(c) /\ \A a \in Actor : FinishInv(a)
      /\ broken => broken'
  BY BrokenStays DEF IInv, Finishes, Starts
<1>1. CASE UNCHANGED fin BY <1>0, <1>1, Untouched DEF Finishes
<1>2. SUFFICES ASSUME ~UNCHANGED fin PROVE Finishes' BY <1>1
<1>3. ASSUME NEW a \in Actor, NEW to \in Terminal, NEW step \in {"mark", "confirm", "write"},
             Do(a, c, to, step), child'[c] # "none", pc'[c] \in OnRecord,
             step # "write" => to \in {"stopped", "failed"},
             step = "write" => child'[c] # "live" /\ (to = "succeeded" => child'[c] = "ok")
      PROVE  Finishes'
  <2>1. fin'[a] = [run |-> c, to |-> to, step |-> step]
        /\ \A b \in Actor \ {a} : fin'[b] = fin[b]
    BY <1>0, <1>3, DoStep
  <2>2. FinishInv(a)' BY <1>3, <2>1 DEF FinishInv
  <2> QED BY <1>0, <2>1, <2>2, Untouched DEF Finishes
<1>4. CASE Close(c)
  <2>1. child[c] \in {"ok", "bad"} /\ pc[c] = "done" /\ UNCHANGED <<child, pc>>
        /\ Do(<<"close", c>>, c, IF child[c] = "ok" THEN "succeeded" ELSE "failed", "write")
    BY <1>0, <1>2, <1>4 DEF Close, StartInv
  <2> QED BY <2>1, <1>3, Actors DEF Terminal, OnRecord
<1>5. CASE Timer(c)
  <2>1. rec[c] \in Open /\ Terminate(c, Host[c]) /\ UNCHANGED pc
        /\ Do(<<"timer", c>>, c, "timed_out", "write")
    BY <1>2, <1>5 DEF Timer
  <2>2. child'[c] \notin {"none", "live"} /\ pc'[c] \in OnRecord
    BY <1>0, <2>1 DEF Terminate, StartInv, Open, TypeOK
  <2> QED BY <2>1, <2>2, <1>3, Actors DEF Terminal
<1>6. CASE Status(c) /\ c \in late
  <2>1. rec[c] \in Open /\ Terminate(c, Gateway) /\ UNCHANGED pc
        /\ Do(Asker, c, "timed_out", "write")
    BY <1>6 DEF Status
  <2>2. child'[c] \notin {"none", "live"} /\ pc'[c] \in OnRecord
    BY <1>0, <2>1 DEF Terminate, StartInv, Open, TypeOK
  <2> QED BY <2>1, <2>2, <1>3, Actors DEF Terminal
<1>7. CASE Status(c) /\ c \notin late
  <2>1. rec[c] \in Open /\ UNCHANGED <<child, pc>> /\ Do(Asker, c, "failed", "confirm")
    BY <1>7 DEF Status
  <2>2. child'[c] # "none" /\ pc'[c] \in OnRecord BY <1>0, <2>1 DEF StartInv, Open
  <2> QED BY <2>1, <2>2, <1>3, Actors DEF Terminal
<1>8. CASE Stop(c)
  <2>1. rec[c] \in Open /\ UNCHANGED <<child, pc>> /\ Do(Stopper, c, "stopped", "mark")
    BY <1>8 DEF Stop
  <2>2. child'[c] # "none" /\ pc'[c] \in OnRecord BY <1>0, <2>1 DEF StartInv, Open
  <2> QED BY <2>1, <2>2, <1>3, Actors DEF Terminal
<1> QED BY <1>2, <1>4, <1>5, <1>6, <1>7, <1>8 DEF Exit, Deadline

\* an actor at its next step,
LEMMA FinishFinishes ==
  ASSUME IInv, Next, NEW a \in Actor, Finish(a), \A d \in Call : Onward(d)
  PROVE  Finishes'
<1> DEFINE r == fin[a].run
<1>0. /\ TypeOK /\ r \in Call /\ FinishInv(a) /\ \A b \in Actor : FinishInv(b)
      /\ broken => broken'
  BY Finishing, BrokenStays DEF Finish, Mark, Confirm, Write, Unlink, Step, IInv, Finishes
<1>1. SUFFICES FinishInv(a)' /\ \A b \in Actor \ {a} : fin'[b] = fin[b]
  BY <1>0, Untouched DEF Finishes
<1>2. CASE Mark(a)
  <2>1. /\ fin'[a].run = r /\ fin'[a].step = "write" /\ fin'[a].to = fin[a].to
        /\ \A b \in Actor \ {a} : fin'[b] = fin[b]
    <3>1. fin[a] \in Errand BY <1>0, <1>2, Finishing DEF Mark, Step
    <3> QED BY <1>0, <1>2, <3>1 DEF Mark, TypeOK, Errand
  <2>2. fin[a].to \in {"stopped", "failed"} /\ child[r] # "none" /\ pc'[r] \in OnRecord
    BY <1>0, <1>2 DEF Mark, FinishInv
  <2>3. child'[r] # "none" /\ child'[r] # "live"
    BY <1>0, <1>2, <2>2 DEF Mark, Terminate, TypeOK
  <2> QED BY <2>1, <2>2, <2>3 DEF FinishInv, Terminal
<1>3. CASE Confirm(a)
  <2>1. CASE Rest(a) BY <1>0, <2>1, RestStep
  <2>2. CASE fin' = [fin EXCEPT ![a].step = "write"] /\ ~Running(r)
    <3>1. /\ fin'[a].run = r /\ fin'[a].step = "write" /\ fin'[a].to = fin[a].to
          /\ \A b \in Actor \ {a} : fin'[b] = fin[b]
      <4>1. fin[a] \in Errand BY <1>0, <1>3, Finishing DEF Confirm, Step
      <4> QED BY <1>0, <2>2, <4>1 DEF TypeOK, Errand
    <3>2. /\ fin[a].to \in {"stopped", "failed"} /\ child'[r] # "none" /\ pc'[r] \in OnRecord
          /\ child'[r] # "live"
      BY <1>0, <1>3, <2>2 DEF Confirm, FinishInv, Running
    <3> QED BY <3>1, <3>2 DEF FinishInv, Terminal
  <2> QED BY <1>3, <2>1, <2>2 DEF Confirm
<1>4. CASE Write(a)
  <2>1. Release(a, r, Holds(r)) /\ pc'[r] \in Past /\ child'[r] # "live"
    BY <1>0, <1>4 DEF Write, FinishInv, OnRecord, Past
  <2> QED BY <1>0, <2>1, ReleaseStep
<1>5. CASE Unlink(a) BY <1>0, <1>5, RestStep DEF Unlink
<1> QED BY <1>2, <1>3, <1>4, <1>5 DEF Finish

\* and those of a process that dies.
LEMMA CrashFinishes ==
  ASSUME IInv, Next, NEW p \in Proc, Crash(p), \A d \in Call : Onward(d) PROVE Finishes'
<1>1. SUFFICES ASSUME NEW a \in Actor PROVE FinishInv(a)' BY DEF Finishes
<1>2. TypeOK /\ FinishInv(a) /\ (broken => broken') BY BrokenStays DEF IInv, Finishes
<1>3. CASE fin'[a] = fin[a] BY <1>2, <1>3, Untouched
<1>4. CASE fin'[a] = Idle
  <2>1. Idle.step \notin Step BY NoneAssumption DEF Idle
  <2> QED BY <1>4, <2>1 DEF FinishInv, Step
<1> QED BY <1>3, <1>4 DEF Crash

-----------------------------------------------------------------------------
\* The errand that a start gave itself is touched by that start alone, while it is
\* at work, and by the actor that carries it out.
LEMMA OwnErrand ==
  ASSUME TypeOK, NEW c \in Call, Start(c), NEW d \in Call, c # d
  PROVE  /\ fin'[Self(d)] = fin[Self(d)] /\ pc'[d] = pc[d] /\ at'[d] = at[d]
         /\ UNCHANGED <<ask, lost>>
<1>1. Self(c) \in Actor /\ Self(d) \in Actor /\ Self(c) # Self(d) BY Actors DEF Self
<1>2. ask' = ask /\ lost' = lost /\ pc'[d] = pc[d] /\ at'[d] = at[d]
  BY DEF Start, Prune, Look, Unlease, Create, Busy, Exhaust, OpenSlot, Fill, Probe, Reclaim,
     Refuse, Spawn, SpawnFails, BindCheck, BindOpen, BindFill, Throw, Abort, Record, Publish, Unlock,
     Goto, slots, TypeOK
<1>3. ASSUME NEW r, NEW to, NEW step, Do(Self(c), r, to, step)
      PROVE  fin'[Self(d)] = fin[Self(d)]
  BY <1>1, <1>3 DEF Do, TypeOK
<1>4. ASSUME Rest(Self(c)) PROVE fin'[Self(d)] = fin[Self(d)] BY <1>1, <1>4 DEF Rest, TypeOK
<1>5. fin'[Self(d)] = fin[Self(d)]
  BY <1>3, <1>4 DEF Start, Prune, Look, Unlease, Create, Busy, Exhaust, OpenSlot, Fill, Probe,
     Reclaim, Refuse, Spawn, SpawnFails, BindCheck, BindOpen, BindFill, Throw, Abort, Record, Publish,
     Unlock, Release
<1> QED BY <1>2, <1>5

LEMMA OtherErrand ==
  ASSUME TypeOK, NEW c \in Call, NEW d \in Call,
         Exit(c) \/ Close(c) \/ Deadline(c) \/ Timer(c) \/ Status(c) \/ Stop(c)
  PROVE  fin'[Self(d)] = fin[Self(d)]
<1>1. /\ Self(d) \in Actor /\ Self(d) # <<"close", c>> /\ Self(d) # <<"timer", c>>
      /\ Self(d) # Asker /\ Self(d) # Stopper
  BY Actors DEF Self, Asker, Stopper
<1> QED BY <1>1 DEF Exit, Close, Deadline, Timer, Status, Stop, Do, TypeOK

LEMMA FileType ==
  ASSUME TypeOK, NEW k \in Slot, file[k] # None
  PROVE  file[k] \in SlotFile /\ file[k].lease \in Call
         /\ file[k].pid \in {"empty", "host", "child"}
BY DEF TypeOK, SlotFile

\* The slot files that the steps of a start leave and write are of starts in the
\* phase their content tells ...
LEMMA StartFiles ==
  ASSUME IInv, TypeOK', NEW c \in Call, Start(c) PROVE Files'
<1> SUFFICES ASSUME NEW k \in Slot, file'[k] # None PROVE FileInv(k)' BY DEF Files, FileInv
<1> DEFINE d == file'[k].lease
<1>0. /\ TypeOK /\ Files /\ FileInv(k) /\ StartInv(c) /\ at[c] \in Slot /\ d \in Call
      /\ file'[k].pid \in {"empty", "host", "child"}
  BY FileType DEF IInv, TypeOK, Files, Starts, SlotFile
<1>1. CASE file'[k] = file[k] /\ d # c
  <2>1. /\ fin'[Self(d)] = fin[Self(d)] /\ pc'[d] = pc[d] /\ at'[d] = at[d]
        /\ UNCHANGED <<ask, lost>>
    BY <1>0, <1>1, OwnErrand
  <2> QED BY <1>0, <1>1, <2>1 DEF FileInv, Releasing, Heavy
<1>2. CASE file'[k] = file[k] /\ d = c
  <2> USE <1>0, <1>2 DEF FileInv, Releasing, Heavy, Goto, TypeOK, slots, OnRecord
  <2>0. pc[c] \notin {"dead", "done", "left"}
    BY DEF Start, Prune, Look, Unlease, Create, Busy, Exhaust, OpenSlot, Fill, Probe, Reclaim,
       Refuse, Spawn, SpawnFails, BindCheck, BindOpen, BindFill, Throw, Abort, Record, Publish, Unlock
  <2>1. pc[c] \in {"fill", "spawn", "bindCheck", "bindOpen", "bindFill", "abort", "record",
                   "publish", "unlock"}
    BY <2>0 DEF OnRecord
  <2>2. CASE Fill(c) BY <2>2 DEF Fill, Filled, Becomes
  <2>3. CASE Spawn(c) BY <2>3 DEF Spawn
  <2>4. CASE SpawnFails(c) \/ (BindCheck(c) /\ pc'[c] = "abort")
    <3>1. CASE file[k].pid = "host"
      <4>1. Holds(c) BY <3>1 DEF Holds
      <4>2. Do(Self(c), c, None, "unlink")
        BY <2>4, <4>1 DEF SpawnFails, BindCheck, Release, Goto, TypeOK
      <4>3. Self(c) \in Actor BY Actors DEF Self
      <4>4. fin'[Self(c)] = [run |-> c, to |-> None, step |-> "unlink"] BY <4>2, <4>3, DoStep
      <4>5. Releasing(c)' BY <4>4
      <4> QED BY <2>4, <3>1, <4>5 DEF SpawnFails, BindCheck
    <3>2. CASE file[k].pid # "host" BY <2>4, <3>2 DEF SpawnFails, BindCheck
    <3> QED BY <3>1, <3>2
  <2>5. CASE BindCheck(c) /\ pc'[c] # "abort" BY <2>5 DEF BindCheck
  <2>6. CASE BindOpen(c) BY <2>6 DEF BindOpen, Becomes
  <2>7. CASE BindFill(c) BY <2>7 DEF BindFill, Filled, Becomes
  <2>8. CASE Abort(c)
    <3>1. ~Releasing(c) BY <2>8, NoneAssumption DEF Abort, Free, Idle, Step
    <3> QED BY <2>8, <3>1 DEF Abort
  <2>9. CASE Record(c) \/ Publish(c) \/ Unlock(c) \/ Throw(c)
    BY <2>9 DEF Record, Publish, Unlock, Throw, OnRecord
  <2> QED BY <2>1, <2>2, <2>3, <2>4, <2>5, <2>6, <2>7, <2>8, <2>9
          DEF Start, Prune, Look, Unlease, Create, Busy, Exhaust, OpenSlot, Probe, Reclaim, Refuse
<1>3. CASE file'[k] # file[k]
  <2>1. k = at[c] /\ at' = at /\ ask' = ask
    BY <1>0, <1>3 DEF Start, Prune, Look, Unlease, Create, Busy, Exhaust, OpenSlot, Fill, Filled,
       Probe, Reclaim, Refuse, Spawn, SpawnFails, BindCheck, BindOpen, BindFill, Throw, Abort, Record,
       Publish, Unlock, Becomes, slots, TypeOK
  <2>2. \/ OpenSlot(c) /\ file'[k] = [lease |-> c, pid |-> "empty"] /\ pc'[c] = "fill"
        \/ Fill(c) /\ file'[k] = [lease |-> c, pid |-> "host"] /\ pc'[c] = "spawn"
        \/ BindOpen(c) /\ file'[k] = [lease |-> c, pid |-> "empty"] /\ pc'[c] = "bindFill"
        \/ BindFill(c) /\ file'[k] = [lease |-> c, pid |-> "child"] /\ pc'[c] = "record"
    BY <1>0, <1>3, <2>1 DEF Start, Prune, Look, Unlease, Create, Busy, Exhaust, OpenSlot, Fill,
       Filled, Probe, Reclaim, Refuse, Spawn, SpawnFails, BindCheck, BindOpen, BindFill, Throw, Abort,
       Record, Publish, Unlock, Becomes, Goto, slots, TypeOK
  <2>3. c \in Heavy BY <1>0, <2>2 DEF OpenSlot, Fill, BindOpen, BindFill, StartInv
  <2> QED BY <2>1, <2>2, <2>3 DEF FileInv, Heavy
<1> QED BY <1>1, <1>2, <1>3

\* ... and so are those that everyone else leaves.
LEMMA OtherFiles ==
  ASSUME IInv, TypeOK', Next, \A c \in Call : ~Start(c) PROVE Files'
<1> SUFFICES ASSUME NEW k \in Slot, file'[k] # None PROVE FileInv(k)' BY DEF Files, FileInv
<1>a. TypeOK /\ FileInv(k) BY DEF IInv, Files
<1>b. file'[k] \in SlotFile /\ file'[k].lease \in Call /\ file'[k].pid \in {"empty", "host", "child"}
  BY DEF TypeOK, SlotFile
<1>c. PICK d \in Call : d = file'[k].lease BY <1>b
<1>d. Self(d) \in Actor BY Actors DEF Self
<1>0. TypeOK /\ FileInv(k) /\ Self(d) \in Actor /\ d # None
  BY <1>a, <1>c, <1>d, NoneAssumption
<1>1. SUFFICES /\ file'[k] = file[k] /\ at' = at /\ ask'.heavy = ask.heavy
               /\ \/ pc'[d] = pc[d] /\ (pc[d] = "abort" /\ Releasing(d) => Releasing(d)')
                  \/ pc'[d] = "dead"
  BY <1>0, <1>b, <1>c DEF FileInv, Heavy, OnRecord
<1>2. ASSUME NEW c \in Call,
             Exit(c) \/ Close(c) \/ Deadline(c) \/ Timer(c) \/ Status(c) \/ Stop(c)
      PROVE  /\ UNCHANGED <<file, at, pc>> /\ ask'.heavy = ask.heavy
             /\ (Releasing(d) => Releasing(d)')
  <2>1. fin'[Self(d)] = fin[Self(d)] BY <1>0, <1>2, OtherErrand
  <2>2. UNCHANGED <<file, at, pc>>
    BY <1>2 DEF Exit, Close, Deadline, Timer, Status, Stop, slots
  <2>3. ask'.heavy = ask.heavy
    BY <1>0, <1>2 DEF Exit, Close, Deadline, Timer, Status, Stop, TypeOK, Ask
  <2> QED BY <2>1, <2>2, <2>3 DEF Releasing
<1>3. ASSUME NEW a \in Actor, Mark(a) \/ Confirm(a) \/ Write(a)
      PROVE  UNCHANGED <<file, at, pc, ask>> /\ (Releasing(d) => Releasing(d)')
  <2>1. UNCHANGED <<file, at, pc, ask>> BY <1>3 DEF Mark, Confirm, Write, slots
  <2>2. \A b \in Actor \ {a} : fin'[b] = fin[b]
    BY <1>0, <1>3 DEF Mark, Confirm, Write, Release, Do, Rest, TypeOK
  <2>3. fin[a].step # "unlink" BY <1>3 DEF Mark, Confirm, Write
  <2> QED BY <1>0, <2>1, <2>2, <2>3 DEF Releasing
<1>4. ASSUME NEW a \in Actor, Unlink(a)
      PROVE  /\ file'[k] = file[k] /\ UNCHANGED <<at, pc, ask>> /\ (Releasing(d) => Releasing(d)')
  <2>1. UNCHANGED <<at, pc, ask>> BY <1>4 DEF Unlink
  <2>2. fin[a].run \in Call BY <1>0, <1>4, Finishing DEF Unlink, Step
  <2>3. k # at[fin[a].run] /\ file'[k] = file[k]
    BY <1>0, <1>4, <2>2 DEF Unlink, Becomes, TypeOK
  <2>4. at[d] = k BY <1>0, <1>c, <2>3 DEF FileInv
  <2>5. \A b \in Actor \ {a} : fin'[b] = fin[b] BY <1>0, <1>4 DEF Unlink, Rest, TypeOK
  <2> QED BY <1>0, <2>1, <2>3, <2>4, <2>5 DEF Releasing
<1>5. ASSUME NEW p \in Proc, Crash(p)
      PROVE  /\ UNCHANGED <<file, at>> /\ ask'.heavy = ask.heavy
             /\ \/ pc'[d] = pc[d] /\ (pc[d] = "abort" /\ Releasing(d) => Releasing(d)')
                \/ pc'[d] = "dead"
  <2>1. UNCHANGED <<file, at>> /\ ask'.heavy = ask.heavy
    BY <1>0, <1>5 DEF Crash, slots, TypeOK, Ask
  <2>2. CASE Host[d] = p /\ pc[d] # "idle" /\ pc[d] \notin Ended
    BY <1>0, <1>5, <2>1, <2>2 DEF Crash
  <2>3. CASE pc[d] \in Ended
    <3>1. pc'[d] = pc[d] /\ pc[d] # "abort" BY <1>0, <1>5, <2>3 DEF Crash, Ended
    <3> QED BY <2>1, <3>1
  <2>4. CASE Host[d] # p
    <3>1. In(Self(d)) # p BY <1>0, <2>4 DEF In, Self
    <3>2. fin'[Self(d)] = fin[Self(d)] /\ pc'[d] = pc[d] BY <1>0, <1>5, <2>4, <3>1 DEF Crash
    <3> QED BY <2>1, <3>2 DEF Releasing
  <2>5. CASE pc[d] = "idle"
    BY <1>0, <1>b, <1>c, <1>5, <2>1, <2>5 DEF FileInv, OnRecord
  <2> QED BY <2>2, <2>3, <2>4, <2>5
<1> QED BY <1>2, <1>3, <1>4, <1>5 DEF Next, Finish

-----------------------------------------------------------------------------
\* While no slot is taken from a live owner, the file of a start at work outlives the
\* steps of the others: what they remove or write over is of nobody.
LEMMA Outlives ==
  ASSUME IInv, NEW c \in Call, Start(c), ~broken', NEW e \in Call, e # c,
         NEW pid \in {"empty", "host", "child"}, Mine(e, pid), Used(file[at[e]])
  PROVE  Mine(e, pid)'
<1> DEFINE k == at[e]
<1>0. /\ TypeOK /\ at'[e] = k /\ k \in Slot /\ at[c] \in Slot
      /\ file[k] = [lease |-> e, pid |-> pid] /\ file[k] # None
  BY OwnErrand, NoneAssumption DEF IInv, TypeOK, Mine, SlotFile
<1>1. SUFFICES file'[k] = file[k] BY <1>0 DEF Mine
<1>2. CASE OpenSlot(c) BY <1>0, <1>2 DEF OpenSlot, Becomes, TypeOK
<1>3. CASE Fill(c) BY <1>0, <1>3 DEF Fill, Filled, Becomes, TypeOK
<1>4. CASE BindFill(c) BY <1>0, <1>4 DEF BindFill, Filled, Becomes, TypeOK
<1>5. CASE BindOpen(c)
  <2>1. ~(file[at[c]] # None /\ file[at[c]].lease # c) BY <1>5 DEF BindOpen, Break
  <2>2. at[c] # k BY <1>0, <2>1
  <2> QED BY <1>0, <1>5, <2>2 DEF BindOpen, Becomes, TypeOK
<1>6. CASE Reclaim(c)
  <2>1. ~Used(file[at[c]]) BY <1>6 DEF Reclaim, Break
  <2>2. at[c] # k BY <2>1
  <2> QED BY <1>0, <1>6, <2>2 DEF Reclaim, Becomes, TypeOK
<1>7. CASE UNCHANGED file BY <1>7
<1> QED BY <1>2, <1>3, <1>4, <1>5, <1>6, <1>7
  DEF Start, Prune, Look, Unlease, Create, Busy, Exhaust, Probe, Refuse, Spawn, SpawnFails,
      BindCheck, Throw, Abort, Record, Publish, Unlock, slots

\* Nobody knows a run before its record: who is to end one has found it there.
LEMMA Unknown == ASSUME IInv, NEW e \in Call, pc[e] \notin OnRecord PROVE ~Known(e)
BY DEF IInv, Starts, StartInv, Finishes, FinishInv, Known

\* The steps of another start make no run known, and no one else makes one known that
\* was not; a slot that was given back stays so.
LEMMA StartKnows ==
  ASSUME TypeOK, NEW c \in Call, Start(c), NEW e \in Call, e # c
  PROVE  /\ Known(e)' => Known(e)
         /\ freed' = freed
<1> USE DEF Known
<1>0. freed' = freed
  BY DEF Start, Prune, Look, Unlease, Create, Busy, Exhaust, OpenSlot, Fill, Probe, Reclaim,
     Refuse, Spawn, SpawnFails, BindCheck, BindOpen, BindFill, Throw, Abort, Record, Publish, Unlock
<1>1. rec'[e] \in {rec[e], "none"}
  BY DEF Start, Prune, Look, Unlease, Create, Busy, Exhaust, OpenSlot, Fill, Probe, Reclaim,
     Refuse, Spawn, SpawnFails, BindCheck, BindOpen, BindFill, Throw, Abort, Record, Publish, Unlock,
     TypeOK
<1>2. Self(c) \in Actor BY Actors DEF Self
<1>3. CASE UNCHANGED fin BY <1>0, <1>1, <1>3
<1>4. CASE Look(c) /\ ~UNCHANGED fin
  <2>1. Do(Self(c), lease, "failed", "confirm") /\ rec[lease] = "running" BY <1>4 DEF Look, Missing
  <2>2. /\ fin'[Self(c)] = [run |-> lease, to |-> "failed", step |-> "confirm"]
        /\ \A b \in Actor \ {Self(c)} : fin'[b] = fin[b]
    BY <1>2, <2>1, DoStep
  <2> QED BY <1>0, <1>1, <2>1, <2>2
<1>5. CASE SpawnFails(c) \/ BindCheck(c)
  <2>1. UNCHANGED fin \/ Release(Self(c), c, Holds(c)) BY <1>5 DEF SpawnFails, BindCheck
  <2>2. CASE Do(Self(c), c, None, "unlink")
    <3>1. /\ fin'[Self(c)] = [run |-> c, to |-> None, step |-> "unlink"]
          /\ \A b \in Actor \ {Self(c)} : fin'[b] = fin[b]
      BY <1>2, <2>2, DoStep
    <3> QED BY <1>0, <1>1, <3>1
  <2>3. CASE Rest(Self(c))
    <3>1. /\ fin'[Self(c)] = Idle
          /\ \A b \in Actor \ {Self(c)} : fin'[b] = fin[b]
      BY <1>2, <2>3 DEF Rest, TypeOK
    <3>2. Idle.step \notin Step BY NoneAssumption DEF Idle
    <3> QED BY <1>0, <1>1, <3>1, <3>2 DEF Step
  <2> QED BY <1>3, <2>1, <2>2, <2>3 DEF Release
<1> QED BY <1>3, <1>4, <1>5 DEF Start, Prune, Unlease, Create, Busy, Exhaust, OpenSlot, Fill,
     Probe, Reclaim, Refuse, Spawn, BindOpen, BindFill, Throw, Abort, Record, Publish, Unlock

LEMMA OthersKnow ==
  ASSUME TypeOK, Next, \A c \in Call : ~Start(c), NEW e \in Call
  PROVE  /\ Known(e)' => Known(e)
         /\ freed \subseteq freed'
<1> USE DEF Known
<1>0. Idle.step \notin Step BY NoneAssumption DEF Idle
<1>1. ASSUME NEW a \in Actor, NEW r \in Call, NEW to, NEW step, Do(a, r, to, step),
             UNCHANGED rec, rec[r] # "none" \/ step = "unlink"
      PROVE  Known(e)' => Known(e)
  <2>1. /\ fin'[a] = [run |-> r, to |-> to, step |-> step]
        /\ \A b \in Actor \ {a} : fin'[b] = fin[b]
    BY <1>1, DoStep
  <2> QED BY <1>1, <2>1
<1>2. CASE UNCHANGED <<fin, rec, freed>> BY <1>2
<1>3. ASSUME NEW c \in Call, Close(c) \/ Timer(c) \/ Status(c) \/ Stop(c)
      PROVE  (Known(e)' => Known(e)) /\ freed' = freed
  <2>1. UNCHANGED <<rec, freed>> BY <1>3 DEF Close, Timer, Status, Stop
  <2>2. UNCHANGED fin \/ (rec[c] \in Open
                          /\ \E a \in Actor, to \in Terminal, step \in Step : Do(a, c, to, step))
    BY <1>3, Actors DEF Close, Timer, Status, Missing, Stop, Open, Terminal, Step
  <2> QED BY <1>1, <1>2, <2>1, <2>2 DEF Open
<1>4. ASSUME NEW c \in Call, Exit(c) \/ Deadline(c)
      PROVE  (Known(e)' => Known(e)) /\ freed' = freed
  BY <1>2, <1>4 DEF Exit, Deadline
<1>5. ASSUME NEW a \in Actor, Finish(a) PROVE (Known(e)' => Known(e)) /\ freed \subseteq freed'
  <2> DEFINE r == fin[a].run
  <2>1. freed \subseteq freed' BY <1>5 DEF Finish, Mark, Confirm, Write, Unlink
  <2>2. fin[a] \in Errand /\ r \in Call
    BY <1>5, Finishing DEF Finish, Mark, Confirm, Write, Unlink, Step
  <2>3. \A b \in Actor \ {a} : fin'[b] = fin[b]
    BY <1>5, <2>2 DEF Finish, Mark, Confirm, Write, Unlink, Release, Do, Rest, TypeOK
  <2>4. fin[a].step \in {"mark", "confirm", "write"} => r # e \/ Known(e) OBVIOUS
  <2>5. fin'[a].run = e => r = e \/ fin'[a].step \notin Step
    BY <1>0, <1>5, <2>2 DEF Finish, Mark, Confirm, Write, Unlink, Release, Do, Rest, TypeOK, Errand
  <2>6. r # e => rec'[e] = rec[e]
    BY <1>5, <2>2 DEF Finish, Mark, Confirm, Write, Unlink, TypeOK
  <2>7. CASE r # e BY <2>1, <2>3, <2>5, <2>6, <2>7 DEF Step
  <2>8. CASE r = e /\ fin[a].step = "unlink"
    <3>1. Unlink(a) BY <1>5, <2>8 DEF Finish, Mark, Confirm, Write
    <3>2. fin'[a] = Idle /\ rec' = rec BY <3>1 DEF Unlink, Rest, TypeOK
    <3> QED BY <1>0, <2>1, <2>3, <3>2 DEF Step
  <2>9. fin[a].step \in Step BY <1>5 DEF Finish, Mark, Confirm, Write, Unlink, Step
  <2> QED BY <2>1, <2>4, <2>7, <2>8, <2>9 DEF Step
<1>6. ASSUME NEW p \in Proc, Crash(p) PROVE (Known(e)' => Known(e)) /\ freed' = freed
  <2>1. UNCHANGED <<rec, freed>> /\ \A a \in Actor : fin'[a] = Idle \/ fin'[a] = fin[a]
    BY <1>6 DEF Crash
  <2> QED BY <1>0, <2>1 DEF Step
<1> QED BY <1>3, <1>4, <1>5, <1>6 DEF Next

LEMMA OthersHold ==
  ASSUME IInv, TypeOK', NEW c \in Call, Start(c), ~broken', NEW e \in Heavy, e # c
  PROVE  HoldInv(e)'
<1>0. /\ TypeOK /\ e \in Call /\ StartInv(e) /\ ~broken /\ HoldInv(e)
  BY BrokenStays DEF IInv, Starts, Holding, Next, Heavy, TypeOK, Ask
<1>1. /\ pc'[e] = pc[e] /\ at'[e] = at[e] /\ child'[e] = child[e] /\ rec'[e] \in {rec[e], "none"}
  <2>1. pc'[e] = pc[e] /\ at'[e] = at[e] BY <1>0, OwnErrand
  <2>2. child'[e] = child[e]
    BY <1>0 DEF Start, Prune, Look, Unlease, Create, Busy, Exhaust, OpenSlot, Fill, Probe, Reclaim,
       Refuse, Spawn, SpawnFails, BindCheck, BindOpen, BindFill, Throw, Abort, Record, Publish, Unlock,
       TypeOK
  <2>3. rec'[e] \in {rec[e], "none"}
    BY <1>0 DEF Start, Prune, Look, Unlease, Create, Busy, Exhaust, OpenSlot, Fill, Probe, Reclaim,
       Refuse, Spawn, SpawnFails, BindCheck, BindOpen, BindFill, Throw, Abort, Record, Publish, Unlock,
       TypeOK
  <2> QED BY <2>1, <2>2, <2>3
<1>6. /\ Known(e)' => Known(e)
      /\ freed' = freed
      /\ pc[e] \notin OnRecord => ~Known(e)
  BY <1>0, StartKnows, Unknown
<1>2. CASE pc[e] \in {"fill", "bindFill"}
  <2>1. Mine(e, "empty") /\ e \notin lost BY <1>0, <1>2 DEF HoldInv, StartInv, Ended
  <2>2. Used(file[at[e]])
    BY <1>0, <1>2, <2>1, NoneAssumption DEF Used, Mine, Section, SlotFile
  <2>3. Mine(e, "empty")' BY <1>0, <2>1, <2>2, Outlives
  <2> QED BY <1>0, <1>1, <1>2, <1>6, <2>3 DEF HoldInv, Bound, OnRecord
<1>3. CASE pc[e] \in {"spawn", "bindCheck", "bindOpen"}
  <2>1. Mine(e, "host") /\ e \notin lost BY <1>0, <1>3 DEF HoldInv, StartInv, Ended
  <2>2. Used(file[at[e]])
    BY <1>0, <2>1, NoneAssumption DEF Used, Mine, SlotFile, Names
  <2>3. Mine(e, "host")' BY <1>0, <2>1, <2>2, Outlives
  <2> QED BY <1>0, <1>1, <1>3, <1>6, <2>3 DEF HoldInv, Bound, OnRecord
<1>4. CASE Running(e) /\ e \notin freed /\ (pc[e] \in Bound \/ Known(e))
  <2>1. Mine(e, "child") BY <1>0, <1>4 DEF HoldInv
  <2>2. Used(file[at[e]])
    BY <1>0, <1>4, <2>1, NoneAssumption DEF Used, Mine, SlotFile, Names
  <2>3. Mine(e, "child")' BY <1>0, <2>1, <2>2, Outlives
  <2>4. pc[e] \notin {"fill", "bindFill", "spawn", "bindCheck", "bindOpen", "abort", "threw"}
    BY <1>4, <1>6 DEF Bound, OnRecord
  <2> QED BY <1>1, <2>3, <2>4 DEF HoldInv
<1>5. CASE /\ pc[e] \notin {"fill", "bindFill", "spawn", "bindCheck", "bindOpen"}
           /\ ~(Running(e) /\ e \notin freed /\ (pc[e] \in Bound \/ Known(e)))
  BY <1>0, <1>1, <1>5, <1>6 DEF HoldInv, Running
<1> QED BY <1>2, <1>3, <1>4, <1>5

\* Its own steps keep the file of a start in the state its phase asks for,
LEMMA OwnHolds ==
  ASSUME IInv, TypeOK', Starts', Finishes', NEW c \in Heavy, Start(c), ~broken' PROVE HoldInv(c)'
<1>0. /\ TypeOK /\ c \in Call /\ at[c] \in Slot /\ StartInv(c) /\ ~broken /\ HoldInv(c)
  BY BrokenStays DEF IInv, Starts, Holding, Next, Heavy, TypeOK, Ask
<1>a. c \in freed => c \in freed'
  BY DEF Start, Prune, Look, Unlease, Create, Busy, Exhaust, OpenSlot, Fill, Probe, Reclaim,
     Refuse, Spawn, SpawnFails, BindCheck, BindOpen, BindFill, Throw, Abort, Record, Publish, Unlock
<1>b. pc'[c] \notin OnRecord => ~Known(c)'
  BY <1>0 DEF Starts, StartInv, Finishes, FinishInv, Known
<1>1. CASE pc[c] \in {"idle", "look", "unlease", "create", "probe", "reclaim", "refuse"}
  <2>1. /\ pc'[c] \in {"look", "unlease", "create", "reused", "open", "reclaim", "probe", "refuse", "waiting"}
        /\ child' = child
    BY <1>0, <1>1 DEF Start, Prune, Look, Unlease, Create, Busy, Exhaust, AfterLock, OpenSlot,
       Fill, Probe, Reclaim, Refuse, Spawn, SpawnFails, BindCheck, BindOpen, BindFill, Throw, Abort,
       Record, Publish, Unlock, Goto, TypeOK
  <2>2. child[c] = "none" BY <1>0, <1>1 DEF StartInv, Early
  <2> QED BY <2>1, <2>2 DEF HoldInv, Running
<1>2. CASE OpenSlot(c)
  <2>1. child'[c] = "none" /\ at' = at /\ pc[c] = "open"
    BY <1>0, <1>2 DEF OpenSlot, StartInv, Early
  <2>2. CASE file[at[c]] = None
    BY <1>0, <1>2, <2>1, <2>2 DEF OpenSlot, Becomes, Goto, HoldInv, Mine, Running, TypeOK
  <2>3. CASE file[at[c]] # None
    BY <1>0, <1>2, <2>1, <2>3 DEF OpenSlot, Goto, HoldInv, Running, TypeOK
  <2> QED BY <2>2, <2>3
<1>3. CASE Fill(c)
  <2>1. Mine(c, "empty") /\ child'[c] = "none" /\ at' = at /\ pc'[c] = "spawn"
    BY <1>0, <1>3 DEF Fill, Goto, HoldInv, StartInv, Early, TypeOK
  <2>2. file'[at[c]] = [lease |-> c, pid |-> "host"]
    BY <1>0, <1>3, <2>1, NoneAssumption DEF Fill, Filled, Becomes, Mine, TypeOK, SlotFile
  <2> QED BY <2>1, <2>2 DEF HoldInv, Mine, Running
<1>4. CASE Spawn(c)
  <2>1. pc[c] = "spawn" /\ pc'[c] = "bindCheck" /\ UNCHANGED <<at, file>>
    BY <1>0, <1>4 DEF Spawn, Goto, TypeOK, slots
  <2> QED BY <1>0, <1>b, <2>1 DEF HoldInv, Mine, OnRecord, Bound
<1>5. CASE SpawnFails(c)
  BY <1>0, <1>5 DEF SpawnFails, Goto, HoldInv, StartInv, Early, Running, TypeOK
<1>6. CASE BindCheck(c)
  <2>1. file[at[c]] = [lease |-> c, pid |-> "host"] /\ file[at[c]] # None
    BY <1>0, <1>6, NoneAssumption DEF BindCheck, HoldInv, Mine, SlotFile
  <2>2. pc'[c] = "bindOpen" /\ UNCHANGED <<at, file>>
    BY <1>0, <1>6, <2>1 DEF BindCheck, Goto, TypeOK, slots
  <2> QED BY <1>b, <2>1, <2>2 DEF HoldInv, Mine, OnRecord, Bound
<1>7. CASE BindOpen(c)
  <2>1. pc'[c] = "bindFill" /\ at' = at /\ file'[at[c]] = [lease |-> c, pid |-> "empty"]
    BY <1>0, <1>7 DEF BindOpen, Becomes, Goto, TypeOK
  <2> QED BY <1>b, <2>1 DEF HoldInv, Mine, OnRecord, Bound
<1>8. CASE BindFill(c)
  <2>1. Mine(c, "empty") /\ at' = at /\ pc'[c] = "record"
    BY <1>0, <1>8 DEF BindFill, Goto, HoldInv, TypeOK
  <2>2. file'[at[c]] = [lease |-> c, pid |-> "child"]
    BY <1>0, <1>8, <2>1, NoneAssumption DEF BindFill, Filled, Becomes, Mine, TypeOK, SlotFile
  <2> QED BY <2>1, <2>2 DEF HoldInv, Mine
<1>9. CASE Abort(c) BY <1>0, <1>9 DEF Abort, Goto, HoldInv, TypeOK, Mine, Running
<1>10. CASE Record(c) \/ Publish(c) \/ Unlock(c) \/ (Throw(c) /\ pc[c] \in {"record", "publish"})
  <2>1. /\ pc[c] \in {"record", "publish", "unlock"} /\ pc'[c] \in {"publish", "unlock", "done", "left"}
        /\ UNCHANGED <<at, file, child>>
    BY <1>0, <1>10 DEF Record, Publish, Unlock, Throw, Goto, TypeOK, slots
  <2> QED BY <1>0, <1>a, <2>1 DEF HoldInv, Mine, Bound, Running
<1>11. CASE Throw(c) /\ pc[c] \in {"open", "fill", "spawn"}
  <2>1. child'[c] = "none" /\ pc'[c] = "left"
    BY <1>0, <1>11 DEF Throw, Goto, StartInv, Early, TypeOK
  <2> QED BY <2>1 DEF HoldInv, Running
<1>12. CASE Throw(c) BY <1>10, <1>11, <1>12 DEF Throw
<1> QED BY <1>1, <1>2, <1>3, <1>4, <1>5, <1>6, <1>7, <1>8, <1>9, <1>10, <1>12
  DEF Start, Prune, Look, Unlease, Create, Busy, Exhaust, Probe, Reclaim, Refuse

\* and no one else touches it before its run has ended.
LEMMA OtherHolds ==
  ASSUME IInv, TypeOK', Next, \A c \in Call : ~Start(c), ~broken', NEW e \in Heavy
  PROVE  HoldInv(e)'
<1>0. /\ TypeOK /\ e \in Call /\ at[e] \in Slot /\ StartInv(e) /\ ~broken /\ HoldInv(e)
      /\ Known(e)' => Known(e)
      /\ freed \subseteq freed'
  BY BrokenStays, OthersKnow DEF IInv, Starts, Holding, Heavy, TypeOK, Ask
<1>1. ASSUME /\ UNCHANGED <<at, file>> /\ pc'[e] = pc[e]
             /\ Running(e)' => Running(e)
             /\ child[e] = "none" => child'[e] = "none"
      PROVE  HoldInv(e)'
  BY <1>0, <1>1 DEF HoldInv, Mine
<1>2. ASSUME NEW c \in Call,
             Exit(c) \/ Close(c) \/ Deadline(c) \/ Timer(c) \/ Status(c) \/ Stop(c)
      PROVE  HoldInv(e)'
  <2>1. UNCHANGED <<at, file, pc>>
    BY <1>2 DEF Exit, Close, Deadline, Timer, Status, Stop, slots
  <2>2. /\ Running(e)' => Running(e)
        /\ child[e] = "none" => child'[e] = "none"
    BY <1>0, <1>2 DEF Exit, Running, Close, Deadline, Timer, Status, Terminate, Stop, TypeOK
  <2> QED BY <1>1, <2>1, <2>2
<1>3. ASSUME NEW a \in Actor, Finish(a) PROVE HoldInv(e)'
  <2> DEFINE r == fin[a].run
  <2>1. r \in Call /\ FinishInv(a)
    BY <1>3, Finishing DEF Finish, Mark, Confirm, Write, Unlink, Step, IInv, Finishes
  <2>2. CASE Mark(a)
    BY <1>0, <1>1, <2>1, <2>2 DEF Mark, Terminate, Running, TypeOK, slots
  <2>3. CASE Confirm(a) \/ Write(a)
    BY <1>0, <1>1, <2>3 DEF Confirm, Write, Running, slots
  <2>4. CASE Unlink(a)
    <3>1. UNCHANGED <<at, pc, child>> /\ pc[r] \in Past /\ (Running(r) => r \in freed')
          /\ (file[at[r]] = None \/ file[at[r]].lease = r)
      BY <1>0, <2>1, <2>4 DEF Unlink, FinishInv, Break
    <3>2. CASE r = e
      BY <1>0, <3>1, <3>2 DEF HoldInv, Running, Past, OnRecord
    <3>3. CASE r # e /\ at[r] = at[e]
      <4>1. \A pid \in {"empty", "host", "child"} : ~Mine(e, pid)
        BY <3>1, <3>3, NoneAssumption, <1>0 DEF Mine, SlotFile
      <4> QED BY <1>0, <3>1, <4>1 DEF HoldInv, Running
    <3>4. CASE at[r] # at[e]
      <4>1. file'[at[e]] = file[at[e]] BY <1>0, <2>4, <3>4 DEF Unlink, Becomes, TypeOK
      <4> QED BY <1>0, <3>1, <4>1 DEF HoldInv, Mine, Running
    <3> QED BY <3>2, <3>3, <3>4
  <2> QED BY <1>3, <2>2, <2>3, <2>4 DEF Finish
<1>4. ASSUME NEW p \in Proc, Crash(p) PROVE HoldInv(e)'
  <2>1. UNCHANGED <<at, file, child>> /\ pc'[e] \in {pc[e], "dead"}
    BY <1>0, <1>4 DEF Crash, slots
  <2> QED BY <1>0, <2>1 DEF HoldInv, Mine, Running, Bound
<1> QED BY <1>2, <1>3, <1>4 DEF Next

-----------------------------------------------------------------------------
LEMMA InvInit == Init => IInv
<1> SUFFICES ASSUME Init PROVE IInv OBVIOUS
<1>1. TypeOK BY TypeInit
<1>2. Idle.step \notin Step /\ 0 < ask.limit
  BY <1>1, NoneAssumption, RunAssumption DEF Idle, TypeOK, Ask
<1>3. Starts BY <1>2 DEF Init, Starts, StartInv, Early, OnRecord, Open, Terminal
<1>4. Finishes BY <1>2 DEF Init, Finishes, FinishInv, Step
<1>5. Files BY DEF Init, Files, FileInv
<1>6. Holding
  <2> SUFFICES ASSUME NEW c \in Heavy PROVE HoldInv(c) BY DEF Holding
  <2>1. c \in Call BY <1>1 DEF TypeOK, Ask, Heavy
  <2>2. pc[c] = "idle" /\ child[c] = "none" BY <2>1 DEF Init
  <2> QED BY <2>2 DEF HoldInv, Running
<1> QED BY <1>1, <1>3, <1>4, <1>5, <1>6 DEF IInv

LEMMA SameHeavy == ASSUME TypeOK, Next PROVE Heavy' = Heavy
<1>1. ASSUME NEW c \in Call, Start(c) PROVE ask' = ask
  BY <1>1 DEF Start, Prune, Look, Unlease, Create, Busy, Exhaust, OpenSlot, Fill, Probe, Reclaim,
     Refuse, Spawn, SpawnFails, BindCheck, BindOpen, BindFill, Throw, Abort, Record, Publish, Unlock
<1>2. ASSUME NEW a \in Actor, Finish(a) PROVE ask' = ask
  BY <1>2 DEF Finish, Mark, Confirm, Write, Unlink
<1>3. ASSUME NEW c \in Call, Exit(c) \/ Close(c) \/ Deadline(c) \/ Timer(c) \/ Status(c)
      PROVE  ask' = ask
  BY <1>3 DEF Exit, Close, Deadline, Timer, Status
<1>4. ASSUME NEW c \in Call, Stop(c) PROVE ask'.heavy = ask.heavy BY <1>4 DEF Stop, TypeOK, Ask
<1>5. ASSUME NEW p \in Proc, Crash(p) PROVE ask'.heavy = ask.heavy BY <1>5 DEF Crash, TypeOK, Ask
<1> QED BY <1>1, <1>2, <1>3, <1>4, <1>5 DEF Next, Heavy

LEMMA InvNext == ASSUME IInv, [Next]_vars PROVE IInv'
<1>1. TypeOK' BY Typing DEF IInv
<1>2. CASE UNCHANGED vars
  <2>1. Starts' BY <1>2 DEF IInv, Starts, StartInv, vars, Heavy
  <2>2. Finishes' BY <1>2 DEF IInv, Finishes, FinishInv, vars
  <2>3. Files' BY <1>2 DEF IInv, Files, FileInv, Releasing, vars, Heavy
  <2>4. Holding' BY <1>2 DEF IInv, Holding, HoldInv, Known, Running, Mine, vars, Heavy
  <2> QED BY <1>1, <2>1, <2>2, <2>3, <2>4 DEF IInv
<1>3. ASSUME NEW c \in Call, Start(c) PROVE IInv'
  <2>1. Next BY <1>3 DEF Next
  <2>2. Starts' BY <1>1, <1>3, StartStarts
  <2>3. Finishes' BY <1>3, StartFinishes
  <2>4. Files' BY <1>1, <1>3, StartFiles
  <2>5. Holding'
    <3> SUFFICES ASSUME ~broken', NEW e \in Heavy PROVE HoldInv(e)'
      BY <2>1, SameHeavy DEF Holding, IInv
    <3> QED BY <1>1, <1>3, <2>2, <2>3, OwnHolds, OthersHold
  <2> QED BY <1>1, <2>2, <2>3, <2>4, <2>5 DEF IInv
<1>4. CASE Next /\ \A c \in Call : ~Start(c)
  <2>1. Starts' BY <1>1, <1>4, OtherStarts
  <2>2. \A d \in Call : Onward(d) BY <1>4, OthersOnward DEF IInv
  <2>3. Finishes' BY <1>4, <2>2, EventFinishes, FinishFinishes, CrashFinishes DEF Next
  <2>4. Files' BY <1>1, <1>4, OtherFiles
  <2>5. Holding'
    <3> SUFFICES ASSUME ~broken', NEW e \in Heavy PROVE HoldInv(e)'
      BY <1>4, SameHeavy DEF Holding, IInv
    <3> QED BY <1>1, <1>4, OtherHolds
  <2> QED BY <1>1, <2>1, <2>3, <2>4, <2>5 DEF IInv
<1> QED BY <1>2, <1>3, <1>4

\* What the theorems rest on: the phases of the starts, the errands of those who end
\* runs, the slot files and who counts on which of them, as the steps of
\* AsyncCommandRun.ts leave them.
THEOREM Inductive == Spec => []IInv
BY InvInit, InvNext, PTL DEF Spec

\* No step of startAsyncCommandRun, of those who end its run or of a process that dies
\* leaves a variable outside its type; no slot past the last one asked for is opened.
THEOREM TypeCorrect == Spec => []TypeOK
<1>1. IInv => TypeOK BY DEF IInv
<1> QED BY <1>1, Inductive, PTL

\* Whoever ends a run on record - its close event, its timer, a status call, a stop, a
\* start that met its lease - its child has gone or was killed, and a success is of a
\* child that ended with code 0.
THEOREM EndsAreReal == Spec => []EndIsReal
<1>1. IInv => EndIsReal BY DEF IInv, Starts, StartInv, EndIsReal
<1> QED BY <1>1, Inductive, PTL

\* Every slot whose file names a live process is that of a start under way, of a run
\* on record that has not ended, of one that is being ended, or the leak of a start
\* that threw outside its catch.
THEOREM CapacityReturns == Spec => []CapacityComesBack
<1>1. IInv => CapacityComesBack
  <2> SUFFICES ASSUME IInv, NEW k \in Slot, file[k] # None, Names(file[k]),
                      child[file[k].lease] # "killed"
               PROVE  LET c == file[k].lease
                      IN pc[c] \in Section \cup {"dead", "left"} \/ rec[c] \in Open
    BY DEF CapacityComesBack
  <2> DEFINE c == file[k].lease
  <2>1. /\ c \in Call /\ file[k].pid \in {"empty", "host", "child"}
        /\ FileInv(k) /\ StartInv(c)
    BY FileType DEF IInv, Files, Starts
  <2>2. CASE file[k].pid = "empty" BY <2>2 DEF Names
  <2>3. CASE file[k].pid = "host" BY <2>1, <2>3 DEF FileInv, Section
  <2>4. CASE file[k].pid = "child"
    <3>1. child[c] = "live" BY <2>4 DEF Names, Running
    <3>2. pc[c] \in {"record"} \cup OnRecord BY <2>1, <2>4 DEF FileInv
    <3> QED BY <2>1, <3>1, <3>2 DEF StartInv, OnRecord, Section
  <2> QED BY <2>1, <2>2, <2>3, <2>4
<1> QED BY <1>1, Inductive, PTL

\* As long as no slot file is taken from a live owner, or before its owner has filled
\* it, no more children run than heavy slots were asked for, those that were sent a
\* signal and go on among them: each that its worker or a record knows has a slot file
\* of its own until a finalizer gives that back.
THEOREM Limit == Spec => []WithinLimit
<1>1. IInv => WithinLimit
  <2> DEFINE S == {c \in Heavy \ freed : Running(c) /\ (pc[c] # "dead" \/ rec[c] # "none")}
             T == 0..(ask.limit - 1)
             f == [c \in S |-> at[c]]
  <2> SUFFICES ASSUME IInv, ~broken PROVE Cardinality(S) <= ask.limit BY DEF WithinLimit
  <2>1. ask.limit \in Nat \ {0} BY RunAssumption DEF IInv, TypeOK, Ask
  <2>2. ASSUME NEW c \in S
        PROVE  /\ c \in Call /\ at[c] \in T /\ at[c] \in Slot
               /\ file[at[c]].lease = c
    <3>1. /\ c \in Call /\ c \in Heavy /\ StartInv(c) /\ HoldInv(c) /\ at[c] \in Slot
          /\ Running(c) /\ child[c] # "none" /\ c \notin freed /\ pc[c] \in Pc
      BY DEF IInv, Starts, Holding, Heavy, TypeOK, Ask, Running
    <3>2. at[c] \in T BY <2>1, <3>1, RunAssumption DEF StartInv, Slot
    <3>3. pc[c] \in {"bindCheck", "bindOpen", "bindFill", "record"} \cup OnRecord
      BY <3>1 DEF StartInv, HoldInv, Pc, Section, Ended, Early, OnRecord
    <3>4. pc[c] = "dead" => Known(c) BY DEF Known
    <3>5. \E pid \in {"empty", "host", "child"} : Mine(c, pid)
      BY <3>1, <3>3, <3>4 DEF HoldInv, OnRecord, Bound
    <3> QED BY <3>1, <3>2, <3>5 DEF Mine
  <2>3. f \in Injection(S, T) BY <2>2 DEF Injection, IsInjective
  <2>4. IsFiniteSet(T) /\ Cardinality(T) = ask.limit
    <3> DEFINE n == ask.limit - 1
    <3>1. 0 \in Int /\ n \in Int /\ ~(0 > n) /\ n - 0 + 1 = ask.limit BY <2>1
    <3> HIDE DEF n
    <3>2. IsFiniteSet(0..n) /\ Cardinality(0..n) = n - 0 + 1 BY <3>1, FS_Interval
    <3> QED BY <3>1, <3>2 DEF n
  <2> HIDE DEF S, T, f
  <2>5. Cardinality(S) <= Cardinality(T) BY <2>3, <2>4, FS_Injection DEF ExistsInjection
  <2> QED BY <2>4, <2>5
<1> QED BY <1>1, Inductive, PTL
=============================================================================
