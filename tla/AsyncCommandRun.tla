--------------------------- MODULE AsyncCommandRun ---------------------------
(***************************************************************************)
(* Supervised command runs (src/Infrastructure/Process/AsyncCommandRun.ts):*)
(* a start looks for an equivalent run to reuse, takes one of the heavy    *)
(* slots, spawns a child, writes the run's record and watches the child;   *)
(* status and stop calls, the child's close event and the deadline timer   *)
(* each read the record and write it whole.  Every file-system call that   *)
(* another process can come between is a step, and processes die: their    *)
(* timers and listeners go, their files and children stay.                 *)
(*                                                                         *)
(* A run is known by the start call that made it.  All deduplicated calls  *)
(* are of one operation, so one lease file and one start lock are modelled.*)
(***************************************************************************)
EXTENDS Integers, FiniteSets

CONSTANTS Call,     \* calls of startAsyncCommandRun
          Proc,     \* node processes
          Host,     \* the process a call runs in
          Gateway,  \* the process that answers status and stop calls
          MaxLimit, \* the most heavy slots asked for
          Asked,    \* what may be asked of the calls, see Ask
          None      \* no file, no call

Slot == 0..(MaxLimit - 1)

\* The inputs: the calls with a capacity class, those with a dedupe key, those
\* whose child ends with code 0 when left alone, the number of heavy slots; and
\* the bounds of the model: the runs that may be stopped (once), those that may
\* come to their deadline, the processes one of which may die, and the calls that
\* may throw where nothing is released.
Ask == [heavy : SUBSET Call, deduped : SUBSET Call, good : SUBSET Call,
        limit : 1..MaxLimit,
        stopped : SUBSET Call, timed : SUBSET Call, mortal : SUBSET Proc,
        fragile : SUBSET Call]

ASSUME RunAssumption == /\ Asked \subseteq Ask
                        /\ Host \in [Call -> Proc] /\ Gateway \in Proc
                        /\ MaxLimit \in Nat \ {0}

VARIABLES ask,     \* what is asked of the calls
          pc,      \* where each start is
          at,      \* the slot it works on
          file,    \* slot files: the call whose lease id is in it, the pid it names
          lease,   \* the dedupe lease: the run it names
          lock,    \* the dedupe start lock: the call that wrote it
          child,   \* the child process of each run
          closing, \* runs whose child has gone and whose close event is due
          rec,     \* status in each run's record
          active,  \* runs in activeRuns of their process
          timer,   \* runs whose deadline timer is set
          late,    \* runs past their deadline
          lost,    \* calls whose process has died
          fin,     \* what each actor that ends a run is about to do
          \* and two ghosts, for the properties:
          broken,  \* a slot was taken from a live owner
          freed    \* runs whose slot was given back before their child had gone

vars == <<ask, pc, at, file, lease, lock, child, closing, rec, active, timer, late,
          lost, fin, broken, freed>>

Terminal == {"succeeded", "failed", "stopped", "timed_out"}
Open == {"running", "stopping"}

\* Where an actor that ends runs is.
Actor == ({"start", "close", "timer"} \X Call) \cup ({"status", "stop"} \X {None})
Step == {"mark", "confirm", "write", "unlink"}
Errand == [run : Call, to : Terminal \cup {None}, step : Step]
Idle == [run |-> None, to |-> None, step |-> None]
SlotFile == [lease : Call, pid : {"empty", "host", "child"}]
ASSUME NoneAssumption == None \notin Call /\ None \notin Step /\ None \notin SlotFile

Free(a) == fin[a] = Idle
In(a) == IF a[2] = None THEN Gateway ELSE Host[a[2]]
Self(c) == <<"start", c>>
Asker == <<"status", None>>
Stopper == <<"stop", None>>

Section == {"open", "fill", "probe", "reclaim", "spawn", "bindCheck", "bindOpen",
            "bindFill", "record", "publish", "unlock", "refuse", "abort"}
Ended == {"done", "waiting", "threw", "left", "reused", "dead"}
Pc == {"idle", "look", "create", "unlease"} \cup Section \cup Ended

TypeOK == /\ pc \in [Call -> Pc]
          /\ at \in [Call -> Slot]
          /\ file \in [Slot -> {None} \cup SlotFile]
          /\ lease \in Call \cup {None} /\ lock \in Call \cup {None}
          /\ child \in [Call -> {"none", "live", "killed", "ok", "bad"}]
          /\ closing \in SUBSET Call /\ active \in SUBSET Call /\ timer \in SUBSET Call
          /\ late \in SUBSET Call /\ lost \in SUBSET Call
          /\ rec \in [Call -> {"none"} \cup Open \cup Terminal]
          /\ fin \in [Actor -> {Idle} \cup Errand]
          /\ ask \in Ask /\ broken \in BOOLEAN /\ freed \in SUBSET Call

Init == /\ ask \in Asked
        /\ pc = [c \in Call |-> "idle"] /\ at = [c \in Call |-> 0]
        /\ file = [k \in Slot |-> None] /\ lease = None /\ lock = None
        /\ child = [c \in Call |-> "none"] /\ rec = [c \in Call |-> "none"]
        /\ closing = {} /\ active = {} /\ timer = {} /\ late = {} /\ lost = {}
        /\ fin = [a \in Actor |-> Idle] /\ broken = FALSE /\ freed = {}

Goto(c, l) == pc' = [pc EXCEPT ![c] = l]
Becomes(k, f) == file' = [file EXCEPT ![k] = f]
Do(a, r, to, step) == fin' = [fin EXCEPT ![a] = [run |-> r, to |-> to, step |-> step]]
Rest(a) == fin' = [fin EXCEPT ![a] = Idle]

Running(r) == child[r] \in {"live", "killed"}

\* isProcessRunning of the pid in a slot file.
Names(f) == CASE f.pid = "empty" -> FALSE
              [] f.pid = "host"  -> f.lease \notin lost
              [] f.pid = "child" -> Running(f.lease)

\* The process a slot file names is alive, or is about to write its pid.
Used(f) == /\ f # None
           /\ Names(f) \/ (f.pid = "empty" /\ f.lease \notin lost /\ pc[f.lease] \in Section)

Heavy == ask.heavy
Deduped == ask.deduped

Break(is) == broken' = (broken \/ is)

slots == <<at, file>>
dedupe == <<lease, lock>>
watch == <<closing, active, timer, late>>
-----------------------------------------------------------------------------
\* startAsyncCommandRun

\* pruneExpiredRuns: records of runs that ended a day ago go.
Prune(c) == /\ pc[c] = "idle"
            /\ \E gone \in SUBSET {r \in Call : rec[r] \in Terminal} :
                   rec' = [r \in Call |-> IF r \in gone THEN "none" ELSE rec[r]]
            /\ Goto(c, IF c \in Deduped THEN "look" ELSE IF c \in Heavy THEN "open" ELSE "spawn")
            /\ UNCHANGED <<ask, slots, dedupe, child, watch, lost, fin, broken, freed>>

\* The run of a lease whose process is missing, as seen from process p.
Missing(r, p) == /\ rec[r] = "running" /\ ~Running(r)
                 /\ ~(Host[r] = p /\ r \in active)

\* resolveDedupeLease, before the start lock and again at each attempt at it.
\* A success is reused while it is recent; a lease older than its time to live is
\* removed, open as its run may be.
Look(c) == /\ pc[c] = "look" /\ Free(Self(c))
           /\ \/ lease = None /\ Goto(c, "create") /\ UNCHANGED fin
              \/ /\ lease # None /\ rec[lease] \in Open /\ ~Missing(lease, Host[c])
                 /\ Goto(c, "reused") /\ UNCHANGED fin
              \/ /\ lease # None /\ Missing(lease, Host[c])
                 /\ Do(Self(c), lease, "failed", "confirm") /\ UNCHANGED pc
              \/ /\ lease # None /\ rec[lease] = "succeeded"
                 /\ Goto(c, "reused") /\ UNCHANGED fin
              \/ lease # None /\ Goto(c, "unlease") /\ UNCHANGED fin
           /\ UNCHANGED <<ask, slots, dedupe, child, watch, rec, lost, broken, freed>>

\* unlink(leasePath): whatever run the lease names by now.
Unlease(c) == /\ pc[c] = "unlease"
              /\ lease' = None
              /\ Goto(c, "create")
              /\ UNCHANGED <<ask, slots, lock, child, watch, rec, lost, fin, broken, freed>>

\* Where a start goes once it has, or goes without, the lock.
AfterLock(c) == IF c \in Heavy THEN "open" ELSE "spawn"

\* acquireDedupeStartLock: exclusive creation of the lock file ...
Create(c) == /\ pc[c] = "create" /\ lock = None
             /\ lock' = c
             /\ Goto(c, AfterLock(c))
             /\ UNCHANGED <<ask, slots, lease, child, watch, rec, lost, fin, broken, freed>>

\* ... a lock that is there is waited for, one older than 30 seconds is removed ...
Busy(c) == /\ pc[c] = "create" /\ lock # None
           /\ Goto(c, "look")
           /\ lock' \in {lock, None}
           /\ UNCHANGED <<ask, slots, lease, child, watch, rec, lost, fin, broken, freed>>

\* ... and after 25 attempts it is removed and the start goes on without one.
Exhaust(c) == /\ pc[c] = "create" /\ lock # None
              /\ lock' = None
              /\ Goto(c, AfterLock(c))
              /\ UNCHANGED <<ask, slots, lease, child, watch, rec, lost, fin, broken, freed>>

\* release of the start lock: unlinks it, whoever wrote it.
ReleaseLock(c) == lock' = IF c \in Deduped THEN None ELSE lock
-----------------------------------------------------------------------------
\* acquireAsyncCommandCapacity: slots are tried in order.

OpenSlot(c) == /\ pc[c] = "open"
               /\ IF file[at[c]] = None
                  THEN Becomes(at[c], [lease |-> c, pid |-> "empty"]) /\ Goto(c, "fill")
                  ELSE Goto(c, "probe") /\ UNCHANGED file
               /\ UNCHANGED <<ask, at, dedupe, child, watch, rec, lost, fin, broken, freed>>

\* The content goes into the file that was opened, linked still or not.
Filled(c, pid) == IF file[at[c]] # None /\ file[at[c]].lease = c
                  THEN Becomes(at[c], [lease |-> c, pid |-> pid]) ELSE UNCHANGED file

Fill(c) == /\ pc[c] = "fill"
           /\ Filled(c, "host")
           /\ Goto(c, "spawn")
           /\ UNCHANGED <<ask, at, dedupe, child, watch, rec, lost, fin, broken, freed>>

\* The file that was there is read: absent, empty or of a dead process, it is
\* to be removed; of a live one, the next slot is tried.
Probe(c) == /\ pc[c] = "probe"
            /\ IF file[at[c]] = None \/ ~Names(file[at[c]])
               THEN Goto(c, "reclaim") /\ UNCHANGED at
               ELSE IF at[c] + 1 < ask.limit
                    THEN at' = [at EXCEPT ![c] = @ + 1] /\ Goto(c, "open")
                    ELSE Goto(c, "refuse") /\ UNCHANGED at
            /\ UNCHANGED <<ask, file, dedupe, child, watch, rec, lost, fin, broken, freed>>

Reclaim(c) == /\ pc[c] = "reclaim"
              /\ Becomes(at[c], None)
              /\ Break(Used(file[at[c]]))
              /\ Goto(c, "open")
              /\ UNCHANGED <<ask, at, dedupe, child, watch, rec, lost, fin, freed>>

\* ASYNC_COMMAND_WAITING_HEAVY_CAPACITY
Refuse(c) == /\ pc[c] = "refuse"
             /\ ReleaseLock(c)
             /\ Goto(c, "waiting")
             /\ UNCHANGED <<ask, slots, lease, child, watch, rec, lost, fin, broken, freed>>
-----------------------------------------------------------------------------
\* spawn and bindAsyncCommandCapacityToChild

\* releaseAsyncCommandCapacity reads the slot file, and is to unlink it if the
\* lease id is that of the run.
Release(a, r, mine) == IF mine THEN Do(a, r, None, "unlink") ELSE Rest(a)
Holds(r) == LET f == file[at[r]]
            IN r \in Heavy /\ f # None /\ f.lease = r /\ f.pid # "empty"

Spawn(c) == /\ pc[c] = "spawn"
            /\ child' = [child EXCEPT ![c] = "live"]
            /\ Goto(c, IF c \in Heavy THEN "bindCheck" ELSE "record")
            /\ UNCHANGED <<ask, slots, dedupe, watch, rec, lost, fin, broken, freed>>

\* Mutant: the catch does not release the slot.
SpawnFailsKeeping(c) == /\ pc[c] = "spawn"
                        /\ Goto(c, "abort")
                        /\ UNCHANGED <<ask, slots, dedupe, child, watch, rec, lost, fin, broken, freed>>

\* The catch: releaseAsyncCommandCapacity, then the start lock.
SpawnFails(c) == /\ pc[c] = "spawn"
                 /\ Release(Self(c), c, Holds(c))
                 /\ Goto(c, "abort")
                 /\ UNCHANGED <<ask, slots, dedupe, child, watch, rec, lost, broken, freed>>

\* "Heavy capacity lease ownership changed before child binding": the child of
\* a start that throws here runs on, and no record knows it.
BindCheck(c) == /\ pc[c] = "bindCheck"
                /\ IF file[at[c]] # None /\ file[at[c]] = [lease |-> c, pid |-> "host"]
                   THEN Goto(c, "bindOpen") /\ UNCHANGED fin
                   ELSE Goto(c, "abort") /\ Release(Self(c), c, Holds(c))
                /\ UNCHANGED <<ask, slots, dedupe, child, watch, rec, lost, broken, freed>>

\* writeFile: the file is emptied, or created, and then written.
BindOpen(c) == /\ pc[c] = "bindOpen"
               /\ Becomes(at[c], [lease |-> c, pid |-> "empty"])
               /\ Break(file[at[c]] # None /\ file[at[c]].lease # c)
               /\ Goto(c, "bindFill")
               /\ UNCHANGED <<ask, at, dedupe, child, watch, rec, lost, fin, freed>>

\* Mutant: the slot keeps the pid of the process that started the run.
BindFillHost(c) == /\ pc[c] = "bindFill"
                   /\ Filled(c, "host")
                   /\ Goto(c, "record")
                   /\ UNCHANGED <<ask, at, dedupe, child, watch, rec, lost, fin, broken, freed>>

BindFill(c) == /\ pc[c] = "bindFill"
               /\ Filled(c, "child")
               /\ Goto(c, "record")
               /\ UNCHANGED <<ask, at, dedupe, child, watch, rec, lost, fin, broken, freed>>

\* What throws outside the catch - the writes of the slot file, the directory and
\* the output files, the resolution of the command, the writes of the record and of
\* the lease - leaves slot, start lock and child as they are.
Throw(c) == /\ c \in ask.fragile /\ pc[c] \in {"open", "fill", "spawn", "record", "publish"}
            /\ Goto(c, "left")
            /\ UNCHANGED <<ask, slots, dedupe, child, watch, rec, lost, fin, broken, freed>>

Abort(c) == /\ pc[c] = "abort" /\ Free(Self(c))
            /\ ReleaseLock(c)
            /\ Goto(c, "threw")
            /\ UNCHANGED <<ask, slots, lease, child, watch, rec, lost, fin, broken, freed>>

Record(c) == /\ pc[c] = "record"
             /\ rec' = [rec EXCEPT ![c] = "running"]
             /\ Goto(c, IF c \in Deduped THEN "publish" ELSE "unlock")
             /\ UNCHANGED <<ask, slots, dedupe, child, watch, lost, fin, broken, freed>>

Publish(c) == /\ pc[c] = "publish"
              /\ lease' = c
              /\ Goto(c, "unlock")
              /\ UNCHANGED <<ask, slots, lock, child, watch, rec, lost, fin, broken, freed>>

\* The start lock is released; only now does anyone listen to the child, and
\* the deadline timer is set.
Unlock(c) == /\ pc[c] = "unlock"
             /\ ReleaseLock(c)
             /\ active' = active \cup {c} /\ timer' = timer \cup {c}
             /\ Goto(c, "done")
             /\ UNCHANGED <<ask, slots, lease, child, closing, late, rec, lost, fin, broken, freed>>
-----------------------------------------------------------------------------
\* The child

Exit(c) == /\ Running(c)
           /\ child' = [child EXCEPT ![c] = IF @ = "live" /\ c \in ask.good THEN "ok" ELSE "bad"]
           /\ closing' = IF c \in lost THEN closing ELSE closing \cup {c}
           /\ UNCHANGED <<ask, pc, slots, dedupe, active, timer, late, rec, lost, fin, broken, freed>>

\* The close event: nobody hears it before the start has ended.
Close(c) == LET a == <<"close", c>>
            IN /\ c \in closing
               /\ closing' = closing \ {c}
               /\ IF pc[c] = "done" /\ rec[c] \in Open
                  THEN Do(a, c, IF child[c] = "ok" THEN "succeeded" ELSE "failed", "write")
                  ELSE UNCHANGED fin
               /\ UNCHANGED <<ask, pc, slots, dedupe, child, active, timer, late, rec, lost, broken, freed>>

\* terminateProcessTree, by a process that forgets the child of its own runs.
Terminate(r, p) == /\ child' = [child EXCEPT ![r] = IF @ = "live" THEN "killed" ELSE @]
                   /\ active' = IF Host[r] = p THEN active \ {r} ELSE active

Deadline(c) == /\ rec[c] \in Open /\ c \in ask.timed \ late
               /\ late' = late \cup {c}
               /\ UNCHANGED <<ask, pc, slots, dedupe, child, closing, active, timer, rec, lost, fin, broken, freed>>

Timer(c) == /\ c \in timer /\ c \in late
            /\ timer' = timer \ {c}
            /\ IF rec[c] \in Open
               THEN Terminate(c, Host[c]) /\ Do(<<"timer", c>>, c, "timed_out", "write")
               ELSE UNCHANGED <<child, active, fin>>
            /\ UNCHANGED <<ask, pc, slots, dedupe, closing, late, rec, lost, broken, freed>>
-----------------------------------------------------------------------------
\* getAsyncCommandRunStatus and stopAsyncCommandRun

\* Mutant: only the timer looks at the deadline.
StatusNoDeadline(r) == /\ Free(Asker) /\ Missing(r, Gateway)
                       /\ Do(Asker, r, "failed", "confirm")
                       /\ UNCHANGED <<ask, pc, slots, dedupe, child, watch, rec, lost, broken, freed>>

Status(r) == /\ Free(Asker) /\ rec[r] \in Open
             /\ \/ /\ r \in late
                   /\ Terminate(r, Gateway) /\ Do(Asker, r, "timed_out", "write")
                \/ /\ r \notin late /\ Missing(r, Gateway)
                   /\ Do(Asker, r, "failed", "confirm")
                   /\ UNCHANGED <<child, active>>
             /\ UNCHANGED <<ask, pc, slots, dedupe, closing, timer, late, rec, lost, broken, freed>>

\* Mutant: the stop ends the run with the status it has marked it with.
StopAsMarked(r) == /\ Free(Stopper) /\ rec[r] \in Open /\ r \in ask.stopped
                   /\ ask' = [ask EXCEPT !.stopped = @ \ {r}]
                   /\ Do(Stopper, r, "stopping", "mark")
                   /\ UNCHANGED <<pc, slots, dedupe, child, watch, rec, lost, broken, freed>>

Stop(r) == /\ Free(Stopper) /\ rec[r] \in Open /\ r \in ask.stopped
           /\ ask' = [ask EXCEPT !.stopped = @ \ {r}]
           /\ Do(Stopper, r, "stopped", "mark")
           /\ UNCHANGED <<pc, slots, dedupe, child, watch, rec, lost, broken, freed>>

\* Mutant: only the child of a run in activeRuns is terminated.
MarkOwn(a) == /\ fin[a].step = "mark"
              /\ rec' = [rec EXCEPT ![fin[a].run] = "stopping"]
              /\ IF fin[a].run \in active THEN Terminate(fin[a].run, In(a))
                                          ELSE UNCHANGED <<child, active>>
              /\ fin' = [fin EXCEPT ![a].step = "write"]
              /\ UNCHANGED <<ask, pc, slots, dedupe, closing, timer, late, lost, broken, freed>>

\* The record becomes "stopping", whatever it has become since it was read.
Mark(a) == /\ fin[a].step = "mark"
           /\ rec' = [rec EXCEPT ![fin[a].run] = "stopping"]
           /\ Terminate(fin[a].run, In(a))
           /\ fin' = [fin EXCEPT ![a].step = "write"]
           /\ UNCHANGED <<ask, pc, slots, dedupe, closing, timer, late, lost, broken, freed>>

\* reconcileMissingProcess reads the record again after a tenth of a second.
Confirm(a) == LET r == fin[a].run
              IN /\ fin[a].step = "confirm"
                 /\ IF rec[r] \in Open /\ ~Running(r) /\ ~(Host[r] = In(a) /\ r \in active)
                    THEN fin' = [fin EXCEPT ![a].step = "write"]
                    ELSE Rest(a)
                 /\ UNCHANGED <<ask, pc, slots, dedupe, child, watch, rec, lost, broken, freed>>

\* finalizeRun writes the whole record; the run leaves activeRuns, its timer
\* goes.  (A deadline is looked at only while the run is open.)
Write(a) == LET r == fin[a].run
            IN /\ fin[a].step = "write"
               /\ rec' = [rec EXCEPT ![r] = fin[a].to]
               /\ late' = late \ {r}
               /\ IF Host[r] = In(a)
                  THEN active' = active \ {r} /\ timer' = timer \ {r}
                  ELSE UNCHANGED <<active, timer>>
               /\ Release(a, r, Holds(r))
               /\ UNCHANGED <<ask, pc, slots, dedupe, child, closing, lost, broken, freed>>

\* The unlink of releaseAsyncCommandCapacity: of whatever file is there by now.
Unlink(a) == LET r == fin[a].run
                 f == file[at[r]]
             IN /\ fin[a].step = "unlink"
                /\ Becomes(at[r], None)
                /\ Break(f # None /\ f.lease # r)
                /\ freed' = IF Running(r) THEN freed \cup {r} ELSE freed
                /\ Rest(a)
                /\ UNCHANGED <<ask, pc, at, dedupe, child, watch, rec, lost>>
-----------------------------------------------------------------------------
\* A process dies: its starts, listeners and timers go.
Crash(p) == LET mine == {c \in Call : Host[c] = p /\ pc[c] # "idle"}
            IN /\ p \in ask.mortal /\ mine # {}
               /\ ask' = [ask EXCEPT !.mortal = {}]
               /\ lost' = mine
               /\ pc' = [c \in Call |-> IF c \in mine /\ pc[c] \notin Ended THEN "dead" ELSE pc[c]]
               /\ closing' = closing \ mine /\ active' = active \ mine /\ timer' = timer \ mine
               /\ fin' = [a \in Actor |-> IF In(a) = p THEN Idle ELSE fin[a]]
               /\ UNCHANGED <<slots, dedupe, child, late, rec, broken, freed>>

Start(c) == \/ Prune(c) \/ Look(c) \/ Unlease(c) \/ Create(c) \/ Busy(c) \/ Exhaust(c)
            \/ OpenSlot(c) \/ Fill(c) \/ Probe(c) \/ Reclaim(c) \/ Refuse(c)
            \/ Spawn(c) \/ SpawnFails(c) \/ BindCheck(c) \/ BindOpen(c) \/ BindFill(c)
            \/ Throw(c) \/ Abort(c) \/ Record(c) \/ Publish(c) \/ Unlock(c)

Finish(a) == Mark(a) \/ Confirm(a) \/ Write(a) \/ Unlink(a)

Next == \/ \E c \in Call : \/ Start(c) \/ Exit(c) \/ Close(c) \/ Deadline(c) \/ Timer(c)
                           \/ Status(c) \/ Stop(c)
        \/ \E a \in Actor : Finish(a)
        \/ \E p \in Proc : Crash(p)

Spec == Init /\ [][Next]_vars

\* A live process runs on, a killed child goes, a due event is delivered, time
\* passes, and the caller of a run keeps asking for its status.
FairSpec == /\ Spec
            /\ \A c \in Call : /\ WF_vars(pc[c] # "idle" /\ Start(c))
                               /\ WF_vars(\/ child[c] = "killed" /\ Exit(c)
                                          \/ Close(c) \/ Deadline(c) \/ Timer(c) \/ Status(c))
            /\ WF_vars(\E a \in Actor : Finish(a))
-----------------------------------------------------------------------------
\* The heavy semaphore, "rebound from worker PID to the actual child PID", which
\* "worker loss does not prematurely free": until a slot file is taken from the
\* live process it names, or before its writer has filled it, no more children
\* run than there are slots, those counted that were sent a signal and go on.
\* Two kinds are not counted, as the code gives their slots away: a child that
\* goes on after a finalizer gave its slot back (finalizeRun waits for no exit),
\* and one whose worker died between spawn and record.
WithinLimit ==
    ~broken => Cardinality({c \in Heavy \ freed : Running(c) /\ (pc[c] # "dead" \/ rec[c] # "none")})
                   <= ask.limit

\* Capacity comes back, but for one leak: a slot whose file names a live process,
\* not a child that has been killed and is still going, is that of a start under
\* way, of a run on record that has not ended, of one that an actor is ending, or
\* of a start that threw outside its catch.
CapacityComesBack ==
    \A k \in Slot : file[k] # None /\ Names(file[k]) /\ child[file[k].lease] # "killed" =>
        LET c == file[k].lease
        IN \/ pc[c] \in Section \cup {"dead", "left"}
           \/ rec[c] \in Open
           \/ \E a \in Actor : fin[a].run = c

\* Whichever of the close event, the timer, a status call, a stop or a start
\* that met its lease ended a run on record, its child has gone or has been
\* killed, and it is a success only if the child ended with code 0.
EndIsReal == \A c \in Call : /\ rec[c] \in Terminal => child[c] # "live"
                             /\ rec[c] = "succeeded" => child[c] = "ok"

\* Every run that comes to its deadline ends on record, whoever dies: by its
\* close event, its timer, or the status calls once its process is gone.
RunsSettle == \A c \in Call : c \in ask.timed /\ rec[c] \in Open ~> rec[c] \notin Open
=============================================================================
