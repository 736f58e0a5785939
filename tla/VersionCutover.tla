---------------------------- MODULE VersionCutover ----------------------------
(***************************************************************************)
(* The version cutover (tool/runtime-version-transaction.mjs, with its      *)
(* store, launcher and candidate guardian).  A controller process takes a   *)
(* lock directory, recovers whatever transaction it finds, starts the       *)
(* candidate runtime under a guardian, moves the selector from the previous *)
(* version to the candidate when that is healthy, and stays as its monitor; *)
(* it goes back when anything fails.  Controllers may be killed between any *)
(* two of their file operations and a later one starts from the files: the  *)
(* lock, the selector and the journal.  Each file is replaced by a rename   *)
(* and so is never seen half written.  The runtime of the previous version  *)
(* runs throughout; that it answers under the same pid, from intact files,  *)
(* is up to the environment.                                                *)
(***************************************************************************)
EXTENDS Integers, FiniteSets

CONSTANTS Controller, \* launcher processes, each run once
          Previous,   \* reference of the version that serves
          Task,       \* what each is launched to do: "select" or "recover"
          Wants,      \* the version each controller is to select
          Stranger,   \* controllers told of another previous version
          Mortal,     \* controllers that may be killed (bound)
          Bare,       \* the lock directory before its owner.json is written
          None

Version == {Wants[c] : c \in Controller}

Journal == [phase : {"prepared", "started", "promoting", "selected", "rolled-back"},
            version : Version, runtime : Controller \cup {None}]

ASSUME CutoverAssumption == /\ Mortal \subseteq Controller /\ Stranger \subseteq Controller
                            /\ Task \in [Controller -> {"select", "recover"}]
                            /\ Previous \notin Version
                            /\ None \notin Controller /\ Bare \notin Controller
                            /\ None # Bare /\ None \notin Journal

VARIABLES lock,       \* None, Bare, or the controller owner.json names
          active,     \* active.json, the selector
          journal,    \* transaction.json
          runtime,    \* the candidate runtime each controller has started
          previousOk, \* verifyPrevious would succeed
          pc,         \* what each controller does next
          op,         \* a controller's task, and "undo" from rollback() on
          held,       \* the journal a controller has in memory
          raced       \* a lock was removed under a live holder (a ghost)

vars == <<lock, active, journal, runtime, previousOk, pc, op, held, raced>>

Acquiring == {"acquire", "inspect", "evict", "claim"}
Holding == {"own", "recover", "await", "port", "verify", "restore", "write", "close",
            "check", "prepare", "start", "forked", "record", "cleanup", "probe",
            "healthy", "recheck", "promote", "select", "confirm", "monitor", "stop",
            "stuck", "release"}
Ended == {"exited", "killed"}

TypeOK == /\ lock \in Controller \cup {None, Bare}
          /\ active \in Version \cup {Previous}
          /\ journal \in Journal \cup {None}
          /\ runtime \in [Controller -> {"none", "up", "serving", "gone"}]
          /\ previousOk \in BOOLEAN /\ raced \in BOOLEAN
          /\ pc \in [Controller -> {"idle"} \cup Acquiring \cup Holding \cup Ended]
          /\ op \in [Controller -> {"select", "recover", "undo"}]
          /\ held \in [Controller -> Journal \cup {None}]

Init == /\ lock = None /\ active = Previous /\ journal = None
        /\ runtime = [c \in Controller |-> "none"]
        /\ previousOk = TRUE /\ raced = FALSE
        /\ pc = [c \in Controller |-> "idle"]
        /\ op = Task
        /\ held = [c \in Controller |-> None]
-----------------------------------------------------------------------------
Alive(c) == pc[c] \in Acquiring \cup Holding
Holds(c) == pc[c] \in Holding
Live(c) == runtime[c] \in {"up", "serving"}
Pending == journal # None /\ journal.phase # "rolled-back"

Goes(c, from, to) == pc[c] = from /\ pc' = [pc EXCEPT ![c] = to]

files == <<lock, active, journal>>
world == <<runtime, previousOk>>
own == <<op, held>>

\* What a process had in memory goes with it.
Forgets(c) == op' = [op EXCEPT ![c] = Task[c]] /\ held' = [held EXCEPT ![c] = None]

\* A throw before cutover has a journal, or in recoverLocked: nothing is undone and
\* the lock is released.
Abandons(c, from) == Goes(c, from, "release") /\ UNCHANGED <<op, held>>

\* A throw once there is one: rollback(), from its first or a later statement.
Undoes(c, from, to) == Goes(c, from, to) /\ op' = [op EXCEPT ![c] = "undo"] /\ UNCHANGED held

\* A recovery or a rollback that throws.  rollback keeps the lock: the process ends
\* once nothing holds it up, which the channel to a live guardian does.
Fails(c, from) ==
    \/ op[c] # "undo" /\ Abandons(c, from)
    \/ op[c] = "undo" /\ Live(c) /\ Goes(c, from, "stuck") /\ UNCHANGED own
    \/ op[c] = "undo" /\ ~Live(c) /\ Goes(c, from, "exited") /\ Forgets(c)

\* The launcher is run.
Launch(c) == Goes(c, "idle", "acquire") /\ UNCHANGED <<files, world, own, raced>>
-----------------------------------------------------------------------------
\* acquire: mkdir of the lock, or a look at who has it.
Acquire(c) ==
    /\ IF lock = None THEN Goes(c, "acquire", "own") /\ lock' = Bare
                      ELSE Goes(c, "acquire", "inspect") /\ UNCHANGED lock
    /\ UNCHANGED <<active, journal, world, own, raced>>

\* owner.json may be missing (a throw), name a live process, or a dead one.
Inspect(c) ==
    /\ Goes(c, "inspect", IF lock \in Controller /\ ~Alive(lock) THEN "evict" ELSE "exited")
    /\ UNCHANGED <<files, world, own, raced>>

\* rm of the lock judged stale: of whatever lock is there by now.
Evict(c) ==
    /\ Goes(c, "evict", IF lock = None THEN "exited" ELSE "claim")
    /\ lock' = None
    /\ raced' = (raced \/ \E d \in Controller : Holds(d))
    /\ UNCHANGED <<active, journal, world, own>>

Claim(c) ==
    /\ Goes(c, "claim", IF lock = None THEN "own" ELSE "exited")
    /\ lock' = IF lock = None THEN Bare ELSE lock
    /\ UNCHANGED <<active, journal, world, own, raced>>

\* atomicJson of owner.json creates the directory again if it is gone.
Own(c) == /\ Goes(c, "own", "recover")
          /\ lock' = c
          /\ UNCHANGED <<active, journal, world, own, raced>>

\* release: rm of the lock directory, whosever it is.
Release(c) == /\ Goes(c, "release", "exited")
              /\ lock' = None /\ Forgets(c)
              /\ UNCHANGED <<active, journal, world, raced>>
-----------------------------------------------------------------------------
\* recoverLocked.
Afterwards(c) == IF op[c] = "select" THEN "check" ELSE "release"

ReadJournal(c) ==
    /\ \/ /\ Pending /\ c \notin Stranger
          /\ Goes(c, "recover", "await")
          /\ held' = [held EXCEPT ![c] = journal]
       \/ /\ Pending /\ c \in Stranger \* recovery_previous_mismatch
          /\ Goes(c, "recover", "release") /\ UNCHANGED held
       \/ /\ ~Pending
          /\ Goes(c, "recover", Afterwards(c)) /\ UNCHANGED held
    /\ UNCHANGED <<files, world, op, raced>>

\* Mutant: nobody waits for the processes.
AwaitNothing(c) == Goes(c, "await", "port") /\ UNCHANGED <<files, world, own, raced>>

\* The processes the journal names are waited for; 15 seconds end in a throw.
AwaitExit(c) ==
    /\ Goes(c, "await", IF held[c].runtime # None /\ Live(held[c].runtime)
                           THEN "release" ELSE "port")
    /\ UNCHANGED <<files, world, own, raced>>

PortIsFree == \A d \in Controller : runtime[d] # "serving"

FreePort(c) == /\ IF PortIsFree THEN Goes(c, "port", "verify") /\ UNCHANGED own
                                ELSE Fails(c, "port")
               /\ UNCHANGED <<files, world, raced>>

\* What recovery and rollback have in common: the previous runtime is verified, the
\* selector read and checked, then written, then the journal closed.
Verify(c) == /\ IF previousOk THEN Goes(c, "verify", "restore") /\ UNCHANGED own
                              ELSE Fails(c, "verify")
             /\ UNCHANGED <<files, world, raced>>

\* Mutant: the selector is left to whoever reads it next.
RestoreSkips(c) == /\ Goes(c, "restore", "close")
                   /\ UNCHANGED <<files, world, own, raced>>

Restore(c) == /\ pc[c] = "restore"
              /\ IF active \in {Previous, held[c].version}
                    THEN Goes(c, "restore", "write") /\ UNCHANGED own
                    ELSE Fails(c, "restore")
              /\ UNCHANGED <<files, world, raced>>

\* Mutant: the destination is removed and the rename fails.
WriteDeletes(c) == /\ Goes(c, "write", "close")
                   /\ active' = None
                   /\ UNCHANGED <<lock, journal, world, own, raced>>

Write(c) == /\ Goes(c, "write", "close")
            /\ active' = Previous
            /\ UNCHANGED <<lock, journal, world, own, raced>>

Close(c) == /\ Goes(c, "close", Afterwards(c))
            /\ journal' = [held[c] EXCEPT !.phase = "rolled-back"]
            /\ held' = [held EXCEPT ![c] = None]
            /\ UNCHANGED <<lock, active, world, op, raced>>
-----------------------------------------------------------------------------
\* cutover, up to the candidate.  A selector that names another version, a manifest
\* that does not resolve, or a previous runtime that does not verify, throws before
\* there is a journal.
Check(c) == /\ \/ /\ active = Previous /\ c \notin Stranger /\ previousOk
                  /\ Goes(c, "check", "prepare") /\ UNCHANGED own
               \/ Abandons(c, "check")
            /\ UNCHANGED <<files, world, raced>>

Records(c, from, to, record) ==
    /\ Goes(c, from, to)
    /\ journal' = record
    /\ held' = [held EXCEPT ![c] = record]

Prepare(c) ==
    /\ Records(c, "prepare", "start",
               [phase |-> "prepared", version |-> Wants[c], runtime |-> None])
    /\ UNCHANGED <<lock, active, world, op, raced>>

\* startCandidate: the guardian is forked unless the port is taken.
Start(c) ==
    /\ IF PortIsFree THEN /\ Goes(c, "start", "forked")
                          /\ runtime' = [runtime EXCEPT ![c] = "up"]
                          /\ UNCHANGED own
                     ELSE Undoes(c, "start", "verify") /\ UNCHANGED runtime
    /\ UNCHANGED <<files, previousOk, raced>>

\* The guardian says the runtime has started, or it does not in 30 seconds.
Forked(c) == /\ \/ Live(c) /\ Goes(c, "forked", "record") /\ UNCHANGED own
                \/ Undoes(c, "forked", "cleanup")
             /\ UNCHANGED <<files, world, raced>>

\* startCandidate then stops the guardian itself and throws, whether that ended or
\* its ten seconds did; cutover knows of no child to stop.
Cleanup(c) == Goes(c, "cleanup", "verify") /\ UNCHANGED <<files, world, own, raced>>

Record(c) == /\ Records(c, "record", "probe", [held[c] EXCEPT !.phase = "started", !.runtime = c])
             /\ UNCHANGED <<lock, active, world, op, raced>>

\* Probed every 100 ms until it answers, exits, or the deadline passes.
Probe(c) == /\ \/ runtime[c] = "serving" /\ Goes(c, "probe", "healthy") /\ UNCHANGED own
               \/ Undoes(c, "probe", "stop")
            /\ UNCHANGED <<files, world, raced>>

\* The previous runtime and the candidate's files are verified again.
Healthy(c) == /\ \/ previousOk /\ Goes(c, "healthy", "recheck") /\ UNCHANGED own
                 \/ Undoes(c, "healthy", "stop")
              /\ UNCHANGED <<files, world, raced>>

Recheck(c) == /\ IF Live(c) /\ active = Previous
                    THEN Goes(c, "recheck", "promote") /\ UNCHANGED own
                    ELSE Undoes(c, "recheck", "stop")
              /\ UNCHANGED <<files, world, raced>>
-----------------------------------------------------------------------------
\* cutover, the promotion.
Promote(c) == /\ Records(c, "promote", "select", [held[c] EXCEPT !.phase = "promoting"])
              /\ UNCHANGED <<lock, active, world, op, raced>>

Select(c) == /\ Goes(c, "select", "confirm")
             /\ active' = Wants[c]
             /\ UNCHANGED <<lock, journal, world, own, raced>>

Confirm(c) == /\ \/ runtime[c] = "serving" /\ op' = op
                    /\ Records(c, "confirm", "monitor", [held[c] EXCEPT !.phase = "selected"])
                 \/ Undoes(c, "confirm", "stop") /\ UNCHANGED journal
              /\ UNCHANGED <<lock, active, world, raced>>

\* Mutant: a candidate that has exited is not an error.
TickOnce(c) == /\ runtime[c] = "up"
               /\ Undoes(c, "monitor", "stop")
               /\ UNCHANGED <<files, world, raced>>

\* The monitor's probe of a candidate that is not there fails.
Tick(c) == /\ runtime[c] # "serving"
           /\ Undoes(c, "monitor", "stop")
           /\ UNCHANGED <<files, world, raced>>

\* A signal to the launcher, or a probe that fails although the candidate serves.
Signal(c) == /\ Undoes(c, "monitor", "stop")
             /\ UNCHANGED <<files, world, raced>>

\* rollback: the child is stopped, or does not stop in time and rollback throws.
Stop(c) == /\ Goes(c, "stop", IF Live(c) THEN "stuck" ELSE "verify")
           /\ UNCHANGED <<files, world, own, raced>>

\* Of a rollback that has thrown: a signal calls it again if the version was
\* selected; the process ends when its guardian has.
Retry(c) == /\ Goes(c, "stuck", "stop")
            /\ held[c].phase = "selected"
            /\ UNCHANGED <<files, world, own, raced>>
Quit(c) == /\ ~Live(c)
           /\ Goes(c, "stuck", "exited") /\ Forgets(c)
           /\ UNCHANGED <<files, world, raced>>
-----------------------------------------------------------------------------
Kill(c) == /\ c \in Mortal /\ Alive(c)
           /\ pc' = [pc EXCEPT ![c] = "killed"] /\ Forgets(c)
           /\ UNCHANGED <<files, world, raced>>

\* The guardian kills the runtime when told to, or when its controller is gone.
GuardianStops(c) == /\ Live(c) /\ (~Alive(c) \/ op[c] = "undo")
                    /\ runtime' = [runtime EXCEPT ![c] = "gone"]
                    /\ UNCHANGED <<files, previousOk, pc, own, raced>>

\* The candidate listens on the port if it is free; it exits whenever it likes,
\* and its guardian with it.
Serves(c) == /\ runtime[c] = "up" /\ PortIsFree
             /\ runtime' = [runtime EXCEPT ![c] = "serving"]
             /\ UNCHANGED <<files, previousOk, pc, own, raced>>
Dies(c) == /\ Live(c)
           /\ runtime' = [runtime EXCEPT ![c] = "gone"]
           /\ UNCHANGED <<files, previousOk, pc, own, raced>>

\* The previous runtime stops answering as it did, or answers again.
PreviousTurns == /\ previousOk' = ~previousOk
                 /\ UNCHANGED <<files, runtime, pc, own, raced>>

Locks(c) == Acquire(c) \/ Inspect(c) \/ Evict(c) \/ Claim(c) \/ Own(c) \/ Release(c)
Recovers(c) == \/ ReadJournal(c) \/ AwaitExit(c) \/ FreePort(c) \/ Verify(c) \/ Restore(c)
               \/ Write(c) \/ Close(c)
CutsOver(c) == \/ Check(c) \/ Prepare(c) \/ Start(c) \/ Forked(c) \/ Cleanup(c) \/ Record(c)
               \/ Probe(c) \/ Healthy(c) \/ Recheck(c)
               \/ Promote(c) \/ Select(c) \/ Confirm(c) \/ Tick(c) \/ Stop(c) \/ Quit(c)

Works(c) == Locks(c) \/ Recovers(c) \/ CutsOver(c)

Next == \/ \E c \in Controller : \/ Launch(c) \/ Works(c) \/ Signal(c) \/ Retry(c) \/ Kill(c)
                                 \/ GuardianStops(c) \/ Serves(c) \/ Dies(c)
        \/ PreviousTurns

Spec == Init /\ [][Next]_vars

\* A controller's process is scheduled, and so is a guardian's.
Fairness == \A c \in Controller : WF_vars(Works(c)) /\ WF_vars(GuardianStops(c))

FairSpec == Spec /\ Fairness
-----------------------------------------------------------------------------
(* Safety: what a killed controller leaves in its files is enough to go    *)
(* back.  The selector names something else than the previous version only *)
(* while the journal says that this very version is being, or was,         *)
(* promoted (the order of the writes in cutover, rollback, recoverLocked). *)
SelectorFollowsJournal ==
    ~raced /\ active # Previous =>
        /\ journal # None /\ journal.phase \in {"promoting", "selected"}
        /\ journal.version = active

(* Safety: a transaction whose journal says rolled-back has no candidate    *)
(* process left, if the journal ever learnt which it was.                   *)
RolledBackIsStopped ==
    journal # None /\ journal.phase = "rolled-back" /\ journal.runtime # None =>
        ~Live(journal.runtime)

(* Liveness: while the previous runtime stays well, the monitor of a        *)
(* selected version whose process is gone brings the selector back, unless  *)
(* it is killed itself.                                                     *)
DeadCandidateIsReplaced ==
    []previousOk => \A c \in Controller :
        pc[c] = "monitor" /\ ~Live(c) ~> active = Previous \/ pc[c] = "killed" \/ raced
=============================================================================
