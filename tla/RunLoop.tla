-------------------------------- MODULE RunLoop --------------------------------
(***************************************************************************)
(* The supervised run loop (src/tool/implementation-run-capture.ts with    *)
(* the watch of src/tool/chatgpt-message-capture.ts): a daemon inside the  *)
(* server observes a ChatGPT page step by step, writes a state file after  *)
(* each step, and after a restart of the server write...recover.step takes *)
(* single steps from what that file says.  One run id is modelled; the     *)
(* daemons are the ones started for it one after the other or, by races or *)
(* replaceExisting, at once.  A page is read through DevTools and may show *)
(* anything at each reading.                                               *)
(***************************************************************************)
EXTENDS Integers, FiniteSets

CONSTANTS Daemon,       \* daemons that may be started
          Recovery,     \* the caller of recover.step
          Page,         \* what a reading of the page may show
          Input,        \* the inputs a daemon is started with
          MaxAuto,      \* maxAutoIterations
          MaxIterations, \* maxIterations of the plan
          MaxCrashes,   \* bound on restarts of the server
          Fragile,      \* daemons whose step may throw (bound)
          None, Torn

Reading == [tab : {"ok", "lost", "unbound"}, error : {"none", "stream", "rate"},
            composer : {"send", "stop", "disabled", "unknown"}, busy : BOOLEAN, text : Nat]
Asked == [phase : {"startup", "after_send", "reply_watch"},
          preAsk : BOOLEAN, stopOnPreAsk : BOOLEAN]

ASSUME RunLoopAssumption ==
    /\ Page \subseteq Reading /\ Input \subseteq Asked /\ Fragile \subseteq Daemon
    /\ MaxAuto \in Nat \ {0} /\ MaxIterations \in Nat \ {0} /\ MaxCrashes \in Nat
    /\ Recovery \notin Daemon /\ None \notin Daemon /\ Torn # None

Actor == Daemon \cup {Recovery}
Texts == {p.text : p \in Page}

VARIABLES pc,       \* where each actor is
          input,    \* input it was started with or restored
          at,       \* the step input that changes: phase, text last seen, iteration
          used,     \* steps of the daemon's loop
          step,     \* what its step came to
          flag,     \* runtime.stopRequested
          map,      \* activeRunLoopDaemons' entry
          file,     \* state.json
          stopFile, \* stop.json is there
          stopping, \* a stop call is about to write stop.json
          pruning,  \* a prune call is about to remove the directory
          crashes,
          last, shared, \* ghosts: the latest daemon; two actors have been at the
                        \* run at once;
          late          \* daemons that have begun a step since they were flagged

vars == <<pc, input, at, used, step, flag, map, file, stopFile, stopping, pruning, crashes,
          last, shared, late>>
local == <<input, at, used, step>>
disk == <<file, stopFile>>
calls == <<stopping, pruning>>
ghost == <<last, shared, late>>

Position == [phase : {"startup", "after_send", "reply_watch"},
             seen : Texts \cup {None}, iteration : 0 .. MaxIterations]
Outcome == [next : {"none", "STOP_FOR_USER", "RUN_PRE_ASK_CAPTURE", "WAIT_AND_PROBE", "RETURN_TO_CHAT"},
            preAsk : {"none", "early", "blocked", "ready"},
            seen : Texts \cup {None}]
State == [input : Asked, at : Position, active : BOOLEAN, completed : BOOLEAN]

NoStep == [next |-> "none", preAsk |-> "none", seen |-> None]
Running == {"begin", "check", "stat", "clear", "probe", "write", "wait", "waited",
            "final", "fatal", "drop"}
Place == Running \cup {"new", "entering", "read", "over", "dead"}

TypeOK == /\ pc \in [Actor -> Place]
          /\ input \in [Actor -> Asked \cup {None}] /\ at \in [Actor -> Position]
          /\ used \in [Actor -> 0 .. MaxAuto] /\ step \in [Actor -> Outcome]
          /\ flag \in SUBSET Daemon /\ map \in Daemon \cup {None}
          /\ file \in State \cup {None, Torn}
          /\ {stopFile, stopping, pruning} \subseteq BOOLEAN /\ crashes \in 0 .. MaxCrashes
          /\ last \in Daemon \cup {None} /\ shared \in BOOLEAN /\ late \in SUBSET Daemon

Start0 == [phase |-> "reply_watch", seen |-> None, iteration |-> 0]
Init == /\ pc = [a \in Actor |-> "new"] /\ input = [a \in Actor |-> None]
        /\ at = [a \in Actor |-> Start0] /\ used = [a \in Actor |-> 0]
        /\ step = [a \in Actor |-> NoStep]
        /\ flag = {} /\ map = None /\ file = None /\ stopFile = FALSE
        /\ stopping = FALSE /\ pruning = FALSE /\ crashes = 0 /\ last = None /\ shared = FALSE /\ late = {}
-----------------------------------------------------------------------------
(* The watch: what a reading p tells when the answer last seen was seen.   *)

Progress(p, seen) == p.busy \/ (seen # None /\ p.text # seen)

WatchStatus(p, phase, seen) ==
    CASE p.error = "rate" -> "RATE_LIMITED"
      [] p.error = "stream" -> "CLIENT_STREAM_ERROR"
      [] p.error = "none" /\ phase = "startup" ->
            IF p.composer \in {"send", "disabled"} THEN "STARTUP_READY" ELSE "STARTUP_WAITING_FOR_COMPOSER"
      [] p.error = "none" /\ phase # "startup" ->
            IF Progress(p, seen) THEN "STREAMING_PROGRESS"
            ELSE IF p.composer = "stop" THEN "STREAMING_NO_RECENT_PROGRESS" ELSE "LIKELY_STABLE"

\* planChatGptWatchNext at a moment of the watch: before the cooldown of the task
\* class is over, during it, long after the last progress, or past its end.
Moment == {"cooldown", "watching", "noProgress", "expired"}
WatchNext(p, phase, seen, moment) ==
    LET status == WatchStatus(p, phase, seen) IN
    IF p.tab = "lost" THEN "TRANSPORT_UNHEALTHY"
    ELSE IF p.tab = "unbound" THEN "CHAT_BINDING_LOST"
    ELSE IF p.error # "none" THEN status
    ELSE IF phase = "after_send" /\ moment = "cooldown" THEN "WAITING_INITIAL_COOLDOWN"
    ELSE IF status = "LIKELY_STABLE" /\ p.composer = "send" THEN "READY_FOR_STABLE_CAPTURE"
    ELSE IF Progress(p, seen) THEN "STREAMING_PROGRESS"
    ELSE IF p.composer = "stop" /\ moment \in {"noProgress", "expired"} THEN "HUNG_STREAM_CANDIDATE"
    ELSE IF moment = "expired" THEN "MAX_WATCH_EXPIRED"
    ELSE status

HardStop == {"TRANSPORT_UNHEALTHY", "CHAT_BINDING_LOST", "CLIENT_STREAM_ERROR",
             "HUNG_STREAM_CANDIDATE", "MAX_WATCH_EXPIRED"}

\* Mutant: one step more than maxIterations allows.
PlanOneMore(iteration, decision) ==
    IF iteration > MaxIterations \/ (decision \in HardStop) THEN "STOP_FOR_USER"
    ELSE IF decision = "READY_FOR_STABLE_CAPTURE" THEN "RUN_PRE_ASK_CAPTURE"
    ELSE "WAIT_AND_PROBE"

\* planChatGptRunLoop, which the step calls without an earlier pre-ask.
Plan(iteration, decision) ==
    IF iteration >= MaxIterations \/ (decision \in HardStop) THEN "STOP_FOR_USER"
    ELSE IF decision = "READY_FOR_STABLE_CAPTURE" THEN "RUN_PRE_ASK_CAPTURE"
    ELSE "WAIT_AND_PROBE"

\* shouldReturnBeforePreAsk in the mode probe_only, which the step asks for.
ReturnsBeforePreAsk(decision) ==
    decision \notin {"READY_FOR_PRE_ASK", "STARTUP_READY", "LIKELY_STABLE"}

Goes(a, from, to) == /\ pc[a] = from /\ pc' = [pc EXCEPT ![a] = to]
Becomes(a, s) == step' = [step EXCEPT ![a] = s]

\* capturePreAskImplementationRun on a page that shows p: it probes once more, and
\* unless the watch holds it back settles the answer and captures the repository,
\* whose gate may be green or not.
PreAsk(p, seen, moment) ==
    IF ReturnsBeforePreAsk(WatchNext(p, "reply_watch", seen, moment)) THEN {"early"}
    ELSE {"blocked", "ready"}

\* captureChatGptRunLoopStep.  What it reads is the page, and what it does to the
\* run only its caller does, so its probes are one action.  The text that was seen
\* stays in step until the loop goes on; a tab that could not be read leaves it.
Step(a) ==
    /\ Goes(a, "probe", "write")
    /\ \E p, q \in Page, m, n \in Moment :
        LET plan == Plan(at[a].iteration, WatchNext(p, at[a].phase, at[a].seen, m))
            asks == plan = "RUN_PRE_ASK_CAPTURE" /\ input[a].preAsk
        IN \E preAsk \in IF asks THEN PreAsk(q, p.text, n) ELSE {"none"} :
              Becomes(a, [next |-> CASE preAsk = "none" -> plan [] preAsk = "ready" -> "RETURN_TO_CHAT"
                                        [] preAsk \in {"early", "blocked"} -> "WAIT_AND_PROBE",
                            preAsk |-> preAsk,
                            seen |-> IF p.tab = "ok" THEN p.text ELSE at[a].seen])
    /\ file' = Torn
    /\ UNCHANGED <<input, at, used, flag, map, stopFile, calls, crashes, ghost>>

\* buildNextRunLoopStepInput
NextAt(a, iteration) ==
    [phase |-> "reply_watch", seen |-> step[a].seen, iteration |-> iteration]
-----------------------------------------------------------------------------
(* The state file.  writeFile empties it and then fills it; it is empty     *)
(* from the action that comes to the write until the one that is the write. *)

Fills(a, position, active) ==
    file' = [input |-> input[a], at |-> position, active |-> active, completed |-> ~active]

\* classifyRunLoopRecoveryState
Recoverable == /\ file \notin {None, Torn} /\ map = None
               /\ file.active /\ ~file.completed

AtWork(a) == pc[a] \in Running

\* What the actors of S kept for themselves is gone with them.
Forgets(S) == /\ input' = [a \in Actor |-> IF a \in S THEN None ELSE input[a]]
              /\ at' = [a \in Actor |-> IF a \in S THEN Start0 ELSE at[a]]
              /\ used' = [a \in Actor |-> IF a \in S THEN 0 ELSE used[a]]
              /\ step' = [a \in Actor |-> IF a \in S THEN NoStep ELSE step[a]]
-----------------------------------------------------------------------------
(* write.browser.session.run.loop.daemon.start                             *)

\* DAEMON_ALREADY_RUNNING unless replaceExisting; the directory is made and an
\* old stop file removed before the entry is set.
Start(d, i) == /\ Goes(d, "new", "entering")
               /\ \E replaceExisting \in BOOLEAN : map = None \/ replaceExisting
               /\ input' = [input EXCEPT ![d] = i]
               /\ UNCHANGED <<at, used, step, flag, map, disk, calls, crashes, ghost>>

Register(d) ==
    /\ Goes(d, "entering", "begin")
    /\ at' = [at EXCEPT ![d].phase = input[d].phase]
    /\ stopFile' = FALSE /\ map' = d /\ last' = d /\ file' = Torn
    /\ shared' = (shared \/ \E a \in Actor : AtWork(a))
    /\ UNCHANGED <<input, used, step, flag, calls, crashes, late>>

\* The first state holds the daemon's input and no resume_input.
Began(d) == /\ Goes(d, "begin", "check")
            /\ Fills(d, [Start0 EXCEPT !.phase = at[d].phase], TRUE)
            /\ UNCHANGED <<local, flag, map, stopFile, calls, crashes, ghost>>
-----------------------------------------------------------------------------
(* runChatGptRunLoopDaemon                                                 *)

\* Mutant: the loop leaves the flag to the stop file.
Unheard(d) == FALSE

\* runtime.stopRequested; where it is not set, the loop goes on to await whether
\* the stop file is there, and does not look at the flag again.
Flagged(d) == d \in flag

\* The loop's head: stopped, out of steps, or on to the file.
Head(d) == /\ \/ /\ Flagged(d) \/ used[d] = MaxAuto
                 /\ pc' = [pc EXCEPT ![d] = "final"] /\ file' = Torn
              \/ /\ ~Flagged(d) /\ used[d] < MaxAuto
                 /\ pc' = [pc EXCEPT ![d] = "stat"] /\ UNCHANGED file
           /\ UNCHANGED <<input, used, step, flag, map, stopFile, calls, crashes, ghost>>

Check(d) == pc[d] = "check" /\ UNCHANGED at /\ Head(d)

\* The file is looked up while other calls of the server go on ...
Stat(d) == /\ ~stopFile /\ Goes(d, "stat", "clear")
           /\ UNCHANGED <<local, flag, map, disk, calls, crashes, ghost>>

\* ... and unless the time is over the loop begins the step, whatever has become of
\* the flag.
Begins(d) == /\ Goes(d, "clear", "probe")
             /\ late' = IF d \in flag THEN late \cup {d} ELSE late
             /\ UNCHANGED <<local, flag, map, disk, calls, crashes, last, shared>>

\* The state of the step is written; the loop waits only when told to, and with
\* time left.
GoesOn(d) == /\ step[d].next = "WAIT_AND_PROBE"
             /\ ~(step[d].preAsk # "none" /\ input[d].stopOnPreAsk)

Wrote(d) == /\ Goes(d, "write", "wait")
            /\ Fills(d, at[d], TRUE)
            /\ used' = [used EXCEPT ![d] = @ + 1]
            /\ UNCHANGED <<input, at, step, flag, map, stopFile, calls, crashes, ghost>>

\* The file is there, the time is over, or the step was the last.
Stops(d) == /\ pc[d] \in {"stat", "waited"} => stopFile
            /\ pc[d] \in {"stat", "clear", "wait", "waited"}
            /\ pc' = [pc EXCEPT ![d] = "final"] /\ file' = Torn
            /\ UNCHANGED <<local, flag, map, stopFile, calls, crashes, ghost>>

\* After the wait the flag is read, then the file.
Wait(d) == /\ GoesOn(d) /\ ~Flagged(d) /\ Goes(d, "wait", "waited")
           /\ UNCHANGED <<local, flag, map, disk, calls, crashes, ghost>>

\* The file was not there: the loop comes to its head with the next input.
Again(d) == /\ pc[d] = "waited" /\ ~stopFile
            /\ at' = [at EXCEPT ![d] = NextAt(d, used[d])]
            /\ Head(d)

\* Mutant: the last state is written as the ones before.
FinalizedOpen(d) == /\ Goes(d, "final", "drop")
                    /\ Fills(d, at[d], TRUE)
                    /\ UNCHANGED <<local, flag, map, stopFile, calls, crashes, ghost>>

Finalized(d) == /\ Goes(d, "final", "drop")
                /\ Fills(d, at[d], FALSE)
                /\ UNCHANGED <<local, flag, map, stopFile, calls, crashes, ghost>>

\* activeRunLoopDaemons.delete(runId), whosever entry that is
Drop(d) == /\ Goes(d, "drop", "over") /\ map' = None
           /\ Forgets({d}) /\ flag' = flag \ {d} /\ late' = late \ {d}
           /\ UNCHANGED <<disk, calls, crashes, last, shared>>

\* The handler of a step that throws; its state holds no input to resume.
Throw(d) == /\ d \in Fragile /\ Goes(d, "probe", "fatal") /\ file' = Torn
            /\ UNCHANGED <<local, flag, map, stopFile, calls, crashes, ghost>>

\* Mutant: the handler leaves the entry in the map.
FailedKept(d) == /\ Goes(d, "fatal", "over")
                 /\ Fills(d, Start0, FALSE)
                 /\ UNCHANGED <<local, flag, map, stopFile, calls, crashes, ghost>>

Failed(d) == /\ Goes(d, "fatal", "drop")
             /\ Fills(d, Start0, FALSE)
             /\ UNCHANGED <<local, flag, map, stopFile, calls, crashes, ghost>>
-----------------------------------------------------------------------------
(* write.browser.session.run.loop.daemon.stop flags the daemon of the map  *)
(* and then writes the stop file.                                          *)

Stop == /\ ~stopping /\ stopping' = TRUE
        /\ flag' = flag \cup ({map} \ {None})
        /\ UNCHANGED <<pc, local, map, disk, pruning, crashes, ghost>>

StopFile == /\ stopping /\ stopping' = FALSE /\ stopFile' = TRUE
            /\ UNCHANGED <<pc, local, flag, map, file, pruning, crashes, ghost>>
-----------------------------------------------------------------------------
(* write.browser.session.run.loop.recover.step: one step from the state    *)
(* file, and a checkpoint that is as active as what it was taken from.  It *)
(* looks at neither the map nor the stop file again.                       *)

\* The file is read first ...
ReadState == /\ file \notin {None, Torn} /\ file.active /\ ~file.completed
             /\ Goes(Recovery, "new", "read")
             /\ \E override \in Input :
                  input' = [input EXCEPT ![Recovery] = [file.input EXCEPT !.preAsk = override.preAsk]]
             /\ at' = [at EXCEPT ![Recovery] = file.at]
             /\ UNCHANGED <<used, step, flag, map, disk, calls, crashes, ghost>>

\* ... and then the map, in one turn with the beginning of the step.
Recover == /\ map = None /\ Goes(Recovery, "read", "probe")
           /\ shared' = (shared \/ ~Recoverable \/ \E d \in Daemon : AtWork(d))
           /\ UNCHANGED <<local, flag, map, disk, calls, crashes, last, late>>

\* RUN_LOOP_RECOVERY_NOT_ALLOWED
Refused == /\ map # None /\ Goes(Recovery, "read", "new") /\ Forgets({Recovery})
           /\ UNCHANGED <<flag, map, disk, calls, crashes, ghost>>

Checkpointed ==
    /\ Goes(Recovery, "write", "new")
    /\ Fills(Recovery, IF step[Recovery].next = "WAIT_AND_PROBE"
                       THEN NextAt(Recovery, at[Recovery].iteration + 1) ELSE at[Recovery], TRUE)
    /\ Forgets({Recovery})
    /\ UNCHANGED <<flag, map, stopFile, calls, crashes, ghost>>

\* recover.prune.missing.chat removes the directory of a run whose chat is
\* confirmed as missing, unless a daemon is in the map when it looks.
Prunes == /\ ~pruning /\ file \notin {None, Torn} /\ map = None /\ pruning' = TRUE
          /\ UNCHANGED <<pc, local, flag, map, disk, stopping, crashes, ghost>>

Prune == /\ pruning /\ pruning' = FALSE /\ file' = None /\ stopFile' = FALSE
         /\ shared' = (shared \/ \E a \in Actor : AtWork(a))
         /\ UNCHANGED <<pc, local, flag, map, stopping, crashes, last, late>>
-----------------------------------------------------------------------------
\* The server dies with its daemons, its map and the call it was in.
Crash == /\ crashes < MaxCrashes /\ crashes' = crashes + 1
         /\ pc' = [a \in Actor |-> IF a = Recovery THEN "new"
                                   ELSE IF pc[a] \in {"entering", "begin"} THEN "over"
                                   ELSE IF pc[a] = "drop" THEN "over"
                                   ELSE IF AtWork(a) THEN "dead" ELSE pc[a]]
         /\ map' = None /\ flag' = {} /\ late' = {} /\ stopping' = FALSE /\ pruning' = FALSE
         /\ Forgets(Actor)
         /\ UNCHANGED <<disk, last, shared>>

Serve(d) == \/ Register(d) \/ Began(d) \/ Check(d) \/ Stat(d) \/ Begins(d) \/ Step(d)
            \/ Wrote(d) \/ Stops(d) \/ Wait(d) \/ Again(d) \/ Finalized(d) \/ Failed(d)
            \/ Drop(d)

Next == \/ \E d \in Daemon : Serve(d) \/ Throw(d) \/ \E i \in Input : Start(d, i)
        \/ ReadState \/ Recover \/ Refused \/ Step(Recovery) \/ Checkpointed
        \/ Stop \/ StopFile \/ Prunes \/ Prune \/ Crash

Spec == Init /\ [][Next]_vars
-----------------------------------------------------------------------------
(* Properties                                                              *)

\* The state file tells what became of the latest daemon: one the server's death
\* cut short can be recovered, unless its file was being written or was pruned,
\* and one that ended is not offered again.  It holds as long as no two actors
\* are at the run at once; replaceExisting, two starts that overlap, and a start
\* during a recovery step all let an older state be written over a newer one.
StateFileIsTruthful ==
    (last # None /\ ~shared) =>
        /\ pc[last] = "dead" => file \in {None, Torn} \/ Recoverable
        /\ pc[last] = "over" => ~Recoverable

\* The map knows the daemon that is at work, and no other, so status, start and
\* recover.step judge the run rightly; again for one actor at a time.
MapIsTruthful == ~shared => \A d \in Daemon : AtWork(d) <=> map = d

\* A stop can set the flag while the loop awaits the file, and that file be not yet
\* written or already removed by the next start: the step it was about to begin is
\* begun.  It is the only one: a daemon begins at most one step of its loop after a
\* stop has flagged its runtime, whatever becomes of the file and of the map's entry.
StopIsHeard ==
    [][\A d \in late : pc'[d] = "probe" => pc[d] = "probe"]_vars
=============================================================================
