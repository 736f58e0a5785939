# Verification of console-mcp

This directory holds TLA+ models of console-mcp, the configurations that
model-check them with TLC, and theorems about them that the TLA+ proof system
checks.  Every definition is translated from the source; `PROJECT.json` maps
each one to the lines it stands for.

1. [The system](#1-the-system) - its parts, what they keep and where they are delicate
2. [Plan](#2-plan) - the modules, written and to come
3. [The models](#3-the-models) - how state and actions correspond to the code
4. [The runs](#4-the-runs) - what each one checks, bounds, fairness
5. [The theorems](#5-the-theorems) - what is proved, from what, and how
6. [Where the code and its documents disagree](#6-where-the-code-and-its-documents-disagree) - two runs, and what else was seen
7. [What is not modelled](#7-what-is-not-modelled)

## 1. The system

console-mcp is an MCP server through which an assistant works on local
repositories, and an *engine* that lets a task run unattended: the engine opens
a ChatGPT conversation in a browser, sends the prompt, waits for the answer,
judges it, replies, and goes on until the work is done.  Nothing is a database:
all durable state is JSON files and lock files in state directories, and the
processes that share them (the server, worker loops, command lines, timers of the
operating system) do not know of each other.

### The engine (src/src/engine)

| Component | State | Operations | What makes it hard |
|---|---|---|---|
| Management lock (`acquireManagementLock`, engine-core.ts) | `<task>.management.lock`, its `.recovery.lock` | acquire, recover a stale lock, release | several processes find the same stale lock; each call is a file-system call of its own; the holder or the recoverer may die anywhere |
| Task store (`workerTick`, `saveTask`, the `record*` operations, `setEngineManagementState`) | one JSON file per task, `<task>.lock`, event log | tick the phase plan, record, pause, resume | every operation works on the copy it read; only the re-read of the management state and the write are under the management lock |
| Browser cycle (`runEngineCycleRounds`, `detectEngineCycleStage`, the stages, the submit consumer) | the task file; counters of a run in memory; the page | ten stages, round end, checkpoint, reset, outcome | a run may stop, be refused, be paused or die at any stage, and the next one goes on from the task file alone; the page and the assistant move meanwhile |
| Cycle lease and execution slots (`acquireEngineCycleLease`, `acquireEngineRuntimeSlot`) | one lease file per task, N slot files | acquire, recover the file of a dead process, release | two kinds of lock, taken in turn; recovery is not atomic; a write may fail |
| Enqueue and adoption | dedupe lock file, task files | enqueue a task once, adopt a chat | a lock that expires while it is held |
| Decision router, Jev shadow | none | score an answer's text | pure text scoring |

### Around the engine

| Component | State | Operations | What makes it hard |
|---|---|---|---|
| Asynchronous command runs (AsyncCommandRun.ts) | run records on disk and in memory, start locks, capacity slots | start once, finish, time out, stop, read | three finalizers write one record; start locks given up after 25 attempts; empty slot files read as dead; a crash leaves `running` |
| Repository worker host (RepositoryWorkerHost.ts) | pending requests, one worker per repository | dispatch, time out, restart, retire | late answers, an old worker's exit handler, retirement after idle |
| Conversation lifecycle, target reaper, deleted-answer reconciler (service/) | none of their own but a lock file | recover answers, delete conversations, close tabs, end tasks | decisions on a task file read before the cycle moved on; a killed pass leaves the lock |
| Run loop (implementation-run-capture.ts, chatgpt-message-capture.ts) | map of daemons in memory, `state.json` and `stop.json` per run | start, step, stop, recover, prune | a restart loses the map; two daemons and a recovery may write one state file |
| Runtime capacity (service/runtime-capacity.ts) | maintenance file | admit, light only, wait, drain | a pure decision, read before it is acted on |
| Version cutover (tool/runtime-version-transaction.mjs) | journal, lease directory, two versions | prepare, start, promote, select, roll back, recover | a crash between any two steps |
| Release broker and release transaction (ops/ubuntu, tool/dev-console.d) | run records, BUSY lock | start, finish, recover | a restart while a release runs |
| Store job journal (ebay-store-job-journal.ts) | job files, lock directory | enqueue, transition | a lock that nobody recovers |
| Browser session executor and ChatGPT consumers | the page, through DevTools | open, fill, click, read | effects that cannot be observed for sure |
| Local servers, repository tools, diagnostics, authentication, admission tables | little or none | single calls | sequential |

### How they interact

An MCP tool or a timer calls `runEngineCycleRounds`.  It takes an execution
slot (system wide), then the lease of the task, and runs rounds; each stage
reads the task file, acts on the page through a consumer, and saves the task
through a `record*` operation, which takes the management lock for the write.
At the same time worker loops tick the same task file, operators pause and
resume it, and the lifecycle service closes its page.  Files are the only
channel between these actors.

### What makes it correct

- one management-lock holder at a time; only the lock of a dead holder is taken
  over; every call returns; a dead holder does not block a task for ever;
- a pause is undone by an operator only, and undoes nothing itself;
- the conversation follows its protocol over any number of runs and crashes:
  nothing is sent twice, nothing is sent before the last answer was judged, an
  answer is judged once under one identity, and continuations keep to the budget;
- a reply that is recorded as sent was sent, a round judges no
  answer older than the one judged before it, and `completed` is earned;
- leases and slots are exclusive, nothing leaks, and every attempt ends;
- a command's recorded end is the end it had, and capacity comes back;
- a request to a worker is settled, and retiring workers cuts nobody off;
- after a restart or a crash the files say truly what was going on, and are
  enough to resume (run loop) or to go back (cutover);
- a conversation is deleted when the assistant released it, its task ends and its
  tab is closed.

## 2. Plan

In this order, the most important behaviour first.  All but the last three are
written.

| | Modules | What for | State |
|---|---|---|---|
| 1 | `TaskMutex`, `ManagementLock` | abstract lock, and the file protocol that implements it | checked, proved |
| 2 | `EngineTaskStore` | one task file under ticks, record operations and operators; uses `TaskMutex` through INSTANCE and so rests on what 1 proves | checked, proved |
| | `TaskFiles` | both together: the operations of 2 with the files of 1 in the place of the abstract lock implement 2 | proved |
| 3 | `Dialogue`, `EngineCycle` | what the cycle promises about its conversation, and the cycle | checked, proved for conversations the task starts itself |
| 4 | `CycleLease` | what admits one run at a time, the assumption of `EngineCycle` | checked, proved |
| 5 | `AsyncCommandRun` | a run ends once and truly; slots bound the running commands and come back | checked, proved |
| 6 | `RepositoryWorker` | requests are settled, one worker serves a repository, retirement cuts nobody; with the capacity admission in front | checked, proved |
| 7 | `RunLoop` | the state file and the map of daemons tell the truth, also after a restart | checked, proved |
| 8 | `VersionCutover` | after a crash at any step the files are enough to go back | checked, proved |
| 9 | `ConversationLifecycle` | reaper and reconciler against the cycle they work beside | checked, partly proved |
| 10 | `ReleaseBroker` | run records and the recovery of an interrupted release | to come |
| 11 | `EnqueueDedupe`, `StoreJobJournal` | one active task per component and workspace; durable jobs under a lock directory | to come |
| 12 | the worker loop | which tasks are ticked when, above `EngineTaskStore` | to come |

Every safety property that a passing run checks is a theorem (section 5).
Theorems to come: those of the modules to come.

## 3. The models

### ManagementLock and TaskMutex

`ManagementLock` is `acquireManagementLock` of engine-core.ts, one action per
file-system call: `Open` (open with `wx`), `WriteMetadata`, `Observe` (stat of
a lock that exists), `ReadMetadata`, `Probe` (`process.kill(pid, 0)`),
`OpenRecovery` (`.recovery.lock` with `wx`), `Recheck` (second stat and read),
`Quarantine` (rename), `Return` (the finally block) and `Release`.  `Crash`
takes the operations of a process with it and leaves their files; `Restart` is
a process with the same pid, which makes a dead holder look alive; `Age` is the
clock passing the 60 seconds.  A lock file is its creator (a ghost), the pid in
it and its age; the comparison of two stats is the flag `unchanged`.

`TaskMutex` is the promise: free, held, or orphaned.  `MutexSpec` takes for the
owner the operation that is in the protected section, whatever file there is,
and for an orphan a file that stays when nobody is there: a lock file removed
under a holder, or a second holder, is then a step the abstract lock does not
have.

### EngineTaskStore

One task file, `workerTick` split at each read and write (`TickRead`,
`TickSkip`/`TickSeesNoLock`, `TickWriteLock`, `TickDecide`, the save,
`TickUnlock`), the record operations (`RecordRead` then the save) and
`setEngineManagementState` (`ManageAcquire`, `ManageRead`, `ManageWrite`).  The
save is `SaveAcquire` or `SaveGiveUp` (100 attempts), `SaveMerge` (the
management state is re-read), `SaveWrite`, `Release`.  The errors that reach
the finally blocks are `AcquireFails` (the lock's metadata cannot be written) and
`SectionFails` (the task cannot be read or written under the lock); a `Crash` takes
any set of operations, those of one process.  The lock is `INSTANCE TaskMutex`.  A task is abstracted to its status, phase, management
state and whether execution is authorized; one status stands for the terminal
ones.  `copy` is the object each operation holds between its read and its
write: the whole point of the model.

### TaskFiles

`ManagementLock` says what happens to the lock file and `EngineTaskStore` what
happens to the task, the one with no data and the other with no files.
`TaskFiles` puts them together: `pc` is where an operation is inside
`acquireManagementLock`, `stage` where it is in its own code.  `Outside` and
`Inside` are the steps of its own code without and with the lock file; `Create`
(the `wx` open that creates the file) begins the section and `Close` (the unlink
of the finally block) ends it; `Write` that fails and `Back` of a hundredth busy
call are the errors; `Judge` is everything a call finds out about somebody else's
file, its removal included; `Die` is a process with all its operations.
`StoreSpec` is `EngineTaskStore!Spec` with the lock's owner read off the files
(`mutexOwner`): an operation that went on while its file was taken away, or that
gave the file back before its write, would be a step that specification does not
have.  It adds no decision of its own: what it does to the data is `Store!...`.
No run checks it: its states are the product of those of the two modules, which
the runs check one by one, and that the steps fit together is proved step by step
(`FilesImplement`).

### EngineCycle and Dialogue

`task` has the fields of the task file that `detectEngineCycleStage` and the
stop rules read, as flags where only presence matters; `composer`, `sent` and
`answered` are the conversation on the page; `run` has the counters
`runEngineCycleRoundsWithLease` keeps in memory, which a crash loses.  A stage
with an effect on the page has two actions: the effect (`PromptSubmit`) and
its record (`PromptSubmitRecord`), and the process may die between them.  Every
stage has its guards and early stops (`StopReason`), the cooldown gate, and the
rate-limit handler that goes on or stops.  An answer's identity depends on where
it is read: a hash from the page, an id from the backend.  The environment is
`AssistantAnswers`, `PageReloads`, `CooldownExpires`, `Manage` and `Crash`.

`Dialogue` is the promise: *say* when all that was said is judged and the
budget allows, *judge* once what has not been judged, *listen* again, and
*start over* only while nothing was judged.  `Converses` maps the cycle to it:
the decisions taken are the rounds done plus the decision on record.

The cycle model assumes one run at a time; `CycleLease` says when that is so.

### CycleLease

`runEngineCycleRounds` takes a slot, then the lease, runs, and gives both back;
one action per file-system call (`Open`, `Write`, `WriteFails`, `Read`,
`Probe`, `Remove`; `Check` and `Unlink` on the way back).  A refused or failed
lease gives the slot back (`NotTaken`, `Forget`); a lease of a dead process is
retried once, a slot of one without a bound.  `Death` and `Restart` are `Crash` and
`Restart` as above.

### AsyncCommandRun

`startAsyncCommandRun` and everything that ends a run.  A start prunes, looks up
the dedupe lease (`Look`), takes the start lock (`Create`, `Busy`, `Exhaust`
after 25 attempts), a heavy slot (`OpenSlot`, `Fill`, `Probe`, `Reclaim`),
spawns, rebinds the slot to the child (`BindCheck`, `BindOpen`, `BindFill`),
writes its record, publishes the lease, and only then (`Unlock`) listens to the
child and sets its timer.  A child that exits before that has its `close` event
heard by nobody, and the model has it so.  Five actors end runs: the close
event, the deadline timer, a status call, a stop call, and a start that met the
lease of a missing process.  Each reads the record, may terminate the child, and
writes the record whole later: `fin` is what each is about to do (`Mark`,
`Confirm`, `Write`, `Unlink`).  A terminated child is `killed` and runs on until it
goes (`Exit`); the finalizers do not wait for that.  `Throw` is a call that fails
outside the one `try` of the start - the writes of the slot file, of the output
files, of the record and of the lease, the resolution of the command - and leaves
slot, start lock and child behind (pc `left`).  `Crash` takes the timers and
listeners of a process and leaves its children and files.

A run is known by the start that made it, and a slot file by whose lease id and
which pid is in it, or that it is still empty.  All calls with a dedupe key are
of one operation, so there is one lease and one start lock.  Two ghosts: `broken`,
a slot was taken from a live owner, or from one that had not written its pid yet;
`freed`, the runs whose slot was given back while their child still ran.  Output files, offsets and the child's `error` event are left out.

### RepositoryWorker

One repository scope of `RepositoryWorkerHost`: the entry of the gateway's map,
the worker processes that have been forked, what each record waits for, the idle
timers, and the messages on both channels.  `Refuse`, `Reuse` and `Fork` are the
three outcomes of a start call, `Decision` is `evaluateRuntimeCapacity` as
source defines it (the gravest reason decides).  `Message`, `Timeout`,
`ExitEvent`, `Retire` and `Killed` are the callbacks.  An exit is handled after
the process has gone and deletes the map's entry of its scope, whichever worker
that names by then: `overtaken` remembers that this was a successor's.
`Begin`, `ChildEnds` and `Status` are the run a request starts, in the least
detail the host can tell apart; `AsyncCommandRun` has the rest.

### RunLoop

One run id of the supervised run loop.  `WatchStatus`, `WatchNext`, `Plan` and
`ReturnsBeforePreAsk` are the decisions as pure operators over what a reading of
the page shows; `Step` puts them together, with `PreAsk` behind.  A daemon goes
`Register`, `Began`, `Check`, then `Stat`, `Begins`, `Step`, `Wrote`, `Wait` and
`Again` until it is stopped (`Stops`), then `Finalized` (or `Failed`) and `Drop`.
Whether it is to stop it asks twice, at the head of the loop and after the wait,
and each time in two turns: it reads the flag (`Flagged`, in `Head` and `Wait`) and
then awaits whether the stop file is there (`Stat`, `Again`).  A file is empty
(`Torn`) from the moment `writeFile` opens it to the moment it has written.
`ReadState`, then `Recover` or `Refused` by what the map says by then, and
`Checkpointed` are a recovery step from the state file; `Stop` and `StopFile` the
two halves of a stop call; `Prunes` and `Prune` the look at the map and the removal
of a run whose chat is missing; `Crash` a restart of the server.

The probes of a step are one action, since only the step's outcome is written.
`settleChatGptAnswer` is an outcome of the environment.  The umbrella capture,
`auto.summary`, the status view and the log tail are left out; they read.
Two ghosts: `shared`, two actors have been at the run at once; `late`, the daemons
that have begun a step since a stop flagged them.

### VersionCutover

A launcher process takes the lock directory (`Acquire`, `Inspect`, `Evict`,
`Claim`, `Own`), recovers the transaction it finds (`ReadJournal` to `Close`),
and for a selection goes on through `Check`, `Prepare`, `Start`, `Forked`,
`Record`, `Probe`, `Healthy`, `Recheck`, `Promote`, `Select` and `Confirm` to
the monitor.  Anything that fails once there is a journal goes to rollback
(`Undoes`): stop the child, verify, write the selector, close the journal.  A
rollback that throws keeps the lock and the process lives as long as its
guardian (`stuck`).  `Kill` takes a controller between any two operations; its
guardian then stops the candidate.  Journal, selector and owner file are
replaced by a rename, so they hold whole values; the directory without its
owner file is `Bare`.

A caller may be told of another previous version than the journal or the selector
names (`Stranger`): it throws on a pending journal (`recovery_previous_mismatch`) and
on the selector, and gives the lock back.

Manifest verification, the probe, and the containment of the candidate are
single steps that may fail.  `raced` is a ghost: a lock was removed under a
controller that holds it, which the eviction of a stale lock permits.

### ConversationLifecycle

One task with its conversation and its tabs, and four parties: the cycle (its
stages, one step each, with what a one-shot task and an ephemeral target add),
a pass of the reaper (`PassScans`, `PassMaterializes`, `PassReads`,
`PassDeletes`, `PassRecordsDeletion`, `PassRetitles`, `ScanTab`, `PassCloses`,
`PassRecordsClosure`), the deleted-answer reconciler (`Reconcile`, `RecordEnd`),
and the world (the assistant, and a user who deletes the chat or takes the
tab).  `snap` is what a pass knows from its one reading of the task file.
`PassScansOthers` is a pass whose ten candidates are other tasks.  `about` is the
tab whose closure was recorded last (`browser_target_closed_id`): `Closed` and
`NotClosed` take the tab the caller tried to close, and like the code do not ask
whether the task is bound to it still.  The flag
`ready_to_delete` is read by two parsers, `Tail` (the engine's) and `Line` (the
reaper's), which disagree on some texts.

The operator's hold, the hygiene lane, the continuation dispatch and the
PowerShell lanes are left out.

### What the models leave out

The event log, timestamps, the wording of prompts and decisions (a decision is
a topic to go on with, `human` or `done`), and callers with `stopOnBlocked` or
`stopOnNotReady` false (no caller passes that).

## 4. The runs

| Run | Instance | Checks | States |
|---|---|---|---|
| management_lock | 3 callers in 2 processes | `TypeOK`, `ReclaimsOnlyDeadLocks`, `MutexSpec`, `DeadHoldersAreReclaimed` | 180 000 |
| engine_task_store | 2 ticks that repeat and an operator, or a tick, a recorder and 2 operators; 3 phases | `TypeOK`, `PauseSurvives`, `PlanCompletes` | 136 000 |
| engine_cycle | 2 topics, 4 iterations, 3 rounds, 9 steps, floor 3, backend | `TypeOK`, `NoPhantomReply`, `Converses`, `CompletionIsEarned` | 780 000 |
| engine_cycle_page | 2 topics, 3 iterations, 2 rounds, backend, reloads | `AnswersAdvance`, `RunEnds` | 488 000 |
| cycle_lease | 2 runs in 2 processes, 2 slots, 1 task | `LeaseTypeOK`, `ExclusiveUntilADeath`, `NothingLeaks`, `AttemptsEnd` | 57 000 |
| async_command | 2 starts in a worker and the gateway, 6 scenarios | `TypeOK`, `WithinLimit`, `CapacityComesBack`, `EndIsReal`, `RunsSettle` | 235 000 |
| repository_worker | 2 requests, 2 workers that may crash, 1 slow request | `TypeOK`, `RetirementCutsNobody`, `OneWorker`, `RequestsSettle`, `WorkersRetire` | 68 000 |
| run_loop | 2 daemons and a recovery, 2 steps, 1 restart | `TypeOK`, `StateFileIsTruthful`, `MapIsTruthful`, `StopIsHeard` | 376 000 |
| version_cutover | 2 selections of 2 versions, a recovery, a selection told of another previous version; one may be killed | `TypeOK`, `SelectorFollowsJournal`, `RolledBackIsStopped`, `DeadCandidateIsReplaced` | 115 000 |
| conversation_lifecycle | a standard or one-shot task, 2 tabs, 1 answer | `TypeOK`, `DeletionIsReal`, `ReadyDeletionEnds`, `ReadyIsDeleted`, `TabsAreReleased` | 335 000 |
| engine_cycle_human | violation, see section 6 | `HumanDecision` | |
| conversation_deletion | violation, see section 6; 2 tabs | `DeletesOnlyWhenReady` | |

### What they show

- *management_lock*: the re-check under `.recovery.lock` makes the rename safe;
  without it (the mutant `RecheckExistsOnly`) the slower of two recoverers
  removes the faster one's new lock.
- *engine_task_store*: a pause written between another operation's read and
  save survives it, and the plan ends although a record operation, and a tick that
  overlaps another, may take back the phase a tick has saved: whoever ticks on
  goes on from what is there.
- *engine_cycle*: the conversation follows `Dialogue` whatever stops the runs; a
  run that died after a click finds an empty composer and does not send again.
- *engine_cycle_page*: with the baseline that `resetEngineCycleRoundState` sets,
  no round takes an older answer for its own, although the page may lose the
  composer's text and an answer has one identity on the page and another in the
  backend; what remains is that the answer judged last is judged once more under
  its other identity, which the run has.  And every run ends, since a dismissed rate
  limit costs a step.
- *cycle_lease*: the finally blocks give back what was taken, on every path.
- *async_command*: the five actors that end a run never record an end the child
  did not have, although the last writer wins (a stop may turn `succeeded` into
  `stopped`, not `failed` into `succeeded`); the semaphore holds, killed
  children that still run included, until a slot is taken from its owner, which the
  window between creating and filling a slot file allows, and but for the children
  whose slot a finalizer has given back; a slot that names a live process is one
  somebody will give back, unless its start threw outside its catch; a run with a
  deadline ends on record although its process died.
- *repository_worker*: the idle timer looks at the pending requests and so cuts
  nobody; a late answer finds nothing pending; the exit handler of an old worker
  is the one thing that can leave two workers for a scope.
- *run_loop*: as long as one actor is at the run, a daemon that a restart cut
  short is offered for recovery and one that ended is not; a stop that comes while
  the loop awaits the file lets the step begin that was about to, and no other, also
  when a start has taken its file away.
- *version_cutover*: the order journal, selector, journal means that a selector
  which has left the previous version always has a journal that says so.
- *conversation_lifecycle*: what a pass decides on its snapshot may be wrong
  about the task (section 6), but what it records of the conversation is true;
  ready conversations that are taken up are deleted, their tasks end, and the tab
  that is bound then goes, unless the closure of the tab before is recorded over it.

### Bounds

The cycle's counters are bounded by the program itself: `max_auto_iterations`,
`maxRounds`, `maxStepsPerRound` and the stall limit of three.  Four iterations
and a floor of three let an early completion be suppressed and a later one pass;
three rounds let a run stall on its own; nine steps are one more than the
default, so that a whole first round fits in a run (with the default of eight
the first round stops at `max_steps` after its reply and the next run completes
it).  The number of runs, crashes and pauses is not bounded.  The lock models
have no counter at all: the 100 attempts of `saveTask` are the choice to give up
at any attempt.  `LastPhase = 2` gives the plan a first, a middle and a last
phase.  In `EngineTaskStore` the calls are those of one of two scenarios
(`MCCalling`): two ticks that overlap and an operator, or a tick, a record operation
and two operators; all five at once would add no new pair.  Three lock callers are the smallest number for a dead holder and two
recoverers.

In `AsyncCommandRun` two starts are enough for every race of two owners over a
slot, a lease or a lock; the scenarios (`MCAsked`) say which calls are heavy,
deduplicated, stopped, timed, may throw (`fragile`), and which process may die, so
that no scenario multiplies all of it; each run is stopped and each process dies at most once.
In `RepositoryWorker` two workers are an old one and its successor.  In
`RunLoop` two daemons are one and the one that replaces it, two steps make a
loop that continues once, one restart is what recovery is for; its `Page` has an
answer that is there, one being written, and a tab that is gone; the two daemons are
interchangeable (`Symmetry`, of safety properties only).  In
`VersionCutover` the controllers are one that may be killed, one that recovers, one
that selects something else meanwhile, and one told of another previous version,
which comes instead of the second and the third (`MCNext`).  In
`ConversationLifecycle` one answer suffices for the properties of the passing run.
Its second tab is there for the cycle to bind anew while a pass still holds the old
one, and so is opened only while a pass is about to close the first, of a one-shot
task that is ready to delete (`MCNext`); the violation run opens it at any time.
Bounds of this kind take no fair step away.

### Fairness

The assumptions are what the event loops, timers and watchdogs that drive the code
give; what they do not give is a hypothesis of the property, by name, and said
below.  Deaths are never fair.

- `ManagementLock!AskingSpec`, `CycleLease!FairLeaseSpec`: the event loop of a live
  process resumes a pending file-system call; for the lock also that time passes
  and callers come back, as `saveTask` retries and worker loops tick.
- `EngineTaskStore!FairSpec`: the worker loop keeps ticking, a live operation
  runs on, a save that finds the lock free again and again gets it within its
  hundred attempts (strong fairness of `SaveAcquire`), and an orphaned lock is
  reclaimed, which `DeadHoldersAreReclaimed` shows.
- `EngineCycle!LiveSpec`: a run goes on, since every wait on the page has a
  timeout; nothing is assumed of the assistant, the cooldown or the operator.
- `AsyncCommandRun!FairSpec`: a live process runs on, a killed child goes, a due
  event is delivered, time passes, and the caller of a run keeps asking for its
  status, which is how a run whose process died is noticed.
- `RepositoryWorker!FairSpec`: timers fire, messages and exits are delivered,
  and a live worker answers.
- `VersionCutover!FairSpec`: live controllers and guardians are scheduled.
  `DeadCandidateIsReplaced` is about a previous runtime that stays well.
- `ConversationLifecycle!FairSpec`: the watchdog starts the reaper and the
  reconciler again and again, a pass that has begun goes on, and a deletion or a
  close that is tried again and again succeeds.  Nothing is assumed of which tasks a pass takes up.
  `ReadyIsDeleted` has the hypothesis `TakenUp` instead: passes take the task up
  again and again as long as it is a candidate.  The code does not see to that
  (section 6), so the property shows that nothing else keeps a ready conversation.
  `TabsAreReleased` assumes `NoLockLeft` (`[]<>~lock`): the lock of a killed reaper is
  removed by nobody.  `ReadyDeletionEnds` is stated for tasks that are not marked
  done yet (section 6).
- `RunLoop` has no liveness property: how long it runs is up to the page.

Where a property is about what happens once deaths stop, it says so
(`<>[][no Crash]_vars =>`).

### Deadlock

`CHECK_DEADLOCK FALSE` stands where the system may really stop: a paused task
with a terminal status can neither be run nor resumed (`EngineCycle`); a set of
starts, requests, daemons or controllers has all ended (`AsyncCommandRun`,
`RepositoryWorker`, `RunLoop`, `VersionCutover`); a killed reaper leaves its lock
(`ConversationLifecycle`).  The other runs check deadlock.

### Mutants

Each property has a mutated definition next to the original (`\* Mutant: ...`)
under which its run fails: a re-check that only looks whether the file exists, a
save that does not merge, a floor that is one lower, a slot that keeps the pid of
the starter, a retirement that does not look at the pending requests, a last
state written as the ones before, a recovery that skips the selector, a refused
deletion recorded as one, and so on.

## 5. The theorems

All are proved for every value of the constants that the named assumptions
admit: any numbers of operations, processes, slots, tasks, topics, rounds,
steps, iterations, requests, workers, controllers, versions, tabs and answers.

| Module | Theorem | Statement |
|---|---|---|
| ManagementLockProofs | TypeCorrect, Exclusion | `Spec => []TypeOK`, `Spec => []MutualExclusion` |
| | ReclaimSafe | `Spec => ReclaimsOnlyDeadLocks` |
| | Implements | `Spec => MutexSpec`: the files implement `TaskMutex` |
| ManagementLockProofs, `TaskFiles` | FilesTypeCorrect | `FilesSpec => []FilesTypeOK` |
| | FilesImplement | `FilesSpec => StoreSpec`: with the files the operations implement `EngineTaskStore` |
| | FilesKeepPause | `FilesSpec => Store!PauseSurvives` |
| EngineTaskStoreProofs | TypeCorrect | `Spec => []TypeOK` |
| | PausePersists, ManagementIsolated | `Spec => PauseSurvives`, `Spec => ManagementKeepsRecord` |
| EngineCycleProofs, the cycle | TypeCorrect, Earned | `Spec => []TypeOK`, `Spec => CompletionIsEarned` |
| | NoPhantom, Conversing | `OwnConversation` implies `Spec => []NoPhantomReply` and `Spec => Converses` |
| | Advancing | `Spec => []AnswersAdvance` |
| EngineCycleProofs, its lease | LeaseTypeCorrect | `LeaseSpec => []LeaseTypeOK` |
| | NoLeaks, LeaseExclusion | `LeaseSpec => []NothingLeaks`, `[]ExclusiveUntilADeath` |
| AsyncCommandRunProofs | TypeCorrect, EndsAreReal | `Spec => []TypeOK`, `Spec => []EndIsReal` |
| | CapacityReturns, Limit | `Spec => []CapacityComesBack`, `Spec => []WithinLimit` |
| RepositoryWorkerProofs | TypeCorrect, NobodyIsCut, OneWorkerServes | `Spec => []TypeOK`, `[]RetirementCutsNobody`, `[]OneWorker` |
| RunLoopProofs | TypeCorrect, StopHeard | `Spec => []TypeOK`, `Spec => StopIsHeard` |
| | FileTellsTruth, MapTellsTruth | `Spec => []StateFileIsTruthful`, `Spec => []MapIsTruthful` |
| VersionCutoverProofs | TypeCorrect | `Spec => []TypeOK` |
| | SelectorIsTold, NoCandidateIsLeft | `Spec => []SelectorFollowsJournal`, `Spec => []RolledBackIsStopped` |
| ConversationLifecycleProofs | TypeCorrect, DeletedIsGone | `Spec => []TypeOK`, `Spec => []DeletionIsReal` |

`MutualExclusion` (which `MutexSpec` implies) and `ManagementKeepsRecord` are
proved and have no run.

**Assumptions.**  `LockAssumption`, `StoreAssumption`, `CycleAssumption`,
`StopAssumption`, `LeaseAssumption`, `RunAssumption`, `NoneAssumption`,
`WorkerAssumption`, `RunLoopAssumption`, `CutoverAssumption` and
`LifecycleAssumption` only say that the constants have their types and that the
special values are none of the ordinary ones.  `Conversing` and `NoPhantom` also
assume `OwnConversation`: the task started its own conversation (`History = 0`)
and the page keeps the text in its composer (`~Reloads`).  Both are needed: after
a reload the properties are false (section 6), and in an adopted conversation the
task may judge an answer that no message of its own asked for.  `Advancing` needs
neither: the conversation may be adopted, the answers read from either source, and
the page may lose the composer's text.
The theorems about `TaskFiles` assume `Roles`: an operation of the lock is a tick, a
record operation or an operator's call, and only one of them.

**Arguments.**
- *ManagementLock.*  `MutualExclusion` is not inductive: a recoverer about to
  rename must know that the file it renames is still the dead one.
  `HolderInv` says that a holder created the present file and lives;
  `RecoveryInv` that `.recovery.lock` admits one recoverer; `ObserveInv` that
  what an operation has seen of the file (old, complete, holder dead) is true
  as long as the file is unchanged.  A dead holder stays no holder even if a
  process with its pid returns, so the rename is safe.
- *EngineTaskStore.*  `LockInv`: whoever is between merge and release owns the
  lock.  `CopyInv`: the copy a save is about to write agrees with the file in
  the management state, and an operator's copy in everything else.
- *TaskFiles.*  Every step of the files is a step of `ManagementLock`, so its
  invariant holds.  `LinkInv`: an operation has the file exactly when its own code
  is in the section, a caller that is still judging a file is at its `acquire`,
  whoever is at work is alive.  The invariant of `EngineTaskStore` comes from its
  own proof, instantiated with the files (`Facts`): each step is shown to be one
  of the task store's, and that step keeps it.  `FilesKeepPause` is then
  `PausePersists` of the instance.
- *EngineCycle, Earned.*  `DoneInv`: a run heading for `completed` has the
  decision `done` on record, and such a decision has passed the floor.
- *EngineCycle, Conversing.*  `TaskInv` is what the fields of the task file
  imply of one another (a reply implies a decision, which implies an answer,
  ...; iterations are rounds plus the decision on record); `PageInv` what they
  imply of the page (before the first decision at most one message, between
  decisions exactly `round + 1`, after a recorded reply `round + 2`, and what
  the composer may hold); `RunInv` what the run knows between an effect and its
  record.  Every step is then a step of `Dialogue` or a stutter.
- *EngineCycle, Advancing.*  `FreshTask` is what the fields imply of one another (a
  judged task has an answer, and a later round a conversation whose prompt is
  recorded); `FreshPage`: a recorded answer is still on the page, and a later round
  has a baseline, also on the page; `FreshRun`: a run submits a prompt only before
  there is an answer, and resets a round only after its answer was judged and
  replied to.  Both sources give the last answer, so what a round captures is never
  older than its baseline, and the comparison of identities excludes the baseline
  itself.
- *CycleLease.*  `PlaceInv`: where a run is follows from the file it works on;
  `OwnerInv`: an owner of a file writes it or uses it; `BeforeInv`: before the
  first death nobody removes a file that is not its own.
- *AsyncCommandRun.*  `Starts`: what the phase of a start, its child and its
  record imply of one another.  `Finishes`: what an actor that is about to write
  the end of a run has made sure of before (the child has gone or was killed, a
  success had code 0, the slot to be removed is one nobody needs any more).
  Since these facts are stable - a process that has gone stays so - they hold
  although the record that the actor read is old by then.  `Files`: the content
  of a slot file says in which phases its start may be.  `Holding`, until
  `broken`: each child that runs, that somebody knows of (`Known`, or its start is
  still at it) and whose slot nobody has given back (`freed`) has a slot file, its
  own; these children then map one to one to slot files, and a lemma on
  cardinalities turns that into `WithinLimit`.  `Unknown`, `StartKnows` and
  `OthersKnow` say that nobody comes to know a run but through its record, so a
  start that throws or dies before it leaves nothing that others could end.
- *RunLoop.*  `Locals`: the input and the counters of each actor.  `AloneInv`,
  until `shared`: the daemon at work is the latest and the one in the map, and a
  recovery works on a dead one.  `FileInv`: what the file then says at each place
  of the latest daemon's code.  `StopHeard` rests on `LateInv`: a daemon that
  has begun a step since it was flagged has the flag still, and is at no place
  between a read of the flag and the next step (`stat`, `clear`); to come there again
  it would have to find the flag unset.
- *RepositoryWorker.*  `PendingInv`: what a worker's record waits for was sent
  to that worker and is not settled.  `RetiredInv`: nobody waits for a retired
  worker, and its channel is closed, so `ensureWorker` does not return it.
  `ChannelInv`: a live worker that is not retired has its channel open.  A
  request is thus never sent to a retired worker, and a retirement meets no
  pending one.
- *VersionCutover, SelectorIsTold.*  `OneHolder`: until `raced`, who is past
  `own` is named in the lock.  `Selecting`: what each place in the code then
  knows of journal and selector; only the holder writes them.
- *VersionCutover, NoCandidateIsLeft* needs no lock.  `ForkedOnce`: a candidate
  a journal names was forked, and a candidate that is gone never comes back.
  `Stopped`: who is past the wait for the processes of the journal in its hand,
  or past the stop of its own child, finds them gone; closing the journal writes
  that very journal.
- *ConversationLifecycle.*  `CarriedOut`: a pass about to record a deletion that
  was carried out is about a conversation that is deleted, and no step revives
  one.  The typing invariant adds `Spoken`: an answer has a text.

**Only model-checked.**  All liveness, which is beyond the proof system
(`DeadHoldersAreReclaimed`, `PlanCompletes`, `RunEnds`, `AttemptsEnd`,
`RunsSettle`, `RequestsSettle`, `WorkersRetire`, `DeadCandidateIsReplaced`,
`ReadyDeletionEnds`, `ReadyIsDeleted`, `TabsAreReleased`).

## 6. Where the code and its documents disagree

Two are runs in which TLC finds the claim of a document violated; `PROJECT.json`
quotes the line.

- *engine_cycle_human* (`HumanDecision`): a stop for a human is a property of
  the run; the next run goes on to send the reply.
- *conversation_deletion* (`DeletesOnlyWhenReady`): a pass of the reaper works
  on the task file it read at its start.  A cycle that meanwhile decides to
  continue replies in the conversation and clears `ready_to_delete`; the pass
  deletes the conversation on the flag it has read.

### Disagreements and surprises without a run

The models have these behaviours; each is a known answer and no run asks for it.

*The engine.*
- "Every state-changing action requires a task lock" (ENGINE.md:163): only ticks
  take it, and a record operation takes back the phase a tick has saved.
- A run that finds a decision on record counts it again, so one decision can be
  two of the "three consecutive completed rounds"
  (docs/agents/chatgpt-browser-product-loop.md:95) that are a stall.
- A pause during a run ends it with an error and a terminal status, and a
  terminal task cannot be resumed, although the hold says "explicit operator
  resume required" (src/engine/engine-cycle.ts:42).
- An empty composer counts as an earlier submit, also when a reload emptied it
  (ChatGptPromptSubmit.ts:119-125).
- Two recoveries of one dead lease can remove each other's new lease and both
  run the task, against "only one [executor] may own a task at a time"
  (product-loop.md:102).
- With the backend available, an answer captured from the page can be captured and
  judged once more, in the next round, under its backend identity, and the other way
  round (engine-cycle-browser.ts:1488-1505); `AnswersAdvance` says that this is all.
- A process that dies between creating a lock file (management, recovery, lease,
  reaper) and writing it leaves a file that nobody recovers.

*Commands and workers.*
- A start looks up the dedupe lease before it takes the start lock, and goes on
  without the lock after 25 attempts, so two equal commands can run at once.
- A stop, a deadline and a status call that ends a run send the child a signal, and
  give its slot back without waiting for it to go (AsyncCommandRun.ts:257-258,
  558-586), so more children than slots can run until it has gone.  (On Windows the
  tree is killed by force, and that is awaited.)
- A slot file that is created and not filled yet reads as dead and is given away
  (AsyncCommandRun.ts:113-116); from then on the limit does not hold.
- What throws between the slot and the `try`, or after it - the directory and output
  files, a command that is refused as a batch file (AsyncCommandRun.ts:177-186), the
  record, the lease - releases nothing: the slot names the server, which lives, so
  nobody reclaims it before the server ends, and a start lock stays as it is; a child
  already spawned is listened to by nobody.
- A worker retired while its run still goes on takes the listener with it: the
  run's end is recorded by a status call as `failed`, `process_not_running`, also
  if the command ended with code 0 (RepositoryWorkerHost.ts:260).

*The run loop.*
- "Ready for pre-ASK: step runs the preflight capture"
  (docs/chatgpt-run-loop-orchestration.md:207): the planner asks for the capture on
  `READY_FOR_STABLE_CAPTURE`, and the capture, which probes once more, returns
  early on that very status (implementation-run-capture.ts:1137).

- The loop reads the flag of a stop and then awaits whether the stop file is there
  (implementation-run-capture.ts:892, 956); a stop that comes meanwhile lets one more
  step begin.
- Starts that overlap, `replaceExisting`, and a start during a recovery step put two
  actors at one run: an old daemon deletes its successor's entry
  (implementation-run-capture.ts:983), a checkpoint overwrites a newer state (:811).

*The cutover.*
- Evicting a stale lock removes the directory whoever has it by then
  (runtime-version-transaction.mjs:59-69); a controller killed between creating
  the directory and writing `owner.json` leaves a lock nobody can judge.

*The conversation.*
- A gateway decision does not clear `execution_completed_at`; a task so marked
  whose cycle then dies is ended by neither the cycle nor the reconciler.
- A pass deletes the conversations of at most ten tasks, those that changed last
  (engine-conversation-lifecycle.ts:71-80), and a deletion that fails changes its
  task (engine-core.ts:890): ten whose deletion fails keep all others out.
- `recordEngineBrowserTargetClosure` records a closure, and unbinds the task, without
  asking whether the tab that was closed is the one the task is bound to
  (engine-core.ts:1000-1006): a tab bound meanwhile stays open, and no pass closes it.
- The two parsers of `ready_to_delete` disagree on some answers
  (engine-conversation-lifecycle.ts:306, engine-core.ts:1896).
- A pass can record an answer it has recovered again after the round was reset,
  since it compares with the hash of its snapshot
  (engine-conversation-lifecycle.ts:142).

## 7. What is not modelled

The components are listed in `PROJECT.json` with the reason for each.

*Could be modelled and are not yet:* enqueue and adoption, the store job
journal, the release broker and the release transaction, and the worker loop
(plan items 10 to 12).

*Left out for good:* the decision router and Jev (text scoring; the cycle takes
any decision), the browser executor and the page-driving consumers (DevTools
traffic; the models have what callers see of it: an effective or lost click, a
readable or unreadable answer, a tab that shows the conversation or not),
repository tools, patches, file edits and database tools (single sequential
calls), authentication, admission and registry tables (stateless checks of one
call), diagnostics and release-candidate reports (read-only), and the Windows
and Ubuntu installers and watchdogs (they drive the operating system).

That is also why the mapped lines are a small share of the repository: most of
its code drives a page, assembles reports or performs one sequential call.  What
is modelled is where several actors share state and outlive one another.
