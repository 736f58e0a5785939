------------------------- MODULE VersionCutoverProofs -------------------------
(***************************************************************************)
(* For any number of controllers, tasks and versions: a transaction that is *)
(* rolled back has stopped the candidate it knew of; and, until a lock is   *)
(* removed under its holder, one controller holds the lock and the selector *)
(* leaves the previous version only as the journal says.                    *)
(***************************************************************************)
EXTENDS VersionCutover, TLAPS

\* Steps at which a controller has a journal in memory.
Carrying == Holding \ {"own", "recover", "check", "prepare", "release"}
InHand == \A c \in Controller : pc[c] \in Carrying => held[c] \in Journal

TypeInv == TypeOK /\ InHand

\* One controller holds the lock directory: it is bare, or names this controller.
OneHolder == ~raced => \A c \in Controller : Holds(c) =>
                /\ lock = IF pc[c] = "own" THEN Bare ELSE c
                /\ \A d \in Controller : Holds(d) => d = c

\* Steps at which the holder has found or made the selector point to Previous.
AtPrevious == {"close", "prepare", "start", "forked", "record", "cleanup", "probe",
               "healthy", "recheck", "promote", "select"}
Started == {"start", "forked", "record", "probe", "healthy", "recheck", "promote",
            "select", "confirm"}

Selecting == ~raced => \A c \in Controller :
    /\ pc[c] \in AtPrevious => active = Previous
    /\ pc[c] \in Started => held[c].version = Wants[c]
    /\ pc[c] = "select" => /\ journal # None /\ journal.phase = "promoting"
                           /\ journal.version = Wants[c]
    /\ pc[c] = "confirm" => active = Wants[c]

SelectorInv == TypeInv /\ OneHolder /\ Selecting /\ SelectorFollowsJournal

\* Steps a controller takes after it has forked its candidate.
Forking == {"forked", "record", "cleanup", "probe", "healthy", "recheck", "promote",
            "select", "confirm", "monitor", "stop", "stuck"}
Unforked == {"idle", "own", "recover", "await", "port", "check", "prepare", "start"} \cup Acquiring
Reverting == {"port", "verify", "restore", "write", "close"}
Unrecorded == {"start", "forked", "record", "cleanup"}
Recorded == {"probe", "healthy", "recheck", "promote", "select", "confirm", "monitor",
             "stop", "stuck"}

\* A runtime that is gone does not come back: its controller has forked it before.
Named(j) == j # None /\ j.runtime # None
ForkedAt(c) ==
    /\ pc[c] \in {"check", "prepare", "start"} => op[c] = "select"
    /\ pc[c] \in Unforked => op[c] # "undo"
    /\ pc[c] \in {"cleanup", "stop", "stuck"} => op[c] = "undo"
    /\ pc[c] \in Unforked \/ (op[c] = "select" /\ pc[c] \in Reverting) => runtime[c] = "none"
    /\ pc[c] \in Forking => runtime[c] # "none"
    /\ pc[c] \in Carrying /\ Named(held[c]) => runtime[held[c].runtime] # "none"
ForkedOnce == /\ Named(journal) => runtime[journal.runtime] # "none"
              /\ \A c \in Controller : ForkedAt(c)

\* When a journal is about to be closed, the runtime it names has gone.
StoppedAt(c) ==
    /\ pc[c] \in Unrecorded => held[c].runtime = None
    /\ pc[c] \in Recorded => held[c].runtime \in {None, c}
    /\ pc[c] \in Reverting /\ op[c] = "undo" => held[c].runtime \in {None, c}
    /\ pc[c] \in Reverting /\ Named(held[c]) => ~Live(held[c].runtime)
Stopped == \A c \in Controller : StoppedAt(c)

StoppedInv == TypeInv /\ ForkedOnce /\ Stopped /\ RolledBackIsStopped
-----------------------------------------------------------------------------
\* A journal with another phase, or the runtime recorded, is one.
LEMMA JournalChanges ==
  ASSUME NEW j \in Journal, NEW c \in Controller,
         NEW p \in {"prepared", "started", "promoting", "selected", "rolled-back"}
  PROVE  /\ [j EXCEPT !.phase = p] \in Journal
         /\ [j EXCEPT !.phase = p].phase = p
         /\ [j EXCEPT !.phase = p].runtime = j.runtime
         /\ [j EXCEPT !.phase = p, !.runtime = c] \in Journal
BY DEF Journal

LEMMA TaskIsOne == \A c \in Controller : Task[c] \in {"select", "recover"}
BY CutoverAssumption

\* A controller records j, whatever j is.
LEMMA Recording ==
  ASSUME TypeInv, NEW c \in Controller, NEW from, NEW to \in Carrying, NEW j \in Journal,
         Records(c, from, to, j), UNCHANGED <<lock, active, world, op, raced>>
  PROVE  TypeInv'
BY DEF TypeInv, TypeOK, InHand, Carrying, Holding, Goes, Records, world

LEMMA TypeInitially == Init => TypeInv
<1> SUFFICES ASSUME Init PROVE TypeInv
  OBVIOUS
<1>1. op \in [Controller -> {"select", "recover", "undo"}]
  <2>1. \A c \in Controller : Task[c] \in {"select", "recover"}
    BY CutoverAssumption
  <2> QED BY <2>1, CutoverAssumption DEF Init
<1>2. TypeOK
  BY <1>1 DEF Init, TypeOK
<1>3. InHand
  BY DEF Init, InHand, Carrying, Holding
<1> QED BY <1>2, <1>3 DEF TypeInv

LEMMA TypeStep == TypeInv /\ [Next]_vars => TypeInv'
<1> SUFFICES ASSUME TypeInv, [Next]_vars PROVE TypeInv'
  OBVIOUS
<1> USE DEF TypeInv, TypeOK, InHand, Carrying, Holding, Acquiring, Ended, Goes, files, world, own
<1>1. ASSUME NEW c \in Controller, Launch(c) \/ Locks(c) PROVE TypeInv'
  <2>1. CASE Launch(c) \/ Inspect(c) BY <2>1 DEF Launch, Inspect
  <2>2. CASE Acquire(c) \/ Own(c) BY <2>2 DEF Acquire, Own
  <2>3. CASE Evict(c)
    <3>1. raced' \in BOOLEAN BY <2>3, Zenon DEF Evict
    <3>2. /\ pc' = [pc EXCEPT ![c] = IF lock = None THEN "exited" ELSE "claim"]
          /\ lock' = None /\ UNCHANGED <<active, journal, runtime, previousOk, op, held>>
      BY <2>3 DEF Evict
    <3> QED BY <3>1, <3>2
  <2>4. CASE Claim(c) BY <2>4 DEF Claim
  <2>5. CASE Release(c) BY <2>5, TaskIsOne DEF Release, Forgets
  <2> QED BY <1>1, <2>1, <2>2, <2>3, <2>4, <2>5 DEF Locks
<1>2. ASSUME NEW c \in Controller, ReadJournal(c) \/ AwaitExit(c) PROVE TypeInv'
  BY <1>2 DEF ReadJournal, AwaitExit, Pending, Afterwards
<1>3. ASSUME NEW c \in Controller, FreePort(c) \/ Verify(c) \/ Restore(c) PROVE TypeInv'
  BY <1>3, TaskIsOne DEF FreePort, Verify, Restore, Fails, Abandons, Forgets
<1>4. ASSUME NEW c \in Controller, Write(c) \/ Close(c) PROVE TypeInv'
  <2>1. CASE Write(c)
    BY <2>1 DEF Write
  <2>2. CASE Close(c)
    <3> DEFINE j == [held[c] EXCEPT !.phase = "rolled-back"]
    <3>1. held[c] \in Journal BY <2>2 DEF Close
    <3>2. j \in Journal BY <3>1, JournalChanges
    <3>3. journal' = j BY <2>2 DEF Close
    <3> HIDE DEF j
    <3> QED BY <2>2, <3>2, <3>3 DEF Close, Afterwards
  <2> QED BY <1>4, <2>1, <2>2
<1>5. ASSUME NEW c \in Controller, Check(c) \/ Start(c) \/ Forked(c) \/ Cleanup(c) PROVE TypeInv'
  BY <1>5 DEF Check, Start, Forked, Cleanup, Abandons, Undoes
<1>6. ASSUME NEW c \in Controller, Prepare(c) PROVE TypeInv'
  <2>1. Wants[c] \in Version BY DEF Version
  <2>2. [phase |-> "prepared", version |-> Wants[c], runtime |-> None] \in Journal
    BY <2>1 DEF Journal
  <2> QED BY <1>6, <2>2, Recording DEF Prepare
<1>7. ASSUME NEW c \in Controller, Record(c) \/ Promote(c) \/ Confirm(c) PROVE TypeInv'
  <2>1. held[c] \in Journal
    BY <1>7 DEF Record, Promote, Confirm, Records, Undoes
  <2>2. /\ [held[c] EXCEPT !.phase = "started", !.runtime = c] \in Journal
        /\ [held[c] EXCEPT !.phase = "promoting"] \in Journal
        /\ [held[c] EXCEPT !.phase = "selected"] \in Journal
    BY <2>1, JournalChanges
  <2>3. CASE Record(c) BY <2>2, <2>3, Recording DEF Record
  <2>4. CASE Promote(c) BY <2>2, <2>4, Recording DEF Promote
  <2>5. CASE Confirm(c)
    <3>1. CASE Undoes(c, "confirm", "stop") /\ UNCHANGED <<files, world, raced>>
      BY <3>1 DEF Undoes
    <3>2. CASE /\ Records(c, "confirm", "monitor", [held[c] EXCEPT !.phase = "selected"])
               /\ UNCHANGED <<lock, active, world, op, raced>>
      BY <2>2, <3>2, Recording
    <3> QED BY <2>5, <3>1, <3>2 DEF Confirm
  <2> QED BY <1>7, <2>3, <2>4, <2>5
<1>8. ASSUME NEW c \in Controller,
             Probe(c) \/ Healthy(c) \/ Recheck(c) \/ Tick(c) \/ Signal(c) \/ Stop(c) \/ Retry(c)
      PROVE TypeInv'
  BY <1>8 DEF Probe, Healthy, Recheck, Tick, Signal, Stop, Retry, Undoes
<1>9. ASSUME NEW c \in Controller, Select(c) \/ Quit(c) \/ Kill(c) PROVE TypeInv'
  BY <1>9, TaskIsOne DEF Select, Quit, Kill, Forgets, Version
<1>10. ASSUME NEW c \in Controller, GuardianStops(c) \/ Serves(c) \/ Dies(c) PROVE TypeInv'
  BY <1>10 DEF GuardianStops, Serves, Dies
<1>11. CASE PreviousTurns \/ UNCHANGED vars
  BY <1>11 DEF PreviousTurns, vars
<1> QED
  BY <1>1, <1>2, <1>3, <1>4, <1>5, <1>6, <1>7, <1>8, <1>9, <1>10, <1>11
  DEF Next, Works, Recovers, CutsOver

(* The state is always what the declarations say: whatever the controllers, *)
(* the kills and the runtimes do, the files hold whole values and every     *)
(* journal that is written back was read or built before.                   *)
THEOREM TypeCorrect == Spec => []TypeOK
<1>1. Spec => []TypeInv
  BY TypeInitially, TypeStep, PTL DEF Spec
<1>2. TypeInv => TypeOK
  BY DEF TypeInv
<1> QED BY <1>1, <1>2, PTL
-----------------------------------------------------------------------------
\* Steps that neither take nor remove the lock: whoever holds it may go on holding.
Keeps(c) == /\ UNCHANGED <<lock, raced>>
            /\ pc' \in [Controller -> {"idle"} \cup Acquiring \cup Holding \cup Ended]
            /\ \A d \in Controller : d # c => pc'[d] = pc[d]
            /\ Holds(c)' => Holds(c) /\ (pc'[c] = "own" <=> pc[c] = "own")

LEMMA KeepsHolder ==
  ASSUME OneHolder, NEW c \in Controller, Keeps(c) PROVE OneHolder'
<1> SUFFICES ASSUME ~raced', NEW d \in Controller, Holds(d)'
             PROVE  /\ lock' = IF pc'[d] = "own" THEN Bare ELSE d
                    /\ \A e \in Controller : Holds(e)' => e = d
  BY DEF OneHolder
<1>1. \A e \in Controller : Holds(e)' => Holds(e) /\ (pc'[e] = "own" <=> pc[e] = "own")
  BY DEF Keeps, Holds
<1>2. ~raced /\ lock' = lock
  BY DEF Keeps
<1> QED BY <1>1, <1>2 DEF OneHolder

\* Recovery, cutover and rollback up to the release keep the lock as it is.
LEMMA InnerKeeps ==
  ASSUME TypeInv, NEW c \in Controller,
         Launch(c) \/ Recovers(c) \/ CutsOver(c) \/ Signal(c) \/ Retry(c) \/ Kill(c)
  PROVE  Keeps(c)
<1> USE DEF Keeps, TypeInv, TypeOK, Holding, Acquiring, Ended, Goes, files, Holds
<1>1. CASE Launch(c) \/ Kill(c) \/ Signal(c) \/ Retry(c)
  BY <1>1 DEF Launch, Kill, Signal, Retry, Undoes, Alive
<1>2. CASE Recovers(c)
  <2>1. CASE ReadJournal(c) \/ AwaitExit(c) \/ Write(c) \/ Close(c)
    BY <2>1 DEF ReadJournal, AwaitExit, Write, Close, Afterwards
  <2>2. CASE FreePort(c) \/ Verify(c) \/ Restore(c)
    BY <2>2 DEF FreePort, Verify, Restore, Fails, Abandons
  <2> QED BY <1>2, <2>1, <2>2 DEF Recovers
<1>3. CASE CutsOver(c)
  <2>1. CASE Check(c) \/ Prepare(c) \/ Start(c) \/ Forked(c) \/ Cleanup(c) \/ Record(c)
    BY <2>1 DEF Check, Prepare, Start, Forked, Cleanup, Record, Records, Undoes, Abandons
  <2>2. CASE Probe(c) \/ Healthy(c) \/ Recheck(c) \/ Promote(c) \/ Select(c) \/ Confirm(c)
    BY <2>2 DEF Probe, Healthy, Recheck, Promote, Select, Confirm, Records, Undoes
  <2>3. CASE Tick(c) \/ Stop(c) \/ Quit(c)
    BY <2>3 DEF Tick, Stop, Quit, Undoes
  <2> QED BY <1>3, <2>1, <2>2, <2>3 DEF CutsOver
<1> QED BY <1>1, <1>2, <1>3

LEMMA HolderStep == TypeInv /\ OneHolder /\ [Next]_vars => OneHolder'
<1> SUFFICES ASSUME TypeInv, OneHolder, [Next]_vars PROVE OneHolder'
  OBVIOUS
<1>1. ASSUME NEW c \in Controller,
             Launch(c) \/ Recovers(c) \/ CutsOver(c) \/ Signal(c) \/ Retry(c) \/ Kill(c)
      PROVE OneHolder'
  BY <1>1, InnerKeeps, KeepsHolder
<1>2. ASSUME NEW c \in Controller, Locks(c) PROVE OneHolder'
  <2> USE DEF TypeInv, TypeOK, OneHolder, Holds, Holding, Acquiring, Ended, Goes
  <2>1. CASE Acquire(c) BY <2>1, CutoverAssumption DEF Acquire
  <2>2. CASE Inspect(c) BY <2>2 DEF Inspect, files
  <2>3. CASE Evict(c) BY <2>3 DEF Evict
  <2>4. CASE Claim(c) BY <2>4, CutoverAssumption DEF Claim
  <2>5. CASE Own(c) BY <2>5 DEF Own
  <2>6. CASE Release(c) BY <2>6 DEF Release
  <2> QED BY <1>2, <2>1, <2>2, <2>3, <2>4, <2>5, <2>6 DEF Locks
<1>3. ASSUME NEW c \in Controller, GuardianStops(c) \/ Serves(c) \/ Dies(c) PROVE OneHolder'
  BY <1>3 DEF GuardianStops, Serves, Dies, files, OneHolder, Holds
<1>4. CASE PreviousTurns \/ UNCHANGED vars
  BY <1>4 DEF PreviousTurns, vars, files, OneHolder, Holds
<1> QED BY <1>1, <1>2, <1>3, <1>4 DEF Next, Works
-----------------------------------------------------------------------------
\* SelectorInv is about steps of the one holder: what another controller does
\* leaves the selector, the journal and its own record alone.
Elsewhere(c) == /\ UNCHANGED <<active, journal>>
                /\ raced' = FALSE => raced = FALSE
                /\ \A d \in Controller : d # c => pc'[d] = pc[d] /\ held'[d] = held[d]
                /\ pc'[c] \notin AtPrevious \cup Started

LEMMA ElsewhereKeeps ==
  ASSUME TypeInv, Selecting, SelectorFollowsJournal, NEW c \in Controller, Elsewhere(c),
         raced' \in BOOLEAN
  PROVE  Selecting' /\ SelectorFollowsJournal'
<1>1. SelectorFollowsJournal'
  BY DEF Elsewhere, SelectorFollowsJournal, TypeInv, TypeOK
<1>2. Selecting'
  BY DEF Elsewhere, Selecting, AtPrevious, Started, TypeInv, TypeOK
<1> QED BY <1>1, <1>2

LEMMA LocksSelect ==
  ASSUME SelectorInv, TypeInv', NEW c \in Controller, Locks(c) \/ Launch(c) \/ Kill(c)
  PROVE  Selecting' /\ SelectorFollowsJournal'
<1> USE DEF SelectorInv
<1>1. raced' \in BOOLEAN
  BY DEF TypeInv, TypeOK
<1>2. CASE Launch(c) \/ Kill(c)
  BY <1>1, <1>2, ElsewhereKeeps
  DEF Elsewhere, Launch, Kill, Forgets, Goes, files, own, AtPrevious, Started, TypeInv, TypeOK
<1>3. CASE Locks(c)
  <2> USE DEF Elsewhere, Goes, files, own, AtPrevious, Started, TypeInv, TypeOK
  <2>1. CASE Acquire(c) \/ Claim(c)
    BY <1>1, <2>1, ElsewhereKeeps DEF Acquire, Claim
  <2>5. CASE Inspect(c)
    <3>1. Elsewhere(c) BY <2>5 DEF Inspect
    <3> QED BY <1>1, <3>1, ElsewhereKeeps
  <2>4. CASE Own(c)
    BY <1>1, <2>4, ElsewhereKeeps DEF Own
  <2>2. CASE Release(c)
    BY <1>1, <2>2, ElsewhereKeeps DEF Release, Forgets
  <2>3. CASE Evict(c)
    <3>1. raced' = FALSE => raced = FALSE BY <2>3, Zenon DEF Evict
    <3> QED BY <1>1, <2>3, <3>1, ElsewhereKeeps DEF Evict
  <2> QED BY <1>3, <2>1, <2>2, <2>3, <2>4, <2>5 DEF Locks
<1> QED BY <1>2, <1>3

LEMMA RecoversSelect ==
  ASSUME SelectorInv, ~raced, NEW c \in Controller, Recovers(c)
  PROVE  Selecting' /\ SelectorFollowsJournal'
<1> USE DEF SelectorInv, TypeInv, TypeOK, Goes, files, own, AtPrevious, Started, Selecting,
        SelectorFollowsJournal
<1>1. Holds(c) /\ \A d \in Controller : Holds(d) => d = c
  BY DEF Recovers, ReadJournal, AwaitExit, FreePort, Verify, Restore, Fails, Abandons, Write, Close,
     OneHolder, Holds, Holding
<1>2. \A d \in Controller : d # c => pc[d] \notin AtPrevious \cup Started
  BY <1>1 DEF Holds, Holding
<1>3. CASE ReadJournal(c)
  BY <1>3 DEF ReadJournal, Pending, Afterwards
<1>4. CASE AwaitExit(c) \/ FreePort(c) \/ Verify(c) \/ Restore(c)
  BY <1>4 DEF AwaitExit, FreePort, Verify, Restore, Fails, Abandons, Forgets
<1>5. CASE Write(c)
  BY <1>2, <1>5 DEF Write
<1>6. CASE Close(c)
  BY <1>2, <1>6 DEF Close, Afterwards
<1> QED BY <1>3, <1>4, <1>5, <1>6 DEF Recovers

LEMMA CutsOverSelect ==
  ASSUME SelectorInv, ~raced, NEW c \in Controller, CutsOver(c) \/ Signal(c) \/ Retry(c)
  PROVE  Selecting' /\ SelectorFollowsJournal'
<1> USE DEF SelectorInv, TypeInv, TypeOK, Goes, files, own, AtPrevious, Started, Selecting,
        SelectorFollowsJournal
<1>1. Holds(c)
  BY DEF CutsOver, Check, Prepare, Start, Forked, Cleanup, Record, Records, Probe, Healthy,
     Recheck, Promote, Select, Confirm, Tick, Stop, Quit, Signal, Retry, Undoes, Abandons,
     Holds, Holding
<1>2. \A d \in Controller : d # c => pc[d] \notin AtPrevious \cup Started
  BY <1>1 DEF Holds, Holding, OneHolder
<1>3. CASE Check(c) \/ Cleanup(c) \/ Start(c) \/ Forked(c)
  BY <1>3 DEF Check, Cleanup, Start, Forked, Abandons, Undoes
<1>4. CASE Prepare(c)
  BY <1>2, <1>4 DEF Prepare, Records
<1>5. CASE Record(c)
  BY <1>2, <1>5 DEF Record, Records, InHand, Carrying, Holding
<1>6. CASE Probe(c) \/ Healthy(c) \/ Recheck(c)
  BY <1>6 DEF Probe, Healthy, Recheck, Undoes
<1>7. CASE Promote(c)
  <2> DEFINE j == [held[c] EXCEPT !.phase = "promoting"]
  <2>1. held[c] \in Journal
    BY <1>7 DEF Promote, Records, InHand, Carrying, Holding
  <2>2. j # None /\ j.phase = "promoting" /\ j.version = held[c].version
    BY <2>1, CutoverAssumption DEF Journal
  <2>3. journal' = j /\ held' = [held EXCEPT ![c] = j]
    BY <1>7 DEF Promote, Records
  <2> HIDE DEF j
  <2> QED BY <1>2, <1>7, <2>2, <2>3 DEF Promote, Records
<1>8. CASE Select(c)
  BY <1>2, <1>8 DEF Select
<1>9. CASE Confirm(c)
  <2> DEFINE j == [held[c] EXCEPT !.phase = "selected"]
  <2>1. CASE Undoes(c, "confirm", "stop") /\ UNCHANGED journal
    BY <1>2, <1>9, <2>1 DEF Confirm, Undoes
  <2>2. CASE op' = op /\ Records(c, "confirm", "monitor", j)
    <3>1. held[c] \in Journal
      BY <2>2 DEF Records, InHand, Carrying, Holding
    <3>2. j # None /\ j.phase = "selected" /\ j.version = held[c].version
      BY <3>1, CutoverAssumption DEF Journal
    <3>3. journal' = j /\ held' = [held EXCEPT ![c] = j]
      BY <2>2 DEF Records
    <3> HIDE DEF j
    <3> QED BY <1>2, <1>9, <2>2, <3>2, <3>3 DEF Confirm, Records
  <2> QED BY <1>9, <2>1, <2>2 DEF Confirm
<1>10. CASE Tick(c) \/ Signal(c) \/ Stop(c) \/ Retry(c)
  BY <1>10 DEF Tick, Signal, Stop, Retry, Undoes
<1>11. CASE Quit(c)
  BY <1>11 DEF Quit, Forgets
<1> QED
  BY <1>3, <1>4, <1>5, <1>6, <1>7, <1>8, <1>9, <1>10, <1>11 DEF CutsOver

LEMMA SelectorStep == SelectorInv /\ [Next]_vars => SelectorInv'
<1> SUFFICES ASSUME SelectorInv, [Next]_vars PROVE SelectorInv'
  OBVIOUS
<1>1. TypeInv' /\ OneHolder'
  BY TypeStep, HolderStep DEF SelectorInv
<1>2. Selecting' /\ SelectorFollowsJournal'
  <2>1. ASSUME NEW c \in Controller, Locks(c) \/ Launch(c) \/ Kill(c)
        PROVE Selecting' /\ SelectorFollowsJournal'
    BY <1>1, <2>1, LocksSelect
  <2>2. ASSUME NEW c \in Controller,
               Recovers(c) \/ CutsOver(c) \/ Signal(c) \/ Retry(c)
        PROVE Selecting' /\ SelectorFollowsJournal'
    <3>1. CASE ~raced
      BY <2>2, <3>1, RecoversSelect, CutsOverSelect
    <3>2. CASE raced
      <4>1. raced' = raced
        BY <2>2, InnerKeeps DEF Keeps, SelectorInv
      <4> QED BY <3>2, <4>1 DEF Selecting, SelectorFollowsJournal
    <3> QED BY <3>1, <3>2
  <2>3. ASSUME NEW c \in Controller, GuardianStops(c) \/ Serves(c) \/ Dies(c)
        PROVE Selecting' /\ SelectorFollowsJournal'
    BY <2>3 DEF SelectorInv, GuardianStops, Serves, Dies, files, own, Selecting, SelectorFollowsJournal
  <2>4. CASE PreviousTurns \/ UNCHANGED vars
    BY <2>4 DEF SelectorInv, PreviousTurns, vars, files, own, Selecting, SelectorFollowsJournal
  <2> QED BY <2>1, <2>2, <2>3, <2>4 DEF Next, Works
<1> QED BY <1>1, <1>2 DEF SelectorInv

(* Until a lock is removed under its holder, the selector names another      *)
(* version only while the journal says that this version is being, or was,  *)
(* promoted: the order of the file writes in cutover, rollback and recovery, *)
(* under the lock, for any number of controllers killed anywhere.            *)
THEOREM SelectorIsTold == Spec => []SelectorFollowsJournal
<1>1. Init => SelectorInv
  <2> SUFFICES ASSUME Init PROVE SelectorInv
    OBVIOUS
  <2>1. TypeInv
    BY TypeInitially
  <2>2. OneHolder /\ Selecting /\ SelectorFollowsJournal
    BY DEF Init, OneHolder, Holds, Holding, Selecting, AtPrevious, Started, SelectorFollowsJournal
  <2> QED BY <2>1, <2>2 DEF SelectorInv
<1>2. Spec => []SelectorInv
  BY <1>1, SelectorStep, PTL DEF Spec
<1>3. SelectorInv => SelectorFollowsJournal
  BY DEF SelectorInv
<1> QED BY <1>2, <1>3, PTL
-----------------------------------------------------------------------------
\* Steps of c that touch no runtime and no journal on disk.
Quiet(c) == /\ UNCHANGED <<journal, runtime>>
            /\ \A d \in Controller : d # c =>
                  pc'[d] = pc[d] /\ op'[d] = op[d] /\ held'[d] = held[d]

LEMMA QuietKeeps ==
  ASSUME StoppedInv, NEW c \in Controller, Quiet(c), ForkedAt(c)', StoppedAt(c)'
  PROVE  ForkedOnce' /\ Stopped' /\ RolledBackIsStopped'
<1>1. RolledBackIsStopped'
  BY DEF StoppedInv, Quiet, RolledBackIsStopped, Live
<1>2. ForkedOnce'
  BY DEF StoppedInv, Quiet, ForkedOnce, ForkedAt, Named
<1>3. Stopped'
  BY DEF StoppedInv, Quiet, Stopped, StoppedAt, Named, Live
<1> QED BY <1>1, <1>2, <1>3

LEMMA QuietStep ==
  ASSUME StoppedInv, NEW c \in Controller,
         \/ Launch(c) \/ Locks(c) \/ Signal(c) \/ Retry(c) \/ Kill(c)
         \/ ReadJournal(c) \/ AwaitExit(c) \/ FreePort(c) \/ Verify(c) \/ Restore(c) \/ Write(c)
         \/ Check(c) \/ Forked(c) \/ Cleanup(c) \/ Probe(c) \/ Healthy(c) \/ Recheck(c)
         \/ Select(c) \/ Tick(c) \/ Stop(c) \/ Quit(c)
  PROVE  ForkedOnce' /\ Stopped' /\ RolledBackIsStopped'
<1> SUFFICES Quiet(c) /\ ForkedAt(c)' /\ StoppedAt(c)'
  BY QuietKeeps
<1> USE DEF Quiet, Goes, files, world, own, StoppedInv, TypeInv, TypeOK
<1>1. ForkedAt(c) /\ StoppedAt(c) /\ (Named(journal) => runtime[journal.runtime] # "none")
  BY DEF ForkedOnce, Stopped
<1> USE DEF ForkedAt, StoppedAt, Unforked, Acquiring, Reverting, Forking, Carrying, Holding,
        Unrecorded, Recorded, Named, Live
<1>2. CASE Launch(c) \/ Kill(c) BY <1>1, <1>2, TaskIsOne DEF Launch, Kill, Forgets, Alive
<1>3. CASE Signal(c) \/ Retry(c) BY <1>1, <1>3 DEF Signal, Retry, Undoes
<1>4. CASE Locks(c)
  <2>1. CASE Acquire(c) \/ Claim(c) BY <1>1, <2>1 DEF Acquire, Claim
  <2>2. CASE Inspect(c) BY <1>1, <2>2 DEF Inspect
  <2>3. CASE Evict(c) BY <1>1, <2>3 DEF Evict
  <2>4. CASE Own(c) BY <1>1, <2>4 DEF Own
  <2>5. CASE Release(c) BY <1>1, <2>5, TaskIsOne DEF Release, Forgets
  <2> QED BY <1>4, <2>1, <2>2, <2>3, <2>4, <2>5 DEF Locks
<1>5. CASE ReadJournal(c) BY <1>1, <1>5 DEF ReadJournal, Pending, Afterwards
<1>6. CASE AwaitExit(c) BY <1>1, <1>6 DEF AwaitExit
<1>7. CASE FreePort(c) \/ Verify(c) \/ Restore(c)
  BY <1>1, <1>7, TaskIsOne DEF FreePort, Verify, Restore, Fails, Abandons, Forgets
<1>8. CASE Write(c) \/ Select(c) \/ Cleanup(c)
  <2>1. CASE Write(c) BY <1>1, <2>1 DEF Write
  <2>2. CASE Select(c) BY <1>1, <2>2 DEF Select
  <2>3. CASE Cleanup(c) BY <1>1, <2>3 DEF Cleanup
  <2> QED BY <1>8, <2>1, <2>2, <2>3
<1>9. CASE Check(c) \/ Forked(c) BY <1>1, <1>9 DEF Check, Forked, Undoes, Abandons
<1>10. CASE Probe(c) \/ Healthy(c) \/ Recheck(c) \/ Tick(c)
  BY <1>1, <1>10 DEF Probe, Healthy, Recheck, Tick, Undoes
<1>11. CASE Stop(c) BY <1>1, <1>11 DEF Stop
<1>12. CASE Quit(c) BY <1>1, <1>12, TaskIsOne DEF Quit, Forgets
<1> QED BY <1>2, <1>3, <1>4, <1>5, <1>6, <1>7, <1>8, <1>9, <1>10, <1>11, <1>12

\* A controller writes the journal it has in memory, with another phase.
LEMMA RecordingStops ==
  ASSUME StoppedInv, NEW c \in Controller, NEW from, NEW to \in Carrying \ Reverting,
         NEW j \in Journal, Records(c, from, to, j), UNCHANGED <<runtime, op>>,
         j.phase # "rolled-back", j.runtime # None => runtime[j.runtime] # "none",
         to \in Unrecorded => j.runtime = None,
         to \in Recorded => j.runtime \in {None, c},
         to \in Unforked => runtime[c] = "none" /\ op[c] = "select",
         to \notin {"cleanup", "stop", "stuck"},
         to \in Forking => runtime[c] # "none"
  PROVE  ForkedOnce' /\ Stopped' /\ RolledBackIsStopped'
<1> USE DEF StoppedInv, TypeInv, TypeOK, Records, Goes
<1>1. RolledBackIsStopped'
  BY DEF RolledBackIsStopped
<1>2. ASSUME NEW d \in Controller PROVE ForkedAt(d)'
  BY DEF ForkedOnce, ForkedAt, Named, Carrying, Holding, Reverting, Unforked
<1>3. ASSUME NEW d \in Controller PROVE StoppedAt(d)'
  BY DEF Stopped, StoppedAt, Named, Live, Reverting
<1> QED BY <1>1, <1>2, <1>3 DEF ForkedOnce, Stopped, Named

LEMMA JournalStep ==
  ASSUME StoppedInv, NEW c \in Controller,
         Prepare(c) \/ Record(c) \/ Promote(c) \/ Confirm(c) \/ Close(c)
  PROVE  ForkedOnce' /\ Stopped' /\ RolledBackIsStopped'
<1> USE DEF StoppedInv
<1>1. ForkedAt(c) /\ StoppedAt(c)
  BY DEF ForkedOnce, Stopped
<1> USE DEF Carrying, Holding, Reverting, Unrecorded, Recorded, Unforked, Forking, Acquiring
<1>2. CASE Prepare(c)
  <2> DEFINE j == [phase |-> "prepared", version |-> Wants[c], runtime |-> None]
  <2>1. j \in Journal /\ j.phase = "prepared" /\ j.runtime = None
    BY DEF Journal, Version
  <2>2. pc[c] = "prepare" /\ Records(c, "prepare", "start", j) /\ UNCHANGED <<runtime, op>>
    BY <1>2 DEF Prepare, Records, Goes, world
  <2> HIDE DEF j
  <2> QED BY <1>1, <2>1, <2>2, RecordingStops DEF ForkedAt
<1>3. CASE Record(c)
  <2> DEFINE j == [held[c] EXCEPT !.phase = "started", !.runtime = c]
  <2>1. pc[c] = "record" /\ Records(c, "record", "probe", j) /\ UNCHANGED <<runtime, op>>
    BY <1>3 DEF Record, Records, Goes, world
  <2>2. held[c] \in Journal
    BY <2>1 DEF TypeInv, InHand
  <2>3. j \in Journal /\ j.phase = "started" /\ j.runtime = c
    BY <2>2, JournalChanges DEF Journal
  <2> HIDE DEF j
  <2> QED BY <1>1, <2>1, <2>3, RecordingStops DEF ForkedAt
<1>4. CASE Promote(c)
  <2> DEFINE j == [held[c] EXCEPT !.phase = "promoting"]
  <2>1. pc[c] = "promote" /\ Records(c, "promote", "select", j) /\ UNCHANGED <<runtime, op>>
    BY <1>4 DEF Promote, Records, Goes, world
  <2>2. held[c] \in Journal
    BY <2>1 DEF TypeInv, InHand
  <2>3. j \in Journal /\ j.phase = "promoting" /\ j.runtime = held[c].runtime
    BY <2>2, JournalChanges DEF Journal
  <2> HIDE DEF j
  <2> QED BY <1>1, <2>1, <2>3, RecordingStops DEF ForkedAt, StoppedAt, Named
<1>5. CASE Confirm(c)
  <2> DEFINE j == [held[c] EXCEPT !.phase = "selected"]
  <2>1. CASE op' = op /\ Records(c, "confirm", "monitor", j)
    <3>1. pc[c] = "confirm" /\ UNCHANGED <<runtime, op>>
      BY <1>5, <2>1 DEF Confirm, Records, Goes, world
    <3>2. held[c] \in Journal
      BY <3>1 DEF TypeInv, InHand
    <3>3. j \in Journal /\ j.phase = "selected" /\ j.runtime = held[c].runtime
      BY <3>2, JournalChanges
    <3> HIDE DEF j
    <3> QED BY <1>1, <2>1, <3>1, <3>3, RecordingStops DEF ForkedAt, StoppedAt, Named
  <2>2. CASE Undoes(c, "confirm", "stop") /\ UNCHANGED journal
    <3>1. Quiet(c) /\ ForkedAt(c)' /\ StoppedAt(c)'
      BY <1>1, <1>5, <2>2
      DEF Confirm, Undoes, Goes, world, Quiet, ForkedAt, StoppedAt, Named, Live, TypeInv, TypeOK
    <3> QED BY <3>1, QuietKeeps
  <2> QED BY <1>5, <2>1, <2>2 DEF Confirm
<1>6. CASE Close(c)
  <2> DEFINE j == [held[c] EXCEPT !.phase = "rolled-back"]
  <2>1. held[c] \in Journal
    BY <1>6 DEF Close, Goes, TypeInv, InHand
  <2>2. j \in Journal /\ j.phase = "rolled-back" /\ j.runtime = held[c].runtime /\ held[c] # None
    BY <2>1, JournalChanges, CutoverAssumption
  <2>3. /\ pc[c] = "close" /\ journal' = j /\ UNCHANGED <<runtime, op>>
        /\ pc' = [pc EXCEPT ![c] = IF op[c] = "select" THEN "check" ELSE "release"]
        /\ held' = [held EXCEPT ![c] = None]
    BY <1>6 DEF Close, Goes, world, Afterwards
  <2> HIDE DEF j
  <2>4. j.runtime # None => ~Live(j.runtime) /\ runtime[j.runtime] # "none"
    BY <1>1, <2>2, <2>3 DEF ForkedAt, StoppedAt, Named
  <2>5. RolledBackIsStopped'
    BY <2>3, <2>4 DEF RolledBackIsStopped, Live
  <2>6. ASSUME NEW d \in Controller PROVE ForkedAt(d)' /\ StoppedAt(d)'
    BY <1>1, <2>3 DEF ForkedOnce, Stopped, ForkedAt, StoppedAt, Named, Live, TypeInv, TypeOK
  <2> QED BY <2>3, <2>4, <2>5, <2>6 DEF ForkedOnce, Stopped, Named
<1> QED BY <1>2, <1>3, <1>4, <1>5, <1>6

LEMMA RuntimeStep ==
  ASSUME StoppedInv, NEW c \in Controller, Start(c) \/ GuardianStops(c) \/ Serves(c) \/ Dies(c)
  PROVE  ForkedOnce' /\ Stopped' /\ RolledBackIsStopped'
<1> USE DEF StoppedInv, TypeInv, TypeOK
<1>1. CASE GuardianStops(c) \/ Serves(c) \/ Dies(c)
  <2>1. /\ runtime' \in [Controller -> {"none", "up", "serving", "gone"}]
        /\ UNCHANGED <<journal, pc, op, held>>
    BY <1>1 DEF GuardianStops, Serves, Dies, files, own
  <2>2. \A d \in Controller : /\ Live(d)' => Live(d)
                              /\ runtime'[d] = "none" <=> runtime[d] = "none"
    BY <1>1 DEF GuardianStops, Serves, Dies, Live
  <2>3. \A d \in Controller : pc[d] \in Carrying => held[d].runtime \in Controller \cup {None}
    BY DEF InHand, Journal
  <2>4. RolledBackIsStopped'
    BY <2>1, <2>2 DEF RolledBackIsStopped, Journal
  <2>5. ForkedOnce'
    BY <2>1, <2>2, <2>3 DEF ForkedOnce, ForkedAt, Named, Journal
  <2>6. Stopped'
    BY <2>1, <2>2, <2>3 DEF Stopped, StoppedAt, Named, Reverting, Carrying, Holding
  <2> QED BY <2>4, <2>5, <2>6
<1>2. CASE Start(c)
  <2>1. pc[c] = "start" /\ runtime[c] = "none" /\ op[c] = "select" /\ held[c].runtime = None
    BY <1>2 DEF Start, Goes, Undoes, ForkedOnce, ForkedAt, Stopped, StoppedAt, Unforked, Unrecorded
  <2>2. CASE PortIsFree
    <3>1. /\ runtime' = [runtime EXCEPT ![c] = "up"] /\ pc' = [pc EXCEPT ![c] = "forked"]
          /\ UNCHANGED <<journal, op, held>>
      BY <1>2, <2>2 DEF Start, Goes, own, files
    <3>2. RolledBackIsStopped'
      BY <2>1, <3>1 DEF RolledBackIsStopped, ForkedOnce, Named, Live
    <3>3. ASSUME NEW d \in Controller PROVE ForkedAt(d)' /\ StoppedAt(d)'
      BY <2>1, <3>1 DEF ForkedOnce, Stopped, ForkedAt, StoppedAt, Named, Live, Unforked, Acquiring,
                        Reverting, Forking, Carrying, Holding, Unrecorded, Recorded
    <3> QED BY <3>1, <3>2, <3>3 DEF ForkedOnce, Stopped, Named
  <2>3. CASE ~PortIsFree
    <3>1. Quiet(c) /\ ForkedAt(c)' /\ StoppedAt(c)'
      BY <1>2, <2>1, <2>3
      DEF Start, Undoes, Goes, files, Quiet, ForkedAt, StoppedAt, Named, Live, Unforked, Acquiring,
          Reverting, Forking, Carrying, Holding, Unrecorded, Recorded
    <3> QED BY <3>1, QuietKeeps
  <2> QED BY <2>2, <2>3
<1> QED BY <1>1, <1>2

LEMMA StoppedStep == StoppedInv /\ [Next]_vars => StoppedInv'
<1> SUFFICES ASSUME StoppedInv, [Next]_vars PROVE StoppedInv'
  OBVIOUS
<1>1. TypeInv'
  BY TypeStep DEF StoppedInv
<1>2. ASSUME NEW c \in Controller,
             \/ Launch(c) \/ Works(c) \/ Signal(c) \/ Retry(c) \/ Kill(c)
             \/ GuardianStops(c) \/ Serves(c) \/ Dies(c)
      PROVE ForkedOnce' /\ Stopped' /\ RolledBackIsStopped'
  BY <1>2, QuietStep, JournalStep, RuntimeStep DEF Works, Recovers, CutsOver
<1>3. ASSUME PreviousTurns \/ UNCHANGED vars
      PROVE  ForkedOnce' /\ Stopped' /\ RolledBackIsStopped'
  <2>1. UNCHANGED <<journal, runtime, pc, op, held>>
    BY <1>3 DEF PreviousTurns, vars, files, own
  <2>2. RolledBackIsStopped'
    BY <2>1 DEF StoppedInv, RolledBackIsStopped, Live
  <2>3. ForkedOnce' /\ Stopped'
    BY <2>1 DEF StoppedInv, ForkedOnce, ForkedAt, Stopped, StoppedAt, Named, Live
  <2> QED BY <2>2, <2>3
<1> QED BY <1>1, <1>2, <1>3 DEF StoppedInv, Next

(* Whatever is killed, and even when two controllers work at a time: a       *)
(* transaction whose journal says rolled-back and that had recorded its      *)
(* candidate has no candidate process left.                                 *)
THEOREM NoCandidateIsLeft == Spec => []RolledBackIsStopped
<1>1. Init => StoppedInv
  <2> SUFFICES ASSUME Init PROVE StoppedInv
    OBVIOUS
  <2>1. TypeInv
    BY TypeInitially
  <2>2. ForkedOnce /\ Stopped /\ RolledBackIsStopped
    BY TaskIsOne
    DEF Init, ForkedOnce, ForkedAt, Stopped, StoppedAt, RolledBackIsStopped, Named, Reverting,
        Forking, Carrying, Holding, Unrecorded, Recorded
  <2> QED BY <2>1, <2>2 DEF StoppedInv
<1>2. Spec => []StoppedInv
  BY <1>1, StoppedStep, PTL DEF Spec
<1>3. StoppedInv => RolledBackIsStopped
  BY DEF StoppedInv
<1> QED BY <1>2, <1>3, PTL
=============================================================================
