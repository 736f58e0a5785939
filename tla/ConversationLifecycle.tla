----------------------- MODULE ConversationLifecycle -----------------------
(***************************************************************************)
(* The end of a task's ChatGPT conversation and of its browser tab.  The   *)
(* watchdog starts the reaper (reapReadyEngineBrowserTargets), which first *)
(* looks after the conversation (reapEngineConversationLifecycle: record   *)
(* its id, recover an answer, delete it when the assistant said so, repair *)
(* its title) and then closes the tab; another lane ends the tasks whose   *)
(* conversation is gone (reconcileIrrecoverableDeletedAnswerCaptureTasks). *)
(* Both work on a task file read at the start of a pass while a cycle of   *)
(* the engine goes on with the same task.  One task; a record* operation   *)
(* is one step here (EngineTaskStore has its read and its save apart), and *)
(* a stage of the cycle is one too (EngineCycle has its insides).  The hold *)
(* that keeps both off a task is left out (ManagementLock has it).          *)
(***************************************************************************)
EXTENDS Naturals

CONSTANTS Target,     \* browser tabs the task can be bound to
          Policy,     \* policies a task can be created with
          Text,       \* how the assistant ends an answer
          MaxAnswers, \* bound: answers of the assistant
          None

ASSUME LifecycleAssumption ==
    /\ Policy \subseteq {"standard", "ephemeral", "one_shot"}
    /\ Text \subseteq {"ready", "open", "loose", "plain"}
    /\ MaxAnswers \in Nat \ {0}
    /\ None \notin Target

VARIABLES task,   \* the task file
          chat,   \* the conversation at ChatGPT
          tab,    \* what each browser tab shows
          run,    \* the cycle: off, on, or the outcome it is about to record
          lock,   \* browser-target-reaper.lock exists
          pc,     \* where the reaper's pass is
          snap,   \* what the pass knows of the task
          rec     \* the end the reconciler is about to record

vars == <<task, chat, tab, run, lock, pc, snap, rec>>

Signal == {"yes", "no", "none"}
Outcomes == {"completed", "waiting", "waiting_capture", "failed"}
Ended == {"completed", "failed"}
Answer == 1..MaxAnswers

\* ready_to_delete as the engine reads it: one of the last five lines is the
\* control object, character by character (parseReadyToDeleteSignal).
Tail == [ready |-> "yes", open |-> "no", loose |-> "none", plain |-> "none"]

\* ... and as the reaper reads it: the last line parses as such an object
\* (parseReadyToDeleteProtocolLine).  "loose" is one with a blank in it, or
\* one that follows its opposite.
Line == [ready |-> "yes", open |-> "no", loose |-> "yes", plain |-> "none"]

\* waiting_capture is waiting_runtime with execution_blocked_stage answer_capture,
\* waiting is that status at any other stage, or blocked; working is the rest.
Task == [status : Outcomes \cup {"working"},
         policy : Policy,
         chat : BOOLEAN,                   \* chat_id is recorded
         target : Target \cup {None},
         submitted : BOOLEAN,
         base : Answer \cup {0},           \* the last answer of the round before
         answer : Answer \cup {None},      \* assistant_hash, answer_captured_at
         via : {"cycle", "recovery"},      \* the prefix of that hash
         signal : Signal,                  \* ready_to_delete
         decision : {None, "continue", "stop"},
         late : BOOLEAN,                   \* the answer was captured after the decision
         done : BOOLEAN,                   \* execution_completed_at
         deleted : BOOLEAN,                \* conversation_deleted_at
         title : {None, "prefixed", "abandoned"},
         closed : BOOLEAN,                 \* browser_target_closed_at
         mismatch : BOOLEAN,               \* browser_target_close_status
         about : Target \cup {None}]       \* browser_target_closed_id

NoSnap == [target |-> None, chat |-> FALSE, found |-> FALSE, ready |-> FALSE,
           recover |-> FALSE, retitle |-> FALSE, known |-> None, ok |-> FALSE]

Pc == {"off", "materialize", "read", "delete", "recordDelete", "retitle", "tabs",
       "close", "recordClose"}

TypeOK ==
    /\ task \in Task
    /\ chat \in [state : {"none", "live", "deleted"}, n : Answer \cup {0},
                 text : Text \cup {None}, asked : BOOLEAN]
    /\ tab \in [Target -> {"gone", "chat", "elsewhere"}]
    /\ run \in Outcomes \cup {"off", "on", "close", "yielded"}
    /\ lock \in BOOLEAN
    /\ pc \in Pc
    /\ snap \in [target : Target \cup {None}, chat : BOOLEAN, found : BOOLEAN,
                 ready : BOOLEAN, recover : BOOLEAN, retitle : BOOLEAN,
                 known : Answer \cup {None}, ok : BOOLEAN]
    /\ rec \in {None, "completed", "failed"}

Init == /\ \E p \in Policy :
             task = [status |-> "working", policy |-> p, chat |-> FALSE,
                     target |-> None, submitted |-> FALSE,
                     base |-> 0, answer |-> None, via |-> "cycle", signal |-> "none",
                     decision |-> None, late |-> FALSE, done |-> FALSE, deleted |-> FALSE,
                     title |-> None, closed |-> FALSE, mismatch |-> FALSE, about |-> None]
        /\ chat = [state |-> "none", n |-> 0, text |-> None, asked |-> FALSE]
        /\ tab = [t \in Target |-> "gone"]
        /\ run = "off" /\ lock = FALSE /\ pc = "off" /\ snap = NoSnap /\ rec = None

-----------------------------------------------------------------------------
\* The record operations on the task file

\* recordEngineAnswerCapture: the answer as it is now, the target it was read with.
Captured(src, t) == [task EXCEPT !.answer = chat.n, !.via = src, !.chat = TRUE,
                                 !.signal = Tail[chat.text], !.status = "working",
                                 !.done = FALSE, !.late = TRUE,
                                 !.target = IF t = None THEN @ ELSE t]

\* recordEngineConversationDeletion
Deleted == IF task.signal = "yes"
           THEN [task EXCEPT !.deleted = TRUE, !.status = "completed", !.done = TRUE]
           ELSE [task EXCEPT !.deleted = TRUE]

\* Mutant: the status is the other word for it, done.
RecordedAsDone(outcome) ==
    [task EXCEPT !.status = IF outcome = "completed" THEN "done" ELSE outcome,
                 !.done = outcome = "completed"]

\* recordEngineExecutionOutcome
Recorded(outcome) == [task EXCEPT !.status = outcome, !.done = outcome = "completed"]

\* recordEngineBrowserTargetClosure of a tab t that is gone now, or is not.  It does
\* not ask whether t is the tab the task is bound to.
Closed(k, t) == [k EXCEPT !.closed = TRUE, !.mismatch = FALSE, !.about = t, !.target = None]
NotClosed(k, t, mismatch) == [k EXCEPT !.closed = FALSE, !.mismatch = mismatch, !.about = t]

\* isEngineEphemeralCleanupSafe
EphemeralSafe == /\ task.policy \in {"ephemeral", "one_shot"} /\ task.submitted /\ task.chat
                 /\ task.answer # None /\ task.decision # None /\ ~task.late
                 /\ task.status \in Outcomes

-----------------------------------------------------------------------------
\* The cycle, stage by stage

Reaping == <<lock, pc, snap, rec>>

\* detectEngineCycleStage; the composer stages count as prompt.
Stage == IF task.answer # None
         THEN IF task.title # "prefixed"
              THEN IF task.target = None THEN "chat_bind" ELSE "title_prefix"
              ELSE IF task.decision = None THEN "gateway_decision"
              ELSE IF task.target = None THEN "chat_bind" ELSE "reply"
         ELSE IF task.target = None THEN "chat_bind"
         ELSE IF task.submitted THEN "answer_capture" ELSE "prompt"

At(stage) == run = "on" /\ Stage = stage

\* A run of the cycle begins, whatever the status.
RunStart == /\ run = "off"
            /\ run' = "on"
            /\ UNCHANGED <<task, chat, tab, Reaping>>

\* bindEngineChatSession: a new tab, or one that shows the conversation.
ChatBind == /\ At("chat_bind") /\ chat.state # "deleted"
            /\ \E t \in Target :
                 /\ \/ tab[t] = "gone" /\ t # snap.target
                    \/ tab[t] = "chat" /\ task.chat
                 /\ tab' = [tab EXCEPT ![t] = IF task.chat THEN "chat" ELSE "elsewhere"]
                 /\ task' = [task EXCEPT !.target = t, !.status = "working",
                                         !.closed = FALSE, !.mismatch = FALSE,
                                         !.about = None]
            /\ UNCHANGED <<chat, run, Reaping>>

\* recordEnginePromptSubmit: the conversation exists, its id is not known yet.
PromptSubmit == /\ At("prompt") /\ chat.state = "none"
                /\ tab[task.target] = "elsewhere"
                /\ task' = [task EXCEPT !.submitted = TRUE, !.status = "working"]
                /\ chat' = [chat EXCEPT !.state = "live", !.asked = TRUE]
                /\ tab' = [tab EXCEPT ![task.target] = "chat"]
                /\ UNCHANGED <<run, Reaping>>

\* recordEngineChatMaterialization, before the answer is waited for.
Materialize == /\ At("answer_capture") /\ ~task.chat /\ tab[task.target] = "chat"
               /\ task' = [task EXCEPT !.chat = TRUE]
               /\ UNCHANGED <<chat, tab, run, Reaping>>

\* closeEngineBrowserTargetAtSafeCheckpoint: closeChatGptConversationTarget
\* closes the tab only if it shows the conversation, and looks whether it is
\* gone.  k is the task file after what was recorded before.
ClosesTab(k) ==
    \/ /\ tab[k.target] # "elsewhere"
       /\ tab' = [tab EXCEPT ![k.target] = "gone"]
       /\ task' = Closed(k, k.target)
    \/ /\ tab[k.target] # "gone" \* a mismatch, or a close that is not confirmed
       /\ task' = NotClosed(k, k.target, tab[k.target] = "elsewhere")
       /\ UNCHANGED tab

\* An answer newer than the baseline.  A one_shot task's tab is closed at once.
AnswerCapture ==
    /\ At("answer_capture") /\ chat.state = "live" /\ chat.n > task.base
    /\ task.chat \/ tab[task.target] = "chat"
    /\ IF task.policy = "one_shot" /\ ~task.closed
       THEN ClosesTab(Captured("cycle", None))
       ELSE task' = Captured("cycle", None) /\ UNCHANGED tab
    /\ UNCHANGED <<chat, run, Reaping>>

\* tryEarlyEngineTitlePrefix and the title_prefix stage, on the bound tab.
TitlePrefix == /\ run = "on" /\ Stage \in {"answer_capture", "title_prefix"}
               /\ task.chat /\ task.title # "prefixed"
               /\ chat.state = "live" /\ tab[task.target] = "chat"
               /\ task' = [task EXCEPT !.title = "prefixed"]
               /\ UNCHANGED <<chat, tab, run, Reaping>>

\* recordEngineGatewayDecision; a decision that does not continue ends the run,
\* completed if the repository bears it out, and so does the end of the budget.
GatewayDecision ==
    /\ At("gateway_decision")
    /\ \E d \in {"continue", "stop"} :
         /\ task' = [task EXCEPT !.decision = d, !.late = FALSE,
                                  !.status = "working"]
         /\ run' \in IF d = "stop" THEN {"completed", "waiting"}
                     ELSE {"on", "waiting"}
    /\ UNCHANGED <<chat, tab, Reaping>>

\* The reply and resetEngineCycleRoundState.
ReplyAndReset ==
    /\ At("reply") /\ chat.state = "live"
    /\ tab[task.target] = "chat"
    /\ chat' = [chat EXCEPT !.asked = TRUE]
    /\ task' = [task EXCEPT !.base = task.answer, !.answer = None, !.signal = "none",
                            !.decision = None, !.late = FALSE, !.done = FALSE,
                            !.status = "working"]
    /\ UNCHANGED <<tab, run, Reaping>>

\* A stage is not ready, blocked or fails.
Yield == /\ run = "on"
         /\ run' \in {"waiting", "failed"} \cup
                     (IF Stage = "answer_capture" THEN {"waiting_capture"} ELSE {})
         /\ UNCHANGED <<task, chat, tab, Reaping>>

Outcome == /\ run \in Outcomes
           /\ task' = Recorded(run)
           /\ run' = IF run = "completed" THEN "close" ELSE "yielded"
           /\ UNCHANGED <<chat, tab, Reaping>>

\* The tab is closed, if it may be.
SafeCheckpoint ==
    /\ run \in {"close", "yielded"}
    /\ run' = "off"
    /\ IF /\ EphemeralSafe \/ (run = "close" /\ task.signal = "yes")
          /\ ~task.closed /\ task.target # None /\ task.chat
       THEN ClosesTab(task)
       ELSE UNCHANGED <<task, tab>>
    /\ UNCHANGED <<chat, Reaping>>

RunDies == /\ run # "off"
           /\ run' = "off"
           /\ UNCHANGED <<task, chat, tab, Reaping>>

Cycle == \/ RunStart \/ ChatBind \/ PromptSubmit \/ Materialize \/ AnswerCapture
         \/ TitlePrefix \/ GatewayDecision \/ ReplyAndReset \/ Yield \/ Outcome
         \/ SafeCheckpoint \/ RunDies
-----------------------------------------------------------------------------
\* One pass of the reaper

Running == <<chat, tab, run, rec>>

\* reapEngineConversationLifecycle: the inventory of tabs, then the task file.
\* Mutant: only a task that has completed is ready.
ScannedIfCompleted ==
    [target |-> task.target, chat |-> task.chat,
     found |-> ~task.chat /\ task.target # None /\ tab[task.target] = "chat",
     ready |-> task.signal = "yes" /\ ~task.deleted /\ task.status = "completed",
     recover |-> /\ task.policy # "one_shot" /\ task.submitted /\ ~task.deleted
                 /\ task.signal # "yes" /\ task.chat,
     retitle |-> task.title = None, known |-> task.answer, ok |-> FALSE]

Scanned == [target |-> task.target, chat |-> task.chat,
            found |-> ~task.chat /\ task.target # None /\ tab[task.target] = "chat",
            ready |-> task.signal = "yes" /\ ~task.deleted,
            recover |-> /\ task.policy # "one_shot" /\ task.submitted /\ ~task.deleted
                        /\ task.signal # "yes" /\ task.chat,
            retitle |-> task.title = None,
            known |-> IF task.via = "recovery" THEN task.answer ELSE None,
            ok |-> FALSE]

Candidate(s) == \/ s.ready \/ s.recover
                \/ s.retitle /\ s.chat /\ ~task.deleted
                \/ ~s.chat /\ s.target # None /\ task.submitted

Goto(place) == pc' = place /\ snap' = NoSnap

\* open(lockPath, "wx"): a pass that finds the file is ALREADY_RUNNING.
TakeLock == pc = "off" /\ ~lock /\ lock' = TRUE

\* The task is one of the candidates, and of the ten that are selected ...
PassScans == /\ TakeLock
             /\ Candidate(Scanned)
             /\ \/ ~task.chat /\ pc' = "materialize" /\ snap' = Scanned
                \/ Scanned.ready /\ Goto("delete")
                \/ task.chat /\ ~Scanned.ready /\ pc' = "read" /\ snap' = Scanned
             /\ UNCHANGED <<task, Running>>

\* ... or it is not.
PassScansOthers == /\ TakeLock
                   /\ Goto("tabs")
                   /\ UNCHANGED <<task, Running>>

\* A repair of the title comes last, if the snapshot calls for one.
LeaveToTitle == Goto(IF snap.retitle THEN "retitle" ELSE "tabs")

\* The tab of the snapshot shows which conversation it is.
PassMaterializes ==
    /\ pc = "materialize"
    /\ IF snap.found
       THEN /\ task' = [task EXCEPT !.chat = TRUE, !.target = snap.target]
            /\ LeaveToTitle
       ELSE UNCHANGED task /\ Goto("tabs")
    /\ UNCHANGED <<lock, Running>>

\* assistantRevisionIsNew, on the snapshot: it knows a hash of its own only.
RevisionIsNew == snap.known # chat.n

\* readChatGptConversationLifecycle and what is recorded of it at once.
PassReads ==
    /\ pc = "read"
    /\ \/ /\ chat.state = "deleted"
          /\ task' = Deleted
          /\ Goto("tabs")
       \/ /\ snap.recover /\ chat.state = "live" /\ chat.n > 0
          /\ Line[chat.text] # "none" /\ RevisionIsNew
          /\ task' = Captured("recovery", snap.target)
          /\ IF Line[chat.text] = "yes"
             THEN Goto("delete")
             ELSE LeaveToTitle
       \/ /\ chat.state = "live" \* nothing new, or the read failed
          /\ LeaveToTitle
          /\ UNCHANGED task
       \/ /\ Goto("tabs")       \* rate limited
          /\ UNCHANGED task
    /\ UNCHANGED <<lock, Running>>

\* deleteChatGptConversationLifecycle
PassDeletes == /\ pc = "delete" /\ chat.state # "none"
               /\ chat' = [chat EXCEPT !.state = "deleted", !.asked = FALSE]
               /\ snap' = [NoSnap EXCEPT !.ok = TRUE]
               /\ pc' = "recordDelete"
               /\ UNCHANGED <<task, lock, tab, run, rec>>

\* No authenticated tab, or ChatGPT refuses.
DeleteFails == /\ pc = "delete"
               /\ Goto("recordDelete")
               /\ UNCHANGED <<task, lock, Running>>

\* Mutant: a refused deletion is recorded as one.
PassRecordsAnyDeletion == /\ pc = "recordDelete"
                          /\ task' = Deleted
                          /\ Goto("tabs")
                          /\ UNCHANGED <<lock, Running>>

PassRecordsDeletion == /\ pc = "recordDelete"
                       /\ task' = IF snap.ok THEN Deleted ELSE task
                       /\ Goto("tabs")
                       /\ UNCHANGED <<lock, Running>>

\* The rename and recordEngineChatTitlePrefix: done, pending, or given up
\* half an hour after the submit.
PassRetitles == /\ pc = "retitle"
                /\ \E title \in {"prefixed", None, "abandoned"} :
                     /\ title = "prefixed" => chat.state = "live"
                     /\ task' = [task EXCEPT !.title = title]
                /\ Goto("tabs")
                /\ UNCHANGED <<lock, Running>>

\* The second reading of the task file, for its tab.
Unneeded == \/ task.status = "completed" /\ task.signal = "yes" /\ task.title # None
            \/ task.policy = "one_shot" /\ task.answer # None /\ task.title # None
            \/ EphemeralSafe
CloseReady == /\ Unneeded /\ ~task.closed /\ ~task.mismatch
              /\ task.target # None /\ task.chat

\* unlink(lockPath), when all is done.
Release == Goto("off") /\ lock' = FALSE

ScanTab == /\ pc = "tabs"
           /\ IF CloseReady THEN /\ snap' = [NoSnap EXCEPT !.target = task.target]
                                 /\ pc' = "close"
                                 /\ UNCHANGED lock
                            ELSE Release
           /\ UNCHANGED <<task, Running>>

\* closeChatGptConversationTarget closes the tab it finds only if it shows the
\* conversation, and looks whether it is gone.
PassCloses == /\ pc = "close" /\ tab[snap.target] # "elsewhere"
              /\ tab' = [tab EXCEPT ![snap.target] = "gone"]
              /\ snap' = [snap EXCEPT !.ok = TRUE]
              /\ pc' = "recordClose"
              /\ UNCHANGED <<task, lock, chat, run, rec>>

\* A mismatch, or a close that is not confirmed.
CloseFails == /\ pc = "close" /\ tab[snap.target] # "gone"
              /\ snap' = [snap EXCEPT !.found = tab[snap.target] = "elsewhere"]
              /\ pc' = "recordClose"
              /\ UNCHANGED <<task, lock, Running>>

\* Mutant: a close that is not confirmed is recorded as one.
PassRecordsAnyClosure == /\ pc = "recordClose"
                         /\ task' = Closed(task, snap.target)
                         /\ Release
                         /\ UNCHANGED Running

PassRecordsClosure == /\ pc = "recordClose"
                      /\ task' = IF snap.ok THEN Closed(task, snap.target)
                                 ELSE NotClosed(task, snap.target, snap.found)
                      /\ Release
                      /\ UNCHANGED Running

\* The reaper is killed; nobody reads the pid in its lock.
PassDies == /\ pc # "off"
            /\ Goto("off")
            /\ UNCHANGED <<task, lock, Running>>

PassStep == \/ PassScans \/ PassScansOthers \/ PassMaterializes \/ PassReads
            \/ PassDeletes \/ DeleteFails \/ PassRecordsDeletion \/ PassRetitles
            \/ ScanTab \/ PassCloses \/ CloseFails \/ PassRecordsClosure

-----------------------------------------------------------------------------
\* The reconciler

\* Mutant: the class of the completed clean-up is missing.
VerdictOnFailures == IF task.status \in Ended \/ ~task.deleted THEN None
                     ELSE IF \/ task.status = "waiting_capture" /\ task.answer = None
                             \/ /\ task.answer # None /\ task.signal # "yes"
                                /\ task.decision = "continue" /\ ~task.done
                     THEN "failed" ELSE None

\* classifyIrrecoverableDeletedAnswerCaptureTask
Verdict == IF task.status \in Ended \/ ~task.deleted THEN None
           ELSE IF task.signal = "yes" /\ ~task.done THEN "completed"
           ELSE IF task.status = "waiting_capture" /\ task.answer = None THEN "failed"
           ELSE IF task.answer # None /\ task.decision = "continue" /\ ~task.done
           THEN "failed" ELSE None

Reconcile == /\ rec = None /\ Verdict # None
             /\ rec' = Verdict
             /\ UNCHANGED <<task, chat, tab, run, lock, pc, snap>>

RecordEnd == /\ rec # None
             /\ task' = Recorded(rec)
             /\ rec' = None
             /\ UNCHANGED <<chat, tab, run, lock, pc, snap>>

-----------------------------------------------------------------------------
\* The world around them

AssistantAnswers == /\ chat.state = "live" /\ chat.asked /\ chat.n < MaxAnswers
                    /\ \E x \in Text :
                         chat' = [chat EXCEPT !.n = @ + 1, !.text = x, !.asked = FALSE]
                    /\ UNCHANGED <<task, tab, run, Reaping>>

\* Somebody deletes the conversation at ChatGPT, closes a tab or takes it elsewhere.
UserDeletes == /\ chat.state = "live"
               /\ chat' = [chat EXCEPT !.state = "deleted", !.asked = FALSE]
               /\ UNCHANGED <<task, tab, run, Reaping>>

UserTakesTab == /\ \E t \in Target, v \in {"gone", "elsewhere"} :
                     tab[t] # "gone" /\ tab' = [tab EXCEPT ![t] = v]
                /\ UNCHANGED <<task, chat, run, Reaping>>

World == AssistantAnswers \/ UserDeletes \/ UserTakesTab

Next == Cycle \/ PassStep \/ PassDies \/ Reconcile \/ RecordEnd \/ World

Spec == Init /\ [][Next]_vars

\* The watchdog starts the reaper and the reconciler again and again, and a
\* pass goes on; a deletion and a close that are tried again and again succeed.
Fairness ==
    /\ WF_vars(PassStep)
    /\ SF_vars(PassDeletes) /\ SF_vars(PassCloses)
    /\ WF_vars(Reconcile) /\ WF_vars(RecordEnd)

FairSpec == Spec /\ Fairness

-----------------------------------------------------------------------------

\* A conversation the task file calls deleted is deleted.
DeletionIsReal == task.deleted => chat.state = "deleted"

\* A pass deletes a conversation only while the task file says so.
DeletesOnlyWhenReady == [][PassDeletes /\ chat.state = "live" => task.signal = "yes"]_vars

\* No pass was killed in its course: its lock would stay for ever.
NoLockLeft == []<>~lock

\* The task of a conversation that was deleted as asked comes to an end, if no
\* end of it is recorded yet: the reconciler ends it whatever the cycle does.
ReadyDeletionEnds == task.deleted /\ task.signal = "yes" /\ ~task.done
                       ~> task.status \in Ended \/ task.signal # "yes"

\* Passes take the task up as long as it is a candidate.  The code does not see to
\* that: of the tasks that are ready to delete a pass takes the ten changed last, and
\* a deletion that fails changes its task.
TakenUp == []<>~Candidate(Scanned) \/ []<><<PassScans>>_vars

\* A conversation the assistant called ready to delete is deleted, unless the task
\* goes on, by the passes that take it up: neither a failed deletion nor what the
\* cycle and the reconciler record meanwhile makes the task one they no longer try.
ReadyIsDeleted ==
    TakenUp => (task.signal = "yes" ~> task.deleted \/ task.signal # "yes")

\* A tab that is bound when the task has no more use for it comes to show the
\* conversation no longer, unless the task goes on, or a pass or a checkpoint records
\* on the task what became of another tab, which makes everybody leave this one alone.
TabsAreReleased ==
    NoLockLeft =>
        \A t \in Target :
            CloseReady /\ task.target = t
              ~> \/ tab[t] # "chat" \/ ~Unneeded
                 \/ (task.closed \/ task.mismatch) /\ task.about # t
=============================================================================
