--------------------- MODULE ConversationLifecycleProofs ---------------------
(***************************************************************************)
(* For any tabs, policies, kinds of answer and number of answers: the task *)
(* file, the conversation and what the lanes know of them keep their types, *)
(* and a conversation the task file calls deleted is deleted, whichever of  *)
(* the reaper, the cycle and a user came first.                             *)
(***************************************************************************)
EXTENDS ConversationLifecycle, TLAPS

\* An answer has a text.
Spoken == chat.n > 0 => chat.text \in Text

TypeInv == TypeOK /\ Spoken

\* A pass that is about to record a deletion has carried it out.
CarriedOut == pc = "recordDelete" /\ snap.ok => chat.state = "deleted"

DeletionInv == CarriedOut /\ DeletionIsReal

Chat == [state : {"none", "live", "deleted"}, n : Answer \cup {0},
         text : Text \cup {None}, asked : BOOLEAN]
Snap == [target : Target \cup {None}, chat : BOOLEAN, found : BOOLEAN,
         ready : BOOLEAN, recover : BOOLEAN, retitle : BOOLEAN,
         known : Answer \cup {None}, ok : BOOLEAN]

\* Task files that call the conversation deleted, or that do not.
Saying(deleted) == {k \in Task : k.deleted = deleted}
-----------------------------------------------------------------------------
\* What a record operation leaves is a task file; only that of the deletion says
\* anything new about it.

LEMMA ReadKeepsDeleted ==
  ASSUME NEW k \in Task, NEW n \in Answer, NEW via \in {"cycle", "recovery"},
         NEW signal \in Signal
  PROVE  [k EXCEPT !.answer = n, !.via = via, !.chat = TRUE, !.signal = signal]
           \in Saying(k.deleted)
BY DEF Saying, Task

LEMMA ReopenedKeepsDeleted ==
  ASSUME NEW k \in Task, NEW t \in Target \cup {None}
  PROVE  [k EXCEPT !.status = "working", !.done = FALSE, !.late = TRUE, !.target = t]
           \in Saying(k.deleted)
BY DEF Saying, Task

LEMMA AnsweredKeepsDeleted ==
  ASSUME NEW k \in Task, NEW n \in Answer, NEW via \in {"cycle", "recovery"},
         NEW signal \in Signal, NEW t \in Target \cup {None}
  PROVE  [k EXCEPT !.answer = n, !.via = via, !.chat = TRUE, !.signal = signal,
                   !.status = "working", !.done = FALSE, !.late = TRUE,
                   !.target = t] \in Saying(k.deleted)
<1> DEFINE read == [k EXCEPT !.answer = n, !.via = via, !.chat = TRUE, !.signal = signal]
<1>1. read \in Task /\ read.deleted = k.deleted
  <2>1. read \in Saying(k.deleted)
    BY ReadKeepsDeleted, Zenon
  <2> QED BY <2>1 DEF Saying
<1>2. [read EXCEPT !.status = "working", !.done = FALSE, !.late = TRUE, !.target = t]
        \in Saying(k.deleted)
  <2> HIDE DEF read
  <2> QED BY <1>1, ReopenedKeepsDeleted
<1> QED BY <1>2

LEMMA CapturedKeepsDeleted ==
  ASSUME TypeInv, chat.n \in Answer,
         NEW via \in {"cycle", "recovery"}, NEW t \in Target \cup {None}
  PROVE  Captured(via, t) \in Saying(task.deleted)
<1>1. chat.n > 0
  BY LifecycleAssumption DEF Answer
<1>2. chat.text \in {"ready", "open", "loose", "plain"}
  BY <1>1, LifecycleAssumption DEF TypeInv, Spoken
<1>3. Tail[chat.text] \in Signal
  BY <1>2 DEF Tail, Signal
<1>4. (IF t = None THEN task.target ELSE t) \in Target \cup {None}
  BY DEF TypeInv, TypeOK, Task
<1>5. task \in Task
  BY DEF TypeInv, TypeOK
<1> QED BY <1>3, <1>4, <1>5, AnsweredKeepsDeleted, Zenon DEF Captured

LEMMA DeletedIsTask == ASSUME TypeOK PROVE Deleted \in Task
BY DEF TypeOK, Deleted, Task, Outcomes

LEMMA RecordedKeepsDeleted ==
  ASSUME TypeOK, NEW outcome \in Outcomes
  PROVE  Recorded(outcome) \in Saying(task.deleted)
<1>1. (outcome = "completed") \in BOOLEAN
  OBVIOUS
<1>2. PICK done \in BOOLEAN : done = (outcome = "completed")
  BY <1>1
<1>3. Recorded(outcome) = [task EXCEPT !.status = outcome, !.done = done]
  BY <1>2, Zenon DEF Recorded
<1> QED BY <1>3 DEF TypeOK, Task, Saying

LEMMA ClosedKeepsDeleted ==
  ASSUME NEW k \in Task, NEW t \in Target \cup {None}, NEW mismatch \in BOOLEAN
  PROVE  /\ Closed(k, t) \in Saying(k.deleted)
         /\ NotClosed(k, t, mismatch) \in Saying(k.deleted)
<1>1. Closed(k, t) \in Task /\ Closed(k, t).deleted = k.deleted
  BY DEF Closed, Task
<1>2. NotClosed(k, t, mismatch) \in Task
  <2>1. CASE mismatch BY <2>1 DEF NotClosed, Task
  <2>2. CASE ~mismatch BY <2>2 DEF NotClosed, Task
  <2> QED BY <2>1, <2>2
<1>3. NotClosed(k, t, mismatch).deleted = k.deleted
  BY DEF NotClosed, Task
<1> QED BY <1>1, <1>2, <1>3 DEF Saying

LEMMA BoundKeepsDeleted ==
  ASSUME NEW k \in Task, NEW t \in Target
  PROVE  [k EXCEPT !.target = t, !.status = "working", !.closed = FALSE,
                   !.mismatch = FALSE, !.about = None] \in Saying(k.deleted)
BY DEF Saying, Task

LEMMA SubmittedKeepsDeleted ==
  ASSUME NEW k \in Task
  PROVE  [k EXCEPT !.submitted = TRUE, !.status = "working"] \in Saying(k.deleted)
BY DEF Saying, Task

LEMMA MaterializedKeepsDeleted ==
  ASSUME NEW k \in Task, NEW t \in Target \cup {None}
  PROVE  [k EXCEPT !.chat = TRUE, !.target = t] \in Saying(k.deleted)
BY DEF Saying, Task

LEMMA TitledKeepsDeleted ==
  ASSUME NEW k \in Task, NEW title \in {None, "prefixed", "abandoned"}
  PROVE  [k EXCEPT !.title = title] \in Saying(k.deleted)
BY DEF Saying, Task

LEMMA DecidedKeepsDeleted ==
  ASSUME NEW k \in Task, NEW d \in {"continue", "stop"}
  PROVE  [k EXCEPT !.decision = d, !.late = FALSE, !.status = "working"] \in Saying(k.deleted)
BY DEF Saying, Task

LEMMA ResetKeepsDeleted ==
  ASSUME NEW k \in Task, k.answer # None
  PROVE  [k EXCEPT !.base = k.answer, !.answer = None, !.signal = "none",
                   !.decision = None, !.late = FALSE, !.done = FALSE,
                   !.status = "working"] \in Saying(k.deleted)
<1>1. k.answer \in Answer
  BY DEF Task
<1>2. "none" \in Signal
  BY DEF Signal
<1> QED BY <1>1, <1>2 DEF Saying, Task

\* Either way a checkpoint may end.
LEMMA ClosingKeepsDeleted ==
  ASSUME TypeOK, NEW k \in Task, ClosesTab(k)
  PROVE  /\ task' \in Saying(k.deleted)
         /\ tab' \in [Target -> {"gone", "chat", "elsewhere"}]
<1>1. k.target \in Target \cup {None}
  BY DEF Task
<1>2. \A m \in BOOLEAN : /\ Closed(k, k.target) \in Saying(k.deleted)
                        /\ NotClosed(k, k.target, m) \in Saying(k.deleted)
  BY <1>1, ClosedKeepsDeleted
<1> QED BY <1>2 DEF ClosesTab, TypeOK

LEMMA ChatChanges ==
  ASSUME NEW c \in Chat, NEW state \in {"live", "deleted"}, NEW asked \in BOOLEAN
  PROVE  /\ [c EXCEPT !.state = state, !.asked = asked] \in Chat
         /\ [c EXCEPT !.state = state, !.asked = asked].n = c.n
         /\ [c EXCEPT !.state = state, !.asked = asked].text = c.text
         /\ [c EXCEPT !.asked = asked] \in Chat
         /\ [c EXCEPT !.asked = asked].n = c.n
         /\ [c EXCEPT !.asked = asked].text = c.text
BY DEF Chat

LEMMA ChatGrows ==
  ASSUME NEW c \in Chat, NEW n \in Answer, NEW x \in Text
  PROVE  /\ [c EXCEPT !.n = n, !.text = x, !.asked = FALSE] \in Chat
         /\ [c EXCEPT !.n = n, !.text = x, !.asked = FALSE].text = x
BY DEF Chat

LEMMA SnapChanges ==
  ASSUME NEW s \in Snap, NEW b \in BOOLEAN, NEW t \in Target \cup {None}
  PROVE  /\ [s EXCEPT !.ok = b] \in Snap
         /\ [s EXCEPT !.found = b] \in Snap
         /\ [s EXCEPT !.target = t] \in Snap
BY DEF Snap

LEMMA NoSnapIsSnap == NoSnap \in Snap /\ ~NoSnap.ok
BY DEF NoSnap, Snap

LEMMA ScannedIsSnap == ASSUME TypeOK PROVE Scanned \in Snap
<1>1. task.answer \in Answer \cup {None}
  BY DEF TypeOK, Task
<1>2. (IF task.via = "recovery" THEN task.answer ELSE None) \in Answer \cup {None}
  BY <1>1
<1>3. task.target \in Target \cup {None} /\ task.chat \in BOOLEAN
  BY DEF TypeOK, Task
<1> QED BY <1>2, <1>3, Zenon DEF Scanned, Snap
-----------------------------------------------------------------------------
\* The cycle changes the task, the conversation and the tabs; it neither says nor
\* undoes that a conversation is deleted.
LEMMA CycleTypes ==
  ASSUME TypeInv, Cycle
  PROVE  /\ task' \in Saying(task.deleted) /\ chat' \in Chat /\ Spoken'
         /\ chat.state = "deleted" => chat' = chat
         /\ tab' \in [Target -> {"gone", "chat", "elsewhere"}]
         /\ run' \in Outcomes \cup {"off", "on", "close", "yielded"}
<1> USE DEF TypeInv, TypeOK, Chat, Spoken, Reaping, Saying
<1>1. CASE RunStart BY <1>1 DEF RunStart
<1>2. CASE ChatBind
  <2>1. PICK t \in Target :
           task' = [task EXCEPT !.target = t, !.status = "working", !.closed = FALSE,
                                !.mismatch = FALSE, !.about = None]
    BY <1>2, Zenon DEF ChatBind
  <2>2. task' \in Saying(task.deleted)
    BY <2>1, BoundKeepsDeleted, Zenon
  <2> QED BY <1>2, <2>2 DEF ChatBind
<1>3. CASE PromptSubmit
  <2>1. task' \in Saying(task.deleted)
    BY <1>3, SubmittedKeepsDeleted, Zenon DEF PromptSubmit
  <2>2. chat' \in Chat /\ chat'.n = chat.n /\ chat'.text = chat.text
    BY <1>3, ChatChanges, Zenon DEF PromptSubmit
  <2> QED BY <1>3, <2>1, <2>2 DEF PromptSubmit
<1>4. CASE Materialize BY <1>4 DEF Materialize, Task
<1>5. CASE AnswerCapture
  <2>1. chat.n \in Answer
    BY <1>5, LifecycleAssumption DEF AnswerCapture, Task, Answer
  <2>2. Captured("cycle", None) \in Saying(task.deleted)
    BY <2>1, CapturedKeepsDeleted
  <2>3. task' \in Saying(task.deleted) /\ tab' \in [Target -> {"gone", "chat", "elsewhere"}]
    BY <1>5, <2>2, ClosingKeepsDeleted DEF AnswerCapture
  <2> QED BY <1>5, <2>3 DEF AnswerCapture
<1>6. CASE TitlePrefix
  <2>1. task' \in Saying(task.deleted)
    BY <1>6, TitledKeepsDeleted, Zenon DEF TitlePrefix
  <2> QED BY <1>6, <2>1 DEF TitlePrefix
<1>7. CASE GatewayDecision
  <2>1. PICK d \in {"continue", "stop"} :
           /\ task' = [task EXCEPT !.decision = d, !.late = FALSE, !.status = "working"]
           /\ run' \in IF d = "stop" THEN {"completed", "waiting"} ELSE {"on", "waiting"}
    BY <1>7, Zenon DEF GatewayDecision
  <2>2. task' \in Saying(task.deleted)
    BY <2>1, DecidedKeepsDeleted, Zenon
  <2>3. run' \in {"completed", "waiting", "on"}
    BY <2>1
  <2> QED BY <1>7, <2>2, <2>3 DEF GatewayDecision, Outcomes
<1>8. CASE ReplyAndReset
  <2>1. task.answer # None
    BY <1>8 DEF ReplyAndReset, At, Stage
  <2>2. task' \in Saying(task.deleted)
    BY <1>8, <2>1, ResetKeepsDeleted, Zenon DEF ReplyAndReset
  <2>3. chat' \in Chat /\ chat'.n = chat.n /\ chat'.text = chat.text
    BY <1>8, ChatChanges, Zenon DEF ReplyAndReset
  <2> QED BY <1>8, <2>2, <2>3 DEF ReplyAndReset
<1>9. CASE Yield BY <1>9 DEF Yield, Outcomes
<1>10. CASE Outcome BY <1>10, RecordedKeepsDeleted DEF Outcome
<1>11. CASE SafeCheckpoint BY <1>11, ClosingKeepsDeleted DEF SafeCheckpoint
<1>12. CASE RunDies BY <1>12 DEF RunDies
<1> QED BY <1>1, <1>2, <1>3, <1>4, <1>5, <1>6, <1>7, <1>8, <1>9, <1>10, <1>11,
           <1>12 DEF Cycle

\* What a pass leaves of a task file.
LEMMA PassSays ==
  ASSUME TypeInv, PassStep \/ PassDies
  PROVE  \/ task' \in Saying(task.deleted)
         \/ task' = Deleted /\ (chat.state = "deleted" \/ PassRecordsDeletion)
<1> USE DEF TypeInv, TypeOK, Running
<1>0. task \in Saying(task.deleted)
  BY DEF Saying
<1>1. CASE PassMaterializes
  <2>1. snap.target \in Target \cup {None}
    OBVIOUS
  <2>2. [task EXCEPT !.chat = TRUE, !.target = snap.target] \in Saying(task.deleted)
    BY <2>1, MaterializedKeepsDeleted, Zenon
  <2> QED BY <1>0, <1>1, <2>2, Zenon DEF PassMaterializes
<1>2. CASE PassReads
  <2>1. chat.n > 0 => chat.n \in Answer
    BY LifecycleAssumption DEF Answer
  <2>2. chat.n > 0 => Captured("recovery", snap.target) \in Saying(task.deleted)
    BY <2>1, CapturedKeepsDeleted
  <2> QED BY <1>0, <1>2, <2>2 DEF PassReads
<1>3. CASE PassRecordsDeletion BY <1>0, <1>3 DEF PassRecordsDeletion
<1>4. CASE PassRetitles
  <2>1. PICK title \in {"prefixed", None, "abandoned"} :
           task' = [task EXCEPT !.title = title]
    BY <1>4, Zenon DEF PassRetitles
  <2> QED BY <2>1, TitledKeepsDeleted, Zenon
<1>5. CASE PassRecordsClosure
  <2>1. snap.found \in BOOLEAN /\ snap.target \in Target \cup {None}
    OBVIOUS
  <2> QED BY <1>5, <2>1, ClosedKeepsDeleted, Zenon DEF PassRecordsClosure
<1>6. CASE UNCHANGED task BY <1>0, <1>6
<1> QED BY <1>1, <1>2, <1>3, <1>4, <1>5, <1>6
        DEF PassStep, PassScans, PassScansOthers, PassDeletes, DeleteFails, ScanTab,
            PassCloses, CloseFails, PassDies

\* A pass changes the task, what it knows, the lock, the conversation and the tab.
LEMMA PassTypes ==
  ASSUME TypeInv, PassStep \/ PassDies
  PROVE  TypeInv'
<1> USE NoSnapIsSnap DEF TypeInv, TypeOK, Spoken, Running, Goto, Pc
<1>0. task' \in Task
  BY PassSays, DeletedIsTask DEF Saying
<1>1. CASE PassScans BY <1>1, ScannedIsSnap DEF PassScans, TakeLock, Snap
<1>2. CASE PassScansOthers BY <1>2 DEF PassScansOthers, TakeLock, Snap
<1>3. CASE PassMaterializes BY <1>0, <1>3 DEF PassMaterializes, LeaveToTitle, Snap
<1>4. CASE PassReads BY <1>0, <1>4 DEF PassReads, LeaveToTitle, Snap
<1>5. CASE PassDeletes BY <1>5 DEF PassDeletes, NoSnap
<1>6. CASE DeleteFails BY <1>6 DEF DeleteFails, Snap
<1>7. CASE PassRecordsDeletion BY <1>0, <1>7 DEF PassRecordsDeletion, Snap
<1>8. CASE PassRetitles BY <1>0, <1>8 DEF PassRetitles, Snap
<1>9. CASE ScanTab
  <2>1. task.target \in Target \cup {None}
    BY DEF Task
  <2>2. [NoSnap EXCEPT !.target = task.target] \in Snap
    BY <2>1, SnapChanges
  <2>3. snap' \in Snap /\ pc' \in Pc /\ lock' \in BOOLEAN /\ UNCHANGED <<task, Running>>
    BY <1>9, <2>2, Zenon DEF ScanTab, Release
  <2> QED BY <2>3 DEF Snap
<1>10. CASE PassCloses BY <1>10 DEF PassCloses
<1>11. CASE CloseFails
  <2>1. snap \in Snap /\ (tab[snap.target] = "elsewhere") \in BOOLEAN
    BY DEF Snap
  <2>2. snap' \in Snap
    BY <1>11, <2>1, SnapChanges, Zenon DEF CloseFails
  <2> QED BY <1>11, <2>2 DEF CloseFails, Snap
<1>12. CASE PassRecordsClosure
  <2>1. snap' \in Snap /\ pc' = "off" /\ lock' = FALSE /\ UNCHANGED Running
    BY <1>12, Zenon DEF PassRecordsClosure, Release
  <2>2. UNCHANGED <<chat, tab, run, rec>>
    BY <2>1
  <2> QED BY <1>0, <2>1, <2>2, Zenon DEF Snap
<1>13. CASE PassDies BY <1>13 DEF PassDies, Snap
<1> QED BY <1>1, <1>2, <1>3, <1>4, <1>5, <1>6, <1>7, <1>8, <1>9, <1>10, <1>11,
           <1>12, <1>13 DEF PassStep

LEMMA OthersTypes ==
  ASSUME TypeInv, Reconcile \/ RecordEnd \/ World
  PROVE  TypeInv'
<1> USE DEF TypeInv, TypeOK, Spoken, Reaping
<1>1. CASE Reconcile BY <1>1 DEF Reconcile, Verdict
<1>2. CASE RecordEnd
  <2>1. Recorded(rec) \in Task
    BY <1>2, RecordedKeepsDeleted DEF RecordEnd, Outcomes, Saying
  <2> QED BY <1>2, <2>1 DEF RecordEnd
<1>3. CASE AssistantAnswers
  <2>1. chat.n + 1 \in Answer
    BY <1>3, LifecycleAssumption DEF AssistantAnswers, Answer
  <2>2. chat \in Chat
    BY DEF Chat
  <2>3. PICK x \in Text : chat' = [chat EXCEPT !.n = @ + 1, !.text = x, !.asked = FALSE]
    BY <1>3, Zenon DEF AssistantAnswers
  <2>4. chat' \in Chat /\ chat'.text \in Text
    BY <2>1, <2>2, <2>3, ChatGrows, Zenon
  <2> QED BY <1>3, <2>4 DEF AssistantAnswers, Chat
<1>4. CASE UserDeletes
  <2>1. chat \in Chat
    BY DEF Chat
  <2>2. chat' \in Chat /\ chat'.n = chat.n /\ chat'.text = chat.text
    BY <1>4, <2>1, ChatChanges, Zenon DEF UserDeletes
  <2> QED BY <1>4, <2>2 DEF UserDeletes, Chat
<1>5. CASE UserTakesTab BY <1>5 DEF UserTakesTab
<1> QED BY <1>1, <1>2, <1>3, <1>4, <1>5 DEF World

LEMMA CycleLeavesReaping == ASSUME Cycle PROVE UNCHANGED Reaping
BY DEF Cycle, RunStart, ChatBind, PromptSubmit, Materialize, AnswerCapture,
   TitlePrefix, GatewayDecision, ReplyAndReset, Yield, Outcome, SafeCheckpoint, RunDies

LEMMA TypesAreKept == Spec => []TypeInv
<1>1. Init => TypeInv
  <2> SUFFICES ASSUME Init PROVE TypeInv
    OBVIOUS
  <2>1. task \in Task
    BY DEF Init, Task, Signal
  <2>2. snap = NoSnap /\ snap \in Snap
    BY NoSnapIsSnap DEF Init
  <2>3. chat \in Chat /\ chat.n = 0
    BY DEF Init, Chat
  <2>4. tab \in [Target -> {"gone", "chat", "elsewhere"}]
    BY DEF Init
  <2>5. run = "off" /\ lock = FALSE /\ pc = "off" /\ rec = None
    BY DEF Init
  <2>6. TypeOK
    BY <2>1, <2>2, <2>3, <2>4, <2>5 DEF TypeOK, Chat, Snap, Pc
  <2> QED BY <2>3, <2>6 DEF TypeInv, Spoken
<1>2. TypeInv /\ [Next]_vars => TypeInv'
  <2> SUFFICES ASSUME TypeInv, [Next]_vars PROVE TypeInv'
    OBVIOUS
  <2>1. CASE Cycle
    <3>1. UNCHANGED Reaping
      BY <2>1, CycleLeavesReaping
    <3> QED BY <2>1, <3>1, CycleTypes DEF TypeInv, TypeOK, Reaping, Chat, Saying
  <2>2. CASE PassStep \/ PassDies BY <2>2, PassTypes
  <2>3. CASE Reconcile \/ RecordEnd \/ World BY <2>3, OthersTypes
  <2>4. CASE UNCHANGED vars BY <2>4 DEF vars, TypeInv, TypeOK, Spoken
  <2> QED BY <2>1, <2>2, <2>3, <2>4 DEF Next
<1> QED BY <1>1, <1>2, PTL DEF Spec

\* The types of the task file, of the conversation, of the tabs and of what the
\* lanes know of them, for any tabs, policies and answers.
THEOREM TypeCorrect == Spec => []TypeOK
<1>1. TypeInv => TypeOK
  BY DEF TypeInv
<1> QED BY <1>1, TypesAreKept, PTL
----------------------------------------------------------------------------------------------------------------------------------------------------------
\* A pass says that a conversation is deleted when it is.
LEMMA PassKeepsDeletion ==
  ASSUME TypeInv, DeletionInv, PassStep \/ PassDies
  PROVE  DeletionInv'
<1> USE DEF DeletionInv, CarriedOut, DeletionIsReal, Running, Goto
<1>1. task'.deleted = task.deleted \/ chat.state = "deleted" \/ PassRecordsDeletion
  BY PassSays DEF Saying
<1>2. CASE PassDeletes
  <2>1. chat'.state = "deleted"
    BY <1>2 DEF PassDeletes, TypeInv, TypeOK
  <2> QED BY <2>1
<1>3. CASE PassReads
  <2>1. pc = "read" /\ pc' # "recordDelete" /\ UNCHANGED chat
    BY <1>3 DEF PassReads, LeaveToTitle
  <2>2. ~PassRecordsDeletion
    BY <2>1 DEF PassRecordsDeletion
  <2> QED BY <1>1, <2>1, <2>2
<1>4. CASE PassRecordsDeletion BY <1>4 DEF PassRecordsDeletion
<1>5. CASE DeleteFails BY <1>1, <1>5 DEF DeleteFails, NoSnap
<1>6. CASE ~(PassDeletes \/ PassReads \/ PassRecordsDeletion \/ DeleteFails)
  <2>1. pc' # "recordDelete" /\ UNCHANGED chat
    BY <1>6 DEF PassStep, PassScans, PassScansOthers, PassMaterializes, LeaveToTitle,
       PassRetitles, ScanTab, Release, PassCloses, CloseFails, PassRecordsClosure,
       PassDies, TakeLock
  <2> QED BY <1>1, <1>6, <2>1
<1> QED BY <1>2, <1>3, <1>4, <1>5, <1>6

\* For any tabs, policies and answers: a conversation the task file calls
\* deleted is deleted, whatever the cycle, the passes and a user do meanwhile.
THEOREM DeletedIsGone == Spec => []DeletionIsReal
<1>1. Init => DeletionInv
  BY DEF Init, DeletionInv, CarriedOut, DeletionIsReal
<1>2. TypeInv /\ DeletionInv /\ [Next]_vars => DeletionInv'
  <2> SUFFICES ASSUME TypeInv, DeletionInv, [Next]_vars PROVE DeletionInv'
    OBVIOUS
  <2> USE DEF DeletionInv, CarriedOut, DeletionIsReal
  <2>1. CASE Cycle
    <3>1. UNCHANGED Reaping
      BY <2>1, CycleLeavesReaping
    <3> QED BY <2>1, <3>1, CycleTypes DEF Reaping, Saying
  <2>2. CASE PassStep \/ PassDies BY <2>2, PassKeepsDeletion
  <2>3. CASE Reconcile BY <2>3 DEF Reconcile
  <2>4. CASE RecordEnd
    <3>1. task'.deleted = task.deleted
      BY <2>4, RecordedKeepsDeleted DEF RecordEnd, Saying, TypeInv, TypeOK, Outcomes
    <3> QED BY <2>4, <3>1 DEF RecordEnd
  <2>5. CASE World
    BY <2>5 DEF World, AssistantAnswers, UserDeletes, UserTakesTab, Reaping, TypeInv, TypeOK
  <2>6. CASE UNCHANGED vars BY <2>6 DEF vars
  <2> QED BY <2>1, <2>2, <2>3, <2>4, <2>5, <2>6 DEF Next
<1>3. Spec => []TypeInv
  BY TypesAreKept
<1> QED BY <1>1, <1>2, <1>3, PTL DEF Spec, DeletionInv
=============================================================================
