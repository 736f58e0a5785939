------------------------- MODULE EngineCycleProofs -------------------------
(***************************************************************************)
(* For every budget, floor and bound of EngineCycle, over any number of    *)
(* runs and crashes: the types of its variables, and that a completion was *)
(* earned by a decision.  For a task that started its own conversation,    *)
(* on pages that keep the composer's text, the cycle follows the protocol  *)
(* of Dialogue; for one whose answers are read from the page, each round   *)
(* judges an answer that the rounds before had not seen.                   *)
(*                                                                         *)
(* At the end, what lets EngineCycle take one run at a time: the lease and *)
(* the slots of CycleLease, for every number of runs, processes, tasks and *)
(* slots.  No run leaves a complete lock file behind unless its process    *)
(* died, and they are exclusive as long as no process has died.            *)
(***************************************************************************)
EXTENDS EngineCycle, CycleLease, TLAPS

-----------------------------------------------------------------------------
\* The stage and the stop reasons a step takes are stages and stop reasons.
LEMMA StageTypes ==
  /\ MissingStage \in Stages
  /\ \A s \in Stages : StopReason[s] \subseteq RoundStop
  /\ \A d \in Decision : RoutedFor(d) \subseteq Decision
BY DEF MissingStage, PromptStage, AnswerStage, OnTarget, Stages, StopReason, RoundStop,
   RoutedFor, Suppressed, Decision

LEMMA Stops == RoundStop \subseteq RunStop /\ {"not_ready", "blocked", "error"} \subseteq RoundStop
BY DEF RoundStop, RunStop

LEMMA EndRoundType == ASSUME TypeOK, NEW r \in RoundStop, EndRound(r)
                      PROVE pc' = "roundEnd" /\ stage' = None /\ run' \in Run
BY Stops DEF TypeOK, Run, EndRound

\* Binding, unbinding and an early title keep the task a task.
LEMMA TaskUpdates == ASSUME NEW t \in Task PROVE Bound(t) \in Task /\ Unbound(t) \in Task
<1>1. Bound(t) \in Task BY DEF Bound, Task, Status
<1>2. Unbound(t) \in Task BY DEF Unbound, Task, Status
<1> QED BY <1>1, <1>2

LEMMA Cleared ==
  ASSUME NEW t \in Task, NEW s \in Status
  PROVE  [t EXCEPT !.answer = None, !.decision = None, !.reply = FALSE,
            !.replied = FALSE, !.status = s] \in Task
BY DEF Task

LEMMA EarlyTitles == ASSUME TypeOK PROVE EarlyTitle \subseteq Task
<1> SUFFICES ASSUME NEW e \in EarlyTitle PROVE e \in Task OBVIOUS
<1>2. PICK c \in {task.chat, task.chat \/ sent > 0}, t \in {task.title, TRUE} :
        e = [task EXCEPT !.chat = c, !.title = t]
  <2>1. e \in Materialized BY DEF EarlyTitle
  <2> QED BY <2>1 DEF Materialized
<1>3. task.chat \in BOOLEAN /\ task.title \in BOOLEAN BY DEF TypeOK, Task
<1>4. c \in BOOLEAN BY Zenon, <1>2, <1>3
<1>5. t \in BOOLEAN BY Zenon, <1>2, <1>3
<1> QED BY <1>2, <1>4, <1>5 DEF TypeOK, Task

\* The ends of a round that a decision brings about.
DecisionStop == {"human_decision_required", "completion_candidate", "max_rounds",
                 "stalled_no_semantic_progress"}

\* A recorded decision is a decision, and an early "done" is none.
LEMMA Decided ==
  ASSUME GatewayDecision
  PROVE  /\ UNCHANGED page
         /\ \E d \in Decision :
              /\ task' = [task EXCEPT !.decision = d, !.iterations = @ + 1, !.status = "executing"]
              /\ d = "done" => ReadOnly \/ ~(task.iterations + 1 < CompletionFloor)
              /\ \/ NextStep
                 \/ \E r \in DecisionStop : EndRound(r) /\ (r = "completion_candidate" => d = "done")
<1>1. PICK said \in Decision : \E d \in RoutedFor(said) :
        /\ task' = [task EXCEPT !.decision = d, !.iterations = @ + 1, !.status = "executing"]
        /\ \/ NextStep
           \/ \E r \in DecisionStop : EndRound(r) /\ (r = "completion_candidate" => d = "done")
  BY DEF GatewayDecision, PreReplyStop, DecisionStop
<1>2. \A d \in RoutedFor(said) :
        d \in Decision /\ (d = "done" => ReadOnly \/ ~(task.iterations + 1 < CompletionFloor))
  BY CycleAssumption DEF RoutedFor, Suppressed, Decision
<1> QED BY <1>1, <1>2 DEF GatewayDecision

LEMMA TypeInit == Init => TypeOK
BY CycleAssumption DEF Init, TypeOK, Task, Run, NoRun, Status, Terminal, Answer, Stages

\* No step leaves the type of a variable.
LEMMA Typing == ASSUME TypeOK, [Next]_vars PROVE TypeOK'
<1> USE CycleAssumption, StageTypes DEF TypeOK, page, Task, Run, NextStep, EndRound, EndRun, NoRun, At
<1>1. CASE StepsExhausted
  BY <1>1 DEF StepsExhausted, RunStop, RoundStop
<1>2. CASE StepOnHold
  BY <1>2 DEF StepOnHold, RunStop, RoundStop
<1>3. CASE StepStage
  BY <1>3 DEF StepStage
<1>4. CASE CooldownGate
  BY <1>4 DEF CooldownGate, RunStop, RoundStop
<1>5. CASE StageStops
  <2>1. PICK r \in StopReason[stage] : EndRound(r) BY <1>5 DEF StageStops
  <2>2. r \in RoundStop BY Zenon, <2>1, <1>5, StageTypes DEF StageStops
  <2> QED BY <2>1, <2>2, EndRoundType, <1>5 DEF StageStops
<1>6. CASE RateLimited
  BY <1>6 DEF RateLimited, RunStop, RoundStop, Status
<1>7. CASE ChatBind
  <2>1. task' \in Task BY <1>7, TaskUpdates DEF ChatBind
  <2> QED BY <2>1, <1>7 DEF ChatBind, OpenPage
<1>8. CASE ComposerPreflight
  <2>1. Bound(task) \in Task BY TaskUpdates
  <2>2. task' \in Task BY <2>1, <1>8 DEF ComposerPreflight
  <2> QED BY <2>2, <1>8 DEF ComposerPreflight, OpenPage
<1>9. CASE PromptDraft
  <2>1. task' \in Task BY <1>9, TaskUpdates DEF PromptDraft
  <2> QED BY <2>1, <1>9 DEF PromptDraft
<1>10. CASE PromptDraftRecord
  BY <1>10 DEF PromptDraftRecord, Status
<1>11. CASE PromptSubmit
  BY <1>11 DEF PromptSubmit, Click, OnPage, Answer
<1>12. CASE PromptSubmitRecord
  <2>1. run.base \in Answer \cup {None} OBVIOUS
  <2>2. PICK c \in {task.chat, task.chat \/ sent > 0}, b \in Answer \cup {None} :
           task' = [task EXCEPT !.submitted = TRUE, !.chat = c, !.baseline = b,
                      !.status = "waiting_assistant"]
    BY <2>1, <1>12 DEF PromptSubmitRecord
  <2>5. task.chat \in BOOLEAN OBVIOUS
  <2>6. c \in BOOLEAN BY Zenon, <2>2, <2>5
  <2>4. task' \in Task BY <2>2, <2>6 DEF Status
  <2>3. run' \in Run BY <1>12 DEF PromptSubmitRecord
  <2> QED BY <2>4, <2>3, <1>12 DEF PromptSubmitRecord
<1>13. CASE PreSubmitRebind
  <2>1. Unbound(task) \in Task /\ Bound(Unbound(task)) \in Task BY TaskUpdates
  <2>2. CASE NextStep BY <2>1, <2>2, <1>13 DEF PreSubmitRebind, OpenPage
  <2>3. CASE \E r \in {"blocked", "not_ready"} : EndRound(r)
    BY <2>1, <2>3, <1>13, EndRoundType, Stops DEF PreSubmitRebind
  <2> QED BY <2>2, <2>3, <1>13 DEF PreSubmitRebind
<1>14. CASE AnswerCapture
  <2>1. PICK t \in EarlyTitle, a \in Captured : \E c \in {t.chat, TRUE} :
           task' = [t EXCEPT !.answer = a, !.chat = c, !.status = "evaluating"]
    BY <1>14 DEF AnswerCapture
  <2>6. PICK c \in {t.chat, TRUE} :
           task' = [t EXCEPT !.answer = a, !.chat = c, !.status = "evaluating"]
    BY <2>1
  <2>2. a \in Answer BY DEF Captured, Answer
  <2>3. t \in Task BY EarlyTitles
  <2>5. c \in BOOLEAN BY <2>3
  <2>4. task' \in Task BY <2>6, <2>2, <2>3, <2>5 DEF Status
  <2> QED BY <2>4, <1>14 DEF AnswerCapture
<1>15. CASE AnswerMissing
  <2>1. task' \in Task BY <1>15, EarlyTitles DEF AnswerMissing
  <2>2. PICK r \in {"not_ready", "answer_orphaned"} : EndRound(r) BY <1>15 DEF AnswerMissing
  <2>3. r \in RoundStop BY DEF RoundStop
  <2> QED BY <2>1, <2>2, <2>3, <1>15, EndRoundType DEF AnswerMissing
<1>16. CASE TitlePrefix
  BY <1>16 DEF TitlePrefix
<1>17. CASE GatewayDecision
  <2>1. PICK d \in Decision :
           /\ task' = [task EXCEPT !.decision = d, !.iterations = @ + 1, !.status = "executing"]
           /\ NextStep \/ \E r \in DecisionStop : EndRound(r)
    BY <1>17, Decided
  <2>5. task.iterations + 1 \in Nat /\ "executing" \in Status BY DEF Status
  <2>2. task' \in Task BY <2>1, <2>5
  <2>3. CASE NextStep BY <2>2, <2>3, <1>17 DEF GatewayDecision
  <2>4. ASSUME NEW r \in DecisionStop, EndRound(r) PROVE TypeOK'
    <3>1. r \in RoundStop BY DEF RoundStop, DecisionStop
    <3> QED BY <2>2, <2>4, <3>1, <1>17, EndRoundType DEF GatewayDecision
  <2> QED BY <2>1, <2>3, <2>4
<1>18. CASE ReplyBudget
  BY <1>18 DEF ReplyBudget, RunStop, RoundStop
<1>19. CASE ReplyDraft
  BY <1>19 DEF ReplyDraft
<1>20. CASE ReplyDraftRecord
  BY <1>20 DEF ReplyDraftRecord, Status
<1>21. CASE ReplySubmit
  BY <1>21 DEF ReplySubmit, Click, RunStop, RoundStop
<1>22. CASE ReplySubmitRecord
  BY <1>22 DEF ReplySubmitRecord, Status
<1>23. CASE Complete
  BY <1>23 DEF Complete, RunStop, RoundStop
<1>24. CASE RoundEnd
  <2>1. run.seen \in Decision \cup {None} /\ run.repeat \in 0..3
        /\ task.decision \in Decision \cup {None} OBVIOUS
  <2>5. RepeatOf(task.decision) \in 0..3 BY <2>1 DEF RepeatOf, Count
  <2>2. PICK decided \in Decision \cup {None}, repeat \in 0..3 :
           /\ task' = [task EXCEPT !.fp = decided, !.repeat = repeat]
           /\ run' = [run EXCEPT !.seen = decided, !.repeat = repeat]
    BY <2>1, <2>5, <1>24 DEF RoundEnd
  <2>3. task' \in Task BY <2>2
  <2>4. run' \in Run BY <2>2
  <2> QED BY <2>3, <2>4, <1>24 DEF RoundEnd
<1>25. CASE Verdict
  <2>1. FinalStop \subseteq RunStop \cup {None} BY DEF FinalStop, RunStop, RoundStop
  <2>2. run' \in Run BY <2>1, <1>25 DEF Verdict
  <2> QED BY <2>2, <1>25 DEF Verdict
<1>26. CASE ResetRound
  <2>3. task.round + 1 \in Nat /\ task.reply \in BOOLEAN /\ task.replied \in BOOLEAN
        /\ task.answer \in Answer \cup {None} OBVIOUS
  <2>4. (IF task.replied THEN "waiting_assistant" ELSE "executing") \in Status BY DEF Status
  <2>5. run.rounds + 1 \in Nat /\ 0 \in 0..MaxSteps OBVIOUS
  <2> DEFINE st == IF task.replied THEN "waiting_assistant" ELSE "executing"
             next == [task EXCEPT !.round = @ + 1, !.draft = task.reply,
                        !.submitted = task.replied, !.baseline = task.answer]
  <2>6. next \in Task BY <2>3
  <2>7. st \in Status BY <2>4
  <2>8. task' = [next EXCEPT !.answer = None, !.decision = None, !.reply = FALSE,
                   !.replied = FALSE, !.status = st]
    BY ONLY <1>26 DEF ResetRound
  <2>1. task' \in Task
    <3> HIDE DEF next, st
    <3> QED BY ONLY <2>6, <2>7, <2>8, Cleared
  <2>2. run' \in Run BY <1>26, <2>5 DEF ResetRound
  <2> QED BY <2>1, <2>2, <1>26 DEF ResetRound
<1>27. CASE Outcome
  <2>1. OutcomeStatus \in Status BY DEF OutcomeStatus, Status, Terminal
  <2>4. "completed" \in Status BY DEF Status, Terminal
  <2>5. [task EXCEPT !.status = OutcomeStatus] \in Task BY <2>1
  <2>6. [task EXCEPT !.status = "completed", !.target = FALSE, !.ready = FALSE] \in Task BY <2>4
  <2>2. task' \in Task BY ONLY <2>5, <2>6, <1>27 DEF Outcome
  <2>3. run' \in Run BY <1>27 DEF Outcome
  <2> QED BY <2>2, <2>3, <1>27 DEF Outcome
<1>28. CASE RunStart
  <2>2. task.fp \in Decision \cup {None} /\ task.repeat \in 0..3 OBVIOUS
  <2>3. 0 \in 0..MaxSteps OBVIOUS
  <2>1. run' \in Run BY <2>2, <2>3, <1>28 DEF RunStart
  <2> QED BY <2>1, <1>28 DEF RunStart
<1>29. CASE RunRefused
  BY <1>29 DEF RunRefused, Status
<1>30. CASE Crash
  BY <1>30 DEF Crash
<1>31. CASE Manage
  <2>1. task' \in Task BY <1>31 DEF Manage
  <2> QED BY <2>1, <1>31 DEF Manage
<1>32. CASE CooldownExpires
  BY <1>32 DEF CooldownExpires
<1>33. CASE AssistantAnswers
  BY <1>33 DEF AssistantAnswers
<1>34. CASE PageReloads
  BY <1>34 DEF PageReloads
<1>35. CASE UNCHANGED vars BY <1>35 DEF vars
<1> QED BY <1>1, <1>2, <1>3, <1>4, <1>5, <1>6, <1>7, <1>8, <1>9, <1>10, <1>11, <1>12, <1>13, <1>14, <1>15, <1>16, <1>17, <1>18, <1>19, <1>20, <1>21, <1>22, <1>23, <1>24, <1>25, <1>26, <1>27, <1>28, <1>29, <1>30, <1>31, <1>32, <1>33, <1>34, <1>35 DEF Next, RunStep

\* Every value of the state a cycle reaches has the type that TypeOK gives it
\* (the fields of EngineTask and the loop variables of
\* runEngineCycleRoundsWithLease).
THEOREM TypeCorrect == Spec => []TypeOK
BY TypeInit, Typing, PTL DEF Spec

-----------------------------------------------------------------------------
\* What the steps keep of the decision that a completion needs.
DoneInv ==
  /\ task.decision = "done" => ReadOnly \/ ~(task.iterations < CompletionFloor)
  /\ pc \in {"roundEnd", "verdict"} =>
       run.stop \in RoundStop /\ (run.stop = "completion_candidate" => task.decision = "done")
  /\ pc = "outcome" /\ run.stop = "decision_done_verified" => task.decision = "done"

\* A step that takes no decision, and ends the round for none, keeps it.
LEMMA NoDecision ==
  ASSUME TypeOK, DoneInv,
         task'.decision = task.decision, task'.iterations = task.iterations,
         \/ pc' \in {"idle", "step", "stage", "record", "reset"}
         \/ \E r \in RoundStop \ {"completion_candidate"} : EndRound(r)
         \/ UNCHANGED <<pc, run>>
  PROVE  DoneInv'
BY DEF DoneInv, EndRound, TypeOK, Run, RoundStop

LEMMA BoundKeeps ==
  ASSUME NEW t \in Task
  PROVE  /\ Bound(t).decision = t.decision /\ Bound(t).iterations = t.iterations
         /\ Unbound(t).decision = t.decision /\ Unbound(t).iterations = t.iterations
<1>1. Bound(t).decision = t.decision /\ Bound(t).iterations = t.iterations BY DEF Bound, Task
<1>2. Unbound(t).decision = t.decision /\ Unbound(t).iterations = t.iterations
  BY DEF Unbound, Task
<1> QED BY <1>1, <1>2

LEMMA EarlyTitleKeeps ==
  ASSUME TypeOK, NEW e \in EarlyTitle
  PROVE  e.decision = task.decision /\ e.iterations = task.iterations
<1>1. e \in Materialized BY DEF EarlyTitle
<1>2. PICK c \in {task.chat, task.chat \/ sent > 0}, t \in {task.title, TRUE} :
        e = [task EXCEPT !.chat = c, !.title = t]
  BY <1>1 DEF Materialized
<1> QED BY <1>2 DEF TypeOK, Task

LEMMA DoneInit == Init => DoneInv
BY CycleAssumption DEF Init, DoneInv

LEMMA DoneStep == ASSUME TypeOK, DoneInv, [Next]_vars PROVE DoneInv'
<1> USE DEF page, NextStep, EndRun, At
<1> DEFINE Same == task'.decision = task.decision /\ task'.iterations = task.iterations
           Plain == \/ pc' \in {"idle", "step", "stage", "record", "reset"}
                    \/ \E r \in RoundStop \ {"completion_candidate"} : EndRound(r)
                    \/ UNCHANGED <<pc, run>>
<1>0. ASSUME Same, Plain PROVE DoneInv' BY <1>0, NoDecision
<1>1. CASE StepsExhausted BY <1>1, <1>0 DEF StepsExhausted, RoundStop
<1>2. CASE StepOnHold BY <1>2, <1>0 DEF StepOnHold, RoundStop
<1>3. CASE StepStage BY <1>3, <1>0 DEF StepStage
<1>4. CASE CooldownGate BY <1>4, <1>0 DEF CooldownGate, RoundStop
<1>5. CASE StageStops
  <2>1. PICK r \in StopReason[stage] : EndRound(r) BY <1>5 DEF StageStops
  <2>2. stage \in Stages BY <1>5 DEF StageStops, TypeOK
  <2>3. r \in RoundStop \ {"completion_candidate"}
    BY <2>1, <2>2 DEF Stages, StopReason, RoundStop
  <2> QED BY <2>1, <2>3, <1>5, <1>0 DEF StageStops
<1>6. CASE RateLimited
  <2>1. Same BY <1>6 DEF RateLimited, TypeOK, Task
  <2> QED BY <2>1, <1>6, <1>0 DEF RateLimited, RoundStop
<1>7. CASE ChatBind BY <1>7, <1>0, BoundKeeps DEF ChatBind, TypeOK
<1>8. CASE ComposerPreflight
  <2>1. Bound(task) \in Task BY TaskUpdates DEF TypeOK
  <2>2. Same BY <2>1, <1>8, BoundKeeps DEF ComposerPreflight, TypeOK, Task
  <2> QED BY <2>2, <1>8, <1>0 DEF ComposerPreflight
<1>9. CASE PromptDraft BY <1>9, <1>0, BoundKeeps DEF PromptDraft, TypeOK
<1>10. CASE PromptDraftRecord BY <1>10, <1>0 DEF PromptDraftRecord, TypeOK, Task
<1>11. CASE PromptSubmit BY <1>11, <1>0 DEF PromptSubmit
<1>12. CASE PromptSubmitRecord BY <1>12, <1>0 DEF PromptSubmitRecord, TypeOK, Task
<1>13. CASE PreSubmitRebind
  <2>1. Unbound(task) \in Task BY TaskUpdates DEF TypeOK
  <2>2. Same BY <2>1, <1>13, BoundKeeps DEF PreSubmitRebind, TypeOK
  <2> QED BY <2>2, <1>13, <1>0 DEF PreSubmitRebind, RoundStop
<1>14. CASE AnswerCapture
  <2>1. PICK t \in EarlyTitle : \E a \in Captured, c \in BOOLEAN \cup {t.chat} :
           task' = [t EXCEPT !.answer = a, !.chat = c, !.status = "evaluating"]
    BY <1>14 DEF AnswerCapture
  <2>2. t \in Task BY EarlyTitles
  <2>3. t.decision = task.decision /\ t.iterations = task.iterations BY EarlyTitleKeeps
  <2>4. Same BY <2>1, <2>2, <2>3 DEF Task
  <2> QED BY <2>4, <1>14, <1>0 DEF AnswerCapture
<1>15. CASE AnswerMissing
  <2>1. Same BY <1>15, EarlyTitleKeeps DEF AnswerMissing
  <2> QED BY <2>1, <1>15, <1>0 DEF AnswerMissing, RoundStop
<1>16. CASE TitlePrefix BY <1>16, <1>0 DEF TitlePrefix, TypeOK, Task
<1>17. CASE GatewayDecision
  <2>1. PICK d \in Decision :
          /\ task' = [task EXCEPT !.decision = d, !.iterations = @ + 1, !.status = "executing"]
          /\ d = "done" => ReadOnly \/ ~(task.iterations + 1 < CompletionFloor)
          /\ \/ NextStep
             \/ \E r \in DecisionStop : EndRound(r) /\ (r = "completion_candidate" => d = "done")
    BY <1>17, Decided
  <2>2. task'.decision = d /\ task'.iterations = task.iterations + 1 BY <2>1 DEF TypeOK, Task
  <2> QED BY <2>1, <2>2 DEF DoneInv, EndRound, DecisionStop, RoundStop, TypeOK, Run
<1>18. CASE ReplyBudget BY <1>18, <1>0 DEF ReplyBudget, RoundStop
<1>19. CASE ReplyDraft BY <1>19, <1>0 DEF ReplyDraft
<1>20. CASE ReplyDraftRecord BY <1>20, <1>0 DEF ReplyDraftRecord, TypeOK, Task
<1>21. CASE ReplySubmit BY <1>21, <1>0 DEF ReplySubmit, RoundStop
<1>22. CASE ReplySubmitRecord BY <1>22, <1>0 DEF ReplySubmitRecord, TypeOK, Task
<1>23. CASE Complete BY <1>23, <1>0 DEF Complete, RoundStop
<1>24. CASE RoundEnd
  <2>1. Same /\ run'.stop = run.stop BY <1>24 DEF RoundEnd, TypeOK, Task, Run
  <2> QED BY <2>1, <1>24 DEF RoundEnd, DoneInv
<1>25. CASE Verdict
  <2>1. PICK stop \in FinalStop : run' = [run EXCEPT !.stop = stop] BY <1>25 DEF Verdict
  <2>2. run'.stop = stop BY <2>1 DEF TypeOK, Run
  <2>4. run.stop # "decision_done_verified"
        /\ (run.stop = "completion_candidate" => task.decision = "done")
    BY <1>25 DEF Verdict, DoneInv, RoundStop
  <2>5. CASE task.decision = "done" BY <2>2, <2>5, <1>25 DEF Verdict, DoneInv
  <2>3. CASE task.decision # "done"
    <3>2. run.stop # "completion_candidate" BY <2>3, <2>4
    <3>3. None # "decision_done_verified" BY StopAssumption DEF RunStop
    <3>1. "decision_done_verified" \notin FinalStop BY <3>2, <3>3, <2>3, <2>4 DEF FinalStop
    <3> QED BY <3>1, <2>1, <2>2, <1>25 DEF Verdict, DoneInv
  <2> QED BY <2>3, <2>5
<1>26. CASE ResetRound
  <2>1. task'.decision = None BY <1>26 DEF ResetRound, TypeOK, Task
  <2> QED BY <2>1, <1>26, CycleAssumption DEF ResetRound, DoneInv
<1>27. CASE Outcome
  <2>1. Same BY <1>27 DEF Outcome, TypeOK, Task
  <2> QED BY <2>1, <1>27, <1>0 DEF Outcome
<1>28. CASE RunStart BY <1>28, <1>0 DEF RunStart
<1>29. CASE RunRefused BY <1>29, <1>0 DEF RunRefused, TypeOK, Task
<1>30. CASE Crash BY <1>30, <1>0 DEF Crash
<1>31. CASE Manage BY <1>31, <1>0 DEF Manage, TypeOK, Task
<1>32. CASE CooldownExpires BY <1>32, <1>0 DEF CooldownExpires, TypeOK, Task
<1>33. CASE AssistantAnswers BY <1>33, <1>0 DEF AssistantAnswers
<1>34. CASE PageReloads BY <1>34, <1>0 DEF PageReloads
<1>35. CASE UNCHANGED vars BY <1>35, <1>0 DEF vars
<1> QED
  BY <1>1, <1>2, <1>3, <1>4, <1>5, <1>6, <1>7, <1>8, <1>9, <1>10, <1>11, <1>12, <1>13, <1>14,
     <1>15, <1>16, <1>17, <1>18, <1>19, <1>20, <1>21, <1>22, <1>23, <1>24, <1>25, <1>26, <1>27,
     <1>28, <1>29, <1>30, <1>31, <1>32, <1>33, <1>34, <1>35 DEF Next, RunStep

\* Only the outcome of a run makes a task completed.
LEMMA OnlyOutcomeCompletes ==
  ASSUME TypeOK, Next, task.status # "completed", task'.status = "completed"
  PROVE  Outcome
<1> USE DEF TypeOK, Task
<1>1. CASE task' = task BY <1>1
<1>2. CASE RateLimited \/ RunRefused BY <1>2 DEF RateLimited, RunRefused
<1>3. CASE ChatBind \/ ComposerPreflight \/ PromptDraft
  BY <1>3 DEF ChatBind, ComposerPreflight, PromptDraft, Bound
<1>4. CASE PromptDraftRecord \/ PromptSubmitRecord \/ ReplyDraftRecord \/ ReplySubmitRecord
  BY <1>4 DEF PromptDraftRecord, PromptSubmitRecord, ReplyDraftRecord, ReplySubmitRecord
<1>5. CASE PreSubmitRebind
  <2>1. Unbound(task) \in Task BY TaskUpdates
  <2>2. Unbound(task).status = "executing" BY DEF Unbound
  <2>3. Bound(Unbound(task)).status = "executing" BY <2>1 DEF Bound
  <2> QED BY <1>5, <2>2, <2>3 DEF PreSubmitRebind
<1>6. CASE AnswerCapture
  <2>1. PICK t \in EarlyTitle : \E a \in Captured, c \in BOOLEAN \cup {t.chat} :
           task' = [t EXCEPT !.answer = a, !.chat = c, !.status = "evaluating"]
    BY <1>6 DEF AnswerCapture
  <2>2. t \in Task BY EarlyTitles
  <2> QED BY <2>1, <2>2
<1>7. CASE AnswerMissing
  <2>1. PICK c \in {task.chat, task.chat \/ sent > 0}, t \in {task.title, TRUE} :
           task' = [task EXCEPT !.chat = c, !.title = t]
    BY <1>7 DEF AnswerMissing, EarlyTitle, Materialized
  <2> QED BY <2>1
<1>8. CASE TitlePrefix \/ RoundEnd \/ Manage \/ CooldownExpires
  BY <1>8 DEF TitlePrefix, RoundEnd, Manage, CooldownExpires
<1>9. CASE GatewayDecision BY <1>9, Decided
<1>10. CASE ResetRound BY <1>10 DEF ResetRound
<1> QED
  BY <1>1, <1>2, <1>3, <1>4, <1>5, <1>6, <1>7, <1>8, <1>9, <1>10
  DEF Next, RunStep, StepsExhausted, StepOnHold, StepStage, CooldownGate, StageStops,
      PromptSubmit, ReplyBudget, ReplyDraft, ReplySubmit, Complete, Verdict, RunStart, Crash,
      AssistantAnswers, PageReloads

\* For every completion floor: a task that becomes completed was judged done,
\* by a decision the floor let through (shouldSuppressEarlyEngineCompletion,
\* recordEngineExecutionOutcome).
THEOREM Earned == Spec => CompletionIsEarned
<1> DEFINE Inv == TypeOK /\ DoneInv
           Completes == task.status # "completed" /\ task'.status = "completed"
           Due == task.decision = "done" /\ (ReadOnly \/ task.iterations >= CompletionFloor)
<1>1. Init => Inv BY TypeInit, DoneInit
<1>2. Inv /\ [Next]_vars => Inv' BY Typing, DoneStep
<1>3. Inv /\ [Next]_vars => [Completes => Due]_vars
  <2> SUFFICES ASSUME Inv, Next, Completes PROVE Due OBVIOUS
  <2>1. Outcome BY OnlyOutcomeCompletes
  <2>2. OutcomeStatus = "completed" BY <2>1 DEF Outcome, TypeOK, Task
  <2>3. run.stop = "decision_done_verified" /\ pc = "outcome"
    BY <2>1, <2>2 DEF Outcome, OutcomeStatus
  <2> QED BY <2>3, CycleAssumption DEF DoneInv, TypeOK, Task
<1> QED BY <1>1, <1>2, <1>3, PTL DEF Spec, CompletionIsEarned

-----------------------------------------------------------------------------
\* The dialogue of a task that started its own conversation, on pages that keep
\* the composer's text.
OwnConversation == History = 0 /\ ~Reloads

Judged == task.decision # None
Round0 == task.round = 0 /\ ~Judged

\* What the fields of the task file imply of one another.
TaskInv ==
    /\ task.title => task.chat
    /\ task.chat => task.submitted
    /\ task.round > 0 \/ Judged => task.title
    /\ Judged => task.answer # None
    /\ task.answer # None => task.submitted
    /\ task.submitted /\ ~task.chat => task.target
    /\ task.reply => Judged
    /\ task.replied => task.reply
    /\ task.iterations = task.round + (IF Judged THEN 1 ELSE 0)
    /\ task.reply /\ Continuing(task.decision) => task.iterations < MaxIterations

\* What they imply of the page.
PageInv ==
    /\ answered <= sent
    /\ Round0 => /\ sent <= 1 /\ composer # "reply"
                 /\ composer = "prompt" => sent = 0
                 /\ task.target /\ ~task.draft /\ ~task.submitted => sent = 0
                 /\ task.answer # None => sent = 1
    /\ task.round > 0 /\ ~Judged => sent = task.round + 1 /\ composer = "empty"
    /\ Judged /\ ~task.reply => sent = task.round + 1 /\ composer # "prompt"
    /\ Judged /\ task.reply /\ ~task.replied =>
          \/ sent = task.round + 1 /\ composer = "reply"
          \/ sent = task.round + 2 /\ composer = "empty"
    /\ task.replied => sent = task.round + 2 /\ composer = "empty"

\* What the run knows of both.
RunInv ==
    /\ pc = "stage" => stage = MissingStage
    /\ pc = "record" =>
         \/ stage = "prompt_draft" /\ Round0 /\ ~task.submitted /\ task.target /\ sent = 0
         \/ stage = "prompt_submit" /\ Round0 /\ ~task.submitted /\ task.answer = None
            /\ task.target
         \/ stage = "reply_draft" /\ Judged /\ ~task.reply /\ composer = "reply"
            /\ (Continuing(task.decision) => task.iterations < MaxIterations)
         \/ stage = "reply_submit" /\ Judged /\ task.reply /\ ~task.replied
            /\ composer = "empty" /\ sent = task.round + 2
    /\ pc \in {"roundEnd", "verdict"} /\ run.stop = "complete" => task.replied
    /\ pc = "reset" => task.replied

TalkInv == TaskInv /\ PageInv /\ RunInv
Inv == TypeOK /\ DoneInv
IInv == Inv /\ TalkInv

-----------------------------------------------------------------------------
\* A step that leaves the fields alone that tell how far the task is.
SameTask ==
    /\ task'.chat = task.chat /\ task'.target = task.target /\ task'.ready = task.ready
    /\ task'.draft = task.draft /\ task'.submitted = task.submitted
    /\ task'.answer = task.answer /\ task'.title = task.title
    /\ task'.decision = task.decision /\ task'.reply = task.reply
    /\ task'.replied = task.replied /\ task'.round = task.round
    /\ task'.iterations = task.iterations

LEMMA Frame ==
  ASSUME TaskInv, PageInv, SameTask, UNCHANGED page
  PROVE  /\ TaskInv' /\ PageInv' /\ MissingStage' = MissingStage
         /\ Judged' = Judged /\ Round0' = Round0
<1> USE DEF SameTask, page
<1>1. Judged' = Judged /\ Round0' = Round0 BY DEF Judged, Round0
<1>2. TaskInv' BY <1>1 DEF TaskInv, Continuing
<1>3. PageInv' BY <1>1 DEF PageInv
<1>4. MissingStage' = MissingStage
  BY DEF MissingStage, PromptStage, AnswerStage, OnTarget
<1> QED BY <1>1, <1>2, <1>3, <1>4

\* What a run that goes on to its next step, or ends, knows.
LEMMA RunAtRest == ASSUME pc' \in {"step", "idle", "outcome"} PROVE RunInv'
BY DEF RunInv

LEMMA RunAtEnd ==
  ASSUME TypeOK, NEW r \in RoundStop \ {"complete"}, EndRound(r) PROVE RunInv'
BY DEF RunInv, EndRound, TypeOK, Run

LEMMA TalkInit == ASSUME OwnConversation, Init PROVE TalkInv
BY CycleAssumption
   DEF OwnConversation, Init, TalkInv, TaskInv, PageInv, RunInv, Judged, Round0, Continuing

\* The steps that leave task and page as they are.
LEMMA QuietSteps ==
  ASSUME IInv, UNCHANGED <<task, page>>,
         \/ StepsExhausted \/ StepOnHold \/ StepStage \/ CooldownGate \/ StageStops
         \/ ReplyBudget \/ Complete \/ Verdict \/ RunStart \/ Crash \/ UNCHANGED vars
  PROVE  TalkInv'
<1> USE DEF IInv, Inv, TalkInv
<1>1. SameTask BY DEF SameTask
<1>2. TaskInv' /\ PageInv' /\ MissingStage' = MissingStage BY <1>1, Frame
<1>3. RunInv'
  <2>1. CASE StepsExhausted \/ StepOnHold \/ CooldownGate \/ ReplyBudget
    BY <2>1, RunAtEnd DEF StepsExhausted, StepOnHold, CooldownGate, ReplyBudget, RoundStop
  <2>2. CASE StageStops
    <3>1. PICK r \in StopReason[stage] : EndRound(r) BY <2>2 DEF StageStops
    <3>2. stage \in Stages BY <2>2 DEF StageStops, TypeOK
    <3>3. r \in RoundStop \ {"complete"} BY <3>1, <3>2 DEF Stages, StopReason, RoundStop
    <3> QED BY <3>1, <3>3, RunAtEnd
  <2>3. CASE StepStage BY <2>3, <1>2 DEF StepStage, RunInv
  <2>4. CASE Complete
    <3>1. task.replied
      BY <2>4 DEF Complete, At, RunInv, MissingStage, PromptStage, AnswerStage, OnTarget
    <3> QED BY <2>4, <3>1 DEF Complete, EndRound, RunInv
  <2>5. CASE Verdict
    <3>1. PICK stop \in FinalStop : /\ run' = [run EXCEPT !.stop = stop]
                                    /\ pc' = IF stop = None THEN "reset" ELSE "outcome"
      BY <2>5 DEF Verdict
    <3>2. run.stop \in RoundStop BY <2>5 DEF Verdict, DoneInv
    <3>3. None \notin RunStop /\ RoundStop \subseteq RunStop BY StopAssumption, Stops
    <3>7. {"human_decision_required", "decision_done_verified",
           "completion_verification_failed", run.stop} \subseteq RunStop
      BY <3>2 DEF RunStop, RoundStop
    <3>6. run.stop # "complete" => FinalStop \subseteq RunStop BY <3>7 DEF FinalStop
    <3>4. stop = None => run.stop = "complete" BY <3>1, <3>3, <3>6
    <3>5. stop = None => task.replied BY <3>4, <2>5 DEF Verdict, RunInv
    <3> QED BY <3>1, <3>5 DEF RunInv
  <2>6. CASE RunStart \/ Crash
    BY <2>6, RunAtRest DEF RunStart, Crash, EndRun
  <2>7. CASE UNCHANGED vars
    BY <2>7, <1>2 DEF vars, RunInv, Judged, Round0, page
  <2> QED BY <2>1, <2>2, <2>3, <2>4, <2>5, <2>6, <2>7
<1> QED BY <1>2, <1>3

\* The steps that change other fields of the task.
LEMMA FrameSteps ==
  ASSUME IInv,
         \/ RateLimited \/ RoundEnd \/ RunRefused \/ Manage \/ CooldownExpires
  PROVE  TalkInv'
<1> USE DEF IInv, Inv, TalkInv
<1>1. SameTask /\ UNCHANGED page
  BY DEF SameTask, TypeOK, Task, RateLimited, RoundEnd, RunRefused, Manage, CooldownExpires
<1>2. TaskInv' /\ PageInv' /\ MissingStage' = MissingStage /\ Judged' = Judged /\ Round0' = Round0
  BY <1>1, Frame
<1>3. RunInv'
  <2>1. CASE RateLimited
    BY <2>1, RunAtRest, RunAtEnd DEF RateLimited, NextStep, RoundStop
  <2>2. CASE RoundEnd
    <3>1. run'.stop = run.stop BY <2>2 DEF RoundEnd, TypeOK, Run
    <3> QED BY <3>1, <2>2, <1>1 DEF RoundEnd, RunInv, SameTask
  <2>3. CASE RunRefused \/ Manage \/ CooldownExpires
    <3>1. UNCHANGED <<pc, stage, run>> BY <2>3 DEF RunRefused, Manage, CooldownExpires
    <3> QED BY <3>1, <1>1, <1>2 DEF RunInv, SameTask, page, Continuing
  <2> QED BY <2>1, <2>2, <2>3
<1> QED BY <1>2, <1>3

-----------------------------------------------------------------------------
\* The steps of a prompt.  Until the prompt is out, the task has no chat and
\* nothing is judged.
LEMMA Unsent ==
  ASSUME TaskInv, ~task.submitted
  PROVE  ~task.chat /\ ~task.title /\ task.answer = None /\ ~Judged /\ ~(task.round > 0)
         /\ ~task.reply /\ ~task.replied
BY DEF TaskInv

LEMMA ChatBindStep == ASSUME IInv, ChatBind PROVE TalkInv'
<1> USE DEF IInv, Inv, TalkInv
<1>1. ~task.target
  BY DEF ChatBind, At, RunInv, MissingStage, PromptStage, AnswerStage, OnTarget
<1>2. /\ task'.target = TRUE /\ task'.chat = task.chat /\ task'.draft = task.draft
      /\ task'.submitted = task.submitted /\ task'.answer = task.answer
      /\ task'.title = task.title /\ task'.decision = task.decision
      /\ task'.reply = task.reply /\ task'.replied = task.replied
      /\ task'.round = task.round /\ task'.iterations = task.iterations
  BY DEF ChatBind, Bound, TypeOK, Task
<1>3. TaskInv' BY <1>2 DEF TaskInv, Judged, Continuing
<1>4. CASE task.chat
  <2>1. UNCHANGED page /\ task.submitted BY <1>4 DEF ChatBind, OpenPage, TaskInv
  <2>2. PageInv' BY <2>1, <1>2 DEF PageInv, page, Judged, Round0
  <2> QED BY <2>2, <1>3, RunAtRest DEF ChatBind, NextStep
<1>5. CASE ~task.chat
  <2>1. ~task.submitted BY <1>1, <1>5 DEF TaskInv
  <2>2. composer' = "empty" /\ sent' = 0 /\ answered' = 0 BY <1>5 DEF ChatBind, OpenPage
  <2>3. PageInv' BY <2>1, <2>2, <1>2, Unsent DEF PageInv, Judged, Round0
  <2> QED BY <2>3, <1>3, RunAtRest DEF ChatBind, NextStep
<1> QED BY <1>4, <1>5

\* What a step has to keep while the prompt is not out.
StaysUnsent ==
    /\ ~task'.chat /\ ~task'.title /\ ~task'.submitted
    /\ task'.answer = task.answer /\ task'.decision = task.decision
    /\ task'.reply = task.reply /\ task'.replied = task.replied
    /\ task'.round = task.round /\ task'.iterations = task.iterations

LEMMA UnsentStep ==
  ASSUME IInv, ~task.submitted, StaysUnsent
  PROVE  TaskInv' /\ Round0' /\ ~Judged' /\ task'.answer = None /\ ~task'.reply /\ ~task'.replied
         /\ task'.round = 0
BY Unsent DEF IInv, Inv, TypeOK, Task, TalkInv, TaskInv, StaysUnsent, Judged, Round0, Continuing

LEMMA UnsentPage ==
  ASSUME IInv, ~task.submitted, StaysUnsent,
         answered' <= sent', sent' <= 1, composer' # "reply", composer' = "prompt" => sent' = 0,
         task'.target /\ ~task'.draft => sent' = 0
  PROVE  PageInv'
BY UnsentStep DEF PageInv, Round0, Judged

\* At the stages of a prompt the prompt is not out.
LEMMA AtPrompt ==
  ASSUME TalkInv, At("composer_preflight") \/ At("prompt_draft") \/ At("prompt_submit")
  PROVE  /\ ~task.submitted /\ task.target
         /\ ~At("prompt_submit") => ~task.draft \/ ~task.ready
         /\ At("prompt_submit") => task.draft
         /\ At("prompt_draft") => ~task.draft
BY DEF TalkInv, At, RunInv, MissingStage, PromptStage, AnswerStage, OnTarget

LEMMA PromptSteps ==
  ASSUME IInv, ComposerPreflight \/ PromptDraft \/ PromptDraftRecord
  PROVE  TalkInv'
<1> USE DEF IInv, Inv, TalkInv
<1>1. ~task.submitted /\ task.target
  BY AtPrompt DEF ComposerPreflight, PromptDraft, PromptDraftRecord, RunInv
<1>2. ~task.chat /\ ~task.title /\ task.answer = None /\ Round0 /\ ~Judged
  BY <1>1, Unsent DEF Round0, TypeOK, Task
<1>3. CASE ComposerPreflight
  <2>1. StaysUnsent /\ task'.draft = task.draft
    BY <1>1, <1>2, <1>3 DEF StaysUnsent, ComposerPreflight, Bound, TypeOK, Task
  <2>2. \/ UNCHANGED page
        \/ composer' = "empty" /\ sent' = 0 /\ answered' = 0
    BY <1>3 DEF ComposerPreflight, OpenPage
  <2>3. PageInv'
    BY <1>1, <1>2, <2>1, <2>2, UnsentPage DEF PageInv, page
  <2> QED BY <1>1, <1>3, <2>1, <2>3, UnsentStep, RunAtRest DEF ComposerPreflight, NextStep
<1>4. CASE PromptDraft
  <2>1. StaysUnsent /\ task'.target
    BY <1>1, <1>2, <1>4 DEF StaysUnsent, PromptDraft, Bound, TypeOK, Task
  <2>2. ~task.draft BY <1>4, AtPrompt DEF PromptDraft
  <2>3. composer' = "prompt" /\ sent' = 0 /\ answered' <= sent'
    BY <1>1, <1>2, <1>4, <2>2 DEF PromptDraft, PageInv, TypeOK
  <2>4. PageInv' BY <1>1, <2>1, <2>3, UnsentPage
  <2>5. RunInv'
    BY <1>1, <1>4, <2>1, <2>3, UnsentStep DEF PromptDraft, RunInv, StaysUnsent, At
  <2> QED BY <1>1, <2>1, <2>4, <2>5, UnsentStep
<1>5. CASE PromptDraftRecord
  <2>1. StaysUnsent
    BY <1>1, <1>2, <1>5 DEF StaysUnsent, PromptDraftRecord, TypeOK, Task
  <2>2. sent = 0 BY <1>5 DEF PromptDraftRecord, RunInv
  <2>3. PageInv'
    BY <1>1, <1>2, <1>5, <2>1, <2>2, UnsentPage DEF PromptDraftRecord, PageInv, page
  <2> QED BY <1>1, <1>5, <2>1, <2>3, UnsentStep, RunAtRest DEF PromptDraftRecord, NextStep
<1> QED BY <1>3, <1>4, <1>5

LEMMA SubmitSteps ==
  ASSUME IInv, PromptSubmit \/ PromptSubmitRecord \/ PreSubmitRebind
  PROVE  TalkInv'
<1> USE DEF IInv, Inv, TalkInv
<1>1. ~task.submitted /\ task.target
  BY AtPrompt DEF PromptSubmit, PromptSubmitRecord, PreSubmitRebind, RunInv
<1>2. ~task.chat /\ ~task.title /\ task.answer = None /\ Round0 /\ ~Judged
      /\ ~task.reply /\ ~task.replied
  BY <1>1, Unsent DEF Round0, TypeOK, Task
<1>3. CASE PromptSubmit
  <2>1. StaysUnsent /\ task'.draft /\ task'.target
    BY <1>1, <1>2, <1>3, AtPrompt DEF StaysUnsent, PromptSubmit
  <2>2. \/ composer = "prompt" /\ composer' = "empty" /\ sent = 0 /\ sent' = 1
        \/ composer' = composer /\ sent' = sent
    BY <1>2, <1>3 DEF PromptSubmit, Click, PageInv, TypeOK
  <2>3. answered' = answered BY <1>3 DEF PromptSubmit
  <2>4. PageInv' BY <1>1, <1>2, <2>1, <2>2, <2>3, UnsentPage DEF PageInv, TypeOK
  <2>5. RunInv'
    BY <1>1, <1>3, <2>1, UnsentStep DEF PromptSubmit, RunInv, StaysUnsent, At
  <2> QED BY <1>1, <2>1, <2>4, <2>5, UnsentStep
<1>4. CASE PromptSubmitRecord
  <2>1. /\ task'.target = task.target /\ task'.submitted = TRUE
        /\ task'.answer = task.answer /\ task'.title = task.title
        /\ task'.decision = task.decision /\ task'.reply = task.reply
        /\ task'.replied = task.replied /\ task'.round = task.round
        /\ task'.iterations = task.iterations
    BY <1>4 DEF PromptSubmitRecord, TypeOK, Task
  <2>2. TaskInv' BY <1>1, <1>2, <2>1 DEF TaskInv, Judged, Round0
  <2>3. UNCHANGED page BY <1>4 DEF PromptSubmitRecord
  <2>4. PageInv' BY <1>2, <2>1, <2>3 DEF PageInv, Judged, Round0, page
  <2> QED BY <1>4, <2>2, <2>4, RunAtRest DEF PromptSubmitRecord
<1>5. CASE PreSubmitRebind
  <2> DEFINE u == Unbound(task)
  <2>1. u \in Task BY TaskUpdates DEF TypeOK
  <2>2. /\ ~u.chat /\ ~u.title /\ ~u.target /\ ~u.submitted
        /\ u.answer = task.answer /\ u.decision = task.decision
        /\ u.reply = task.reply /\ u.replied = task.replied
        /\ u.round = task.round /\ u.iterations = task.iterations
    BY <1>1 DEF Unbound, TypeOK, Task
  <2> HIDE DEF u
  <2>3. CASE task' = Bound(u) /\ OpenPage /\ NextStep
    <3>1. StaysUnsent BY <2>1, <2>2, <2>3 DEF StaysUnsent, Bound, Task
    <3>2. composer' = "empty" /\ sent' = 0 /\ answered' = 0 BY <1>2, <2>3 DEF OpenPage
    <3>3. PageInv' BY <1>1, <3>1, <3>2, UnsentPage
    <3> QED BY <1>1, <2>3, <3>1, <3>3, UnsentStep, RunAtRest DEF NextStep
  <2>4. CASE /\ task' = u /\ UNCHANGED page
             /\ \E r \in {"blocked", "not_ready"} : EndRound(r)
    <3>1. StaysUnsent BY <2>2, <2>4 DEF StaysUnsent
    <3>2. PageInv' BY <1>1, <1>2, <2>2, <2>4, <3>1, UnsentPage DEF PageInv, page
    <3>3. RunInv' BY <2>4, RunAtEnd DEF RoundStop
    <3> QED BY <1>1, <3>1, <3>2, <3>3, UnsentStep
  <2> QED BY <1>5, <2>3, <2>4 DEF PreSubmitRebind, u
<1> QED BY <1>3, <1>4, <1>5

-----------------------------------------------------------------------------
\* The steps of an answer.
LEMMA EarlyTitleFields ==
  ASSUME TypeOK, task.title => task.chat, NEW e \in EarlyTitle
  PROVE  /\ e \in Task /\ (e.title => e.chat)
         /\ task.title => e.title
         /\ task.chat => e.chat
         /\ e.target = task.target /\ e.draft = task.draft /\ e.submitted = task.submitted
         /\ e.answer = task.answer /\ e.decision = task.decision /\ e.reply = task.reply
         /\ e.replied = task.replied /\ e.round = task.round /\ e.iterations = task.iterations
         /\ e.baseline = task.baseline
<1>1. e \in Task BY EarlyTitles
<1>2. e \in Materialized /\ (e.title # task.title => e.chat) BY DEF EarlyTitle
<1>3. PICK c \in {task.chat, task.chat \/ sent > 0}, t \in {task.title, TRUE} :
        e = [task EXCEPT !.chat = c, !.title = t]
  BY <1>2 DEF Materialized
<1>4. e.chat = c /\ e.title = t BY <1>3 DEF TypeOK, Task
<1>5. task.chat => c BY Zenon, <1>3
<1>6. task.title => t BY Zenon, <1>3
<1>7. e.title => e.chat BY <1>2, <1>4, <1>5
<1> QED BY <1>1, <1>3, <1>4, <1>5, <1>6, <1>7 DEF TypeOK, Task

LEMMA CaptureSteps ==
  ASSUME IInv, AnswerCapture \/ AnswerMissing PROVE TalkInv'
<1> USE DEF IInv, Inv, TalkInv
<1>1. task.submitted /\ task.answer = None /\ ~Judged /\ ~task.reply /\ ~task.replied
  BY DEF AnswerCapture, AnswerMissing, At, RunInv, MissingStage, PromptStage, AnswerStage,
         OnTarget, TaskInv
<1>2. CASE AnswerCapture
  <2>1. PICK e \in EarlyTitle, a \in Captured : \E c \in {e.chat, TRUE} :
           task' = [e EXCEPT !.answer = a, !.chat = c, !.status = "evaluating"]
    BY <1>2 DEF AnswerCapture
  <2>2. PICK c \in {e.chat, TRUE} :
           task' = [e EXCEPT !.answer = a, !.chat = c, !.status = "evaluating"]
    BY <2>1
  <2>3. e \in Task /\ (e.title => e.chat) /\ (task.title => e.title) /\ (task.chat => e.chat)
    BY EarlyTitleFields DEF TaskInv
  <2>4. /\ e.target = task.target /\ e.draft = task.draft /\ e.submitted = task.submitted
        /\ e.answer = task.answer /\ e.decision = task.decision /\ e.reply = task.reply
        /\ e.replied = task.replied /\ e.round = task.round /\ e.iterations = task.iterations
    BY EarlyTitleFields DEF TaskInv
  <2>5. /\ task'.chat = c /\ task'.title = e.title
        /\ task'.target = task.target /\ task'.draft = task.draft
        /\ task'.submitted = task.submitted /\ task'.decision = task.decision
        /\ task'.reply = task.reply /\ task'.replied = task.replied
        /\ task'.round = task.round /\ task'.iterations = task.iterations
    BY <2>2, <2>3, <2>4 DEF Task
  <2>6. task'.title => task'.chat BY Zenon, <2>2, <2>3, <2>5
  <2>7. TaskInv' BY <1>1, <2>3, <2>5, <2>6 DEF TaskInv, Judged
  <2>8. answered > 0 /\ UNCHANGED page BY <2>1, <1>2 DEF Captured, AnswerCapture
  <2>9. PageInv' BY <1>1, <2>5, <2>8 DEF PageInv, Judged, Round0, page, TypeOK
  <2> QED BY <1>2, <2>7, <2>9, RunAtRest DEF AnswerCapture, NextStep
<1>3. CASE AnswerMissing
  <2>1. task' \in EarlyTitle /\ UNCHANGED page BY <1>3 DEF AnswerMissing
  <2>2. (task'.title => task'.chat) /\ (task.title => task'.title)
    BY <2>1, EarlyTitleFields DEF TaskInv
  <2>3. /\ task'.target = task.target /\ task'.draft = task.draft
        /\ task'.submitted = task.submitted /\ task'.decision = task.decision
        /\ task'.reply = task.reply /\ task'.replied = task.replied
        /\ task'.round = task.round /\ task'.iterations = task.iterations
        /\ task'.answer = task.answer /\ (task.chat => task'.chat)
    BY <2>1, EarlyTitleFields DEF TaskInv
  <2>4. TaskInv' BY <1>1, <2>2, <2>3 DEF TaskInv, Judged
  <2>5. PageInv' BY <1>1, <2>1, <2>3 DEF PageInv, Judged, Round0, page
  <2>6. RunInv' BY <1>3, RunAtEnd DEF AnswerMissing, RoundStop
  <2> QED BY <2>4, <2>5, <2>6
<1> QED BY <1>2, <1>3

LEMMA TitlePrefixStep == ASSUME IInv, TitlePrefix PROVE TalkInv'
<1> USE DEF IInv, Inv, TalkInv
<1>1. /\ task.chat /\ task'.chat = task.chat /\ task'.target = task.target
      /\ task'.draft = task.draft
      /\ task'.submitted = task.submitted /\ task'.answer = task.answer
      /\ task'.decision = task.decision /\ task'.reply = task.reply
      /\ task'.replied = task.replied /\ task'.round = task.round
      /\ task'.iterations = task.iterations /\ task'.title
  BY DEF TitlePrefix, TypeOK, Task
<1>2. UNCHANGED page BY DEF TitlePrefix
<1>3. TaskInv' BY <1>1 DEF TaskInv, Judged, Continuing
<1>4. PageInv' BY <1>1, <1>2 DEF PageInv, Judged, Round0, page
<1> QED BY <1>3, <1>4, RunAtRest DEF TitlePrefix, NextStep

\* What a decision needs: it is about the answer to the last message.
LEMMA AtDecision ==
  ASSUME IInv, At("gateway_decision")
  PROVE  /\ task.answer # None /\ task.title /\ ~Judged /\ ~task.reply /\ ~task.replied
         /\ sent = task.round + 1 /\ composer # "prompt"
<1> USE DEF IInv, Inv, TalkInv
<1>1. task.answer # None /\ task.title /\ ~Judged
  BY DEF At, RunInv, MissingStage, PromptStage, AnswerStage, OnTarget, Judged
<1>2. ~task.reply /\ ~task.replied BY <1>1 DEF TaskInv
<1>3. CASE task.round = 0 BY <1>1, <1>2, <1>3 DEF PageInv, Round0
<1>4. CASE task.round > 0 BY <1>1, <1>2, <1>4 DEF PageInv
<1> QED BY <1>1, <1>2, <1>3, <1>4 DEF TypeOK, Task

LEMMA GatewayDecisionStep == ASSUME IInv, GatewayDecision PROVE TalkInv'
<1> USE DEF IInv, Inv, TalkInv
<1>1. /\ task.answer # None /\ task.title /\ ~Judged /\ ~task.reply /\ ~task.replied
      /\ sent = task.round + 1 /\ composer # "prompt"
  BY AtDecision DEF GatewayDecision
<1>2. PICK d \in Decision :
        /\ task' = [task EXCEPT !.decision = d, !.iterations = @ + 1, !.status = "executing"]
        /\ NextStep \/ \E r \in DecisionStop : EndRound(r)
  BY Decided
<1>3. /\ task'.chat = task.chat /\ task'.target = task.target /\ task'.draft = task.draft
      /\ task'.submitted = task.submitted /\ task'.answer = task.answer
      /\ task'.decision = d /\ task'.reply = task.reply /\ task'.title = task.title
      /\ task'.replied = task.replied /\ task'.round = task.round
      /\ task'.iterations = task.iterations + 1
  BY <1>2 DEF TypeOK, Task
<1>4. d # None BY CycleAssumption DEF Decision
<1>5. UNCHANGED page BY DEF GatewayDecision
<1>6. TaskInv' BY <1>1, <1>3, <1>4 DEF TaskInv, Judged, TypeOK, Task
<1>7. PageInv' BY <1>1, <1>3, <1>4, <1>5 DEF PageInv, Judged, Round0, page
<1>8. RunInv' BY <1>2, RunAtRest, RunAtEnd DEF NextStep, DecisionStop, RoundStop
<1> QED BY <1>6, <1>7, <1>8

-----------------------------------------------------------------------------
\* The steps of a reply, and the end of a round.
LEMMA ReplyDraftSteps ==
  ASSUME IInv, ReplyDraft \/ ReplyDraftRecord PROVE TalkInv'
<1> USE DEF IInv, Inv, TalkInv
<1>1. CASE ReplyDraft
  <2>1. Judged /\ ~task.reply /\ ~task.replied
    BY <1>1 DEF ReplyDraft, At, RunInv, MissingStage, PromptStage, AnswerStage, OnTarget,
                Judged, TaskInv
  <2>2. Continuing(task.decision) => task.iterations < MaxIterations
    BY <1>1, CycleAssumption DEF ReplyDraft, BudgetExhausted, TypeOK, Task
  <2>3. task' = task /\ composer' = "reply" /\ sent' = sent /\ answered' = answered
    BY <1>1 DEF ReplyDraft
  <2>4. TaskInv' BY <2>3 DEF TaskInv, Judged
  <2>5. PageInv' BY <2>1, <2>3 DEF PageInv, Judged, Round0
  <2>6. RunInv' BY <1>1, <2>1, <2>2, <2>3 DEF RunInv, Judged, ReplyDraft, At
  <2> QED BY <2>4, <2>5, <2>6
<1>2. CASE ReplyDraftRecord
  <2>1. /\ Judged /\ ~task.reply /\ ~task.replied /\ composer = "reply"
        /\ (Continuing(task.decision) => task.iterations < MaxIterations)
    BY <1>2 DEF ReplyDraftRecord, RunInv, TaskInv
  <2>2. /\ task'.chat = task.chat /\ task'.target = task.target /\ task'.draft = task.draft
        /\ task'.submitted = task.submitted /\ task'.answer = task.answer
        /\ task'.decision = task.decision /\ task'.reply /\ task'.title = task.title
        /\ task'.replied = task.replied /\ task'.round = task.round
        /\ task'.iterations = task.iterations
    BY <1>2 DEF ReplyDraftRecord, TypeOK, Task
  <2>3. UNCHANGED page BY <1>2 DEF ReplyDraftRecord
  <2>4. TaskInv' BY <2>1, <2>2 DEF TaskInv, Judged, Continuing
  <2>5. PageInv' BY <2>1, <2>2, <2>3 DEF PageInv, Judged, Round0, page
  <2> QED BY <1>2, <2>4, <2>5, RunAtRest DEF ReplyDraftRecord, NextStep
<1> QED BY <1>1, <1>2

\* What a reply needs: it follows the decision, and is sent once.
LEMMA AtReply ==
  ASSUME IInv, ReplySubmit
  PROVE  /\ Judged /\ task.reply /\ ~task.replied /\ task' = task
         /\ answered' = answered
         /\ \/ /\ sent = task.round + 1 /\ sent' = sent + 1 /\ composer' = "empty"
            \/ sent' = sent /\ composer' = composer
<1> USE DEF IInv, Inv, TalkInv
<1>1. Judged /\ task.reply /\ ~task.replied
  BY DEF ReplySubmit, At, RunInv, MissingStage, PromptStage, AnswerStage, OnTarget, Judged
<1> QED BY <1>1 DEF ReplySubmit, Click, PageInv

LEMMA ReplySubmitSteps ==
  ASSUME IInv, ReplySubmit \/ ReplySubmitRecord PROVE TalkInv'
<1> USE DEF IInv, Inv, TalkInv
<1>1. CASE ReplySubmit
  <2>1. TaskInv' BY <1>1, AtReply DEF TaskInv, Judged
  <2>2. PageInv' BY <1>1, AtReply DEF PageInv, Judged, Round0, TypeOK, Task
  <2>3. RunInv'
    <3>1. CASE EndRound("blocked") BY <3>1, RunAtEnd DEF RoundStop
    <3>2. CASE Confirmed /\ pc' = "record" /\ UNCHANGED <<stage, run>>
      <4>1. composer' = "empty" /\ task'.reply /\ ~task'.replied /\ Judged'
        BY <1>1, <3>2, AtReply DEF Confirmed, Judged
      <4>2. sent' = task'.round + 2 BY <4>1, <2>2 DEF PageInv
      <4> QED BY <1>1, <3>2, <4>1, <4>2 DEF RunInv, ReplySubmit, At
    <3> QED BY <1>1, <3>1, <3>2 DEF ReplySubmit
  <2> QED BY <2>1, <2>2, <2>3
<1>2. CASE ReplySubmitRecord
  <2>1. Judged /\ task.reply /\ ~task.replied /\ composer = "empty" /\ sent = task.round + 2
    BY <1>2 DEF ReplySubmitRecord, RunInv
  <2>2. /\ task'.chat = task.chat /\ task'.target = task.target /\ task'.draft = task.draft
        /\ task'.submitted = task.submitted /\ task'.answer = task.answer
        /\ task'.decision = task.decision /\ task'.reply = task.reply
        /\ task'.title = task.title /\ task'.replied /\ task'.round = task.round
        /\ task'.iterations = task.iterations
    BY <1>2 DEF ReplySubmitRecord, TypeOK, Task
  <2>3. UNCHANGED page BY <1>2 DEF ReplySubmitRecord
  <2>4. TaskInv' BY <2>1, <2>2 DEF TaskInv, Judged, Continuing
  <2>5. PageInv' BY <2>1, <2>2, <2>3 DEF PageInv, Judged, Round0, page
  <2> QED BY <1>2, <2>4, <2>5, RunAtRest DEF ReplySubmitRecord, NextStep
<1> QED BY <1>1, <1>2

LEMMA AtReset ==
  ASSUME IInv, ResetRound
  PROVE  /\ task.replied /\ task.reply /\ Judged /\ task.title /\ task.chat
         /\ sent = task.round + 2 /\ composer = "empty"
         /\ task'.chat /\ task'.title /\ task'.submitted /\ task'.answer = None
         /\ task'.decision = None /\ ~task'.reply /\ ~task'.replied
         /\ task'.round = task.round + 1 /\ task'.iterations = task.iterations
<1> USE DEF IInv, Inv, TalkInv
<1>1. task.replied BY DEF ResetRound, RunInv
<1>2. task.reply /\ Judged /\ task.title /\ task.chat BY <1>1 DEF TaskInv
<1>3. sent = task.round + 2 /\ composer = "empty" BY <1>1 DEF PageInv
<1>4. /\ task'.chat = task.chat /\ task'.title = task.title
      /\ task'.submitted = task.replied /\ task'.answer = None
      /\ task'.decision = None /\ ~task'.reply /\ ~task'.replied
      /\ task'.round = task.round + 1 /\ task'.iterations = task.iterations
  BY DEF ResetRound, TypeOK, Task
<1> QED BY <1>1, <1>2, <1>3, <1>4

LEMMA ResetRoundStep == ASSUME IInv, ResetRound PROVE TalkInv'
<1> USE DEF IInv, Inv, TalkInv
<1>1. ~Judged' BY AtReset DEF Judged
<1>2. TaskInv' BY <1>1, AtReset DEF TaskInv, TypeOK, Task
<1>3. UNCHANGED page BY DEF ResetRound
<1>4. PageInv' BY <1>1, <1>3, AtReset DEF PageInv, Round0, page, TypeOK, Task
<1> QED BY <1>2, <1>4, RunAtRest DEF ResetRound

LEMMA OutcomeStep == ASSUME IInv, Outcome PROVE TalkInv'
<1> USE DEF IInv, Inv, TalkInv
<1>1. /\ task'.chat = task.chat /\ task'.draft = task.draft
      /\ (task'.target => task.target) /\ (~task.chat /\ task.target => task'.target)
      /\ task'.submitted = task.submitted /\ task'.answer = task.answer
      /\ task'.decision = task.decision /\ task'.reply = task.reply
      /\ task'.title = task.title /\ task'.replied = task.replied
      /\ task'.round = task.round /\ task'.iterations = task.iterations
  <2>1. CASE task' = [task EXCEPT !.status = OutcomeStatus]
    <3>1. SameTask BY <2>1 DEF SameTask, TypeOK, Task
    <3> QED BY <3>1 DEF SameTask
  <2>2. CASE /\ task.chat
             /\ task' = [task EXCEPT !.status = "completed", !.target = FALSE, !.ready = FALSE]
    BY <2>2 DEF TypeOK, Task
  <2> QED BY <2>1, <2>2 DEF Outcome
<1>2. UNCHANGED page BY DEF Outcome
<1>3. TaskInv' BY <1>1 DEF TaskInv, Judged, Continuing
<1>4. PageInv' BY <1>1, <1>2 DEF PageInv, Judged, Round0, page
<1> QED BY <1>3, <1>4, RunAtRest DEF Outcome, EndRun

\* The page on its own: the assistant answers, and the composer keeps its text.
LEMMA PageSteps ==
  ASSUME OwnConversation, IInv, AssistantAnswers \/ PageReloads PROVE TalkInv'
<1> USE DEF IInv, Inv, TalkInv
<1>1. /\ AssistantAnswers /\ task' = task /\ composer' = composer /\ sent' = sent
      /\ answered' <= sent' /\ UNCHANGED <<pc, stage, run>>
  BY DEF AssistantAnswers, PageReloads, OwnConversation, TypeOK
<1>2. TaskInv' BY <1>1 DEF TaskInv, Judged
<1>3. PageInv' BY <1>1 DEF PageInv, Judged, Round0
<1>4. MissingStage' = MissingStage
  BY <1>1 DEF MissingStage, PromptStage, AnswerStage, OnTarget
<1>5. RunInv' BY <1>1, <1>4 DEF RunInv, Judged, Round0
<1> QED BY <1>2, <1>3, <1>5

-----------------------------------------------------------------------------
\* IInv is inductive.
LEMMA TalkStep == ASSUME OwnConversation, IInv, [Next]_vars PROVE TalkInv'
<1>1. CASE \/ StepsExhausted \/ StepOnHold \/ StepStage \/ CooldownGate \/ StageStops
           \/ ReplyBudget \/ Complete \/ Verdict \/ RunStart \/ Crash \/ UNCHANGED vars
  <2>1. UNCHANGED <<task, page>>
    BY <1>1 DEF StepsExhausted, StepOnHold, StepStage, CooldownGate, StageStops, ReplyBudget,
                Complete, Verdict, RunStart, Crash, vars, page
  <2> QED BY <1>1, <2>1, QuietSteps
<1>2. CASE RateLimited \/ RoundEnd \/ RunRefused \/ Manage \/ CooldownExpires
  BY <1>2, FrameSteps
<1>3. CASE ChatBind BY <1>3, ChatBindStep
<1>4. CASE ComposerPreflight \/ PromptDraft \/ PromptDraftRecord BY <1>4, PromptSteps
<1>5. CASE PromptSubmit \/ PromptSubmitRecord \/ PreSubmitRebind BY <1>5, SubmitSteps
<1>6. CASE AnswerCapture \/ AnswerMissing BY <1>6, CaptureSteps
<1>7. CASE TitlePrefix BY <1>7, TitlePrefixStep
<1>8. CASE GatewayDecision BY <1>8, GatewayDecisionStep
<1>9. CASE ReplyDraft \/ ReplyDraftRecord BY <1>9, ReplyDraftSteps
<1>10. CASE ReplySubmit \/ ReplySubmitRecord BY <1>10, ReplySubmitSteps
<1>11. CASE ResetRound BY <1>11, ResetRoundStep
<1>12. CASE Outcome BY <1>12, OutcomeStep
<1>13. CASE AssistantAnswers \/ PageReloads BY <1>13, PageSteps
<1> QED
  BY <1>1, <1>2, <1>3, <1>4, <1>5, <1>6, <1>7, <1>8, <1>9, <1>10, <1>11, <1>12, <1>13
  DEF Next, RunStep

LEMMA Inductive == ASSUME OwnConversation PROVE Spec => []IInv
<1>1. Init => IInv BY TypeInit, DoneInit, TalkInit DEF IInv, Inv
<1>2. IInv /\ [Next]_vars => IInv'
  <2> SUFFICES ASSUME IInv, [Next]_vars PROVE IInv' OBVIOUS
  <2>1. TypeOK' /\ DoneInv' BY Typing, DoneStep DEF IInv, Inv
  <2>2. TalkInv' BY TalkStep
  <2> QED BY <2>1, <2>2 DEF IInv, Inv
<1> QED BY <1>1, <1>2, PTL DEF Spec

\* For every bound and any number of runs, stops and crashes: a reply that the
\* task file records as sent is in the conversation (executeReplySubmitStage).
THEOREM NoPhantom == ASSUME OwnConversation PROVE Spec => []NoPhantomReply
<1>1. IInv => NoPhantomReply
  BY CycleAssumption
  DEF OwnConversation, IInv, Inv, TalkInv, PageInv, NoPhantomReply, TypeOK, Task
<1> QED BY <1>1, Inductive, PTL

\* The steps that neither speak nor judge.
SameTalk == sent' = sent /\ task'.round = task.round /\ task'.decision = task.decision

LEMMA SilentSteps ==
  ASSUME IInv,
         \/ StepsExhausted \/ StepOnHold \/ StepStage \/ CooldownGate \/ StageStops
         \/ ReplyBudget \/ Complete \/ Verdict \/ RunStart \/ Crash \/ UNCHANGED vars
         \/ RateLimited \/ RoundEnd \/ RunRefused \/ Manage \/ CooldownExpires
         \/ PromptDraftRecord \/ PromptSubmitRecord \/ AnswerCapture \/ AnswerMissing
         \/ TitlePrefix \/ ReplyDraft \/ ReplyDraftRecord \/ ReplySubmitRecord \/ Outcome
         \/ AssistantAnswers \/ PageReloads
  PROVE  SameTalk
<1> USE DEF IInv, Inv, TalkInv, SameTalk, page
<1>1. CASE \/ StepsExhausted \/ StepOnHold \/ StepStage \/ CooldownGate \/ StageStops
           \/ ReplyBudget \/ Complete \/ Verdict \/ RunStart \/ Crash \/ UNCHANGED vars
           \/ ReplyDraft \/ AssistantAnswers \/ PageReloads
  BY <1>1 DEF StepsExhausted, StepOnHold, StepStage, CooldownGate, StageStops, ReplyBudget,
              Complete, Verdict, RunStart, Crash, vars, ReplyDraft, AssistantAnswers, PageReloads
<1>2. CASE RateLimited \/ RoundEnd \/ RunRefused \/ Manage \/ CooldownExpires \/ TitlePrefix
  BY <1>2 DEF TypeOK, Task, RateLimited, RoundEnd, RunRefused, Manage, CooldownExpires, TitlePrefix
<1>3. CASE PromptDraftRecord \/ PromptSubmitRecord \/ ReplyDraftRecord \/ ReplySubmitRecord
  BY <1>3 DEF TypeOK, Task, PromptDraftRecord, PromptSubmitRecord, ReplyDraftRecord,
              ReplySubmitRecord
<1>4. CASE Outcome BY <1>4 DEF TypeOK, Task, Outcome
<1>5. CASE AnswerCapture
  <2>1. PICK e \in EarlyTitle : \E a \in Captured, c \in BOOLEAN \cup {e.chat} :
           task' = [e EXCEPT !.answer = a, !.chat = c, !.status = "evaluating"]
    BY <1>5 DEF AnswerCapture
  <2>2. e \in Task /\ e.round = task.round /\ e.decision = task.decision
    BY EarlyTitleFields DEF TaskInv
  <2> QED BY <1>5, <2>1, <2>2 DEF AnswerCapture, Task
<1>6. CASE AnswerMissing BY <1>6, EarlyTitleFields DEF AnswerMissing, TaskInv
<1> QED BY <1>1, <1>2, <1>3, <1>4, <1>5, <1>6

\* The steps that may start over, on a new page, before the prompt is out.
LEMMA FreshSteps ==
  ASSUME IInv, ChatBind \/ ComposerPreflight \/ PromptDraft \/ PreSubmitRebind
  PROVE  \/ SameTalk
         \/ ~task.submitted /\ sent' = 0 /\ task'.round = task.round /\ task'.decision = task.decision
<1> USE DEF IInv, Inv, TalkInv, SameTalk, page
<1>1. task'.round = task.round /\ task'.decision = task.decision
  <2>1. CASE ChatBind \/ ComposerPreflight \/ PromptDraft
    BY <2>1 DEF ChatBind, ComposerPreflight, PromptDraft, Bound, TypeOK, Task
  <2>2. CASE PreSubmitRebind
    <3> DEFINE u == Unbound(task)
    <3>1. u \in Task BY TaskUpdates DEF TypeOK
    <3>2. u.round = task.round /\ u.decision = task.decision BY DEF Unbound, TypeOK, Task
    <3>3. task' = u \/ task' = Bound(u) BY <2>2 DEF PreSubmitRebind
    <3> HIDE DEF u
    <3> QED BY <3>1, <3>2, <3>3 DEF Bound, Task
  <2> QED BY <2>1, <2>2
<1>2. CASE ChatBind
  <2>1. ~task.target
    BY <1>2 DEF ChatBind, At, RunInv, MissingStage, PromptStage, AnswerStage, OnTarget
  <2> QED BY <1>1, <1>2, <2>1 DEF ChatBind, OpenPage, TaskInv
<1>3. CASE ComposerPreflight \/ PromptDraft \/ PreSubmitRebind
  <2>1. ~task.submitted BY <1>3, AtPrompt DEF ComposerPreflight, PromptDraft, PreSubmitRebind
  <2>2. sent' = sent \/ sent' = 0
    BY <1>3 DEF ComposerPreflight, PromptDraft, PreSubmitRebind, OpenPage
  <2> QED BY <1>1, <2>1, <2>2
<1> QED BY <1>2, <1>3

\* A step of the cycle is a step of Dialogue, or none.
LEMMA DialogueStep ==
  ASSUME OwnConversation, IInv, [Next]_vars PROVE [Conversation!Next]_(Conversation!vars)
<1> DEFINE judged == task.round + IF task.decision = None THEN 0 ELSE 1
<1> USE DEF IInv, Inv, TalkInv
<1>0. sent - History = sent /\ sent' - History = sent' /\ task.round \in Nat /\ task'.round \in Nat
  <2>1. TypeOK' BY Typing
  <2>2. sent \in Nat /\ sent' \in Nat /\ task \in Task /\ task' \in Task BY <2>1 DEF TypeOK
  <2>3. task.round \in Nat /\ task'.round \in Nat BY <2>2 DEF Task
  <2>4. History = 0 BY DEF OwnConversation
  <2>6. \A n \in Nat : n - 0 = n OBVIOUS
  <2>5. sent - 0 = sent /\ sent' - 0 = sent' BY <2>2, <2>6
  <2> QED BY ONLY <2>3, <2>4, <2>5
<1>1. CASE SameTalk BY <1>1 DEF SameTalk, Conversation!vars
<1>2. CASE ~task.submitted /\ sent' = 0 /\ task'.round = task.round /\ task'.decision = task.decision
  <2>1. judged = 0 /\ judged' = judged BY <1>0, <1>2, Unsent DEF Judged
  <2> QED BY <1>0, <1>2, <2>1 DEF Conversation!Next, Conversation!StartOver
<1>3. CASE PromptSubmit
  <2>1. task' = task /\ ~task.submitted BY <1>3, AtPrompt DEF PromptSubmit
  <2>2. judged = 0 /\ judged' = judged /\ task.decision = None
    BY <1>0, <2>1, Unsent DEF Judged
  <2>3. CASE sent' = sent BY <2>1, <2>3, <1>1 DEF SameTalk
  <2>4. CASE sent' # sent
    <3>1. composer # "empty" /\ sent' = sent + 1 BY <1>3, <2>4 DEF PromptSubmit, Click
    <3>2. sent = 0
      BY <1>0, <2>1, <2>2, <3>1, Unsent DEF PageInv, Round0, Judged, TypeOK
    <3>3. None \notin Topic BY CycleAssumption
    <3> QED BY <1>0, <2>1, <2>2, <3>1, <3>2, <3>3 DEF Conversation!Next, Conversation!Say
  <2> QED BY <2>3, <2>4
<1>4. CASE GatewayDecision
  <2>1. task.decision = None /\ sent = task.round + 1 BY <1>4, AtDecision DEF GatewayDecision, Judged
  <2>2. PICK d \in Decision :
           task' = [task EXCEPT !.decision = d, !.iterations = @ + 1, !.status = "executing"]
    BY <1>4, Decided
  <2>3. task'.decision = d /\ task'.round = task.round BY <2>2 DEF TypeOK, Task
  <2>4. sent' = sent BY <1>4 DEF GatewayDecision, page
  <2>5. d # None BY CycleAssumption DEF Decision
  <2> QED BY <1>0, <2>1, <2>3, <2>4, <2>5 DEF Conversation!Next, Conversation!Judge
<1>5. CASE ReplySubmit
  <2>1. task' = task /\ Judged /\ task.reply BY <1>5, AtReply
  <2>2. CASE sent' = sent BY <2>1, <2>2, <1>1 DEF SameTalk
  <2>3. CASE sent = task.round + 1 /\ sent' = sent + 1
    <3>1. judged = task.round + 1 /\ judged' = judged BY <2>1 DEF Judged
    <3>2. Continuing(task.decision) => judged < MaxIterations
      BY <2>1, <3>1 DEF TaskInv
    <3> QED BY <1>0, <2>1, <2>3, <3>1, <3>2 DEF Conversation!Next, Conversation!Say, Continuing
  <2> QED BY <1>5, <2>2, <2>3, AtReply
<1>6. CASE ResetRound
  <2>1. sent' = sent BY <1>6 DEF ResetRound, page
  <2>2. task.decision # None /\ sent = task.round + 2 /\ task'.decision = None
        /\ task'.round = task.round + 1
    BY <1>6, AtReset DEF Judged
  <2> QED BY <1>0, <2>1, <2>2 DEF Conversation!Next, Conversation!Listen
<1> QED
  BY <1>1, <1>2, <1>3, <1>4, <1>5, <1>6, SilentSteps, FreshSteps DEF Next, RunStep

\* For every budget, bound and number of runs, and whatever stops and crashes
\* lie between: the cycle implements Dialogue (detectEngineCycleStage,
\* resetEngineCycleRoundState, submitDraft, executeReplyDraftStage).
THEOREM Conversing == ASSUME OwnConversation PROVE Spec => Converses
<1>1. Init => Conversation!Init
  BY CycleAssumption DEF OwnConversation, Init, Conversation!Init
<1>2. IInv /\ [Next]_vars => [Conversation!Next]_(Conversation!vars) BY DialogueStep
<1> QED BY <1>1, <1>2, Inductive, PTL DEF Spec, Converses, Conversation!Spec

-----------------------------------------------------------------------------
\* The answers of a task, its own conversation's or an adopted one's, read from the page
\* or from the backend.

\* What the fields that tell of answers imply of one another, whatever the page
\* did with the composer.
FreshTask ==
    /\ task.title => task.chat
    /\ task.answer # None \/ task.title => task.submitted
    /\ task.round > 0 \/ Judged => task.title
    /\ Judged => task.answer # None

\* Where a run may be: a prompt is submitted before there is an answer, and a round
\* is reset after its answer was judged and replied to.
FreshRun ==
    /\ pc = "stage" => stage = MissingStage
    /\ pc = "record" /\ stage = "prompt_submit" => ~task.submitted /\ task.answer = None
    /\ pc \in {"roundEnd", "verdict"} /\ run.stop = "complete" => Judged /\ task.replied
    /\ pc = "reset" => Judged /\ task.replied

\* The answer of a round is still on the page, and from the second round on the
\* baseline is the answer of the round before.
FreshPage ==
    /\ task.answer # None /\ task.chat => task.answer.n <= answered
    /\ task.round > 0 => task.baseline # None /\ task.baseline.n <= answered
    /\ AnswersAdvance

FreshInv == FreshTask /\ FreshRun /\ FreshPage

\* A step that leaves alone what the invariant says of the task, and loses no
\* answer of a conversation that is known.
SameFields ==
    /\ task'.chat = task.chat /\ task'.submitted = task.submitted
    /\ task'.baseline = task.baseline /\ task'.answer = task.answer
    /\ task'.title = task.title /\ task'.decision = task.decision
    /\ task'.replied = task.replied /\ task'.round = task.round
SameFacts == SameFields /\ (task.chat => answered <= answered')

LEMMA FreshFrame ==
  ASSUME TypeOK, TypeOK', FreshTask, FreshPage, SameFacts
  PROVE  FreshTask' /\ FreshPage' /\ Judged' = Judged
<1> USE DEF SameFacts, SameFields
<1>1. Judged' = Judged BY DEF Judged
<1>2. FreshTask' BY <1>1 DEF FreshTask
<1>3. task.round > 0 => task.chat BY DEF FreshTask
<1>4. answered \in Nat /\ answered' \in Nat BY DEF TypeOK
<1>5. /\ task.answer # None => task.answer.n \in Nat
      /\ task.baseline # None => task.baseline.n \in Nat
  BY DEF TypeOK, Task, Answer
<1>6. FreshPage' BY <1>3, <1>4, <1>5 DEF FreshPage, AnswersAdvance
<1> QED BY <1>1, <1>2, <1>6

\* A run that goes on, ends its round or waits for a record.
LEMMA FreshRest ==
  ASSUME TypeOK,
         \/ pc' \in {"step", "idle", "outcome"}
         \/ pc' = "record" /\ stage' # "prompt_submit"
         \/ \E r \in RoundStop \ {"complete"} : EndRound(r)
  PROVE  FreshRun'
BY DEF FreshRun, EndRound, TypeOK, Run

LEMMA FreshInit == ASSUME Init PROVE FreshInv
BY CycleAssumption
   DEF AnswersAdvance, Init, FreshInv, FreshTask, FreshRun, FreshPage, Judged

\* The fields in whose order the stages come.
LEMMA SameStage == ASSUME SameTask PROVE MissingStage' = MissingStage
BY DEF SameTask, MissingStage, PromptStage, AnswerStage, OnTarget

\* The steps of a run that change nothing the invariant knows of the task.
LEMMA FreshStages ==
  ASSUME Inv, Inv', FreshInv,
         \/ StepsExhausted \/ StepOnHold \/ StepStage \/ CooldownGate \/ StageStops
         \/ RateLimited \/ ChatBind \/ ComposerPreflight \/ PromptDraft \/ PromptDraftRecord
         \/ PromptSubmit \/ ReplyBudget \/ ReplyDraft \/ ReplyDraftRecord \/ ReplySubmit
  PROVE  FreshInv'
<1> USE DEF Inv, FreshInv
<1>0. answered \in Nat /\ answered' \in Nat BY DEF TypeOK
<1>1. SameFacts
  <2>1. CASE UNCHANGED <<task, answered>> BY <1>0, <2>1 DEF SameFacts, SameFields
  <2>2. CASE RateLimited \/ PromptDraftRecord \/ ReplyDraftRecord
    <3>1. SameFields
      <4>1. CASE RateLimited BY <4>1 DEF SameFields, RateLimited, TypeOK, Task
      <4>2. CASE PromptDraftRecord BY <4>2 DEF SameFields, PromptDraftRecord, TypeOK, Task
      <4>3. CASE ReplyDraftRecord BY <4>3 DEF SameFields, ReplyDraftRecord, TypeOK, Task
      <4> QED BY <2>2, <4>1, <4>2, <4>3
    <3>2. answered' = answered
      BY <2>2 DEF RateLimited, PromptDraftRecord, ReplyDraftRecord, page
    <3> QED BY <1>0, <3>1, <3>2 DEF SameFacts
  <2>3. CASE ChatBind \/ ComposerPreflight
    <3>1. SameFields
      BY <2>3 DEF SameFields, ChatBind, ComposerPreflight, Bound, TypeOK, Task
    <3>2. task.chat => answered' = answered
      BY <2>3 DEF ChatBind, ComposerPreflight, OpenPage, page
    <3> QED BY <1>0, <3>1, <3>2 DEF SameFacts
  <2>4. CASE PromptDraft
    <3>1. SameFields BY <2>4 DEF SameFields, PromptDraft, Bound, TypeOK, Task
    <3>2. task.chat => answered' = answered BY <2>4 DEF PromptDraft
    <3> QED BY <1>0, <3>1, <3>2 DEF SameFacts
  <2> QED
    BY <2>1, <2>2, <2>3, <2>4 DEF StepsExhausted, StepOnHold, StepStage, CooldownGate,
       StageStops, PromptSubmit, ReplyBudget, ReplyDraft, ReplySubmit, page
<1>2. FreshRun'
  <2>1. CASE StepsExhausted \/ StepOnHold \/ CooldownGate \/ ReplyBudget
    BY <2>1, FreshRest DEF StepsExhausted, StepOnHold, CooldownGate, ReplyBudget, RoundStop
  <2>2. CASE StageStops
    <3>1. PICK r \in StopReason[stage] : EndRound(r) BY <2>2 DEF StageStops
    <3>2. stage \in Stages BY <2>2 DEF StageStops, TypeOK
    <3>3. r \in RoundStop \ {"complete"} BY <3>1, <3>2 DEF Stages, StopReason, RoundStop
    <3> QED BY <3>1, <3>3, FreshRest
  <2>3. CASE StepStage
    <3>1. SameTask BY <2>3 DEF StepStage, SameTask
    <3> QED BY <2>3, <3>1, SameStage DEF StepStage, FreshRun
  <2>4. CASE RateLimited BY <2>4, FreshRest DEF RateLimited, NextStep, RoundStop
  <2>5. CASE ChatBind \/ ComposerPreflight \/ PromptDraftRecord \/ ReplyDraftRecord
    BY <2>5, FreshRest DEF ChatBind, ComposerPreflight, PromptDraftRecord, ReplyDraftRecord,
                           NextStep
  <2>6. CASE PromptDraft \/ ReplyDraft
    BY <2>6, FreshRest DEF PromptDraft, ReplyDraft, At
  <2>7. CASE PromptSubmit
    <3>1. MissingStage = "prompt_submit" BY <2>7 DEF PromptSubmit, At, FreshRun
    <3>2. ~task.submitted /\ task.answer = None
      BY <3>1 DEF MissingStage, PromptStage, AnswerStage, OnTarget
    <3> QED BY <2>7, <3>2 DEF PromptSubmit, At, FreshRun
  <2>8. CASE ReplySubmit
    BY <2>8, FreshRest DEF ReplySubmit, At, RoundStop
  <2> QED BY <2>1, <2>2, <2>3, <2>4, <2>5, <2>6, <2>7, <2>8
<1> QED BY <1>1, <1>2, FreshFrame

\* The steps at the end of a round, and what happens around a run.
LEMMA FreshAround ==
  ASSUME Inv, Inv', FreshInv,
         \/ Complete \/ RoundEnd \/ Verdict \/ Outcome \/ RunStart \/ RunRefused \/ Crash
         \/ Manage \/ CooldownExpires \/ AssistantAnswers \/ PageReloads \/ UNCHANGED vars
  PROVE  FreshInv'
<1> USE DEF Inv, FreshInv
<1>0. answered \in Nat /\ answered' \in Nat BY DEF TypeOK
<1>1. SameFacts
  <2>1. CASE task' = task /\ answered' \in {answered, answered + 1}
    BY <1>0, <2>1 DEF SameFacts, SameFields
  <2>2. CASE RoundEnd \/ Outcome \/ RunRefused \/ Manage \/ CooldownExpires
    <3>1. SameFields
      <4>1. CASE RoundEnd BY <4>1 DEF SameFields, RoundEnd, TypeOK, Task
      <4>2. CASE Outcome BY <4>2 DEF SameFields, Outcome, TypeOK, Task
      <4>3. CASE RunRefused BY <4>3 DEF SameFields, RunRefused, TypeOK, Task
      <4>4. CASE Manage BY <4>4 DEF SameFields, Manage, TypeOK, Task
      <4>5. CASE CooldownExpires BY <4>5 DEF SameFields, CooldownExpires, TypeOK, Task
      <4> QED BY <2>2, <4>1, <4>2, <4>3, <4>4, <4>5
    <3>2. answered' = answered
      BY <2>2 DEF RoundEnd, Outcome, RunRefused, Manage, CooldownExpires, page
    <3> QED BY <1>0, <3>1, <3>2 DEF SameFacts
  <2> QED BY <2>1, <2>2 DEF Complete, Verdict, RunStart, Crash, AssistantAnswers, PageReloads,
                            page, vars
<1>2. Judged' = Judged /\ task'.replied = task.replied BY <1>1 DEF SameFacts, SameFields, Judged
<1>3. FreshRun'
  <2>1. CASE Complete
    <3>1. MissingStage = "complete" BY <2>1 DEF Complete, At, FreshRun
    <3>2. Judged /\ task.replied
      BY <3>1 DEF MissingStage, PromptStage, AnswerStage, OnTarget, Judged
    <3> QED BY <1>2, <2>1, <3>2 DEF Complete, EndRound, FreshRun
  <2>2. CASE RoundEnd
    <3>1. run'.stop = run.stop BY <2>2 DEF RoundEnd, TypeOK, Run
    <3> QED BY <1>2, <2>2, <3>1 DEF RoundEnd, FreshRun
  <2>3. CASE Verdict
    <3>1. PICK stop \in FinalStop : /\ run' = [run EXCEPT !.stop = stop]
                                    /\ pc' = IF stop = None THEN "reset" ELSE "outcome"
      BY <2>3 DEF Verdict
    <3>2. run.stop \in RoundStop BY <2>3 DEF Verdict, DoneInv
    <3>3. stop = None => run.stop = "complete"
      BY <3>1, <3>2, StopAssumption, Stops DEF FinalStop, RunStop, RoundStop
    <3> QED BY <1>2, <2>3, <3>1, <3>3 DEF Verdict, FreshRun
  <2>4. CASE Outcome \/ RunStart \/ Crash
    BY <2>4, FreshRest DEF Outcome, RunStart, Crash, EndRun
  <2>5. CASE RunRefused \/ Manage \/ CooldownExpires
    <3>1. SameTask
      BY <2>5 DEF SameTask, RunRefused, Manage, CooldownExpires, TypeOK, Task
    <3>2. UNCHANGED <<pc, stage, run>> BY <2>5 DEF RunRefused, Manage, CooldownExpires
    <3> QED BY <1>1, <1>2, <3>1, <3>2, SameStage DEF FreshRun, SameFacts, SameFields
  <2>6. CASE AssistantAnswers \/ PageReloads \/ UNCHANGED vars
    <3>1. SameTask BY <2>6 DEF SameTask, AssistantAnswers, PageReloads, vars
    <3>2. UNCHANGED <<pc, stage, run>> BY <2>6 DEF AssistantAnswers, PageReloads, vars
    <3> QED BY <1>1, <1>2, <3>1, <3>2, SameStage DEF FreshRun, SameFacts, SameFields
  <2> QED BY <2>1, <2>2, <2>3, <2>4, <2>5, <2>6
<1> QED BY <1>1, <1>3, FreshFrame

\* The steps of a prompt that tell something about the conversation: in the first
\* round, before there is an answer.
LEMMA FreshPrompts ==
  ASSUME Inv, Inv', FreshInv, PromptSubmitRecord \/ PreSubmitRebind
  PROVE  FreshInv'
<1> USE DEF Inv, FreshInv
<1>1. ~task.submitted /\ task.answer = None
  <2>1. CASE PromptSubmitRecord BY <2>1 DEF PromptSubmitRecord, FreshRun
  <2>2. CASE PreSubmitRebind BY <2>2 DEF PreSubmitRebind, PreSubmit
  <2> QED BY <2>1, <2>2
<1>2. task.round = 0 /\ ~Judged /\ ~task.title
  BY <1>1 DEF FreshTask, TypeOK, Task
<1>3. CASE PromptSubmitRecord
  <2>3. PICK c \in {task.chat, task.chat \/ sent > 0} :
          task' = [task EXCEPT !.submitted = TRUE, !.chat = c,
                     !.baseline = IF run.base # None THEN run.base ELSE @,
                     !.status = "waiting_assistant"]
    BY <1>3 DEF PromptSubmitRecord
  <2>1. PICK b : task' = [task EXCEPT !.submitted = TRUE, !.chat = c, !.baseline = b,
                            !.status = "waiting_assistant"]
    BY <2>3
  <2>2. task'.submitted /\ task'.answer = None /\ task'.round = 0 /\ task'.decision = None
        /\ ~task'.title
    BY <1>1, <1>2, <2>1 DEF TypeOK, Task, Judged
  <2> QED BY <1>3, <2>2, FreshRest
             DEF PromptSubmitRecord, FreshTask, FreshPage, AnswersAdvance, Judged
<1>4. CASE PreSubmitRebind
  <2> DEFINE u == Unbound(task)
  <2>1. u \in Task BY TaskUpdates DEF TypeOK
  <2>2. /\ ~u.chat /\ ~u.title /\ u.answer = None /\ u.decision = None /\ u.round = 0
    BY <1>1, <1>2 DEF Unbound, TypeOK, Task, Judged
  <2> HIDE DEF u
  <2>3. task' \in {u, Bound(u)} BY <1>4 DEF PreSubmitRebind, u
  <2>4. /\ ~task'.chat /\ ~task'.title /\ task'.answer = None /\ task'.decision = None
        /\ task'.round = 0
    BY <2>1, <2>2, <2>3 DEF Bound, Task
  <2>5. FreshRun' BY <1>4, FreshRest DEF PreSubmitRebind, NextStep, RoundStop
  <2> QED BY <2>4, <2>5 DEF FreshTask, FreshPage, AnswersAdvance, Judged
<1> QED BY <1>3, <1>4

\* A captured answer is not the baseline, so it came after it.
LEMMA FreshCapture ==
  ASSUME Inv, Inv', FreshInv, AnswerCapture PROVE FreshInv'
<1> USE DEF Inv, FreshInv
<1>1. MissingStage = "answer_capture" BY DEF AnswerCapture, At, FreshRun
<1>2. task.submitted /\ task.answer = None /\ ~Judged
  BY <1>1 DEF MissingStage, PromptStage, AnswerStage, OnTarget, FreshTask
<1>3. PICK e \in EarlyTitle, a \in Captured : \E c \in {e.chat, TRUE} :
         task' = [e EXCEPT !.answer = a, !.chat = c, !.status = "evaluating"]
  BY ONLY AnswerCapture DEF AnswerCapture
<1>4. PICK c \in {e.chat, TRUE} :
         task' = [e EXCEPT !.answer = a, !.chat = c, !.status = "evaluating"]
  BY <1>3
<1>5. /\ e \in Task /\ (e.title => e.chat) /\ (task.title => e.title)
      /\ (task.chat => e.chat) /\ e.submitted = task.submitted
      /\ e.decision = task.decision /\ e.round = task.round /\ e.baseline = task.baseline
  BY EarlyTitleFields DEF FreshTask
<1>6. e.chat => c BY Zenon, <1>4
<1>7. /\ task'.answer = a /\ task'.chat = c /\ task'.title = e.title
      /\ task'.submitted /\ task'.decision = None /\ task'.round = task.round
      /\ task'.baseline = task.baseline
  BY <1>2, <1>4, <1>5 DEF Task, Judged
<1>8. a \in Answer /\ a.n = answered /\ a # task.baseline
  BY DEF Captured, Answer, TypeOK
<1>9. task.round > 0 =>
        a.n > task.baseline.n \/ (a.n = task.baseline.n /\ a.via # task.baseline.via)
  <2> SUFFICES ASSUME task.round > 0
               PROVE  a.n > task.baseline.n \/ (a.n = task.baseline.n /\ a.via # task.baseline.via)
    OBVIOUS
  <2>1. task.baseline \in Answer /\ task.baseline.n <= answered
    BY DEF FreshPage, TypeOK, Task
  <2>2. a.n = task.baseline.n => a.via # task.baseline.via
    BY <1>8, <2>1 DEF Answer
  <2>3. a.n \in Nat /\ task.baseline.n \in Nat /\ task.baseline.n <= a.n
    BY <1>8, <2>1 DEF Answer
  <2> QED BY <2>2, <2>3
<1>10. answered' = answered /\ pc' = "step" BY DEF AnswerCapture, NextStep, page
<1>11. FreshTask'
  <2>1. task'.title => task'.chat BY Zenon, <1>5, <1>6, <1>7
  <2>2. task.round > 0 => task'.title BY <1>5, <1>7 DEF FreshTask
  <2> QED BY <1>2, <1>7, <2>1, <2>2 DEF FreshTask, Judged
<1>12. FreshPage'
  BY <1>7, <1>8, <1>9, <1>10 DEF FreshPage, AnswersAdvance, TypeOK, Task
<1>13. FreshRun' BY <1>10, FreshRest
<1> QED BY <1>11, <1>12, <1>13

LEMMA FreshMissing ==
  ASSUME Inv, Inv', FreshInv, AnswerMissing PROVE FreshInv'
<1> USE DEF Inv, FreshInv
<1>1. MissingStage = "answer_capture" BY DEF AnswerMissing, At, FreshRun
<1>2. task.submitted /\ task.answer = None /\ ~Judged
  BY <1>1 DEF MissingStage, PromptStage, AnswerStage, OnTarget, FreshTask
<1>3. task' \in EarlyTitle /\ answered' = answered BY DEF AnswerMissing, page
<1>4. /\ (task'.title => task'.chat) /\ (task.title => task'.title)
      /\ task'.submitted = task.submitted /\ task'.answer = task.answer
      /\ task'.decision = task.decision /\ task'.round = task.round
      /\ task'.baseline = task.baseline
  BY <1>3, EarlyTitleFields DEF FreshTask
<1>5. FreshTask' BY <1>2, <1>4 DEF FreshTask, Judged
<1>6. FreshPage' BY <1>2, <1>3, <1>4 DEF FreshPage, AnswersAdvance
<1>7. FreshRun' BY FreshRest DEF AnswerMissing, RoundStop
<1> QED BY <1>5, <1>6, <1>7

\* The steps between an answer and the next round.
LEMMA FreshReplies ==
  ASSUME Inv, Inv', FreshInv,
         TitlePrefix \/ GatewayDecision \/ ReplySubmitRecord \/ ResetRound
  PROVE  FreshInv'
<1> USE DEF Inv, FreshInv
<1>1. CASE TitlePrefix
  <2>1. /\ task.chat /\ task'.chat = task.chat /\ task'.title
        /\ task'.submitted = task.submitted /\ task'.answer = task.answer
        /\ task'.decision = task.decision /\ task'.round = task.round
        /\ task'.baseline = task.baseline
    BY <1>1 DEF TitlePrefix, TypeOK, Task
  <2>5. MissingStage = "title_prefix" BY <1>1 DEF TitlePrefix, At, FreshRun
  <2>6. task.answer # None /\ task.submitted
    BY <2>5 DEF MissingStage, PromptStage, OnTarget, FreshTask
  <2>2. FreshTask' BY <2>1, <2>6 DEF FreshTask, Judged
  <2>3. FreshPage' BY <1>1, <2>1 DEF FreshPage, AnswersAdvance, TitlePrefix, page
  <2>4. FreshRun' BY <1>1, FreshRest DEF TitlePrefix, NextStep
  <2> QED BY <2>2, <2>3, <2>4
<1>2. CASE GatewayDecision
  <2>1. PICK d \in Decision :
          /\ task' = [task EXCEPT !.decision = d, !.iterations = @ + 1, !.status = "executing"]
          /\ NextStep \/ \E r \in DecisionStop : EndRound(r)
    BY <1>2, Decided
  <2>2. MissingStage = "gateway_decision" BY <1>2 DEF GatewayDecision, At, FreshRun
  <2>3. task.answer # None /\ task.title
    BY <2>2 DEF MissingStage, PromptStage, AnswerStage, OnTarget
  <2>4. /\ task'.chat = task.chat /\ task'.title = task.title
        /\ task'.submitted = task.submitted /\ task'.answer = task.answer
        /\ task'.round = task.round /\ task'.baseline = task.baseline
    BY <2>1 DEF TypeOK, Task
  <2>5. FreshTask' BY <2>3, <2>4 DEF FreshTask, Judged
  <2>6. FreshPage' BY <1>2, <2>4 DEF FreshPage, AnswersAdvance, GatewayDecision, page
  <2>7. FreshRun' BY <2>1, FreshRest DEF NextStep, DecisionStop, RoundStop
  <2> QED BY <2>5, <2>6, <2>7
<1>3. CASE ReplySubmitRecord
  <2>1. /\ task'.chat = task.chat /\ task'.title = task.title
        /\ task'.submitted = task.submitted /\ task'.answer = task.answer
        /\ task'.decision = task.decision /\ task'.round = task.round
        /\ task'.baseline = task.baseline
    BY <1>3 DEF ReplySubmitRecord, TypeOK, Task
  <2>2. FreshTask' BY <2>1 DEF FreshTask, Judged
  <2>3. FreshPage' BY <1>3, <2>1 DEF FreshPage, AnswersAdvance, ReplySubmitRecord, page
  <2>4. FreshRun' BY <1>3, FreshRest DEF ReplySubmitRecord, NextStep
  <2> QED BY <2>2, <2>3, <2>4
<1>4. CASE ResetRound
  <2>1. Judged /\ task.replied /\ task.answer # None /\ task.title /\ task.chat
    BY <1>4 DEF ResetRound, FreshRun, FreshTask
  <2>2. /\ task'.chat /\ task'.title /\ task'.submitted
        /\ task'.answer = None /\ task'.decision = None
        /\ task'.round = task.round + 1 /\ task'.baseline = task.answer
    <3>1. PICK s : task' = [task EXCEPT !.round = @ + 1, !.draft = task.reply,
                              !.submitted = task.replied, !.baseline = task.answer,
                              !.answer = None, !.decision = None, !.reply = FALSE,
                              !.replied = FALSE, !.status = s]
      BY <1>4 DEF ResetRound
    <3> QED BY <2>1, <3>1 DEF TypeOK, Task
  <2>3. FreshTask' BY <2>2 DEF FreshTask, Judged
  <2>4. FreshPage'
    <3>1. task.answer \in Answer /\ task.round \in Nat /\ answered' = answered
      BY <1>4, <2>1 DEF ResetRound, page, TypeOK, Task
    <3> QED BY <2>1, <2>2, <3>1 DEF FreshPage, AnswersAdvance, Answer
  <2>5. FreshRun' BY <1>4, FreshRest DEF ResetRound
  <2> QED BY <2>3, <2>4, <2>5
<1> QED BY <1>1, <1>2, <1>3, <1>4

\* From the second round on the answer a round judges came after the one judged before
\* it, or is that one under its other identity: for every task, adopted or not, with
\* or without the backend, over any number of rounds, runs and crashes and whatever the
\* page does with the composer's text (resetEngineCycleRoundState,
\* executeAnswerCaptureStage).
THEOREM Advancing == Spec => []AnswersAdvance
<1>1. Init => Inv /\ FreshInv BY TypeInit, DoneInit, FreshInit DEF Inv
<1>2. Inv /\ FreshInv /\ [Next]_vars => (Inv /\ FreshInv)'
  <2> SUFFICES ASSUME Inv, FreshInv, [Next]_vars PROVE Inv' /\ FreshInv' OBVIOUS
  <2>1. Inv' BY Typing, DoneStep DEF Inv
  <2> QED
    BY <2>1, FreshStages, FreshAround, FreshPrompts, FreshCapture, FreshMissing, FreshReplies
    DEF Next, RunStep
<1>3. FreshInv => AnswersAdvance BY DEF FreshInv, FreshPage
<1> QED BY <1>1, <1>2, <1>3, PTL DEF Spec

-----------------------------------------------------------------------------
(* The lease and the slots                                                 *)

\* Where a run is follows from the lock file it works on.
PlaceInv ==
    \A o \in Op :
        /\ place[o] # "idle" => Host[o] \in alive
        /\ place[o] = "idle" => slot[o] = Absent
        /\ place[o] \in {"open", "write", "read", "probe", "remove"} =>
             \/ at[o] \in Slot /\ slot[o] = Absent
             \/ at[o] = For[o] /\ slot[o] \in Slot
        /\ place[o] = "run" => at[o] = For[o] /\ slot[o] \in Slot
        /\ place[o] \in {"check", "unlink"} =>
             \/ at[o] \in Slot /\ slot[o] = at[o]
             \/ at[o] = For[o] /\ slot[o] \in Slot
        /\ place[o] = "probe" => seen[o] \in Proc

\* The run o has the file f, complete, or is giving it back.
Uses(o, f) == Has(o, f) \/ (at[o] = f /\ place[o] \in {"check", "unlink"})

\* The owner of a file writes it or uses it.
OwnerInv ==
    \A f \in File :
        /\ owner[f] \in {Absent, Left} => pid[f] = Absent
        /\ owner[f] \in Op =>
              \/ pid[f] = Absent /\ at[owner[f]] = f /\ place[owner[f]] = "write"
              \/ pid[f] # Absent /\ Uses(owner[f], f)

\* Before the first death nothing is recovered, and a run owns what it uses.
BeforeInv ==
    ~died => /\ alive = Proc
             /\ \A f \in File : owner[f] # Gone
             /\ \A o \in Op :
                   /\ place[o] # "remove"
                   /\ place[o] \in {"write", "unlink"} => owner[at[o]] = o
                   /\ \A f \in File : Has(o, f) => owner[f] = o

LeaseInv == LeaseTypeOK /\ PlaceInv /\ OwnerInv /\ BeforeInv

-----------------------------------------------------------------------------
LEMMA LeaseInitially == LeaseInit => LeaseInv
<1> SUFFICES ASSUME LeaseInit PROVE LeaseInv
  OBVIOUS
<1>0. 0 \in File BY LeaseAssumption DEF File, Slot
<1>1. LeaseTypeOK BY <1>0 DEF LeaseInit, LeaseTypeOK, Pc
<1>2. PlaceInv /\ OwnerInv
  BY <1>0, LeaseAssumption DEF LeaseInit, PlaceInv, OwnerInv
<1>3. BeforeInv
  BY <1>0, LeaseAssumption DEF LeaseInit, BeforeInv, Has
<1> QED BY <1>1, <1>2, <1>3 DEF LeaseInv

\* No step leaves the type of a variable.
LEMMA LeaseTyping ==
    ASSUME LeaseTypeOK, PlaceInv, [LeaseNext]_leaseVars
    PROVE  LeaseTypeOK'
<1> USE LeaseAssumption DEF LeaseTypeOK, Pc, Goto, GotoAt, SetFile, Ended, files, Forget, File
<1>1. ASSUME NEW o \in Op, Start(o) PROVE LeaseTypeOK'
  BY <1>1 DEF Start, Slot
<1>2. ASSUME NEW o \in Op, Step(o) PROVE LeaseTypeOK'
  <2>0. 0 \in File /\ For[o] \in File /\ Host[o] \in Proc BY DEF Slot
  <2>1. CASE Open(o) BY <2>1 DEF Open
  <2>2. CASE Write(o) BY <2>0, <2>2 DEF Write, Taken
  <2>3. CASE WriteFails(o) BY <2>0, <2>3 DEF WriteFails, PlaceInv
  <2>4. CASE Read(o) BY <2>0, <2>4 DEF Read, NotTaken, PlaceInv
  <2>5. CASE Probe(o) BY <2>0, <2>5 DEF Probe, NotTaken, PlaceInv
  <2>6. CASE Remove(o) BY <2>6 DEF Remove
  <2>7. CASE Finish(o) BY <2>7 DEF Finish
  <2>8. CASE Check(o) BY <2>0, <2>8 DEF Check, GivenBack, PlaceInv
  <2>9. CASE Unlink(o) BY <2>0, <2>9 DEF Unlink, GivenBack, PlaceInv
  <2> QED BY <1>2, <2>1, <2>2, <2>3, <2>4, <2>5, <2>6, <2>7, <2>8, <2>9 DEF Step
<1>3. ASSUME NEW p \in Proc, Death(p) PROVE LeaseTypeOK'
  BY <1>3 DEF Death, Slot
<1>4. ASSUME NEW p \in Proc, Restart(p) PROVE LeaseTypeOK'
  BY <1>4 DEF Restart
<1>5. CASE UNCHANGED leaseVars BY <1>5 DEF leaseVars
<1> QED BY <1>1, <1>2, <1>3, <1>4, <1>5 DEF LeaseNext

\* Every step keeps a run where its lock file says it is.
LEMMA Places ==
    ASSUME LeaseTypeOK, PlaceInv, [LeaseNext]_leaseVars
    PROVE  PlaceInv'
<1> USE LeaseAssumption DEF LeaseTypeOK, PlaceInv, Goto, GotoAt, Ended, files, Forget, File
<1>1. ASSUME NEW o \in Op, Start(o) PROVE PlaceInv'
  BY <1>1 DEF Start, Slot
<1>2. ASSUME NEW o \in Op, Step(o) PROVE PlaceInv'
  <2>1. CASE Open(o) BY <2>1 DEF Open
  <2>2. CASE Write(o) BY <2>2 DEF Write, Taken
  <2>3. CASE WriteFails(o) BY <2>3 DEF WriteFails
  <2>4. CASE Read(o) BY <2>4 DEF Read, NotTaken
  <2>5. CASE Probe(o) BY <2>5 DEF Probe, NotTaken
  <2>6. CASE Remove(o) BY <2>6 DEF Remove
  <2>7. CASE Finish(o) BY <2>7 DEF Finish
  <2>8. CASE Check(o) BY <2>8 DEF Check, GivenBack
  <2>9. CASE Unlink(o) BY <2>9 DEF Unlink, GivenBack
  <2> QED BY <1>2, <2>1, <2>2, <2>3, <2>4, <2>5, <2>6, <2>7, <2>8, <2>9 DEF Step
<1>3. ASSUME NEW p \in Proc, Death(p) PROVE PlaceInv'
  BY <1>3 DEF Death
<1>4. ASSUME NEW p \in Proc, Restart(p) PROVE PlaceInv'
  BY <1>4 DEF Restart
<1>5. CASE UNCHANGED leaseVars BY <1>5 DEF leaseVars
<1> QED BY <1>1, <1>2, <1>3, <1>4, <1>5 DEF LeaseNext

\* Every step keeps files with runs that know them.
LEMMA Owners ==
    ASSUME LeaseInv, PlaceInv', LeaseTypeOK', [LeaseNext]_leaseVars
    PROVE  OwnerInv'
<1> USE LeaseAssumption DEF LeaseInv, LeaseTypeOK, PlaceInv, OwnerInv, Uses, Has,
        Goto, GotoAt, SetFile, Ended, files, File
<1>1. ASSUME NEW o \in Op, Start(o) PROVE OwnerInv'
  BY <1>1 DEF Start
<1>2. ASSUME NEW o \in Op, Step(o) PROVE OwnerInv'
  <2>1. CASE Open(o) BY <2>1 DEF Open
  <2>2. CASE Write(o) BY <2>2 DEF Write, Taken
  <2>3. CASE WriteFails(o) BY <2>3 DEF WriteFails
  <2>4. CASE Read(o) BY <2>4 DEF Read, NotTaken
  <2>5. CASE Probe(o) BY <2>5 DEF Probe, NotTaken
  <2>6. CASE Remove(o) BY <2>6 DEF Remove
  <2>7. CASE Finish(o) BY <2>7 DEF Finish
  <2>8. CASE Check(o) BY <2>8 DEF Check, GivenBack
  <2>9. CASE Unlink(o) BY <2>9 DEF Unlink, GivenBack
  <2> QED BY <1>2, <2>1, <2>2, <2>3, <2>4, <2>5, <2>6, <2>7, <2>8, <2>9 DEF Step
<1>3. ASSUME NEW p \in Proc, Death(p) PROVE OwnerInv'
  BY <1>3 DEF Death
<1>4. ASSUME NEW p \in Proc, Restart(p) PROVE OwnerInv'
  BY <1>4 DEF Restart
<1>5. CASE UNCHANGED leaseVars BY <1>5 DEF leaseVars
<1> QED BY <1>1, <1>2, <1>3, <1>4, <1>5 DEF LeaseNext

\* Without a death no step takes a file from the run that uses it.
LEMMA Before ==
    ASSUME LeaseInv, PlaceInv', LeaseTypeOK', [LeaseNext]_leaseVars
    PROVE  BeforeInv'
<1> USE LeaseAssumption DEF LeaseInv, LeaseTypeOK, PlaceInv, OwnerInv, BeforeInv,
        Uses, Has, Goto, GotoAt, SetFile, Ended, files, File
<1>1. ASSUME NEW o \in Op, Start(o) PROVE BeforeInv'
  BY <1>1 DEF Start
<1>2. ASSUME NEW o \in Op, Step(o) PROVE BeforeInv'
  <2>1. CASE Open(o) BY <2>1 DEF Open
  <2>2. CASE Write(o) BY <2>2 DEF Write, Taken
  <2>3. CASE WriteFails(o) BY <2>3 DEF WriteFails
  <2>4. CASE Read(o) BY <2>4 DEF Read, NotTaken
  <2>5. CASE Probe(o) BY <2>5 DEF Probe, NotTaken, Recoverable
  <2>6. CASE Remove(o) BY <2>6 DEF Remove
  <2>7. CASE Finish(o) BY <2>7 DEF Finish
  <2>8. CASE Check(o) BY <2>8 DEF Check, GivenBack
  <2>9. CASE Unlink(o) BY <2>9 DEF Unlink, GivenBack
  <2> QED BY <1>2, <2>1, <2>2, <2>3, <2>4, <2>5, <2>6, <2>7, <2>8, <2>9 DEF Step
<1>3. ASSUME NEW p \in Proc, Death(p) PROVE BeforeInv'
  BY <1>3 DEF Death
<1>4. ASSUME NEW p \in Proc, Restart(p) PROVE BeforeInv'
  BY <1>4 DEF Restart
<1>5. CASE UNCHANGED leaseVars BY <1>5 DEF leaseVars
<1> QED BY <1>1, <1>2, <1>3, <1>4, <1>5 DEF LeaseNext

\* The invariant of leases and slots.
LEMMA LeaseInvariance == LeaseSpec => []LeaseInv
<1>1. LeaseInit => LeaseInv BY LeaseInitially
<1>2. LeaseInv /\ [LeaseNext]_leaseVars => LeaseInv' BY LeaseTyping, Places, Owners,
        Before DEF LeaseInv
<1> QED BY <1>1, <1>2, PTL DEF LeaseSpec

-----------------------------------------------------------------------------
\* Every variable of leases and slots keeps its type.
THEOREM LeaseTypeCorrect == LeaseSpec => []LeaseTypeOK
<1>1. LeaseInv => LeaseTypeOK BY DEF LeaseInv
<1> QED BY <1>1, LeaseInvariance, PTL

\* A run that was refused or is over leaves no complete lock file, in whatever
\* order runs take, recover and give back leases and slots.
THEOREM NoLeaks == LeaseSpec => []NothingLeaks
<1>1. LeaseInv => NothingLeaks
  BY LeaseAssumption DEF LeaseInv, LeaseTypeOK, OwnerInv, NothingLeaks, Uses
<1> QED BY <1>1, LeaseInvariance, PTL

\* As long as no process has died, no two runs have the same lease or slot.
THEOREM LeaseExclusion == LeaseSpec => []ExclusiveUntilADeath
<1>1. LeaseInv => ExclusiveUntilADeath
  BY DEF LeaseInv, BeforeInv, ExclusiveUntilADeath
<1> QED BY <1>1, LeaseInvariance, PTL
=============================================================================
