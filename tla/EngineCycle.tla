---------------------------- MODULE EngineCycle ----------------------------
(***************************************************************************)
(* The browser cycle of one engine task: runEngineCycleRounds drives the   *)
(* task file through chat_bind .. reply_submit, round after round, against *)
(* a ChatGPT page (src/engine/engine-cycle.ts, engine-cycle-browser.ts,    *)
(* and the record operations of engine-core.ts).  A run keeps its counters *)
(* in memory; everything else it knows is in the task file, so a run that  *)
(* stopped or crashed is continued by the next one from the missing stage. *)
(* The cycle lease admits one run at a time, so each record operation is   *)
(* one step here: EngineTaskStore has their interleavings.                 *)
(* The task is a standard one with a persistent browser target, and the    *)
(* caller stops on blocked and on not-ready stages, as every caller does.  *)
(***************************************************************************)
EXTENDS Integers

CONSTANTS Topic,           \* what a continuing decision is about (its fingerprint)
          MaxIterations,   \* max_auto_iterations of the task
          MaxRounds,       \* maxRounds of a run
          MaxSteps,        \* maxStepsPerRound of a run
          CompletionFloor, \* minimumCompletionIteration
          ReadOnly,        \* mutation_policy is read_only
          History,         \* messages, all answered, of an adopted conversation
          Backend,         \* the conversation can be read without the page
          Reloads,         \* a page that is closed or reloaded may lose its text
          None

ASSUME CycleAssumption == /\ MaxIterations \in Nat \ {0} /\ MaxRounds \in Nat \ {0}
                          /\ MaxSteps \in Nat \ {0} /\ CompletionFloor \in Nat
                          /\ ReadOnly \in BOOLEAN /\ Backend \in BOOLEAN
                          /\ Reloads \in BOOLEAN /\ History \in Nat
                          /\ Topic \cap {"human", "done"} = {}
                          /\ None \notin Topic \cup {"human", "done"}

VARIABLES task,     \* the task file
          composer, \* the text in the composer, which the page keeps with the
                    \* conversation
          sent,     \* messages of the user in the conversation on the page
          answered, \* how many of them the assistant has answered
          pc,       \* where the run is
          stage,    \* the stage the run executes
          run       \* the run's counters

page == <<composer, sent, answered>>
vars == <<task, composer, sent, answered, pc, stage, run>>

Decision == Topic \cup {"human", "done"}
\* An answer is known by a hash of what the page shows, or by the id the
\* conversation's backend gives it: the same answer has two identities.
Answer == [via : {"ui", "backend"}, n : Nat]

Stages == {"chat_bind", "composer_preflight", "prompt_draft", "prompt_submit",
           "answer_capture", "title_prefix", "gateway_decision", "reply_draft",
           "reply_submit", "complete"}
RoundStop == {"max_steps", "error", "blocked", "not_ready", "answer_orphaned", "human_decision_required",
              "completion_candidate", "max_rounds", "stalled_no_semantic_progress", "complete"}
RunStop == RoundStop \cup {"decision_done_verified", "completion_verification_failed", "runtime_capacity"}
ASSUME StopAssumption == None \notin RunStop

Terminal == {"done", "completed", "failed", "blocked"}
Status == {"executing", "waiting_assistant", "evaluating", "waiting_runtime"} \cup Terminal

Task == [chat : BOOLEAN, target : BOOLEAN, ready : BOOLEAN, draft : BOOLEAN,
         submitted : BOOLEAN, baseline : Answer \cup {None}, answer : Answer \cup {None},
         title : BOOLEAN, decision : Decision \cup {None}, reply : BOOLEAN,
         replied : BOOLEAN, round : Nat, iterations : Nat,
         fp : Decision \cup {None}, repeat : 0..3, status : Status,
         paused : BOOLEAN, cooldown : BOOLEAN]
Run == [rounds : Nat, steps : 0..MaxSteps, seen : Decision \cup {None}, repeat : 0..3,
        stop : RunStop \cup {None}, base : Answer \cup {None}]

TypeOK == /\ task \in Task
          /\ composer \in {"empty", "prompt", "reply"}
          /\ sent \in Nat /\ answered \in Nat
          /\ pc \in {"idle", "step", "stage", "record", "roundEnd", "verdict", "reset", "outcome"}
          /\ stage \in Stages \cup {None} /\ (pc = "stage" => stage \in Stages)
          /\ run \in Run

NoRun == [rounds |-> 0, steps |-> 0, seen |-> None, repeat |-> 0, stop |-> None, base |-> None]

\* The phase plan of workerTick is done; an adopted task is bound to its chat.
Init == /\ task = [chat |-> History > 0, target |-> History > 0, ready |-> FALSE, draft |-> FALSE,
                   submitted |-> FALSE, baseline |-> None, answer |-> None,
                   title |-> FALSE, decision |-> None, reply |-> FALSE,
                   replied |-> FALSE, round |-> 0, iterations |-> 0,
                   fp |-> None, repeat |-> 0, status |-> "done",
                   paused |-> FALSE, cooldown |-> FALSE]
        /\ composer = "empty" /\ sent = History /\ answered = History
        /\ pc = "idle" /\ stage = None /\ run = NoRun

-----------------------------------------------------------------------------
\* Decisions and stages

Continuing(d) == d \in Topic
\* A counter that stall detection compares with 3: it is capped there.
Count(n) == IF n < 3 THEN n + 1 ELSE 3
\* How often in a row the decision d has been seen.
RepeatOf(d) == IF d = run.seen THEN Count(run.repeat) ELSE 1

\* Mutant: the floor is one iteration lower.
SuppressedLate(d) == d = "done" /\ ~ReadOnly /\ task.iterations + 2 < CompletionFloor
\* shouldSuppressEarlyEngineCompletion
Suppressed(d) == d = "done" /\ ~ReadOnly /\ task.iterations + 1 < CompletionFloor
\* What the router records for an answer that says d: an early completion
\* becomes a continuing decision.
RoutedFor(d) == IF Suppressed(d) THEN Topic ELSE {d}

\* detectEngineCycleStage
OnTarget(s) == IF task.target THEN s ELSE "chat_bind"
PromptStage == IF task.submitted THEN OnTarget("answer_capture")
               ELSE IF ~task.target THEN "chat_bind"
               ELSE IF ~task.ready THEN "composer_preflight"
               ELSE IF ~task.draft THEN "prompt_draft" ELSE "prompt_submit"
AnswerStage == IF ~task.title THEN OnTarget("title_prefix")
               ELSE IF task.decision = None THEN "gateway_decision"
               ELSE IF ~task.reply THEN OnTarget("reply_draft")
               ELSE IF ~task.replied THEN OnTarget("reply_submit") ELSE "complete"
MissingStage == IF task.answer = None THEN PromptStage ELSE AnswerStage

\* The reasons a stage gives for stopping when page or browser are not as it
\* needs them.
StopReason == [chat_bind |-> {"blocked", "error"},
               composer_preflight |-> {"blocked", "not_ready"},
               prompt_draft |-> {"blocked", "not_ready"},
               prompt_submit |-> {"blocked", "not_ready"},
               answer_capture |-> {"not_ready"},
               title_prefix |-> {"not_ready"},
               gateway_decision |-> {},
               reply_draft |-> {"blocked", "not_ready"},
               reply_submit |-> {"blocked"},
               complete |-> {}]

\* A continuing decision that used up the iterations of the task.
BudgetExhausted == Continuing(task.decision) /\ task.iterations >= MaxIterations

-----------------------------------------------------------------------------
\* The run

NextStep == pc' = "step" /\ stage' = None /\ run' = run
EndRound(reason) == pc' = "roundEnd" /\ stage' = None /\ run' = [run EXCEPT !.stop = reason]
EndRun == pc' = "idle" /\ stage' = None /\ run' = NoRun

RunStart == /\ pc = "idle" /\ ~task.paused
            /\ pc' = "step"
            /\ run' = [NoRun EXCEPT !.seen = task.fp, !.repeat = task.repeat]
            /\ UNCHANGED <<task, page, stage>>

\* No capacity, or no runtime slot: the refusal is recorded in the task.
RunRefused == /\ pc = "idle" /\ ~task.paused
              /\ task' = [task EXCEPT !.status = "waiting_runtime"]
              /\ UNCHANGED <<page, pc, stage, run>>

StepsExhausted == /\ pc = "step" /\ run.steps = MaxSteps
                  /\ EndRound("max_steps")
                  /\ UNCHANGED <<task, page>>

\* ENGINE_MANAGEMENT_HOLD is neither blocked nor not ready: an error.
StepOnHold == /\ pc = "step" /\ run.steps < MaxSteps /\ task.paused
              /\ EndRound("error")
              /\ UNCHANGED <<task, page>>

StepStage == /\ pc = "step" /\ run.steps < MaxSteps /\ ~task.paused
             /\ pc' = "stage" /\ stage' = MissingStage
             /\ run' = [run EXCEPT !.steps = @ + 1]
             /\ UNCHANGED <<task, page>>

Gated == task.cooldown /\ stage \notin {"answer_capture", "gateway_decision", "complete"}
At(s) == pc = "stage" /\ stage = s /\ ~Gated

CooldownGate == /\ pc = "stage" /\ Gated
                /\ EndRound("not_ready")
                /\ UNCHANGED <<task, page>>

StageStops == /\ pc = "stage" /\ ~Gated
              /\ ~(stage = "reply_draft" /\ BudgetExhausted)
              /\ \E reason \in StopReason[stage] : EndRound(reason)
              /\ UNCHANGED <<task, page>>

\* Mutant: waiting for a rate limit costs no step of the round.
RateLimitedForFree == /\ \E s \in {"composer_preflight", "prompt_draft", "prompt_submit"} : At(s)
                      /\ task' = [task EXCEPT !.cooldown = TRUE, !.status = "waiting_runtime"]
                      /\ pc' = "step" /\ stage' = None /\ run' = [run EXCEPT !.steps = @ - 1]
                      /\ UNCHANGED page
\* handleEngineRateLimit: after a dismissed dialog the loop waits and goes on.
RateLimited == /\ \E s \in {"composer_preflight", "prompt_draft", "prompt_submit"} : At(s)
               /\ task' = [task EXCEPT !.cooldown = TRUE, !.status = "waiting_runtime"]
               /\ NextStep \/ EndRound("not_ready")
               /\ UNCHANGED page

-----------------------------------------------------------------------------
\* The stages of a prompt

\* openEngineChatPage followed by bindEngineChatSession: the task's own chat,
\* or a new root page whose composer was emptied.
Bound(t) == [t EXCEPT !.target = TRUE, !.ready = FALSE, !.status = "executing"]
OpenPage == IF task.chat THEN UNCHANGED page
            ELSE composer' = "empty" /\ sent' = 0 /\ answered' = 0

ChatBind == /\ At("chat_bind")
            /\ task' = Bound(task)
            /\ OpenPage
            /\ NextStep

\* A composer that does not get ready is looked for on a reopened page.
ComposerPreflight == /\ At("composer_preflight")
                     /\ task' = [Bound(task) EXCEPT !.ready = TRUE]
                     /\ UNCHANGED page \/ OpenPage
                     /\ NextStep

\* A page that lost its attachment target is reopened, which unsets ready.
PromptDraft == /\ At("prompt_draft")
               /\ \/ task' = task /\ UNCHANGED <<sent, answered>>
                  \/ task' = Bound(task) /\ IF task.chat THEN UNCHANGED <<sent, answered>>
                                            ELSE sent' = 0 /\ answered' = 0
               /\ composer' = "prompt"
               /\ pc' = "record" /\ UNCHANGED <<stage, run>>

PromptDraftRecord == /\ pc = "record" /\ stage = "prompt_draft"
                     /\ task' = [task EXCEPT !.draft = TRUE, !.status = "executing"]
                     /\ NextStep /\ UNCHANGED page

\* Mutant: Send is clicked whatever the composer holds.
ClickAlways == \/ composer' = "empty" /\ sent' = sent + 1
               \/ UNCHANGED <<composer, sent>>
\* submitBrowserSession clicks Send, to effect or not, unless the composer is
\* empty.  The answer on the page, if it could be read, is the new baseline.
Click == \/ composer # "empty" /\ composer' = "empty" /\ sent' = sent + 1
         \/ UNCHANGED <<composer, sent>>
OnPage == IF answered > 0 THEN {None, [via |-> "ui", n |-> answered]} ELSE {None}

PromptSubmit == /\ At("prompt_submit")
                /\ Click
                /\ run' \in {[run EXCEPT !.base = a] : a \in OnPage}
                /\ pc' = "record" /\ UNCHANGED <<task, answered, stage>>

\* A click is recorded as submitted whether or not it could be confirmed.
PromptSubmitRecord == /\ pc = "record" /\ stage = "prompt_submit"
                      /\ \E c \in {task.chat, task.chat \/ sent > 0} :
                           task' = [task EXCEPT !.submitted = TRUE, !.chat = c,
                                      !.baseline = IF run.base # None THEN run.base ELSE @,
                                      !.status = "waiting_assistant"]
                      /\ pc' = "step" /\ stage' = None
                      /\ run' = [run EXCEPT !.base = None]
                      /\ UNCHANGED page

\* isEngineTaskPreSubmitReconfigurable
PreSubmit == ~task.submitted /\ task.answer = None /\ task.decision = None /\ ~task.replied
             /\ task.iterations = 0 /\ task.round = 0

\* resetEngineTaskForPreSubmitReconfiguration
Unbound(t) == [t EXCEPT !.chat = FALSE, !.target = FALSE, !.ready = FALSE, !.draft = FALSE,
                        !.title = FALSE, !.baseline = None, !.cooldown = FALSE,
                        !.status = "executing"]

\* The page is not a chat any more: start over on a new one, if it opens.
PreSubmitRebind == /\ At("prompt_submit") /\ ~task.chat /\ PreSubmit
                   /\ \/ task' = Bound(Unbound(task)) /\ OpenPage /\ NextStep
                      \/ task' = Unbound(task) /\ UNCHANGED page
                         /\ \E reason \in {"blocked", "not_ready"} : EndRound(reason)

-----------------------------------------------------------------------------
\* The stages of an answer

\* The chat is known once the page shows it; its title may be set early.
Materialized == {[task EXCEPT !.chat = c, !.title = t] :
                   c \in {task.chat, task.chat \/ sent > 0}, t \in {task.title, TRUE}}
EarlyTitle == {t \in Materialized : t.title # task.title => t.chat}

\* The page's answer, or when it does not settle the backend's, if its
\* identity is not the baseline.
Captured == {a \in [via : IF Backend THEN {"ui", "backend"} ELSE {"ui"}, n : {answered}] :
               a.n > 0 /\ a # task.baseline}

AnswerCapture == /\ At("answer_capture")
                 /\ \E t \in EarlyTitle, a \in Captured :
                      /\ a.via = "backend" => t.chat
                      /\ \E c \in {t.chat, TRUE} :
                           task' = [t EXCEPT !.answer = a, !.chat = c, !.status = "evaluating"]
                 /\ NextStep /\ UNCHANGED page

AnswerMissing == /\ At("answer_capture")
                 /\ task' \in EarlyTitle
                 /\ \/ EndRound("not_ready")
                    \/ answered = 0 /\ EndRound("answer_orphaned")
                 /\ UNCHANGED page

TitlePrefix == /\ At("title_prefix") /\ task.chat
               /\ task' = [task EXCEPT !.title = TRUE]
               /\ NextStep /\ UNCHANGED page

\* resolveEnginePreReplyStopReason
PreReplyStop(d, iterations) == IF RepeatOf(d) >= 3 THEN "stalled_no_semantic_progress"
                               ELSE IF iterations >= MaxIterations THEN "max_rounds" ELSE None

GatewayDecision ==
  /\ At("gateway_decision")
  /\ \E said \in Decision : \E d \in RoutedFor(said) :
       LET stop == CASE d = "human" -> "human_decision_required"
                     [] d = "done"  -> "completion_candidate"
                     [] OTHER       -> PreReplyStop(d, task.iterations + 1)
       IN  /\ task' = [task EXCEPT !.decision = d, !.iterations = @ + 1, !.status = "executing"]
           /\ IF stop = None THEN NextStep ELSE EndRound(stop)
  /\ UNCHANGED page

-----------------------------------------------------------------------------
\* The stages of a reply

ReplyBudget == /\ At("reply_draft") /\ BudgetExhausted
               /\ EndRound("max_rounds")
               /\ UNCHANGED <<task, page>>

ReplyDraft == /\ At("reply_draft") /\ ~BudgetExhausted
              /\ composer' = "reply"
              /\ pc' = "record" /\ UNCHANGED <<task, sent, answered, stage, run>>

ReplyDraftRecord == /\ pc = "record" /\ stage = "reply_draft"
                    /\ task' = [task EXCEPT !.reply = TRUE, !.status = "executing"]
                    /\ NextStep /\ UNCHANGED page

\* Mutant: a click counts as a sent reply.
ConfirmedByClick == TRUE
\* submitted === true: the message count grew, or the composer is empty in a
\* conversation that has messages.
Confirmed == composer' = "empty" /\ sent' > 0

ReplySubmit == /\ At("reply_submit")
               /\ Click
               /\ \/ Confirmed /\ pc' = "record" /\ UNCHANGED <<stage, run>>
                  \/ EndRound("blocked")
               /\ UNCHANGED <<task, answered>>

ReplySubmitRecord == /\ pc = "record" /\ stage = "reply_submit"
                     /\ task' = [task EXCEPT !.replied = TRUE, !.status = "waiting_assistant"]
                     /\ NextStep /\ UNCHANGED page

Complete == At("complete") /\ EndRound("complete") /\ UNCHANGED <<task, page>>

-----------------------------------------------------------------------------
\* The end of a round

\* recordEngineCycleCheckpoint
RoundEnd == /\ pc = "roundEnd"
            /\ LET seen == IF task.decision = None THEN run.seen ELSE task.decision
                   repeat == IF task.decision = None THEN run.repeat ELSE RepeatOf(task.decision)
               IN  /\ task' = [task EXCEPT !.fp = seen, !.repeat = repeat]
                   /\ run' = [run EXCEPT !.seen = seen, !.repeat = repeat]
            /\ pc' = "verdict"
            /\ UNCHANGED <<page, stage>>

\* What ends the run after the round, if anything does; the completion is
\* verified against the repository.
FinalStop ==
  LET reason == run.stop
      human == reason = "human_decision_required" \/ task.decision = "human"
      done == reason = "completion_candidate" \/ task.decision = "done"
  IN  IF human THEN {"human_decision_required"}
      ELSE IF done THEN {"decision_done_verified", "completion_verification_failed"}
      ELSE IF reason # "complete" THEN {reason}
      ELSE IF run.repeat >= 3 THEN {"stalled_no_semantic_progress"}
      ELSE IF run.rounds + 1 >= MaxRounds THEN {"max_rounds"}
      ELSE {"runtime_capacity", None}

Verdict == /\ pc = "verdict"
           /\ \E stop \in FinalStop :
                /\ run' = [run EXCEPT !.stop = stop]
                /\ pc' = IF stop = None THEN "reset" ELSE "outcome"
           /\ UNCHANGED <<task, page, stage>>

\* Mutant: the answer of the finished round does not become the baseline.
ResetRoundKeepsBaseline ==
  /\ pc = "reset"
  /\ task' = [task EXCEPT !.round = @ + 1, !.draft = task.reply, !.submitted = task.replied,
                !.answer = None, !.decision = None, !.reply = FALSE, !.replied = FALSE,
                !.status = IF task.replied THEN "waiting_assistant" ELSE "executing"]
  /\ pc' = "step"
  /\ run' = [run EXCEPT !.rounds = @ + 1, !.steps = 0]
  /\ UNCHANGED <<page, stage>>

\* resetEngineCycleRoundState: the reply is the next round's prompt.
ResetRound == /\ pc = "reset"
              /\ task' = [task EXCEPT !.round = @ + 1, !.draft = task.reply, !.submitted = task.replied,
                            !.baseline = task.answer, !.answer = None, !.decision = None,
                            !.reply = FALSE, !.replied = FALSE,
                            !.status = IF task.replied THEN "waiting_assistant" ELSE "executing"]
              /\ pc' = "step"
              /\ run' = [run EXCEPT !.rounds = @ + 1, !.steps = 0]
              /\ UNCHANGED <<page, stage>>

\* Mutant: the stop reason is recorded as the status.
OutcomeStatusAsReason == IF run.stop = "decision_done_verified" THEN "completed" ELSE run.stop

OutcomeStatus == CASE run.stop = "decision_done_verified" -> "completed"
                   [] run.stop \in {"not_ready", "runtime_capacity"} -> "waiting_runtime"
                   [] run.stop = "error" -> "failed"
                   [] OTHER -> "blocked"

\* recordEngineExecutionOutcome; the page of a verified task may be closed.
Outcome == /\ pc = "outcome"
           /\ \/ task' = [task EXCEPT !.status = OutcomeStatus]
              \/ /\ OutcomeStatus = "completed" /\ task.target /\ task.chat
                 /\ task' = [task EXCEPT !.status = "completed", !.target = FALSE, !.ready = FALSE]
           /\ EndRun /\ UNCHANGED page

-----------------------------------------------------------------------------
\* What happens around a run

Crash == pc # "idle" /\ EndRun /\ UNCHANGED <<task, page>>

Manage == /\ task.status \notin Terminal
          /\ task' = [task EXCEPT !.paused = ~@]
          /\ UNCHANGED <<page, pc, stage, run>>

CooldownExpires == /\ task.cooldown
                   /\ task' = [task EXCEPT !.cooldown = FALSE]
                   /\ UNCHANGED <<page, pc, stage, run>>

AssistantAnswers == /\ answered < sent
                    /\ answered' = answered + 1
                    /\ UNCHANGED <<task, composer, sent, pc, stage, run>>

PageReloads == /\ Reloads /\ composer # "empty"
               /\ composer' = "empty"
               /\ UNCHANGED <<task, sent, answered, pc, stage, run>>

RunStep == \/ StepsExhausted \/ StepOnHold \/ StepStage \/ CooldownGate \/ StageStops
           \/ RateLimited \/ ChatBind \/ ComposerPreflight \/ PromptDraft \/ PromptDraftRecord
           \/ PromptSubmit \/ PromptSubmitRecord \/ PreSubmitRebind \/ AnswerCapture
           \/ AnswerMissing \/ TitlePrefix \/ GatewayDecision \/ ReplyBudget \/ ReplyDraft
           \/ ReplyDraftRecord \/ ReplySubmit \/ ReplySubmitRecord \/ Complete \/ RoundEnd
           \/ Verdict \/ ResetRound \/ Outcome

Next == \/ RunStart \/ RunRefused \/ RunStep \/ Crash \/ Manage \/ CooldownExpires
        \/ AssistantAnswers \/ PageReloads

Spec == Init /\ [][Next]_vars

\* A run that was started goes on: every stage has a timeout.
LiveSpec == Spec /\ WF_vars(RunStep)

-----------------------------------------------------------------------------
\* Properties

\* The conversation of a task follows the protocol of Dialogue: nothing is
\* sent twice or before the last answer was judged, no answer is judged that
\* no message asked for, and continuations keep to the budget, over crashes
\* and any number of runs (detectEngineCycleStage, resetEngineCycleRoundState,
\* submitDraft, the budget check of executeReplyDraftStage).
Conversation == INSTANCE Dialogue
                  WITH Budget <- MaxIterations, Verdict <- Decision, Continue <- Topic,
                       said <- sent - History, last <- task.decision,
                       judged <- task.round + IF task.decision = None THEN 0 ELSE 1
Converses == Conversation!Spec

\* A reply that is recorded as sent was sent (executeReplySubmitStage).
NoPhantomReply == task.replied => sent >= History + task.round + 2

\* A task becomes completed only on a "done" that the suppression floor let
\* through (shouldSuppressEarlyEngineCompletion, runEngineCycleRoundsWithLease).
CompletionIsEarned ==
  [][task.status # "completed" /\ task'.status = "completed" =>
       task.decision = "done" /\ (ReadOnly \/ task.iterations >= CompletionFloor)]_vars

\* Every run comes to an end (runEngineCycleRoundsWithLease).
RunEnds == pc # "idle" ~> pc = "idle"

\* No message is sent after a human decision was asked for
\* (docs/agents/chatgpt-browser-product-loop.md: such "boundaries stop before
\* any automatic reply-back is submitted").  Does not hold over two runs.
HumanDecision == [][sent' > sent => task.decision # "human"]_vars

\* From the second round on, a round judges an answer that came after the one judged
\* before it, or that very answer under its other identity, if one of the two was read
\* from the backend: never an older one, and none twice under one identity
\* (resetEngineCycleRoundState, executeAnswerCaptureStage).
AnswersAdvance ==
    task.round > 0 /\ task.answer # None =>
        /\ task.baseline # None
        /\ \/ task.answer.n > task.baseline.n
           \/ task.answer.n = task.baseline.n /\ task.answer.via # task.baseline.via
=============================================================================
