------------------------------- MODULE PlanRun -------------------------------
(***************************************************************************)
(* The execution of an approved plan: plan/plan.go and plan/lifecycle.go   *)
(* (the plan, its steps and the ledger of their side effects),             *)
(* plan/executor.go (the manager of the current plan), plan/store.go (its  *)
(* file), the orchestrator of app/message_processor.go, the watchdog of    *)
(* app/plan_watchdog.go and commands/resume_plan.go.                       *)
(*                                                                         *)
(* One plan, from its approval on.  Plans come from enter_plan_mode and    *)
(* the replan handler, so a step has neither dependencies nor a condition  *)
(* and is not parallel.  A step is the model at work: it starts tools with *)
(* side effects, ends or fails, and is then verified.  Any save of the     *)
(* plan may fail, which stops nothing but the boundary.  The rollback of a *)
(* paused step's files, goals, tokens and everything shown to the user are *)
(* left out.                                                               *)
(***************************************************************************)
EXTENDS Integers, Sequences, FiniteSets, Selection

CONSTANTS NumSteps,              \* steps of the plan as approved
          MaxNew,                \* bound: steps a replan adds (the handler asks for 1-3)
          MaxReplans,            \* bound: replans in a behaviour
          MaxUpsets,             \* bound: Esc, watchdog pauses, exits and crashes,
                                 \* boundaries that cannot be saved
          MaxCommands,           \* bound: /resume-plan and calls of the plan tools
          MaxFailedSaves,        \* bound: saves that fail and are only reported
          Risky,                 \* steps with a high-risk word (by order of creation)
          Delegated,             \* config.Plan.DelegateSteps
          ManualActions,         \* actions of update_plan_progress that are used
          maxRetries, maxAutoResumeRounds,
          roundsPerStep, minRounds, maxRounds

MaxSteps == NumSteps + MaxReplans * MaxNew
Tags == 1 .. MaxSteps            \* identity of a step: the order of creation

ASSUME PlanRunAssumption ==
  /\ NumSteps \in Nat \ {0}
  /\ {MaxNew, MaxReplans, MaxUpsets, MaxCommands, MaxFailedSaves} \subseteq Nat
  /\ Risky \subseteq Tags
  /\ Delegated \in BOOLEAN
  /\ ManualActions \subseteq {"start", "complete", "fail", "skip"}
  /\ {maxRetries, maxAutoResumeRounds, roundsPerStep} \subseteq Nat \ {0}
  /\ {minRounds, maxRounds} \subseteq Nat \ {0} /\ minRounds <= maxRounds

VARIABLES
  plan,       \* Manager.currentPlan, which is also the plan being executed
  file,       \* the plan's file in the store
  stale,      \* the last save failed and the file is not what it was to write
  failedSaves,
  handoff,    \* contextClearRequested
  mode,       \* executionMode
  stepID,     \* currentStepID, 0 when there is none
  run,        \* the orchestrator
  cancelled,  \* the context of the run is done
  watchdog,   \* "armed", "paused" between its PausePlan and its cancel, "gone"
  dirty,      \* history: steps with effects since they were last resumed
  unreviewed, \* history: steps with effects since the operator last resumed them
  verified,   \* history: steps that passed their verification, were completed by hand,
              \* or were kept for the output of their agent
  confirmed,  \* history: steps the operator resumed after their checkpoint
  done,       \* history: steps that were completed, and not failed by hand since
  clash,      \* history: a replan gave a new step the ID of one it kept
  replans, upsets, commands

storeVars == <<file, stale, failedSaves>>
managerVars == <<plan, storeVars, handoff, mode, stepID>>
runVars == <<run, cancelled, watchdog>>
ghostVars == <<dirty, unreviewed, verified, confirmed, done, clash>>
boundVars == <<replans, upsets, commands>>
vars == <<managerVars, runVars, ghostVars, boundVars>>

NoPlan == [steps |-> << >>]
Statuses == {"pending", "in_progress", "completed", "failed", "skipped", "paused"}
Lifecycles == {"draft", "awaiting_approval", "approved", "executing", "paused",
               "completed", "failed", "cancelled"}

-----------------------------------------------------------------------------
(* lifecycle.go *)

\* (variant: an executing plan cannot be approved again)
NoWayBack ==
  [draft             |-> {"awaiting_approval", "cancelled"},
   awaiting_approval |-> {"approved", "cancelled"},
   approved          |-> {"executing", "cancelled"},
   executing         |-> {"paused", "completed", "failed", "cancelled"},
   paused            |-> {"approved", "executing", "cancelled"},
   failed            |-> {"approved", "executing", "cancelled"},
   completed         |-> {},
   cancelled         |-> {}]

allowedLifecycleTransitions ==
  [draft             |-> {"awaiting_approval", "cancelled"},
   awaiting_approval |-> {"approved", "cancelled"},
   approved          |-> {"executing", "cancelled"},
   executing         |-> {"approved", "paused", "completed", "failed", "cancelled"},
   paused            |-> {"approved", "executing", "cancelled"},
   failed            |-> {"approved", "executing", "cancelled"},
   completed         |-> {},
   cancelled         |-> {}]

CanTransitionTo(l, next) == l = next \/ next \in allowedLifecycleTransitions[l]

\* A refused transition is an error the orchestrator only logs.
TransitionLifecycle(p, next) ==
  IF CanTransitionTo(p.lifecycle, next) THEN [p EXCEPT !.lifecycle = next] ELSE p

-----------------------------------------------------------------------------
(* plan.go: a plan has its steps, the ledger of effects by step ID, a       *)
(* status and a lifecycle.                                                  *)

NewStep(id, tag) ==
  [id |-> id, tag |-> tag, status |-> "pending", error |-> "none", checkpointPassed |-> FALSE]

\* partial: PartialEffects; seen: a signature is recorded; dups: DuplicateEffects,
\* of which only "two or more" matters.
NoEntry == [partial |-> FALSE, completed |-> FALSE, seen |-> FALSE, dups |-> 0]

NewPlan ==
  [steps |-> [i \in 1 .. NumSteps |-> NewStep(i, i)],
   ledger |-> [id \in Tags |-> NoEntry],
   status |-> "pending", lifecycle |-> "approved"]

Indices(p) == DOMAIN p.steps

\* The step a loop over p.Steps finds for an ID: the first one.
Has(p, id) == \E i \in Indices(p) : p.steps[i].id = id
Find(p, id) == CHOOSE i \in Indices(p) :
                 /\ p.steps[i].id = id
                 /\ \A j \in Indices(p) : p.steps[j].id = id => i <= j

StatusIs(p, S) == {i \in Indices(p) : p.steps[i].status \in S}
AllDone(p) == StatusIs(p, {"completed", "skipped"}) = Indices(p)
HasPausedSteps(p) == StatusIs(p, {"paused"}) # {}
Open == {"pending", "paused", "failed"}
PendingCount(p) == Cardinality(StatusIs(p, Open))
AllCompleted(p) == p.steps # << >> /\ StatusIs(p, {"completed"}) = Indices(p)
IsComplete(p) == p.status \in {"completed", "failed"}

StartStep(p, id) ==
  [p EXCEPT !.steps[Find(p, id)].status = "in_progress", !.status = "in_progress"]

CompleteStep(p, id) ==
  LET q == [p EXCEPT !.steps[Find(p, id)].status = "completed",
                     !.ledger[id] = [@ EXCEPT !.completed = TRUE, !.partial = FALSE, !.dups = 0]]
  IN  IF AllDone(q) THEN [q EXCEPT !.status = "completed"] ELSE q

FailStep(p, id) ==
  [p EXCEPT !.steps[Find(p, id)] = [@ EXCEPT !.status = "failed", !.error = "other"],
            !.status = "failed"]

SkipStep(p, id) == [p EXCEPT !.steps[Find(p, id)].status = "skipped"]

\* The plan's own status is left alone.
PauseStep(p, id, reason) ==
  [p EXCEPT !.steps[Find(p, id)] = [@ EXCEPT !.status = "paused", !.error = reason]]

\* A tool with side effects starts; repeat says that its signature is recorded.
RecordStepEffect(p, id, repeat) ==
  LET n == p.ledger[id].dups IN
  [p EXCEPT !.ledger[id] = [@ EXCEPT !.partial = TRUE, !.seen = TRUE,
                                     !.dups = IF repeat /\ n < 2 THEN n + 1 ELSE n]]

HasPartialEffects(p, id) == p.ledger[id].partial /\ ~p.ledger[id].completed
HasDuplicateRisk(p, id) == p.ledger[id].dups >= 2 /\ ~p.ledger[id].completed
AtRisk(p, id) == HasPartialEffects(p, id) \/ HasDuplicateRisk(p, id)

\* What a resume does to a step: it is pending again, a checkpoint it was paused
\* for is passed, and its partial effects no longer count.
ResumedStep(s) ==
  [s EXCEPT !.status = "pending", !.error = "none",
            !.checkpointPassed = @ \/ s.error = "checkpoint required"]

ResumeSteps(p, I) ==
  [p EXCEPT !.steps = [i \in Indices(p) |-> IF i \in I THEN ResumedStep(@[i]) ELSE @[i]],
            !.ledger = [id \in Tags |->
                          IF \E i \in I : p.steps[i].id = id
                          THEN [@[id] EXCEPT !.partial = FALSE] ELSE @[id]]]

ResumePausedSteps(p) == ResumeSteps(p, StatusIs(p, {"paused"}))

NextReadySteps(p) ==
  {i \in StatusIs(p, {"pending"}) : \A j \in StatusIs(p, {"pending"}) : i <= j}

-----------------------------------------------------------------------------
(* store.go, executor.go *)

isResumable(p) ==
  /\ p # NoPlan
  /\ \/ p.status = "paused"
     \/ p.status = "in_progress" /\ StatusIs(p, {"pending", "paused"}) # {}
     \/ p.status = "failed" /\ StatusIs(p, Open) # {}

\* Manager.PausePlan
PausePlan(p) == TransitionLifecycle([p EXCEPT !.status = "paused"], "paused")

\* (variant: every step that was ended is tried again)
ResumeEnded(p) ==
  [ResumeSteps(TransitionLifecycle(p, "approved"), StatusIs(p, {"paused", "failed", "completed"}))
     EXCEPT !.status = "in_progress"]

\* Manager.ResumePlan, of a plan whose lifecycle lets it.
ResumePlan(p) ==
  [ResumeSteps(TransitionLifecycle(p, "approved"), StatusIs(p, {"paused", "failed"}))
     EXCEPT !.status = "in_progress"]

\* Manager.RequestReplan: the pending steps are replaced by n new ones.
FirstNewID(kept) == Len(kept) + 1
Kept(p) == Entries(p.steps, Indices(p) \ StatusIs(p, {"pending"}))
RequestReplan(p, n) ==
  LET kept == Kept(p)
      new  == [k \in 1 .. n |-> NewStep(FirstNewID(kept) + k - 1, NumSteps + replans * MaxNew + k)]
  IN  [p EXCEPT !.steps = kept \o new, !.status = "in_progress"]

DistinctIDs(p) == \A i, j \in Indices(p) : p.steps[i].id = p.steps[j].id => i = j

\* A save that succeeds, one that fails and leaves the old file, and one of which
\* the caller does not want to know: its error is logged or shown, and the caller
\* goes on with the plan in memory.
Written(p) == plan' = p /\ file' = p /\ stale' = FALSE /\ UNCHANGED failedSaves
NotWritten(p) ==
  /\ failedSaves < MaxFailedSaves /\ failedSaves' = failedSaves + 1
  /\ plan' = p /\ stale' = (file # p) /\ UNCHANGED file
Save(p) == Written(p) \/ NotWritten(p)
Unsaved(p) == plan' = p /\ UNCHANGED storeVars

\* The plan shows that step t has had effects, and nobody begins t by itself.
ShowsEffect(p, t) ==
  /\ p # NoPlan
  /\ \E i \in Indices(p) : /\ p.steps[i].tag = t /\ p.steps[i].status # "pending"
                           /\ p.ledger[p.steps[i].id].partial

\* What is left of a history of effects T and of a history of completed steps D
\* when the file is loaded: what only the failed save would have kept is lost.
EffectsLeft(T) == IF stale THEN {t \in T : ShowsEffect(file, t)} ELSE T
DoneLeft(D) == IF stale THEN D \ {file.steps[i].tag : i \in StatusIs(file, Open)} ELSE D

-----------------------------------------------------------------------------
(* message_processor.go: the orchestrator.  Its pc is where the goroutine   *)
(* is: "boundary" saves the plan and "context" the fresh conversation,      *)
(* "loop" is the head of the loop, "exec" an attempt at the step, "backoff" *)
(* the wait before the next attempt, "verify" the step's verification,      *)
(* "finish" the end of a verified step, "replan" the call of the replan     *)
(* handler, "between" the return from a step, "stopping" the same after a   *)
(* hook has stopped its verification, "cooldown" the wait before an         *)
(* auto-resume and "gate" the done-gate.                                    *)

NoRun == [pc |-> "idle", id |-> 0, tag |-> 0, attempt |-> 0, auto |-> 0, rounds |-> 0,
          limit |-> 0]

At(pc) == run.pc = pc
Goto(pc) == run' = [run EXCEPT !.pc = pc]
Clamp(lo, x, hi) == IF x < lo THEN lo ELSE IF x > hi THEN hi ELSE x
maxPlanExecutionRounds(n) == Clamp(minRounds, n * roundsPerStep, maxRounds)

\* The deferred reset of every exit path, and of the context and its watchdog.
LeaveMode == mode' = FALSE /\ stepID' = 0
Return == run' = NoRun /\ LeaveMode /\ cancelled' = FALSE /\ watchdog' = "gone"

\* The turn that approved or resumed the plan ends well: its request to execute
\* is consumed, once, if the plan is still approved.
Consume ==
  /\ At("idle") /\ handoff
  /\ handoff' = FALSE
  /\ plan # NoPlan /\ plan.lifecycle = "approved"
  /\ mode' = TRUE
  /\ plan' = TransitionLifecycle(plan, "executing")
  /\ run' = [NoRun EXCEPT !.pc = "boundary", !.limit = maxPlanExecutionRounds(Len(plan.steps))]
  /\ cancelled' = FALSE /\ watchdog' = "armed"
  /\ UNCHANGED <<storeVars, stepID, ghostVars, boundVars>>

Boundary ==
  /\ At("boundary")
  /\ Written(plan)
  /\ Goto("context")
  /\ UNCHANGED <<handoff, mode, stepID, cancelled, watchdog, ghostVars, boundVars>>

ContextReplaced ==
  /\ At("context")
  /\ Goto("loop")
  /\ UNCHANGED <<managerVars, cancelled, watchdog, ghostVars, boundVars>>

\* The save of the plan or of the conversation fails.
BoundaryFails ==
  /\ run.pc \in {"boundary", "context"} /\ upsets < MaxUpsets
  /\ upsets' = upsets + 1
  /\ Save(PausePlan(plan))
  /\ Return
  /\ UNCHANGED <<handoff, ghostVars, replans, commands>>

\* Esc moved the conversation on while the boundary was being saved: the run is
\* given up, without the reset of executionMode.
BoundaryOvertaken ==
  /\ At("context") /\ cancelled
  /\ run' = NoRun /\ cancelled' = FALSE /\ watchdog' = "gone"
  /\ UNCHANGED <<managerVars, ghostVars, boundVars>>

\* (variant: the counters are declared inside the loop)
StartRoundAfresh(r) == [r EXCEPT !.rounds = 1, !.auto = 0]

\* One turn of the loop is counted; beyond the limit the plan is paused.
StartRound(r) == [r EXCEPT !.rounds = @ + 1]

LimitReached ==
  /\ At("loop") /\ StartRound(run).rounds > run.limit
  /\ Save(PausePlan(plan))
  /\ Return
  /\ UNCHANGED <<handoff, ghostVars, boundVars>>

\* (variant: the count is compared before it is raised)
InLimitLate == At("loop") /\ run.rounds <= run.limit

InLimit == At("loop") /\ StartRound(run).rounds <= run.limit

LoopCancelled ==
  /\ InLimit /\ cancelled
  /\ Return
  /\ UNCHANGED <<plan, storeVars, handoff, ghostVars, boundVars>>

AutoResumeLeft == run.auto < maxAutoResumeRounds

\* The head of executeDirectStep and executeDelegatedStep, for the next ready step.
Ready(i) == InLimit /\ ~cancelled /\ i \in NextReadySteps(plan)
NeedsCheckpoint(s) == s.tag \in Risky /\ ~s.checkpointPassed

PauseForSafety ==
  /\ \E i \in Indices(plan) :
       /\ Ready(i) /\ AtRisk(plan, plan.steps[i].id)
       /\ Save(PauseStep(plan, plan.steps[i].id, "other"))
  /\ run' = [StartRound(run) EXCEPT !.pc = "between"]
  /\ UNCHANGED <<handoff, mode, stepID, cancelled, watchdog, ghostVars, boundVars>>

PauseForCheckpoint ==
  /\ \E i \in Indices(plan) :
       /\ Ready(i) /\ ~AtRisk(plan, plan.steps[i].id) /\ NeedsCheckpoint(plan.steps[i])
       /\ Save(PauseStep(plan, plan.steps[i].id, "checkpoint required"))
  /\ run' = [StartRound(run) EXCEPT !.pc = "between"]
  /\ UNCHANGED <<handoff, mode, stepID, cancelled, watchdog, ghostVars, boundVars>>

BeginStep ==
  /\ \E i \in Indices(plan) :
       LET s == plan.steps[i] IN
       /\ Ready(i) /\ ~AtRisk(plan, s.id) /\ ~NeedsCheckpoint(s)
       /\ Save(StartStep(plan, s.id))
       /\ stepID' = s.id
       /\ run' = [StartRound(run) EXCEPT !.pc = "exec", !.id = s.id, !.tag = s.tag, !.attempt = 1]
  /\ UNCHANGED <<handoff, mode, cancelled, watchdog, ghostVars, boundVars>>

\* A tool with effects starts and there is a step to book them on: the step's agent
\* uses one, the only agent in flight, or the model itself does so, at an attempt, a
\* verification, or a fix for the done-gate, which goes to the account of the last step.
Attributable == run.pc \in {"exec", "verify", "gate"} /\ stepID > 0

\* (variant: the effect is recorded but not saved)
ToolStartUnsaved(repeat) ==
  /\ Attributable
  /\ repeat => plan.ledger[stepID].seen
  /\ Unsaved(RecordStepEffect(plan, stepID, repeat))
  /\ dirty' = dirty \cup {run.tag} /\ unreviewed' = unreviewed \cup {run.tag}
  /\ UNCHANGED <<handoff, mode, stepID, runVars, verified, confirmed, done, clash, boundVars>>

\* The effect is recorded and saved before the tool runs, which it also does when
\* the save fails.
ToolStart(repeat) ==
  /\ Attributable
  /\ repeat => plan.ledger[stepID].seen
  /\ Save(RecordStepEffect(plan, stepID, repeat))
  /\ dirty' = dirty \cup {run.tag} /\ unreviewed' = unreviewed \cup {run.tag}
  /\ UNCHANGED <<handoff, mode, stepID, runVars, verified, confirmed, done, clash, boundVars>>

AttemptSucceeds ==
  /\ At("exec")
  /\ Goto("verify")
  /\ UNCHANGED <<managerVars, cancelled, watchdog, ghostVars, boundVars>>

\* (variant: only repeated effects block a retry)
RetryBlockedLate(p, id) == HasDuplicateRisk(p, id)

\* May the step be tried again after a transient error?
RetryBlocked(p, id) == AtRisk(p, id)

TransientRetry ==
  /\ At("exec") /\ run.attempt < maxRetries /\ ~RetryBlocked(plan, run.id)
  /\ Goto("backoff")
  /\ UNCHANGED <<managerVars, cancelled, watchdog, ghostVars, boundVars>>

BackoffOver ==
  /\ At("backoff")
  /\ run' = [run EXCEPT !.pc = "exec", !.attempt = @ + 1]
  /\ UNCHANGED <<managerVars, cancelled, watchdog, ghostVars, boundVars>>

\* pauseStepWithRollback: the retries are over or blocked, the wait for one was
\* cancelled, a delegated agent reported the error itself, or the verification or
\* its evidence is not good enough.
PauseCurrentStep ==
  /\ \/ At("exec") /\ (run.attempt = maxRetries \/ RetryBlocked(plan, run.id))
     \/ At("backoff") /\ cancelled
     \/ At("exec") /\ Delegated
     \/ At("verify")
  /\ Save(PauseStep(plan, run.id, "other"))
  /\ Goto("between")
  /\ UNCHANGED <<handoff, mode, stepID, cancelled, watchdog, ghostVars, boundVars>>

\* A fatal error leads to a replan, another one does not.
FailCurrentStep(fatal) ==
  /\ At("exec")
  /\ Save(FailStep(plan, run.id))
  /\ Goto(IF fatal THEN "replan" ELSE "between")
  /\ UNCHANGED <<handoff, mode, stepID, cancelled, watchdog, ghostVars, boundVars>>

\* Delegated mode: the agent of a failed step left some output, and the step
\* counts as completed.
KeepPartialOutput(fatal) ==
  /\ At("exec") /\ Delegated
  /\ Save(CompleteStep(plan, run.id))
  /\ Goto(IF fatal THEN "replan" ELSE "between")
  /\ done' = done \cup {run.tag}
  /\ dirty' = dirty \ {run.tag} /\ unreviewed' = unreviewed \ {run.tag}
  /\ verified' = verified \cup {run.tag}
  /\ UNCHANGED <<handoff, mode, stepID, cancelled, watchdog, confirmed, clash, boundVars>>

\* The new steps are not saved before the next step is.
Replan(n) ==
  /\ At("replan") /\ replans < MaxReplans
  /\ replans' = replans + 1
  /\ Unsaved(RequestReplan(plan, n))
  /\ Goto("between")
  /\ clash' = (clash \/ ~DistinctIDs(plan'))
  /\ UNCHANGED <<handoff, mode, stepID, cancelled, watchdog, dirty, unreviewed, verified, confirmed,
                 done, upsets, commands>>

ReplanFails ==
  /\ At("replan")
  /\ Goto("between")
  /\ UNCHANGED <<managerVars, cancelled, watchdog, ghostVars, boundVars>>

\* The commands passed and there is evidence enough for the step's contract; it is
\* recorded, which saves the plan, before the step is completed.
VerificationPasses ==
  /\ At("verify")
  /\ Save(plan)
  /\ Goto("finish")
  /\ verified' = verified \cup {run.tag}
  /\ UNCHANGED <<handoff, mode, stepID, cancelled, watchdog, dirty, unreviewed, confirmed, done, clash,
                 boundVars>>

\* (variant: a step is completed whatever its verification says)
FinishUnverified ==
  /\ run.pc \in {"verify", "finish"}
  /\ Save(CompleteStep(plan, run.id))
  /\ Goto("between")
  /\ done' = done \cup {run.tag}
  /\ dirty' = dirty \ {run.tag} /\ unreviewed' = unreviewed \ {run.tag}
  /\ UNCHANGED <<handoff, mode, stepID, cancelled, watchdog, verified, confirmed, clash, boundVars>>

FinishStep ==
  /\ At("finish")
  /\ Save(CompleteStep(plan, run.id))
  /\ Goto("between")
  /\ done' = done \cup {run.tag}
  /\ dirty' = dirty \ {run.tag} /\ unreviewed' = unreviewed \ {run.tag}
  /\ UNCHANGED <<handoff, mode, stepID, cancelled, watchdog, verified, confirmed, clash, boundVars>>

\* A hook stopped the verification: the step and then the plan are paused, and the
\* run ends.
HookStops ==
  /\ At("verify")
  /\ Save(PauseStep(plan, run.id, "other"))
  /\ Goto("stopping")
  /\ UNCHANGED <<handoff, mode, stepID, cancelled, watchdog, ghostVars, boundVars>>

HookStopped ==
  /\ At("stopping")
  /\ Save(PausePlan(plan))
  /\ Return
  /\ UNCHANGED <<handoff, ghostVars, boundVars>>

\* After a step executePlanDirectly looks at the context; executePlanDelegated only
\* does so at the head of the loop.  Safe mode runs a delegated plan directly.
Proceed ==
  /\ At("between")
  /\ \/ /\ ~cancelled \/ Delegated
        /\ Goto("loop") /\ UNCHANGED <<mode, stepID, cancelled, watchdog>>
     \/ cancelled /\ Return
  /\ UNCHANGED <<plan, storeVars, handoff, ghostVars, boundVars>>

NothingReady == InLimit /\ ~cancelled /\ NextReadySteps(plan) = {}

Cooldown ==
  /\ NothingReady /\ HasPausedSteps(plan) /\ AutoResumeLeft
  /\ run' = [StartRound(run) EXCEPT !.pc = "cooldown", !.auto = @ + 1]
  /\ UNCHANGED <<managerVars, cancelled, watchdog, ghostVars, boundVars>>

\* The orchestrator resumes the paused steps by itself.
CooldownOver ==
  /\ At("cooldown") /\ ~cancelled
  /\ Save(ResumePausedSteps(plan))
  /\ Goto("loop")
  /\ dirty' = dirty \ {plan.steps[i].tag : i \in StatusIs(plan, {"paused"})}
  /\ UNCHANGED <<handoff, mode, stepID, cancelled, watchdog, unreviewed, verified, confirmed, done, clash,
                 boundVars>>

CooldownCancelled ==
  /\ At("cooldown") /\ cancelled
  /\ Return
  /\ UNCHANGED <<plan, storeVars, handoff, ghostVars, boundVars>>

AutoResumeExhausted ==
  /\ NothingReady /\ HasPausedSteps(plan) /\ ~AutoResumeLeft
  /\ Save(PausePlan(plan))
  /\ Return
  /\ UNCHANGED <<handoff, ghostVars, boundVars>>

LoopEnds ==
  /\ NothingReady /\ ~HasPausedSteps(plan)
  /\ Goto("gate")
  /\ UNCHANGED <<managerVars, cancelled, watchdog, ghostVars, boundVars>>

\* The done-gate does not let the plan finish; it lets a cancelled one.
GateBlocks ==
  /\ At("gate") /\ ~cancelled
  /\ Return
  /\ UNCHANGED <<plan, storeVars, handoff, ghostVars, boundVars>>

FinalLifecycle(p) ==
  IF p.status = "paused" \/ HasPausedSteps(p) THEN "paused"
  ELSE IF p.status = "completed" THEN "completed"
  ELSE IF p.status # "failed" /\ AllCompleted(p) THEN "completed"
  ELSE "failed"

\* The plan's lifecycle is settled in memory only, and a complete plan is cleared.
Finalize ==
  /\ At("gate")
  /\ Unsaved(IF IsComplete(plan) THEN NoPlan
             ELSE TransitionLifecycle(plan, FinalLifecycle(plan)))
  /\ handoff' = (handoff /\ ~IsComplete(plan))
  /\ Return
  /\ UNCHANGED <<ghostVars, boundVars>>

-----------------------------------------------------------------------------
(* Esc, the watchdog, the end of the process, the user's command and the    *)
(* model's tools.                                                           *)

Upset == upsets < MaxUpsets /\ upsets' = upsets + 1
Command == commands < MaxCommands /\ commands' = commands + 1

Esc ==
  /\ Upset /\ ~At("idle") /\ ~cancelled
  /\ cancelled' = TRUE
  /\ UNCHANGED <<managerVars, run, watchdog, ghostVars, replans, commands>>

\* The step seems stuck: the plan is paused first, and then its run cancelled.
WatchdogPauses ==
  /\ Upset /\ watchdog = "armed" /\ mode /\ stepID > 0 /\ ~cancelled
  /\ Save(PausePlan(plan))
  /\ watchdog' = "paused"
  /\ UNCHANGED <<handoff, mode, stepID, run, cancelled, ghostVars, replans, commands>>

WatchdogCancels ==
  /\ watchdog = "paused"
  /\ watchdog' = "gone"
  /\ cancelled' = TRUE
  /\ UNCHANGED <<managerVars, run, ghostVars, boundVars>>

\* The process ends, by a crash or after the shutdown has saved an incomplete
\* plan; the next one loads the plan if it can be resumed.  (A shutdown whose save
\* fails leaves what a crash leaves.)
Restart(graceful) ==
  LET saves == graceful /\ plan # NoPlan /\ ~IsComplete(plan)
      left  == IF saves THEN plan ELSE file
  IN  /\ Upset
      /\ file' = left /\ stale' = FALSE
      /\ plan' = IF isResumable(left) THEN left ELSE NoPlan
      /\ handoff' = FALSE
      /\ Return
      /\ dirty' = IF saves THEN dirty ELSE EffectsLeft(dirty)
      /\ unreviewed' = IF saves THEN unreviewed ELSE EffectsLeft(unreviewed)
      /\ done' = IF saves THEN done ELSE DoneLeft(done)
      /\ UNCHANGED <<failedSaves, verified, confirmed, clash, replans, commands>>

\* /resume-plan: the current plan if it has steps left, or else the one on file.
\* Given the plan's ID the command loads the file without asking if the plan can be
\* resumed, when it is not the current one.  What is loaded becomes the current plan,
\* even if it turns out that it cannot be resumed.
ResumeCommand ==
  LET current == plan # NoPlan /\ PendingCount(plan) > 0
      p       == IF current THEN plan ELSE file
      resumes == PendingCount(p) > 0 /\ CanTransitionTo(p.lifecycle, "approved")
      steps   == IF resumes THEN StatusIs(p, {"paused", "failed"}) ELSE {}
      resumed == {p.steps[i].tag : i \in steps}
  IN  /\ At("idle") /\ Command
      /\ current \/ isResumable(file) \/ (plan = NoPlan /\ file # NoPlan)
      /\ plan' = IF resumes THEN ResumePlan(p) ELSE p
      /\ stale' = (stale /\ current)
      /\ handoff' = (resumes \/ (current /\ handoff))
      /\ mode' = (mode /\ current)
      /\ stepID' = IF current THEN stepID ELSE 0
      /\ dirty' = (IF current THEN dirty ELSE EffectsLeft(dirty)) \ resumed
      /\ unreviewed' = (IF current THEN unreviewed ELSE EffectsLeft(unreviewed)) \ resumed
      /\ done' = IF current THEN done ELSE DoneLeft(done)
      /\ confirmed' = confirmed \cup
           {p.steps[i].tag : i \in {j \in steps : p.steps[j].error = "checkpoint required"}}
      /\ UNCHANGED <<file, failedSaves, runVars, verified, clash, replans, upsets>>

\* update_plan_progress, which leaves a plan alone that is being executed.
UpdatePlanProgress(action, i) ==
  LET s == plan.steps[i] IN
  /\ At("idle") /\ Command /\ ~mode
  /\ plan # NoPlan /\ ~IsComplete(plan)
  /\ action \in ManualActions
  /\ \/ action = "start" /\ Save(StartStep(plan, s.id))
     \/ action = "complete" /\ Save(CompleteStep(plan, s.id))
     \/ action = "fail" /\ Save(FailStep(plan, s.id))
     \/ action = "skip" /\ Unsaved(SkipStep(plan, s.id))
  /\ verified' = IF action = "complete" THEN verified \cup {s.tag} ELSE verified
  /\ done' = CASE action = "complete" -> done \cup {s.tag}
              [] action = "fail"     -> done \ {s.tag}
              [] OTHER               -> done
  /\ dirty' = IF action = "complete" THEN dirty \ {s.tag} ELSE dirty
  /\ unreviewed' = IF action = "complete" THEN unreviewed \ {s.tag} ELSE unreviewed
  /\ UNCHANGED <<handoff, mode, stepID, runVars, confirmed, clash, replans, upsets>>

\* exit_plan_mode: the lifecycle is settled in memory and the plan is cleared.
ExitPlanMode(reason) ==
  /\ At("idle") /\ Command /\ ~mode /\ plan # NoPlan
  /\ CanTransitionTo(plan.lifecycle, IF reason = "completed" THEN "completed" ELSE "cancelled")
  /\ Unsaved(NoPlan)
  /\ handoff' = FALSE
  /\ LeaveMode
  /\ UNCHANGED <<runVars, ghostVars, replans, upsets>>

-----------------------------------------------------------------------------
Init ==
  /\ plan = NewPlan /\ file = NoPlan /\ stale = FALSE /\ failedSaves = 0
  /\ handoff = TRUE /\ mode = FALSE /\ stepID = 0
  /\ run = NoRun /\ cancelled = FALSE /\ watchdog = "gone"
  /\ dirty = {} /\ unreviewed = {} /\ verified = {} /\ confirmed = {} /\ done = {} /\ clash = FALSE
  /\ replans = 0 /\ upsets = 0 /\ commands = 0

Orchestrator ==
  \/ Boundary \/ ContextReplaced \/ BoundaryOvertaken
  \/ LimitReached \/ LoopCancelled
  \/ PauseForSafety \/ PauseForCheckpoint \/ BeginStep
  \/ AttemptSucceeds \/ TransientRetry \/ BackoffOver \/ PauseCurrentStep
  \/ \E fatal \in BOOLEAN : FailCurrentStep(fatal) \/ KeepPartialOutput(fatal)
  \/ \E n \in 1 .. MaxNew : Replan(n)
  \/ ReplanFails
  \/ VerificationPasses \/ FinishStep \/ HookStops \/ HookStopped \/ Proceed
  \/ Cooldown \/ CooldownOver \/ CooldownCancelled \/ AutoResumeExhausted
  \/ LoopEnds \/ GateBlocks \/ Finalize

Next ==
  \/ Consume
  \/ Orchestrator
  \/ \E repeat \in BOOLEAN : ToolStart(repeat)
  \/ BoundaryFails
  \/ Esc \/ WatchdogPauses \/ WatchdogCancels
  \/ \E graceful \in BOOLEAN : Restart(graceful)
  \/ ResumeCommand
  \/ \E i \in Indices(plan), action \in ManualActions : UpdatePlanProgress(action, i)
  \/ \E reason \in {"completed", "abandoned"} : ExitPlanMode(reason)

Spec == Init /\ [][Next]_vars

\* A model call and a tool end, if only by the step's timeout; timers fire.
FairSpec == Spec /\ WF_vars(Orchestrator)

-----------------------------------------------------------------------------
(* Properties *)

StepType == [id : Tags, tag : Tags, status : Statuses,
             error : {"none", "other", "checkpoint required"}, checkpointPassed : BOOLEAN]
EntryType == [partial : BOOLEAN, completed : BOOLEAN, seen : BOOLEAN, dups : 0 .. 2]
PlanType == [steps : Seq(StepType), ledger : [Tags -> EntryType], status : Statuses, lifecycle : Lifecycles]

\* Types of the plan in memory and on file and of the orchestrator; a run has a
\* plan, and the step it is at is a step of that plan, so that no transition of
\* plan.go looks for an ID in vain.
PlanRunTypeOK ==
  /\ plan = NoPlan \/ plan \in PlanType
  /\ file = NoPlan \/ file \in PlanType
  /\ {handoff, mode, cancelled, stale, clash} \subseteq BOOLEAN
  /\ watchdog \in {"armed", "paused", "gone"}
  /\ run.attempt \in 0 .. maxRetries /\ run.auto \in 0 .. maxAutoResumeRounds
  /\ run.rounds \in 0 .. run.limit
  /\ ~At("idle") => plan # NoPlan
  /\ run.id # 0 => Has(plan, run.id)

\* An attempt at a step begins (a first one or a retry).
AttemptBegins == run.pc # "exec" /\ run'.pc = "exec"

\* No step that has had side effects is attempted again before it was resumed: not
\* by a retry after a transient error, and not after a crash or a replan
\* (message_processor.go, the idempotency guard and the retry loop).  It is resumed
\* by the operator or by the orchestrator's own auto-resume.  Here and below, as long
\* as the steps have different IDs: plan.go finds a step, and the ledger keeps its
\* effects, by the ID.  A step that was completed, failed by hand and resumed has a
\* ledger entry that stays completed and hides its new effects; it is not meant.
NoBlindRetry ==
  [][AttemptBegins /\ ~clash /\ ~plan.ledger[run'.id].completed => run'.tag \notin dirty]_vars

\* A step that has had side effects is attempted again only after the operator has
\* resumed it (message_processor.go: "Stop at the attempt boundary and require an
\* explicit resume instead.").
ExplicitResume == [][AttemptBegins /\ ~clash => run'.tag \notin unreviewed]_vars

\* A step that was completed is never attempted again, whatever crashes, failed saves,
\* resumes, replans and commands follow, unless it was failed by hand or its
\* completion was lost with the save that failed (plan.go, executor.go).
DoneOnce == [][AttemptBegins /\ ~clash => run'.tag \notin done]_vars

\* The same without the condition, which RequestReplan is to provide (executor.go:
\* "Assign new IDs starting after the last kept step").
CompletedStaysDone == [][AttemptBegins => run'.tag \notin done]_vars

\* A high-risk step is attempted only after the operator has confirmed it with
\* /resume-plan (message_processor.go: "high-risk step needs operator confirmation").
HumanCheckpoint == [][AttemptBegins /\ run'.tag \in Risky => run'.tag \in confirmed]_vars

\* Whatever side effect a step has had since it was resumed is on file, so that a
\* crash at any time leaves a file that shows it, unless the last save failed
\* (agent_events.go saves at the tool's start; persistence_visibility.go: "resume/rollback
\* metadata may be stale").  The next save that succeeds makes up for it.
EffectsOnFile == clash \/ stale \/ \A t \in dirty : ShowsEffect(file, t)

\* A step that counts as completed, in memory or on file, has passed its
\* verification, but for two ways around it: update_plan_progress, and the output
\* that a failed agent left (executeDelegatedStep).  A completed plan has no other
\* steps than completed and skipped ones.
CompletedIsVerified ==
  \A p \in {plan, file} : p # NoPlan =>
    /\ clash \/ \A i \in StatusIs(p, {"completed"}) : p.steps[i].tag \in verified
    /\ p.status = "completed" => AllDone(p)

Started(p) == p.status # "pending"

\* A plan can be resumed: the current one, with steps left, whenever nothing runs, and
\* the one on file after a crash at any time once a step has started and as long as
\* one is pending or paused (lifecycle.go: "Resuming it must be able to return it to
\* Approved").  An in-progress plan on file whose other steps are all over is not
\* offered: isResumable asks for a pending or paused step.
CanResume ==
  /\ At("idle") /\ plan # NoPlan /\ PendingCount(plan) > 0
       => CanTransitionTo(plan.lifecycle, "approved")
  /\ file # NoPlan /\ Started(file) /\ StatusIs(file, {"pending", "paused"}) # {}
       => isResumable(file) /\ CanTransitionTo(file.lifecycle, "approved")

\* How many steps of the orchestrator are left in a round, at most: two for every
\* attempt that remains, then the way back to the head of the loop.
StepsLeft(r) ==
  LET retries == 2 * (maxRetries - r.attempt) IN
  CASE r.pc = "exec"                          -> 6 + retries
    [] r.pc = "backoff"                       -> 5 + retries
    [] r.pc = "verify"                        -> 5
    [] r.pc \in {"boundary", "finish", "replan"} -> 4
    [] r.pc \in {"context", "between", "stopping", "cooldown"} -> 3
    [] r.pc = "loop"                          -> 2
    [] r.pc = "gate"                          -> 1
    [] OTHER                                  -> 0

\* Every step of the orchestrator brings its run nearer to the end: it ends it, begins
\* one of the limited number of rounds, or goes on within the round; and nothing else
\* (Esc, the watchdog, a tool, a restart) takes it back.  So no run of a plan, through
\* retries, replans and auto-resumes, is longer than its limit of rounds allows.
RunAdvances ==
  [][/\ Orchestrator =>
          \/ run' = NoRun
          \/ run'.limit = run.limit /\ run'.rounds = run.rounds + 1 /\ run'.rounds <= run.limit
          \/ run'.limit = run.limit /\ run'.rounds = run.rounds /\ StepsLeft(run') < StepsLeft(run)
     /\ ~Orchestrator /\ ~At("idle") => run' \in {run, NoRun}]_vars

\* A run ends: the rounds, the auto-resumes and the retries are all limited.
RunEnds == ~At("idle") ~> At("idle")
=============================================================================
