---------------------------- MODULE CoordinateTool ----------------------------
(***************************************************************************)
(* One call of the coordinate tool (internal/tools/coordinate.go Execute)  *)
(* driving a Coordinator of its own: add the whole validated graph, Start, *)
(* wait until it is released, or until the timeout or the turn's context   *)
(* ends the wait, and tear down: CancelRunningAndWait, then Stop.          *)
(*                                                                         *)
(* The tool is the coordinator's only caller, and it never cancels single  *)
(* tasks.  prepareCoordinateTasks has already rejected unknown and cyclic  *)
(* dependencies and ordered the tasks.                                     *)
(***************************************************************************)
EXTENDS Coordinator

CONSTANT Tool            \* the goroutine running Execute, the only caller

ASSUME ToolAssumption == Callers = {Tool}

VARIABLES toolPc,        \* position of Execute
          waitResult,    \* how WaitWithTimeoutCtx returned
          captured       \* the agents CancelRunningAndWait found in c.running

toolVars == <<toolPc, waitResult, captured>>
allVars == <<vars, toolVars>>

ToolInit ==
  /\ Init
  /\ toolPc = "adding"
  /\ waitResult = "none"
  /\ captured = {}

\* What prepareCoordinateTasks leaves of a dependency list: no unknown task.
\* (That dependencies come first in its order is AddTask's own guard.)
Prepared(D) == Missing \notin D

ToolAdd(t, D, pr) ==
  /\ toolPc = "adding" /\ Prepared(D)
  /\ AddTask(Tool, t, D, pr)
  /\ UNCHANGED toolVars

ToolStart ==
  /\ toolPc = "adding" /\ Added = Task
  /\ Start
  /\ toolPc' = "waiting"
  /\ UNCHANGED <<waitResult, captured>>

\* WaitWithTimeoutCtx: completion, or the timer or the caller's context.
WaitReturns ==
  /\ toolPc = "waiting"
  /\ \/ completionClosed /\ waitResult' = "complete"
     \/ waitResult' = "partial"
  /\ toolPc' = "teardown"
  /\ UNCHANGED <<vars, captured>>

\* CancelRunningAndWait captures the running agents and asks each to cancel,
CancelCaptured ==
  /\ toolPc = "teardown" /\ MuFree
  /\ captured' = running
  /\ agent' = [t \in Task |-> IF t \in running /\ agent[t] = "working"
                              THEN "cancelling" ELSE agent[t]]
  /\ toolPc' = "awaiting"
  /\ UNCHANGED <<graphVars, maxParallel, taskReadyCh, agentDoneCh, doneVars, pendingCallbacks,
                 stopped, loopVars, deliveryVars, evicted, monitor, delivered, waitResult>>

\* then waits for their final results, or for the cleanup deadline.
AwaitCaptured ==
  /\ toolPc = "awaiting"
  /\ toolPc' = "stopping"
  /\ UNCHANGED <<vars, waitResult, captured>>

ToolStop ==
  /\ toolPc = "stopping"
  /\ Stop
  /\ toolPc' = "done"
  /\ UNCHANGED <<waitResult, captured>>

ToolStep ==
  \/ \E t \in Task, pr \in Priorities : \E D \in DepChoices[t] : ToolAdd(t, D, pr)
  \/ ToolStart
  \/ WaitReturns
  \/ CancelCaptured
  \/ AwaitCaptured
  \/ ToolStop

SystemStep ==
  /\ \/ \E p \in Procs : DeliveryStep(p)
     \/ LoopStep
     \/ LoopEvent
     \/ \E t \in Task : RunnerStep(t)
  /\ UNCHANGED toolVars

ToolNext == ToolStep \/ SystemStep

ToolSpec == ToolInit /\ [][ToolNext]_allVars

-----------------------------------------------------------------------------

ToolTypeOK ==
  /\ TypeOK
  /\ toolPc \in {"adding", "waiting", "teardown", "awaiting", "stopping", "done"}
  /\ waitResult \in {"none", "complete", "partial"}
  /\ captured \subseteq Task

\* A wait that reports completion leaves nothing behind: every task has a
\* result and no agent of the call is still at work.
CompleteMeansQuiet ==
  waitResult = "complete" =>
    \A t \in Task : status[t] \in Terminal /\ result[t] # "none" /\ ~Alive(t)

\* What an interrupted call may leave behind is bounded: the loop may start agents
\* while the teardown captures, waits and stops, one even after Stop (it was past
\* SpawnAsync's look at the context), but all the agents of the call that are at
\* work, stragglers and agents asked to cancel included, never exceed max_parallel,
\* each belongs to a task without a verdict, and none of those that teardown found
\* is left without a cancel request.
StragglersBounded ==
  /\ Cardinality({t \in Task : Alive(t)}) <= maxParallel
  /\ \A t \in Task : Alive(t) => status[t] = "running"
  /\ \A t \in captured : agent[t] # "working"

\* "Teardown ALSO cancels any still-running spawned agents" (coordinate.go): none is
\* left working without a cancel request when Execute returns.  It does not hold of
\* an agent that the loop starts between the capture and Stop.
TeardownCancelsAgents == toolPc = "done" => \A t \in Task : agent[t] # "working"

=============================================================================
