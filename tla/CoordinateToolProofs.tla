------------------------- MODULE CoordinateToolProofs -------------------------
(***************************************************************************)
(* One call of the coordinate tool drives a legal run of its coordinator,  *)
(* so everything proved of Coordinator holds of it; a complete wait means  *)
(* that nothing of the call is left, and an interrupted one leaves no more *)
(* agents than its limit.                                                  *)
(***************************************************************************)
EXTENDS CoordinateTool, CoordinatorProofs

\* The tool's steps are public operations of the coordinator, or leave it alone.
LEMMA ToolStepIsStep ==
  ASSUME GraphInv, [ToolNext]_allVars
  PROVE  [Next]_vars
<1>0. Tool \in Callers /\ agent \in [Task -> Outcomes \union {"none", "working", "cancelling"}]
  BY ToolAssumption DEF GraphInv, TypeInv, TypeOK
<1>1. ASSUME NEW t \in Task, NEW pr \in Priorities, NEW D \in DepChoices[t], ToolAdd(t, D, pr)
      PROVE  Next
  <2>1. AddTask(Tool, t, D, pr)
    BY <1>1 DEF ToolAdd
  <2>2. CallerStep
    BY <1>0, <2>1 DEF CallerStep
  <2> QED BY <2>2 DEF Next, Work
<1>2. CASE ToolStart
  BY <1>2 DEF ToolStart, Next, Work, CallerStep
<1>3. CASE WaitReturns \/ AwaitCaptured
  BY <1>3 DEF WaitReturns, AwaitCaptured
<1>4. CASE CancelCaptured
  <2>1. CASE \E t \in running : agent[t] = "working"
    <3>1. CancelRunning
      BY <1>4, <2>1 DEF CancelCaptured, CancelRunning
    <3> QED BY <3>1 DEF Next, Work, CallerStep
  <2>2. CASE ~ \E t \in running : agent[t] = "working"
    <3>1. agent' = agent
      BY <1>0, <1>4, <2>2 DEF CancelCaptured
    <3> QED BY <1>4, <3>1 DEF CancelCaptured, vars, runnerVars
  <2> QED BY <2>1, <2>2
<1>5. CASE ToolStop
  BY <1>5 DEF ToolStop, Next
<1>6. CASE SystemStep
  BY <1>6 DEF SystemStep, Next, Work
<1>7. CASE UNCHANGED allVars
  BY <1>7 DEF allVars
<1> QED BY <1>1, <1>2, <1>3, <1>4, <1>5, <1>6, <1>7 DEF ToolNext, ToolStep

\* A task that was added is never forgotten.
LEMMA AddedStays ==
  ASSUME GraphInv, [Next]_vars
  PROVE  Added \subseteq Added'
<1> USE DEF graphVars
<1>0. TypeOK /\ status \in [Task -> Statuses]
  BY DEF GraphInv, TypeInv, TypeOK
<1>1. ASSUME NEW t \in Task, NEW res \in Outcomes \union {"cancelled"}, Settle(t, res)
      PROVE  Added \subseteq Added'
  <2> DEFINE skipped == Cascade(t, SettledStatus(t, res))
             ready == Unblocked(t, SettledStatus(t, res)) \ skipped
  <2>1. /\ status'[t] = (IF res = "success" THEN "completed" ELSE "failed")
        /\ \A u \in Task \ {t} :
             /\ u \in skipped => status'[u] = "failed"
             /\ u \in ready => status'[u] = "ready"
             /\ u \notin skipped /\ u \notin ready => status'[u] = status[u]
    BY <1>0, <1>1, SettleEffect
  <2> HIDE DEF skipped, ready
  <2> QED BY <2>1 DEF Added
<1>2. ASSUME UNCHANGED status
      PROVE  Added \subseteq Added'
  BY <1>2 DEF Added
<1>3. ASSUME CallerStep \/ Stop
      PROVE  Added \subseteq Added'
  <2>1. CASE Stop \/ Start \/ CancelRunning \/ \E n \in 1 .. MaxLimit : SetMaxParallel(n)
    BY <1>2, <2>1 DEF Stop, Start, SetMaxParallel, CancelRunning
  <2>2. ASSUME NEW p \in Callers, NEW t \in Task, CancelRequest(p, t)
        PROVE  Added \subseteq Added'
    BY <1>2, <2>2 DEF CancelRequest
  <2>3. ASSUME NEW p \in Callers, NEW t \in Task, CancelPublished(p, t) \/ CancelUnstarted(p, t)
        PROVE  Added \subseteq Added'
    <3>1. (Settle(t, agent[t]) /\ agent[t] \in Outcomes) \/ Settle(t, "cancelled")
      BY <2>3 DEF CancelPublished, CancelUnstarted, Published
    <3> QED BY <1>1, <3>1
  <2>4. ASSUME NEW p \in Callers, NEW t \in Task, NEW D \in DepChoices[t], NEW pr \in Priorities,
               AddTask(p, t, D, pr)
        PROVE  Added \subseteq Added'
    <3>1. /\ status'[t] \in {"failed", "ready", "blocked"}
          /\ \A u \in Task \ {t} : status'[u] = status[u]
      BY <1>0, <2>4 DEF AddTask
    <3> QED BY <3>1 DEF Added
  <2> QED BY <1>3, <2>1, <2>2, <2>3, <2>4 DEF CallerStep
<1>4. ASSUME LoopStep \/ LoopEvent
      PROVE  Added \subseteq Added'
  <2>1. CASE StartReadyDone \/ Spawning \/ CheckCompletedAgents \/ CheckCompletedDone \/ LoopCheck
             \/ LoopNotify \/ LoopStopped \/ LoopReady \/ LoopTick
    BY <1>2, <2>1 DEF StartReadyDone, Spawning, SpawnAsync, CheckCompletedAgents, CheckCompletedDone,
                      LoopCheck, LoopNotify, LoopStopped, LoopReady, LoopTick
  <2>2. ASSUME NEW t \in Task, StartTask(t)
        PROVE  Added \subseteq Added'
    <3>1. status' = [status EXCEPT ![t] = "running"]
      BY <2>2 DEF StartTask
    <3> QED BY <1>0, <3>1 DEF Added
  <2>3. ASSUME NEW t \in Task, StartTaskFails(t) \/ CommitReaped(t)
        PROVE  Added \subseteq Added'
    <3>1. \/ Settle(t, "failure") /\ "failure" \in Outcomes
          \/ Settle(t, agent[t]) /\ agent[t] \in Outcomes
      BY <2>3 DEF StartTaskFails, CommitReaped, Outcomes, GraphInv, TypeInv, ReapingPublished, Published
    <3> QED BY <1>1, <3>1
  <2>4. ASSUME NEW t \in Task, NEW res \in Outcomes, LoopDone(t, res)
        PROVE  Added \subseteq Added'
    <3>1. Settle(t, res) \/ UNCHANGED status
      BY <2>4 DEF LoopDone
    <3> QED BY <1>1, <1>2, <3>1
  <2> QED BY <1>4, <2>1, <2>2, <2>3, <2>4 DEF LoopStep, LoopEvent
<1>5. ASSUME NEW t \in Task, RunnerStep(t)
      PROVE  Added \subseteq Added'
  BY <1>2, <1>5 DEF RunnerStep, Finish, AgentFinish, Evict, Monitor, MonitorWait, MonitorWake,
                    MonitorSend, MonitorStep
<1>6. ASSUME NEW p \in Procs, DeliveryStep(p)
      PROVE  Added \subseteq Added'
  BY <1>2, <1>6 DEF DeliveryStep, Publish, Invoke, Drain, Notify
<1>7. CASE UNCHANGED vars
  BY <1>2, <1>7 DEF vars
<1> QED BY <1>3, <1>4, <1>5, <1>6, <1>7 DEF Next, Work

\* Execute is the tool's use of Coordinator: all that is proved of any caller holds.
THEOREM ToolDrivesCoordinator == ToolSpec => Spec
<1>1. ToolInit => Init /\ GraphInv
  BY InitGraphInv DEF ToolInit
<1>2. GraphInv /\ [ToolNext]_allVars => [Next]_vars /\ GraphInv'
  BY ToolStepIsStep, NextGraph
<1> QED BY <1>1, <1>2, PTL DEF ToolSpec, Spec

\* Execute starts the coordinator with the whole graph added, and reports completion
\* only of a coordinator that has released its waiters.
ToolInv ==
  /\ toolPc # "adding" => Added = Task
  /\ waitResult = "complete" => completionClosed /\ toolPc # "adding"

\* It is kept by the coordinator as well, which forgets no task and does not take the
\* release back.
LEMMA NextToolInv ==
  ASSUME GraphInv, ToolInv, [ToolNext]_allVars
  PROVE  ToolInv'
<1>1. [Next]_vars
  BY ToolStepIsStep
<1>2. Added \subseteq Added' /\ Added' \subseteq Task /\ (completionClosed => completionClosed')
  BY <1>1, AddedStays, EventSteps DEF Added
<1>3. \/ UNCHANGED <<toolPc, waitResult>>
      \/ toolPc = "adding" /\ Added = Task /\ UNCHANGED waitResult
      \/ toolPc = "waiting" /\ toolPc' # "adding" /\ (waitResult' = "complete" => completionClosed)
      \/ toolPc # "adding" /\ toolPc' # "adding" /\ UNCHANGED waitResult
  BY DEF ToolNext, ToolStep, SystemStep, ToolAdd, ToolStart, WaitReturns, CancelCaptured, AwaitCaptured,
         ToolStop, toolVars, allVars
<1> QED BY <1>2, <1>3 DEF ToolInv

\* Execute reports a complete run (WaitWithTimeoutCtx returned nil) only when every task
\* has its result and no agent of the call is at work any more.
THEOREM CompleteLeavesNothing == ToolSpec => []CompleteMeansQuiet
<1>1. ToolInit => ToolInv
  BY DEF ToolInit, ToolInv
<1>2. GraphInv /\ ToolInv /\ [ToolNext]_allVars => ToolInv'
  BY NextToolInv
<1>3. CompleteInv => GraphInv
  BY DEF CompleteInv
<1>4. CompleteInv /\ OutcomeInv /\ ToolInv => CompleteMeansQuiet
  <2> SUFFICES ASSUME CompleteInv, OutcomeInv, ToolInv, waitResult = "complete", NEW t \in Task
               PROVE  status[t] \in Terminal /\ result[t] # "none" /\ ~Alive(t)
    BY DEF CompleteMeansQuiet
  <2>1. status[t] \in Terminal
    BY DEF CompleteInv, CompletionInv, ReleasedIsTerminal, AllTasksTerminal, ToolInv
  <2> QED BY <2>1 DEF OutcomeInv, Terminal
<1> QED BY <1>1, <1>2, <1>3, <1>4, ToolDrivesCoordinator, CompleteInvariant, OutcomeInvariant, PTL
        DEF ToolSpec

\* Slots and agents of one call: an agent at work holds a slot, there are never more
\* slots than the limit, and an agent that teardown captured has been asked to cancel
\* (or has ended: Runner.Cancel is refused then).  An agent of a slot is there already,
\* so the request finds it.
LimitInv ==
  /\ Cardinality(running) <= maxParallel
  /\ captured \subseteq Task
  /\ \A t \in running : agent[t] # "none"
  /\ \A t \in captured : agent[t] \notin {"none", "working"}

\* Adding an element makes a finite set one larger, and a subset is no larger.
LEMMA SlotCount ==
  ASSUME NEW S \in SUBSET Task, NEW T \in SUBSET Task, NEW t \in Task
  PROVE  /\ Cardinality(S) \in Nat
         /\ S \subseteq T => Cardinality(S) <= Cardinality(T)
         /\ Cardinality(S \union {t}) <= Cardinality(S) + 1
<1>1. IsFiniteSet(S) /\ IsFiniteSet(T) /\ Cardinality(S) \in Nat
  BY TaskSets
<1>2. S \subseteq T => Cardinality(S) <= Cardinality(T)
  BY <1>1, FS_Subset
<1>3. Cardinality(S \union {t}) <= Cardinality(S) + 1
  BY <1>1, FS_AddElement
<1> QED BY <1>1, <1>2, <1>3

\* A slot is taken only by StartTask, which has seen one free; the tool sets the limit
\* before it adds the first task and never again.
LEMMA SlotSteps ==
  ASSUME GraphInv, [ToolNext]_allVars
  PROVE  /\ maxParallel' = maxParallel
         /\ \/ running' \subseteq running
            \/ \E t \in Task : SlotFree /\ running' = running \union {t} /\ agent'[t] = "working"
<1> USE DEF graphVars
<1> DEFINE Slots == /\ maxParallel' = maxParallel
                   /\ \/ running' \subseteq running
                      \/ \E t \in Task : SlotFree /\ running' = running \union {t} /\ agent'[t] = "working"
<1>1. ASSUME NEW t \in Task, NEW pr \in Priorities, NEW D \in DepChoices[t], ToolAdd(t, D, pr)
      PROVE  Slots
  BY <1>1 DEF ToolAdd, AddTask
<1>2. CASE ToolStart \/ WaitReturns \/ CancelCaptured \/ AwaitCaptured \/ ToolStop
  BY <1>2 DEF ToolStart, Start, WaitReturns, CancelCaptured, AwaitCaptured, ToolStop, Stop, vars
<1>3. ASSUME NEW p \in Procs, DeliveryStep(p) PROVE Slots
  BY <1>3 DEF DeliveryStep, Publish, Invoke, Drain, Notify
<1>4. ASSUME LoopStep \/ LoopEvent PROVE Slots
  <2>1. CASE StartReadyDone \/ Spawning \/ CheckCompletedAgents \/ CheckCompletedDone \/ LoopCheck
             \/ LoopNotify \/ LoopStopped \/ LoopReady \/ LoopTick
    BY <2>1 DEF StartReadyDone, Spawning, SpawnAsync, CheckCompletedAgents, CheckCompletedDone, LoopCheck,
                LoopNotify, LoopStopped, LoopReady, LoopTick
  <2>2. ASSUME NEW t \in Task, StartTask(t) PROVE Slots
    BY <2>2 DEF StartTask, Popped, GraphInv, TypeInv, TypeOK
  <2>3. ASSUME NEW t \in Task, StartTaskFails(t) \/ CommitReaped(t) PROVE Slots
    BY <2>3 DEF StartTaskFails, CommitReaped
  <2>4. ASSUME NEW t \in Task, NEW res \in Outcomes, LoopDone(t, res) PROVE Slots
    BY <2>4 DEF LoopDone
  <2> QED BY <1>4, <2>1, <2>2, <2>3, <2>4 DEF LoopStep, LoopEvent
<1>5. ASSUME NEW t \in Task, RunnerStep(t) PROVE Slots
  BY <1>5 DEF RunnerStep, Finish, AgentFinish, Evict, Monitor, MonitorWait, MonitorWake, MonitorSend,
              MonitorStep
<1>6. CASE UNCHANGED allVars
  BY <1>6 DEF allVars, vars
<1> QED BY <1>1, <1>2, <1>3, <1>4, <1>5, <1>6 DEF ToolNext, ToolStep, SystemStep

\* An agent that is there and not working does not begin to work: it is spawned once,
\* for a task that has none.
LEMMA SpawnedOnce ==
  ASSUME GraphInv, [Next]_vars
  PROVE  \A t \in Task : /\ agent[t] \notin {"none", "working"} => agent'[t] \notin {"none", "working"}
                         /\ agent[t] # "none" => agent'[t] # "none"
<1> USE DEF runnerVars
<1> DEFINE Same == \A t \in Task : /\ agent[t] \notin {"none", "working"} => agent'[t] \notin {"none", "working"}
                                   /\ agent[t] # "none" => agent'[t] # "none"
<1>0. agent \in [Task -> Outcomes \union {"none", "working", "cancelling"}]
  BY DEF GraphInv, TypeInv, TypeOK
<1>1. ASSUME UNCHANGED agent PROVE Same
  BY <1>1
<1>2. ASSUME CallerStep \/ Stop PROVE Same
  <2>1. CASE Stop \/ Start \/ \E n \in 1 .. MaxLimit : SetMaxParallel(n)
    BY <1>1, <2>1 DEF Stop, Start, SetMaxParallel
  <2>2. CASE CancelRunning
    BY <1>0, <2>2 DEF CancelRunning
  <2>3. ASSUME NEW p \in Callers, NEW t \in Task, CancelRequest(p, t) PROVE Same
    BY <1>0, <2>3 DEF CancelRequest
  <2>4. ASSUME NEW p \in Callers, NEW t \in Task, CancelPublished(p, t) \/ CancelUnstarted(p, t)
        PROVE  Same
    BY <1>1, <2>4 DEF CancelPublished, CancelUnstarted
  <2>5. ASSUME NEW p \in Callers, NEW t \in Task, NEW D \in DepChoices[t], NEW pr \in Priorities,
               AddTask(p, t, D, pr)
        PROVE  Same
    BY <1>1, <2>5 DEF AddTask
  <2> QED BY <1>2, <2>1, <2>2, <2>3, <2>4, <2>5 DEF CallerStep
<1>3. ASSUME NEW t \in Task, StartTask(t) PROVE Same
  <2>1. agent[t] = "none"
    BY <1>3 DEF StartTask, GraphInv, UnstartedHasNoAgent
  <2> QED BY <1>0, <1>3, <2>1 DEF StartTask
<1>4. ASSUME LoopStep \/ LoopEvent, ~ \E t \in Task : StartTask(t) PROVE Same
  BY <1>1, <1>4 DEF LoopStep, LoopEvent, StartReadyDone, Spawning, SpawnAsync, CheckCompletedAgents,
                    CheckCompletedDone, LoopCheck, LoopNotify, LoopStopped, LoopReady, LoopTick, LoopDone,
                    CommitReaped, StartTaskFails
<1>5. ASSUME NEW t \in Task, RunnerStep(t) PROVE Same
  <2>1. CASE Finish(t)
    BY <1>0, <2>1 DEF Finish, AgentFinish, Outcomes
  <2>2. CASE Evict(t) \/ Monitor(t)
    BY <1>1, <2>2 DEF Evict, Monitor, MonitorWait, MonitorWake, MonitorSend, MonitorStep
  <2> QED BY <1>5, <2>1, <2>2 DEF RunnerStep
<1>6. ASSUME NEW p \in Procs, DeliveryStep(p) PROVE Same
  BY <1>1, <1>6 DEF DeliveryStep, Publish, Invoke, Drain, Notify
<1>7. CASE UNCHANGED vars
  BY <1>1, <1>7 DEF vars
<1> QED BY <1>2, <1>3, <1>4, <1>5, <1>6, <1>7 DEF Next, Work

\* Every step keeps the bound.
LEMMA NextLimit ==
  ASSUME GraphInv, OutcomeInv, LimitInv, [ToolNext]_allVars
  PROVE  LimitInv'
<1>1. [Next]_vars
  BY ToolStepIsStep
<1>2. /\ running \in SUBSET Task /\ maxParallel \in Nat
      /\ agent \in [Task -> Outcomes \union {"none", "working", "cancelling"}]
  BY CoordinatorAssumption DEF GraphInv, TypeInv, TypeOK
<1>3. Cardinality(running') <= maxParallel'
  <2>1. CASE running' \subseteq running
    <3>1. running' \in SUBSET Task
      BY <1>2, <2>1
    <3>2. 1 \in Task
      BY CoordinatorAssumption DEF Task
    <3>3. Cardinality(running') <= Cardinality(running) /\ Cardinality(running) \in Nat
      BY <1>2, <2>1, <3>1, <3>2, SlotCount
    <3>4. Cardinality(running') \in Nat
      BY <3>1, TaskSets
    <3> QED BY <1>2, <3>3, <3>4, SlotSteps DEF LimitInv
  <2>2. ASSUME NEW t \in Task, SlotFree, running' = running \union {t}
        PROVE  Cardinality(running') <= maxParallel'
    <3>1. Cardinality(running') <= Cardinality(running) + 1 /\ Cardinality(running) \in Nat
      BY <1>2, <2>2, SlotCount
    <3>2. running' \in SUBSET Task
      BY <1>2, <2>2
    <3>3. Cardinality(running') \in Nat
      BY <3>2, TaskSets
    <3> QED BY <1>2, <2>2, <3>1, <3>3, SlotSteps DEF SlotFree
  <2> QED BY <2>1, <2>2, SlotSteps
<1>4. captured' \subseteq Task /\ \A t \in captured' : agent'[t] \notin {"none", "working"}
  <2>1. CASE CancelCaptured
    <3>1. captured' = running
      BY <2>1 DEF CancelCaptured
    <3>2. \A t \in running : agent[t] # "none"
      BY DEF LimitInv
    <3>3. \A t \in running : agent'[t] = IF agent[t] = "working" THEN "cancelling" ELSE agent[t]
      BY <1>2, <2>1 DEF CancelCaptured
    <3> QED BY <1>2, <3>1, <3>2, <3>3
  <2>2. CASE ~CancelCaptured
    <3>1. captured' = captured
      BY <2>2 DEF ToolNext, ToolStep, SystemStep, ToolAdd, ToolStart, WaitReturns, AwaitCaptured, ToolStop,
                  toolVars, allVars
    <3> QED BY <1>1, <3>1, SpawnedOnce DEF LimitInv
  <2> QED BY <2>1, <2>2
<1>5. \A t \in running' : agent'[t] # "none"
  BY <1>1, <1>2, SlotSteps, SpawnedOnce DEF LimitInv
<1> QED BY <1>3, <1>4, <1>5 DEF LimitInv

\* Whenever a call of the coordinate tool is interrupted, by its timeout or by Esc, and
\* however its teardown, the loop's spawns and the agents' ends interleave: no more
\* agents than max_parallel are ever at work for it, and the ones teardown found have
\* been asked to cancel.
THEOREM StragglersAlwaysBounded == ToolSpec => []StragglersBounded
<1>1. ToolInit => LimitInv
  <2>1. Cardinality({}) = 0
    BY FS_EmptySet
  <2> QED BY <2>1, CoordinatorAssumption DEF ToolInit, Init, LimitInv
<1>2. GraphInv /\ OutcomeInv /\ LimitInv => StragglersBounded
  <2> SUFFICES ASSUME GraphInv, OutcomeInv, LimitInv
               PROVE  StragglersBounded
    OBVIOUS
  <2>1. \A t \in Task : Alive(t) => status[t] = "running"
    BY DEF OutcomeInv, Alive
  <2>2. {t \in Task : Alive(t)} \in SUBSET Task /\ {t \in Task : Alive(t)} \subseteq running
    BY <2>1 DEF GraphInv, RunningIsRunning
  <2>3. running \in SUBSET Task /\ maxParallel \in Nat
    BY CoordinatorAssumption DEF GraphInv, TypeInv, TypeOK
  <2>4. 1 \in Task
    BY CoordinatorAssumption DEF Task
  <2>5. /\ Cardinality({t \in Task : Alive(t)}) <= Cardinality(running)
        /\ Cardinality({t \in Task : Alive(t)}) \in Nat /\ Cardinality(running) \in Nat
    BY <2>2, <2>3, <2>4, SlotCount
  <2>6. Cardinality({t \in Task : Alive(t)}) <= maxParallel
    BY <2>3, <2>5 DEF LimitInv
  <2> QED BY <2>1, <2>6 DEF StragglersBounded, LimitInv
<1> QED BY <1>1, <1>2, NextLimit, ToolDrivesCoordinator, GraphInvariant, OutcomeInvariant, PTL DEF ToolSpec

=============================================================================
