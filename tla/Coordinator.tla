----------------------------- MODULE Coordinator -----------------------------
(***************************************************************************)
(* The multi-agent coordinator of internal/agent/coordinator.go with its   *)
(* priority queue (priority_queue.go) and the part of the Runner it talks  *)
(* to (runner_spawn.go SpawnAsync, runner_result.go).                      *)
(*                                                                         *)
(* Tasks are numbered in the order AddTask admits them, so a dependency is *)
(* always a smaller number; Missing stands for a dependency ID that is not *)
(* in c.tasks.  Each task spawns at most one agent, so an agent ID is      *)
(* written as the number of its task.                                      *)
(*                                                                         *)
(* A critical section of c.mu is one step, except the two that loop over   *)
(* several tasks (startReadyTasksLocked and checkCompletedAgents): they    *)
(* are one step per task, with the lock held between the steps (MuFree).   *)
(* The Runner and the monitor goroutines do not take c.mu and interleave   *)
(* with them.  Callbacks run outside the lock; a callback that re-enters   *)
(* the coordinator is one more caller acting between two stages of the     *)
(* delivery that invoked it.                                               *)
(***************************************************************************)
EXTENDS Integers, FiniteSets

CONSTANTS NumTasks,     \* how many tasks may be added
          Priorities,   \* the task priorities in use
          DepChoices,   \* for each task, the dependency lists it may be given
          MaxLimit,     \* largest value given to SetMaxParallel
          ReadyCap,     \* capacity of taskReadyCh (100 in the code)
          DoneCap,      \* capacity of agentDoneCh (100 in the code)
          Callers,      \* goroutines that call AddTask and CancelTask
          Loop          \* the processLoop goroutine

ASSUME CoordinatorAssumption ==
  /\ NumTasks \in Nat \ {0}
  /\ Priorities \subseteq Int
  /\ DepChoices \in [1 .. NumTasks -> SUBSET SUBSET (0 .. NumTasks)]
  /\ MaxLimit \in Nat \ {0}
  /\ ReadyCap \in Nat \ {0}
  /\ DoneCap \in Nat \ {0}
  /\ Loop \notin Callers

Missing == 0
Task == 1 .. NumTasks
Procs == Callers \union {Loop}

VARIABLES
  \* c.tasks: Status, Dependencies, Priority and Result of every task
  status, deps, prio, result,
  \* c.queue: 0 when not queued, else the task's queueSequence; nextSequence
  qseq, nextSequence,
  maxParallel, running,
  \* the two channels: a count of tokens, and the set of queued agent results
  taskReadyCh, agentDoneCh,
  sealed, completionClosed, allCompleteFired, pendingCallbacks,
  \* c.ctx has been cancelled
  stopped,
  \* processLoop's position, the agents checkCompletedAgents still commits, and
  \* the task whose SpawnAsync is past its look at the context (0 when none is)
  loopPc, reaping, spawning,
  \* per goroutine: where it is in deliverTaskCompletions, and with which batch
  stage, batch,
  \* the Runner: the state or published outcome of each agent, evicted results
  agent, evicted,
  \* the monitor goroutine startTask launches, or the snapshot it holds
  monitor,
  \* how often onTaskComplete has been invoked for each task
  delivered

graphVars == <<status, deps, prio, result, qseq, nextSequence, running>>
loopVars == <<loopPc, reaping, spawning>>
deliveryVars == <<stage, batch>>
runnerVars == <<agent, evicted, monitor>>
doneVars == <<sealed, completionClosed, allCompleteFired>>
vars == <<graphVars, maxParallel, taskReadyCh, agentDoneCh, doneVars,
          pendingCallbacks, stopped, loopVars, deliveryVars, runnerVars, delivered>>

Terminal == {"completed", "failed"}
Statuses == {"absent", "blocked", "ready", "running"} \union Terminal
Outcomes == {"success", "failure"}

Added == {t \in Task : status[t] # "absent"}
Queue == {t \in Task : qseq[t] > 0}

\* c.mu is held across steps only inside the two looping critical sections.
MuFree == loopPc \notin {"starting", "tickStarting", "reaping"}
IdleCaller(p) == p \in Callers /\ stage[p] = "idle"
Alive(t) == agent[t] \in {"working", "cancelling"}
Published(t) == agent[t] \in Outcomes

-----------------------------------------------------------------------------
(* Channels and queue                                                      *)

\* (variant: the channel is taken to be unbounded)
SignalledUnbounded(n) == taskReadyCh + n

\* n non-blocking sends on the buffered taskReadyCh: sends past the
\* capacity are dropped.
Signalled(n) == IF taskReadyCh + n > ReadyCap THEN ReadyCap ELSE taskReadyCh + n

\* TaskQueue.Less: higher priority first, FIFO among equals.
Less(t, u) == \/ prio[t] > prio[u]
              \/ prio[t] = prio[u] /\ qseq[t] < qseq[u]

\* TaskQueue.PopTask returns the least element of the heap.
IsHead(t) == t \in Queue /\ \A u \in Queue \ {t} : Less(t, u)

\* (variant: the task is left in the heap)
DequeuedNot(t) == qseq

\* TaskQueue.RemoveTask, and the pop of a task that then fails to start.
Dequeued(t) == [qseq EXCEPT ![t] = 0]

\* TaskQueue.PushTask of every task of S onto the queue q, in the order of
\* their numbers (the order in which AddTask appended them to c.dependencies).
Pushed(q, S) ==
  [t \in Task |-> IF t \in S THEN nextSequence + Cardinality({u \in S : u <= t})
                             ELSE q[t]]

-----------------------------------------------------------------------------
(* The dependency graph                                                    *)

FailedDependency(D, st) ==
  D \intersect ({Missing} \union {d \in Task : st[d] = "failed"}) # {}
DependenciesMet(D, st) == D \subseteq {d \in Task : st[d] = "completed"}

\* S is closed under the failure propagation of resolveDependentsLocked: it
\* holds every blocked task that the worklist reaches and finds with a failed
\* dependency, when the worklist starts from the dependents of t.
CascadeClosed(t, st, S) ==
  \A u \in Task :
     /\ st[u] = "blocked"
     /\ deps[u] \intersect (S \union {t}) # {}
     /\ FailedDependency(deps[u], st) \/ deps[u] \intersect S # {}
     => u \in S

\* (variant: only the direct dependents fail)
CascadeDirect(t, st) ==
  {u \in Task : st[u] = "blocked" /\ t \in deps[u] /\ FailedDependency(deps[u], st)}

\* (variant: a failure also takes unrelated blocked tasks)
CascadeEverything(t, st) ==
  {u \in Task : st[u] = "blocked" /\ st[t] = "failed"}

\* The tasks resolveDependentsLocked fails: the least closed set.
Cascade(t, st) ==
  {u \in Task : st[u] = "blocked" /\
                \A S \in SUBSET Task : CascadeClosed(t, st, S) => u \in S}

\* The tasks resolveDependentsLocked makes ready after t became terminal.
Unblocked(t, st) ==
  {u \in Task : /\ st[u] = "blocked"
                /\ t \in deps[u]
                /\ DependenciesMet(deps[u], st)}

\* (variant: every published result counts as success)
SettledAlwaysCompleted(t, res) == [status EXCEPT ![t] = "completed"]

\* A task reaches a terminal status with result res and its dependents are
\* resolved, all in the caller's critical section: the tasks that fail with it
\* are the completions the caller must deliver.
SettledStatus(t, res) ==
  [status EXCEPT ![t] = IF res = "success" THEN "completed" ELSE "failed"]

Settled(t, res) == {t} \union Cascade(t, SettledStatus(t, res))

Settle(t, res) ==
  LET st == SettledStatus(t, res)
      skipped == Cascade(t, st)
      ready == Unblocked(t, st) \ skipped
  IN /\ status' = [u \in Task |-> IF u \in skipped THEN "failed"
                                  ELSE IF u \in ready THEN "ready" ELSE st[u]]
     /\ result' = [u \in Task |-> IF u = t THEN res
                                  ELSE IF u \in skipped THEN "skipped" ELSE result[u]]
     /\ qseq' = Pushed(Dequeued(t), ready)
     /\ nextSequence' = nextSequence + Cardinality(ready)
     /\ taskReadyCh' = Signalled(Cardinality(ready))
     /\ UNCHANGED <<deps, prio>>

\* The caller leaves its critical section with the completions S registered in
\* pendingCallbacks, and goes on to deliver them (nothing to do when S is empty).
Register(p, S) ==
  /\ pendingCallbacks' = pendingCallbacks + Cardinality(S)
  /\ batch' = [batch EXCEPT ![p] = S]
  /\ stage' = [stage EXCEPT ![p] = IF S = {} THEN "idle" ELSE "publish"]

-----------------------------------------------------------------------------
(* Operations of the public interface                                      *)

Init ==
  /\ status = [t \in Task |-> "absent"]
  /\ deps = [t \in Task |-> {}]
  /\ prio = [t \in Task |-> 0]
  /\ result = [t \in Task |-> "none"]
  /\ qseq = [t \in Task |-> 0]
  /\ nextSequence = 0
  /\ maxParallel \in 1 .. MaxLimit
  /\ running = {}
  /\ taskReadyCh = 0
  /\ agentDoneCh = {}
  /\ sealed = FALSE
  /\ completionClosed = FALSE
  /\ allCompleteFired = FALSE
  /\ pendingCallbacks = 0
  /\ stopped = FALSE
  /\ loopPc = "off"
  /\ reaping = {}
  /\ spawning = 0
  /\ stage = [p \in Procs |-> "idle"]
  /\ batch = [p \in Procs |-> {}]
  /\ agent = [t \in Task |-> "none"]
  /\ evicted = {}
  /\ monitor = [t \in Task |-> "none"]
  /\ delivered = [t \in Task |-> 0]

\* AddTask: rejected once the graph is sealed.  A task with a failed or unknown
\* dependency is terminal at once, one whose dependencies are all met is queued
\* and signalled, any other is blocked.
AddTask(p, t, D, pr) ==
  /\ IdleCaller(p) /\ MuFree /\ ~sealed
  /\ t \notin Added /\ 1 .. t - 1 \subseteq Added
  /\ D \subseteq Added \union {Missing}
  /\ deps' = [deps EXCEPT ![t] = D]
  /\ prio' = [prio EXCEPT ![t] = pr]
  /\ \/ /\ FailedDependency(D, status)
        /\ status' = [status EXCEPT ![t] = "failed"]
        /\ result' = [result EXCEPT ![t] = "skipped"]
        /\ Register(p, {t})
        /\ UNCHANGED <<qseq, nextSequence, taskReadyCh>>
     \/ /\ ~FailedDependency(D, status) /\ DependenciesMet(D, status)
        /\ status' = [status EXCEPT ![t] = "ready"]
        /\ qseq' = Pushed(qseq, {t})
        /\ nextSequence' = nextSequence + 1
        /\ taskReadyCh' = Signalled(1)
        /\ UNCHANGED <<result, pendingCallbacks, deliveryVars>>
     \/ /\ ~FailedDependency(D, status) /\ ~DependenciesMet(D, status)
        /\ status' = [status EXCEPT ![t] = "blocked"]
        /\ UNCHANGED <<result, qseq, nextSequence, taskReadyCh, pendingCallbacks, deliveryVars>>
  /\ UNCHANGED <<running, maxParallel, agentDoneCh, doneVars, stopped, loopVars, runnerVars,
                 delivered>>

\* Start (startOnce): seal the graph, launch processLoop, leave one signal.
Start ==
  /\ ~sealed /\ MuFree
  /\ sealed' = TRUE
  /\ loopPc' = "select"
  /\ taskReadyCh' = Signalled(1)
  /\ UNCHANGED <<graphVars, maxParallel, agentDoneCh, completionClosed, allCompleteFired,
                 pendingCallbacks, stopped, reaping, spawning, deliveryVars, runnerVars, delivered>>

SetMaxParallel(n) ==
  /\ MuFree
  /\ maxParallel' = n
  /\ taskReadyCh' = Signalled(1)
  /\ UNCHANGED <<graphVars, agentDoneCh, doneVars, pendingCallbacks, stopped, loopVars,
                 deliveryVars, runnerVars, delivered>>

Stop ==
  /\ ~stopped
  /\ stopped' = TRUE
  /\ UNCHANGED <<graphVars, maxParallel, taskReadyCh, agentDoneCh, doneVars,
                 pendingCallbacks, loopVars, deliveryVars, runnerVars, delivered>>

\* CancelTask on a task whose agent has published its result: the result wins
\* over the cancellation and is committed here.
CancelPublished(p, t) ==
  /\ IdleCaller(p) /\ MuFree
  /\ t \in running /\ Published(t) /\ t \notin evicted
  /\ Settle(t, agent[t])
  /\ running' = running \ {t}
  /\ Register(p, Settled(t, agent[t]))
  /\ UNCHANGED <<maxParallel, agentDoneCh, doneVars, stopped, loopVars, runnerVars, delivered>>

\* (variant: a running task is made terminal by the request itself)
CancelRequestTerminal(p, t) ==
  /\ IdleCaller(p) /\ MuFree
  /\ t \in running /\ agent[t] = "working"
  /\ Settle(t, "cancelled")
  /\ Register(p, Settled(t, "cancelled"))
  /\ UNCHANGED <<running, maxParallel, agentDoneCh, doneVars, stopped, loopVars, runnerVars,
                 delivered>>

\* CancelTask on a task whose agent still works: only a request to the Runner.
CancelRequest(p, t) ==
  /\ IdleCaller(p) /\ MuFree
  /\ t \in running /\ agent[t] = "working"
  /\ agent' = [agent EXCEPT ![t] = "cancelling"]
  /\ UNCHANGED <<graphVars, maxParallel, taskReadyCh, agentDoneCh, doneVars, pendingCallbacks,
                 stopped, loopVars, deliveryVars, evicted, monitor, delivered>>

\* CancelTask on a task that never started: terminal at once.
CancelUnstarted(p, t) ==
  /\ IdleCaller(p) /\ MuFree
  /\ t \in Added \ running /\ status[t] \notin Terminal
  /\ Settle(t, "cancelled")
  /\ Register(p, Settled(t, "cancelled"))
  /\ UNCHANGED <<running, maxParallel, agentDoneCh, doneVars, stopped, loopVars, runnerVars,
                 delivered>>

\* CancelRunning: a cancel request for every agent in c.running; one that has
\* already finished ignores it.
CancelRunning ==
  /\ MuFree
  /\ \E t \in running : agent[t] = "working"
  /\ agent' = [t \in Task |-> IF t \in running /\ agent[t] = "working"
                              THEN "cancelling" ELSE agent[t]]
  /\ UNCHANGED <<graphVars, maxParallel, taskReadyCh, agentDoneCh, doneVars, pendingCallbacks,
                 stopped, loopVars, deliveryVars, evicted, monitor, delivered>>

-----------------------------------------------------------------------------
(* deliverTaskCompletions and the completion events                        *)

\* (variant: only the running agents are looked at)
AllTasksTerminalRunningOnly == running = {}

\* allTasksTerminalLocked and isAllCompleteLocked
AllTasksTerminal == running = {} /\ \A t \in Added : status[t] \in Terminal

IsAllComplete == pendingCallbacks = 0 /\ AllTasksTerminal

\* (variant: published before the graph is sealed)
CompletionReadyUnsealed == AllTasksTerminal

CompletionReady == sealed /\ AllTasksTerminal

\* The delivery that leaves n = 0 callbacks pending notifies.
LastDrain(n) == n = 0 /\ CompletionReady

\* publishCompletionIfReady, before any observer runs.
Publish(p) ==
  /\ stage[p] = "publish" /\ MuFree
  /\ completionClosed' = (completionClosed \/ CompletionReady)
  /\ stage' = [stage EXCEPT ![p] = "invoke"]
  /\ UNCHANGED <<graphVars, maxParallel, taskReadyCh, agentDoneCh, sealed, allCompleteFired,
                 pendingCallbacks, stopped, loopVars, batch, runnerVars, delivered>>

\* invokeCoordinatorTaskComplete for every completion of the batch.
Invoke(p) ==
  /\ stage[p] = "invoke"
  /\ delivered' = [t \in Task |-> IF t \in batch[p] THEN delivered[t] + 1 ELSE delivered[t]]
  /\ stage' = [stage EXCEPT ![p] = "drain"]
  /\ UNCHANGED <<graphVars, maxParallel, taskReadyCh, agentDoneCh, doneVars, pendingCallbacks,
                 stopped, loopVars, batch, runnerVars>>

\* The batch leaves pendingCallbacks (never below zero); the delivery that
\* drains the last one of a sealed, terminal graph notifies.
Drain(p) ==
  /\ stage[p] = "drain" /\ MuFree
  /\ pendingCallbacks' = IF pendingCallbacks < Cardinality(batch[p]) THEN 0
                         ELSE pendingCallbacks - Cardinality(batch[p])
  /\ batch' = [batch EXCEPT ![p] = {}]
  /\ stage' = [stage EXCEPT ![p] =
                 IF LastDrain(pendingCallbacks') THEN "notify" ELSE "idle"]
  /\ UNCHANGED <<graphVars, maxParallel, taskReadyCh, agentDoneCh, doneVars, stopped, loopVars,
                 runnerVars, delivered>>

\* notifyAllComplete re-checks under the lock; both events fire at most once.
NotifyAllComplete ==
  LET ready == sealed /\ IsAllComplete
  IN /\ completionClosed' = (completionClosed \/ ready)
     /\ allCompleteFired' = (allCompleteFired \/ ready)

Notify(p) ==
  /\ stage[p] = "notify" /\ MuFree
  /\ NotifyAllComplete
  /\ stage' = [stage EXCEPT ![p] = "idle"]
  /\ UNCHANGED <<graphVars, maxParallel, taskReadyCh, agentDoneCh, sealed, pendingCallbacks,
                 stopped, loopVars, batch, runnerVars, delivered>>

-----------------------------------------------------------------------------
(* processLoop                                                             *)

\* The loop goroutine stands at pc with no delivery of its own in progress.
LoopAt(pc) == loopPc = pc /\ stage[Loop] = "idle"

LoopStopped ==
  /\ LoopAt("select") /\ stopped
  /\ loopPc' = "exited"
  /\ UNCHANGED <<graphVars, maxParallel, taskReadyCh, agentDoneCh, doneVars, pendingCallbacks,
                 stopped, reaping, spawning, deliveryVars, runnerVars, delivered>>

\* A token of taskReadyCh: processReadyTasks takes the lock.
LoopReady ==
  /\ LoopAt("select") /\ taskReadyCh > 0
  /\ taskReadyCh' = taskReadyCh - 1
  /\ loopPc' = "starting"
  /\ UNCHANGED <<graphVars, maxParallel, agentDoneCh, doneVars, pendingCallbacks, stopped,
                 reaping, spawning, deliveryVars, runnerVars, delivered>>

\* (variant: the ticker only looks for completed agents)
LoopTickNoStart ==
  /\ LoopAt("select")
  /\ loopPc' = "tickAgents"
  /\ UNCHANGED <<graphVars, maxParallel, taskReadyCh, agentDoneCh, doneVars, pendingCallbacks,
                 stopped, reaping, spawning, deliveryVars, runnerVars, delivered>>

\* The five-second fallback ticker: processReadyTasks, then checkCompletedAgents.
LoopTick ==
  /\ LoopAt("select")
  /\ loopPc' = "tickStarting"
  /\ UNCHANGED <<graphVars, maxParallel, taskReadyCh, agentDoneCh, doneVars, pendingCallbacks,
                 stopped, reaping, spawning, deliveryVars, runnerVars, delivered>>

\* handleAgentCompletionResult: commit the monitor's snapshot, unless the
\* agent is no longer in c.running.
LoopDone(t, res) ==
  /\ LoopAt("select") /\ <<t, res>> \in agentDoneCh
  /\ agentDoneCh' = agentDoneCh \ {<<t, res>>}
  /\ loopPc' = "check"
  /\ \/ /\ t \in running
        /\ Settle(t, res)
        /\ running' = running \ {t}
        /\ Register(Loop, Settled(t, res))
     \/ /\ t \notin running
        /\ UNCHANGED <<graphVars, taskReadyCh, pendingCallbacks, deliveryVars>>
  /\ UNCHANGED <<maxParallel, doneVars, stopped, reaping, spawning, runnerVars, delivered>>

\* One iteration of startReadyTasksLocked: the head of the queue is popped.  (A
\* popped task is always ready: that is QueueIsReady below.)
Starting == loopPc \in {"starting", "tickStarting"}

\* (variant: one slot too many)
SlotFreeLate == Cardinality(running) <= maxParallel

SlotFree == Cardinality(running) < maxParallel
Popped(t) == Starting /\ SlotFree /\ IsHead(t)

\* SpawnAsync looks at the context once and refuses one that is cancelled.
SpawnAsync(t) ==
  /\ Popped(t) /\ status[t] = "ready" /\ spawning # t /\ ~stopped
  /\ spawning' = t
  /\ UNCHANGED <<graphVars, maxParallel, taskReadyCh, agentDoneCh, doneVars, pendingCallbacks,
                 stopped, loopPc, reaping, deliveryVars, runnerVars, delivered>>
Spawning == \E t \in Task : SpawnAsync(t)

\* Then it registers the agent under the Runner's own lock and returns its ID,
\* and startTask launches the monitor.  A Stop since the look is not noticed:
\* the agent is detached from the coordinator's context.
StartTask(t) ==
  /\ Popped(t) /\ status[t] = "ready" /\ spawning = t
  /\ spawning' = 0
  /\ status' = [status EXCEPT ![t] = "running"]
  /\ qseq' = Dequeued(t)
  /\ running' = running \union {t}
  /\ agent' = [agent EXCEPT ![t] = "working"]
  /\ monitor' = [monitor EXCEPT ![t] = "spawned"]
  /\ UNCHANGED <<deps, prio, result, nextSequence, maxParallel, taskReadyCh, agentDoneCh, doneVars,
                 pendingCallbacks, stopped, loopPc, reaping, deliveryVars, evicted, delivered>>

\* startTask fails (no agent ID, or a panic in the spawn): the task is
\* terminal and its dependents are skipped; the slot stays free.
StartTaskFails(t) ==
  /\ Popped(t) /\ status[t] = "ready"
  /\ spawning' = 0
  /\ Settle(t, "failure")
  /\ batch' = [batch EXCEPT ![Loop] = batch[Loop] \union Settled(t, "failure")]
  /\ UNCHANGED <<running, maxParallel, agentDoneCh, doneVars, pendingCallbacks, stopped, loopPc,
                 reaping, stage, runnerVars, delivered>>

\* No slot or no queued task left: register the failures and unlock.
StartReadyDone ==
  /\ Starting /\ (~SlotFree \/ Queue = {})
  /\ loopPc' = IF loopPc = "starting" THEN "check" ELSE "tickAgents"
  /\ Register(Loop, batch[Loop])
  /\ UNCHANGED <<graphVars, maxParallel, taskReadyCh, agentDoneCh, doneVars, stopped, reaping, spawning,
                 runnerVars, delivered>>

\* checkCompletedAgents collects the agents whose result can be read now,
CheckCompletedAgents ==
  /\ LoopAt("tickAgents")
  /\ reaping' = {t \in running : Published(t) /\ t \notin evicted}
  /\ loopPc' = "reaping"
  /\ UNCHANGED <<graphVars, maxParallel, taskReadyCh, agentDoneCh, doneVars, pendingCallbacks,
                 stopped, spawning, deliveryVars, runnerVars, delivered>>

\* commits them one by one (in map order, so in any order),
CommitReaped(t) ==
  /\ loopPc = "reaping" /\ t \in reaping
  /\ reaping' = reaping \ {t}
  /\ Settle(t, agent[t])
  /\ running' = running \ {t}
  /\ batch' = [batch EXCEPT ![Loop] = batch[Loop] \union Settled(t, agent[t])]
  /\ UNCHANGED <<maxParallel, agentDoneCh, doneVars, pendingCallbacks, stopped, loopPc, spawning, stage,
                 runnerVars, delivered>>

\* and registers the completions before it unlocks.
CheckCompletedDone ==
  /\ loopPc = "reaping" /\ reaping = {}
  /\ loopPc' = "check"
  /\ Register(Loop, batch[Loop])
  /\ UNCHANGED <<graphVars, maxParallel, taskReadyCh, agentDoneCh, doneVars, stopped, reaping, spawning,
                 runnerVars, delivered>>

\* isAllComplete after every event: notify and return, or wait again.
LoopCheck ==
  /\ LoopAt("check")
  /\ loopPc' = IF IsAllComplete THEN "notify" ELSE "select"
  /\ UNCHANGED <<graphVars, maxParallel, taskReadyCh, agentDoneCh, doneVars, pendingCallbacks,
                 stopped, reaping, spawning, deliveryVars, runnerVars, delivered>>

LoopNotify ==
  /\ LoopAt("notify")
  /\ NotifyAllComplete
  /\ loopPc' = "exited"
  /\ UNCHANGED <<graphVars, maxParallel, taskReadyCh, agentDoneCh, sealed, pendingCallbacks,
                 stopped, reaping, spawning, deliveryVars, runnerVars, delivered>>

-----------------------------------------------------------------------------
(* The Runner and the monitor goroutines                                   *)

\* The run goroutine of SpawnAsync publishes its final result.
AgentFinish(t, res) ==
  /\ Alive(t)
  /\ agent' = [agent EXCEPT ![t] = res]
  /\ UNCHANGED <<graphVars, maxParallel, taskReadyCh, agentDoneCh, doneVars, pendingCallbacks,
                 stopped, loopVars, deliveryVars, evicted, monitor, delivered>>

\* cleanupOldResults drops a published result that has no registered waiter,
\* to keep the history shared by every user of the Runner within its limit.
\* (Only while somebody may still read it: later evictions change nothing.)
Evict(t) ==
  /\ Published(t) /\ t \notin evicted /\ monitor[t] # "waiting"
  /\ t \in running \/ monitor[t] = "spawned"
  /\ evicted' = evicted \union {t}
  /\ UNCHANGED <<graphVars, maxParallel, taskReadyCh, agentDoneCh, doneVars, pendingCallbacks,
                 stopped, loopVars, deliveryVars, agent, monitor, delivered>>

MonitorStep(t, pc) ==
  /\ monitor' = [monitor EXCEPT ![t] = pc]
  /\ UNCHANGED <<graphVars, maxParallel, taskReadyCh, doneVars, pendingCallbacks, stopped, loopVars,
                 deliveryVars, agent, evicted, delivered>>

\* WaitWithContext: take a published result, register as a waiter, or fail
\* because the Runner no longer tracks the agent; that error becomes a
\* synthetic failure unless the coordinator is stopped.
MonitorWait(t) ==
  /\ monitor[t] = "spawned"
  /\ \/ Published(t) /\ t \notin evicted /\ MonitorStep(t, agent[t])
     \/ t \in evicted /\ ~stopped /\ MonitorStep(t, "failure")
     \/ t \in evicted /\ stopped /\ MonitorStep(t, "gone")
     \/ Alive(t) /\ MonitorStep(t, "waiting")
  /\ UNCHANGED agentDoneCh

\* The waiter is woken by the publication, or by the context; a completion
\* that is already there wins.
MonitorWake(t) ==
  /\ monitor[t] = "waiting"
  /\ \/ Published(t) /\ MonitorStep(t, agent[t])
     \/ Alive(t) /\ stopped /\ MonitorStep(t, "gone")
  /\ UNCHANGED agentDoneCh

\* The snapshot goes to agentDoneCh, or is dropped when the context is done.
MonitorSend(t) ==
  /\ monitor[t] \in Outcomes
  /\ \/ /\ Cardinality(agentDoneCh) < DoneCap
        /\ agentDoneCh' = agentDoneCh \union {<<t, monitor[t]>>}
     \/ stopped /\ UNCHANGED agentDoneCh
  /\ MonitorStep(t, "gone")

-----------------------------------------------------------------------------

CallerStep ==
  \/ Start
  \/ \E n \in 1 .. MaxLimit : n # maxParallel /\ SetMaxParallel(n)
  \/ CancelRunning
  \/ \E p \in Callers, t \in Task :
       \/ \E D \in DepChoices[t], pr \in Priorities : AddTask(p, t, D, pr)
       \/ CancelPublished(p, t)
       \/ CancelRequest(p, t)
       \/ CancelUnstarted(p, t)

DeliveryStep(p) == Publish(p) \/ Invoke(p) \/ Drain(p) \/ Notify(p)

LoopStep ==
  \/ StartReadyDone
  \/ CheckCompletedAgents
  \/ CheckCompletedDone
  \/ LoopCheck
  \/ LoopNotify
  \/ Spawning
  \/ \E t \in Task : StartTask(t) \/ StartTaskFails(t) \/ CommitReaped(t)

LoopEvent ==
  \/ LoopStopped
  \/ LoopReady
  \/ LoopTick
  \/ \E t \in Task, res \in Outcomes : LoopDone(t, res)

Monitor(t) == MonitorWait(t) \/ MonitorWake(t) \/ MonitorSend(t)
Finish(t) == \E res \in Outcomes : AgentFinish(t, res)
RunnerStep(t) == Finish(t) \/ Evict(t) \/ Monitor(t)

\* Everything but Stop.
Work ==
  \/ CallerStep
  \/ \E p \in Procs : DeliveryStep(p)
  \/ LoopStep
  \/ LoopEvent
  \/ \E t \in Task : RunnerStep(t)

Next == Work \/ Stop

Spec == Init /\ [][Next]_vars

\* Goroutines that can run do run; an agent's run ends (the Runner gives it a
\* deadline); Go's mutex and its select do not pass over for ever a goroutine or
\* a case that is ready again and again, hence strong fairness where one waits
\* for c.mu, for room in a channel, or to be picked by processLoop's select.
Fairness ==
  /\ WF_vars(LoopStep)
  /\ SF_vars(LoopTick)
  /\ SF_vars(\E t \in Task, res \in Outcomes : LoopDone(t, res))
  /\ \A p \in Procs : SF_vars(DeliveryStep(p))
  /\ \A t \in Task : WF_vars(Finish(t)) /\ SF_vars(Monitor(t))

FairSpec == Spec /\ Fairness

-----------------------------------------------------------------------------
(* Properties                                                              *)

TypeOK ==
  /\ status \in [Task -> Statuses]
  /\ deps \in [Task -> SUBSET (0 .. NumTasks)]
  /\ prio \in [Task -> Int]
  /\ result \in [Task -> Outcomes \union {"none", "cancelled", "skipped"}]
  /\ qseq \in [Task -> Nat]
  /\ nextSequence \in Nat
  /\ maxParallel \in 1 .. MaxLimit
  /\ running \subseteq Task
  /\ taskReadyCh \in 0 .. ReadyCap
  /\ agentDoneCh \subseteq Task \X Outcomes
  /\ sealed \in BOOLEAN /\ completionClosed \in BOOLEAN /\ allCompleteFired \in BOOLEAN
  /\ pendingCallbacks \in Nat
  /\ stopped \in BOOLEAN
  /\ loopPc \in {"off", "select", "starting", "tickStarting", "tickAgents", "reaping", "check",
                 "notify", "exited"}
  /\ reaping \subseteq Task
  /\ spawning \in 0 .. NumTasks
  /\ stage \in [Procs -> {"idle", "publish", "invoke", "drain", "notify"}]
  /\ batch \in [Procs -> SUBSET Task]
  /\ agent \in [Task -> Outcomes \union {"none", "working", "cancelling"}]
  /\ evicted \subseteq Task
  /\ monitor \in [Task -> Outcomes \union {"none", "spawned", "waiting", "gone"}]
  /\ delivered \in [Task -> Nat]

\* An agent is spawned only for a task whose dependencies have all completed
\* successfully, and they stay so (areDependenciesMet, resolveDependentsLocked).
DependenciesRespected ==
  \A t \in Task : agent[t] # "none" => DependenciesMet(deps[t], status)

\* No blocked task is stranded: none of its dependencies has failed, and one of
\* them is still to finish, so some later completion resolves it.
NoStrandedTask ==
  \A t \in Task : status[t] = "blocked" =>
     /\ ~FailedDependency(deps[t], status)
     /\ \E d \in deps[t] : status[d] \notin Terminal

\* Dependencies are neither jumped nor waited for in vain, on any graph and
\* whatever fails, is cancelled or completes meanwhile.
GraphSound == DependenciesRespected /\ NoStrandedTask

\* The queue holds exactly the ready tasks: PopTask never meets another status
\* and no ready task is lost.
QueueIsReady == \A t \in Task : qseq[t] > 0 <=> status[t] = "ready"

\* c.running and the Running status agree whenever the lock is free, so a slot
\* is neither leaked nor released twice.
RunningIsRunning == running = {t \in Task : status[t] = "running"}

\* The queue, the slots and the statuses are three books of one graph and agree
\* whenever the lock is free.
BooksAgree == QueueIsReady /\ RunningIsRunning

\* A committed result follows the agent: success is never invented, and a
\* successful agent is reported as failed only when its result was evicted
\* before anybody read it.
OutcomeFaithful ==
  \A t \in Task :
     /\ status[t] = "completed" => agent[t] = "success"
     /\ status[t] = "failed" /\ agent[t] = "success" => t \in evicted

\* Wait is released only by a sealed graph in which every task is terminal.
ReleasedIsTerminal == completionClosed => sealed /\ AllTasksTerminal

\* onAllComplete fires only when every task's onTaskComplete has run, once.
AllCompleteIsLast ==
  /\ \A t \in Task : delivered[t] <= 1
  /\ allCompleteFired =>
       \A t \in Added : status[t] \in Terminal /\ delivered[t] = 1

\* Completion is the last thing users hear of: neither Wait nor onAllComplete is
\* early, though several goroutines publish results and deliver callbacks.
CompletionIsLast == ReleasedIsTerminal /\ AllCompleteIsLast

\* A terminal status and its result are never replaced (a late agent result
\* after a cancellation, a second cancellation, a second commit).
TerminalIsFinal ==
  [][\A t \in Task : status[t] \in Terminal =>
        status'[t] = status[t] /\ result'[t] = result[t]]_vars

\* Every sealed graph is released unless the coordinator is stopped.
EventuallyReleased == sealed ~> (completionClosed \/ stopped)

\* Once the graph is released the all-complete observer follows, even when the
\* coordinator is stopped in between.
AllCompleteFollows == completionClosed ~> allCompleteFired

\* A sealed graph runs to its end and everybody is told: Wait returns and the
\* all-complete observer is called.
RunCompletes == EventuallyReleased /\ AllCompleteFollows

\* The result of the agent of t can still reach the coordinator: the agent works
\* on it, the Runner has it, the monitor is about to ask for it or holds it, or it
\* is in agentDoneCh.
ResultOnItsWay(t) ==
  \/ Alive(t)
  \/ Published(t) /\ t \notin evicted
  \/ monitor[t] \in {"spawned"} \union Outcomes
  \/ \E res \in Outcomes : <<t, res>> \in agentDoneCh

\* Nobody waits for something that cannot come, the safety half of RunCompletes:
\* the result of every slot in use is on its way, with nothing running or queued
\* every task is terminal, processLoop stays until onAllComplete has been called,
\* and while Wait is released and the observer has not been called a delivery is
\* in progress that will.  (Stop ends the first and the third.)
NeverStuck ==
  /\ ~stopped => \A t \in running : ResultOnItsWay(t)
  /\ running = {} /\ Queue = {} => AllTasksTerminal
  /\ sealed /\ ~stopped /\ ~allCompleteFired => loopPc \notin {"off", "exited"}
  /\ completionClosed /\ ~allCompleteFired => \E p \in Procs : stage[p] # "idle"

-----------------------------------------------------------------------------
(* Refinement: blocked and ready tasks are waiting, the rest is bookkeeping *)

Graph == INSTANCE TaskGraph WITH
  Tasks <- Task,
  Unknown <- Missing,
  phase <- [t \in Task |-> IF status[t] \in {"blocked", "ready"} THEN "waiting" ELSE status[t]],
  needs <- deps,
  told <- {t \in Task : delivered[t] > 0},
  released <- completionClosed,
  finished <- allCompleteFired

\* The coordinator implements the promise of TaskGraph: whatever its loop,
\* callers, monitors and ticker do, users see a legal run of the graph.
ImplementsTaskGraph == Graph!GSpec

=============================================================================
