--------------------------- MODULE CoordinatorProofs ---------------------------
(***************************************************************************)
(* Proofs about Coordinator, for any number of tasks, any dependency       *)
(* lists, any limits and channel capacities, and any number of callers.    *)
(***************************************************************************)
EXTENDS Coordinator, SelectionProofs, FiniteSetTheorems, TLAPS

-----------------------------------------------------------------------------
(* Lemmas about the operators                                              *)

\* Sets of tasks are finite, so their cardinality is a number; it is positive
\* when the set has a member.
LEMMA TaskSets ==
  ASSUME NEW S \in SUBSET Task
  PROVE  /\ IsFiniteSet(S)
         /\ Cardinality(S) \in Nat
         /\ \A t \in S : Cardinality(S) > 0
<1>1. IsFiniteSet(Task)
  BY CoordinatorAssumption, FS_Interval DEF Task
<1>2. IsFiniteSet(S)
  BY <1>1, FS_Subset
<1>3. Cardinality(S) \in Nat
  BY <1>2, FS_CardinalityType
<1>4. ASSUME NEW t \in S PROVE Cardinality(S) > 0
  BY <1>2, <1>3, <1>4, FS_EmptySet
<1> QED BY <1>2, <1>3, <1>4

\* The buffered channel never holds more than its capacity.
LEMMA SignalledType ==
  ASSUME taskReadyCh \in 0 .. ReadyCap, NEW n \in Nat
  PROVE  Signalled(n) \in 0 .. ReadyCap
BY CoordinatorAssumption DEF Signalled

\* A pushed task has a positive queue sequence, the others keep theirs.
LEMMA PushedType ==
  ASSUME nextSequence \in Nat, NEW q \in [Task -> Nat], NEW S \in SUBSET Task
  PROVE  /\ Pushed(q, S) \in [Task -> Nat]
         /\ \A t \in S : Pushed(q, S)[t] > 0
         /\ \A t \in Task \ S : Pushed(q, S)[t] = q[t]
<1>1. ASSUME NEW t \in S
      PROVE  Cardinality({u \in S : u <= t}) \in Nat /\ Cardinality({u \in S : u <= t}) > 0
  <2>1. {u \in S : u <= t} \in SUBSET Task
    OBVIOUS
  <2>2. t \in Int
    BY CoordinatorAssumption DEF Task
  <2>3. t <= t
    BY <2>2
  <2>4. t \in {u \in S : u <= t}
    BY <2>3
  <2> HIDE DEF Task
  <2> QED BY <2>1, <2>4, TaskSets
<1> QED BY <1>1 DEF Pushed
\* What Settle does to every task: t becomes terminal, the cascade fails, the
\* unblocked tasks are queued, and every other task keeps what it has.
LEMMA SettleEffect ==
  ASSUME TypeOK, NEW t \in Task, NEW res \in Outcomes \union {"cancelled"}, Settle(t, res)
  PROVE  LET st == SettledStatus(t, res)
             skipped == Cascade(t, st)
             ready == Unblocked(t, st) \ skipped
         IN /\ status' \in [Task -> Statuses]
            /\ result' \in [Task -> Outcomes \union {"none", "cancelled", "skipped"}]
            /\ qseq' \in [Task -> Nat]
            /\ nextSequence' \in Nat
            /\ taskReadyCh' \in 0 .. ReadyCap
            /\ deps' = deps /\ prio' = prio
            /\ Settled(t, res) \in SUBSET Task
            /\ status'[t] = st[t] /\ result'[t] = res /\ qseq'[t] = 0
            /\ st[t] = IF res = "success" THEN "completed" ELSE "failed"
            /\ \A u \in Task \ {t} :
                 /\ st[u] = status[u]
                 /\ u \in skipped => /\ status[u] = "blocked" /\ status'[u] = "failed" /\ result'[u] = "skipped"
                                     /\ qseq'[u] = qseq[u]
                 /\ u \in ready => /\ status[u] = "blocked" /\ status'[u] = "ready"
                                   /\ result'[u] = result[u] /\ qseq'[u] > 0
                 /\ u \notin skipped /\ u \notin ready =>
                      status'[u] = status[u] /\ result'[u] = result[u] /\ qseq'[u] = qseq[u]
<1> DEFINE st == SettledStatus(t, res)
           skipped == Cascade(t, st)
           ready == Unblocked(t, st) \ skipped
<1>1. /\ st \in [Task -> Statuses]
      /\ st[t] = IF res = "success" THEN "completed" ELSE "failed"
      /\ \A u \in Task \ {t} : st[u] = status[u]
  BY DEF TypeOK, SettledStatus, Statuses, Terminal
<1>2. /\ skipped \in SUBSET Task /\ ready \in SUBSET Task
      /\ \A u \in skipped \union ready : st[u] = "blocked"
  BY DEF Cascade, Unblocked
<1>3. t \notin skipped /\ t \notin ready
  BY <1>1, <1>2
<1>4. Cardinality(ready) \in Nat
  BY <1>2, TaskSets
<1>5. /\ Dequeued(t) \in [Task -> Nat]
      /\ Dequeued(t)[t] = 0
      /\ \A u \in Task \ {t} : Dequeued(t)[u] = qseq[u]
  BY DEF TypeOK, Dequeued
<1>6. /\ status' = [u \in Task |-> IF u \in skipped THEN "failed"
                                  ELSE IF u \in ready THEN "ready" ELSE st[u]]
      /\ result' = [u \in Task |-> IF u = t THEN res
                                  ELSE IF u \in skipped THEN "skipped" ELSE result[u]]
      /\ qseq' = Pushed(Dequeued(t), ready)
      /\ nextSequence' = nextSequence + Cardinality(ready)
      /\ taskReadyCh' = Signalled(Cardinality(ready))
      /\ deps' = deps /\ prio' = prio
  BY DEF Settle
<1>7. /\ qseq' \in [Task -> Nat]
      /\ \A u \in ready : qseq'[u] > 0
      /\ \A u \in Task \ ready : qseq'[u] = Dequeued(t)[u]
  <2> HIDE DEF ready
  <2> QED BY <1>2, <1>5, <1>6, PushedType DEF TypeOK
<1>8. taskReadyCh' \in 0 .. ReadyCap /\ nextSequence' \in Nat
  <2> HIDE DEF ready
  <2> QED BY <1>4, <1>6, SignalledType DEF TypeOK
<1>9. Settled(t, res) \in SUBSET Task
  BY <1>2 DEF Settled
<1> HIDE DEF st, skipped, ready
<1>10. /\ status' \in [Task -> Statuses]
       /\ result' \in [Task -> Outcomes \union {"none", "cancelled", "skipped"}]
  BY <1>1, <1>6 DEF TypeOK, Statuses, Terminal
<1>11. status'[t] = st[t] /\ result'[t] = res /\ qseq'[t] = 0
  BY <1>3, <1>5, <1>6, <1>7
<1>12. ASSUME NEW u \in Task \ {t}
       PROVE  /\ u \in skipped => /\ status[u] = "blocked" /\ status'[u] = "failed" /\ result'[u] = "skipped"
                                  /\ qseq'[u] = qseq[u]
              /\ u \in ready => /\ status[u] = "blocked" /\ status'[u] = "ready"
                                /\ result'[u] = result[u] /\ qseq'[u] > 0
              /\ u \notin skipped /\ u \notin ready =>
                   status'[u] = status[u] /\ result'[u] = result[u] /\ qseq'[u] = qseq[u]
  <2>1. u \in skipped => u \notin ready
    BY DEF ready
  <2> QED BY <1>1, <1>2, <1>5, <1>6, <1>7, <2>1
<1> QED BY <1>1, <1>6, <1>7, <1>8, <1>9, <1>10, <1>11, <1>12 DEF st, skipped, ready

\* Register and the delivery stages keep their types.
LEMMA RegisterType ==
  ASSUME TypeOK, NEW p \in Procs, NEW S \in SUBSET Task, Register(p, S)
  PROVE  /\ pendingCallbacks' \in Nat
         /\ batch' \in [Procs -> SUBSET Task]
         /\ stage' \in [Procs -> {"idle", "publish", "invoke", "drain", "notify"}]
<1>1. Cardinality(S) \in Nat
  BY TaskSets
<1> QED BY <1>1 DEF Register, TypeOK

-----------------------------------------------------------------------------
(* Type correctness                                                        *)

\* checkCompletedAgents only collects agents that have published a result, and
\* a published result stays published; without this the results it commits
\* would have no type.
ReapingPublished ==
  /\ \A t \in reaping : Published(t)
  /\ loopPc # "reaping" => reaping = {}

TypeInv == TypeOK /\ ReapingPublished

\* The types hold at first,
LEMMA InitTypeInv ==
  ASSUME Init
  PROVE  TypeInv
<1>1. /\ maxParallel \in 1 .. MaxLimit /\ taskReadyCh \in 0 .. ReadyCap
      /\ nextSequence \in Nat /\ pendingCallbacks \in Nat
      /\ prio \in [Task -> Int] /\ qseq \in [Task -> Nat] /\ delivered \in [Task -> Nat]
      /\ deps \in [Task -> SUBSET (0 .. NumTasks)] /\ spawning \in 0 .. NumTasks
  BY CoordinatorAssumption DEF Init
<1>2. /\ status \in [Task -> Statuses]
      /\ result \in [Task -> Outcomes \union {"none", "cancelled", "skipped"}]
      /\ agent \in [Task -> Outcomes \union {"none", "working", "cancelling"}]
      /\ monitor \in [Task -> Outcomes \union {"none", "spawned", "waiting", "gone"}]
      /\ stage \in [Procs -> {"idle", "publish", "invoke", "drain", "notify"}]
      /\ batch \in [Procs -> SUBSET Task]
  BY DEF Init, Statuses
<1> QED BY <1>1, <1>2 DEF Init, TypeInv, TypeOK, ReapingPublished

\* after a step of the caller,
LEMMA CallerTypeInv ==
  ASSUME TypeInv, CallerStep \/ Stop
  PROVE  TypeInv'
<1> USE DEF TypeInv, ReapingPublished, Published
<1> USE DEF graphVars, loopVars, deliveryVars, runnerVars, doneVars
<1>1. CASE Start
  BY <1>1, SignalledType DEF Start, MuFree, TypeOK
<1>2. ASSUME NEW n \in 1 .. MaxLimit, SetMaxParallel(n)
      PROVE  TypeInv'
  BY <1>2, SignalledType DEF SetMaxParallel, TypeOK
<1>3. CASE Stop
  BY <1>3 DEF Stop, TypeOK
<1>4. CASE CancelRunning
  <2>1. \A t \in Task : Published(t) => agent'[t] = agent[t]
    BY <1>4 DEF CancelRunning, Outcomes
  <2>2. agent' \in [Task -> Outcomes \union {"none", "working", "cancelling"}]
    BY <1>4 DEF CancelRunning, TypeOK
  <2> QED BY <1>4, <2>1, <2>2 DEF CancelRunning, TypeOK
<1>5. ASSUME NEW p \in Callers, NEW t \in Task, NEW D \in DepChoices[t], NEW pr \in Priorities,
             AddTask(p, t, D, pr)
      PROVE  TypeInv'
  <2>1. deps' \in [Task -> SUBSET (0 .. NumTasks)] /\ prio' \in [Task -> Int]
    BY <1>5, CoordinatorAssumption DEF AddTask, TypeOK, Task
  <2>2. p \in Procs /\ {t} \in SUBSET Task
    BY DEF Procs
  <2>3. Pushed(qseq, {t}) \in [Task -> Nat]
    BY <2>2, PushedType DEF TypeOK
  <2>4. Signalled(1) \in 0 .. ReadyCap
    BY SignalledType DEF TypeOK
  <2>5. CASE FailedDependency(D, status)
    <3>1. Register(p, {t})
      BY <1>5, <2>5 DEF AddTask
    <3>2. /\ pendingCallbacks' \in Nat
          /\ batch' \in [Procs -> SUBSET Task]
          /\ stage' \in [Procs -> {"idle", "publish", "invoke", "drain", "notify"}]
      BY <2>2, <3>1, RegisterType
    <3> QED BY <1>5, <2>1, <2>5, <3>2 DEF AddTask, TypeOK, Statuses, Terminal
  <2>6. CASE ~FailedDependency(D, status) /\ DependenciesMet(D, status)
    <3>1. /\ status' = [status EXCEPT ![t] = "ready"]
          /\ qseq' = Pushed(qseq, {t}) /\ nextSequence' = nextSequence + 1
          /\ taskReadyCh' = Signalled(1)
          /\ UNCHANGED <<result, pendingCallbacks, deliveryVars>>
      BY <1>5, <2>6 DEF AddTask
    <3>2. status' \in [Task -> Statuses] /\ nextSequence' \in Nat
      BY <3>1 DEF TypeOK, Statuses
    <3> QED BY <1>5, <2>1, <2>3, <2>4, <3>1, <3>2 DEF AddTask, TypeOK
  <2>7. CASE ~FailedDependency(D, status) /\ ~DependenciesMet(D, status)
    BY <1>5, <2>1, <2>7 DEF AddTask, TypeOK, Statuses
  <2> QED BY <2>5, <2>6, <2>7
<1>6. ASSUME NEW p \in Callers, NEW t \in Task, CancelPublished(p, t)
      PROVE  TypeInv'
  <2>1. agent[t] \in Outcomes /\ p \in Procs
    BY <1>6 DEF CancelPublished, Procs
  <2>2. Settled(t, agent[t]) \in SUBSET Task
    BY <1>6, <2>1, SettleEffect DEF CancelPublished
  <2> QED BY <1>6, <2>1, <2>2, SettleEffect, RegisterType DEF CancelPublished, TypeOK
<1>7. ASSUME NEW p \in Callers, NEW t \in Task, CancelRequest(p, t)
      PROVE  TypeInv'
  <2>1. \A u \in Task : Published(u) => agent'[u] = agent[u]
    BY <1>7 DEF CancelRequest, Outcomes, TypeOK
  <2> QED BY <1>7, <2>1 DEF CancelRequest, TypeOK
<1>8. ASSUME NEW p \in Callers, NEW t \in Task, CancelUnstarted(p, t)
      PROVE  TypeInv'
  <2>1. p \in Procs
    BY DEF Procs
  <2>2. Settled(t, "cancelled") \in SUBSET Task
    BY <1>8, SettleEffect DEF CancelUnstarted
  <2> QED BY <1>8, <2>1, <2>2, SettleEffect, RegisterType DEF CancelUnstarted, TypeOK
<1> QED BY <1>1, <1>2, <1>3, <1>4, <1>5, <1>6, <1>7, <1>8 DEF CallerStep

\* of a callback under delivery,
LEMMA DeliveryTypeInv ==
  ASSUME TypeInv, NEW p \in Procs, DeliveryStep(p)
  PROVE  TypeInv'
<1> USE DEF TypeInv, ReapingPublished, Published
<1> USE DEF graphVars, loopVars, deliveryVars, runnerVars, doneVars
<1>1. CASE Publish(p)
  BY <1>1 DEF Publish, TypeOK
<1>2. CASE Invoke(p)
  BY <1>2 DEF Invoke, TypeOK
<1>3. CASE Drain(p)
  <2>1. Cardinality(batch[p]) \in Nat
    BY TaskSets DEF TypeOK
  <2>2. pendingCallbacks' \in Nat
    BY <1>3, <2>1 DEF Drain, TypeOK
  <2>3. /\ batch' \in [Procs -> SUBSET Task]
        /\ stage' \in [Procs -> {"idle", "publish", "invoke", "drain", "notify"}]
    BY <1>3 DEF Drain, TypeOK
  <2> QED BY <1>3, <2>2, <2>3 DEF Drain, TypeOK
<1>4. CASE Notify(p)
  BY <1>4 DEF Notify, NotifyAllComplete, TypeOK
<1> QED BY <1>1, <1>2, <1>3, <1>4 DEF DeliveryStep

\* of processLoop,
LEMMA LoopTypeInv ==
  ASSUME TypeInv, LoopStep \/ LoopEvent
  PROVE  TypeInv'
<1> USE DEF TypeInv, ReapingPublished, Published
<1> USE DEF graphVars, loopVars, deliveryVars, runnerVars, doneVars
<1>0. Loop \in Procs /\ batch[Loop] \in SUBSET Task
  BY DEF Procs, TypeOK
<1>1. CASE StartReadyDone
  BY <1>0, <1>1, RegisterType DEF StartReadyDone, Starting, TypeOK
<1>2. CASE CheckCompletedAgents
  BY <1>2 DEF CheckCompletedAgents, TypeOK
<1>2a. ASSUME NEW t \in Task, SpawnAsync(t)
       PROVE  TypeInv'
  <2>1. spawning' \in 0 .. NumTasks
    BY <1>2a, CoordinatorAssumption DEF SpawnAsync, Task
  <2> QED BY <1>2a, <2>1 DEF SpawnAsync, TypeOK
<1>3. CASE CheckCompletedDone
  BY <1>0, <1>3, RegisterType DEF CheckCompletedDone, TypeOK
<1>4. CASE LoopCheck
  BY <1>4 DEF LoopCheck, LoopAt, TypeOK
<1>5. CASE LoopNotify
  BY <1>5 DEF LoopNotify, LoopAt, NotifyAllComplete, TypeOK
<1>6. ASSUME NEW t \in Task, StartTask(t)
      PROVE  TypeInv'
  <2>1. /\ status' \in [Task -> Statuses] /\ qseq' \in [Task -> Nat]
        /\ running' \subseteq Task
        /\ agent' \in [Task -> Outcomes \union {"none", "working", "cancelling"}]
        /\ monitor' \in [Task -> Outcomes \union {"none", "spawned", "waiting", "gone"}]
    BY <1>6 DEF StartTask, Dequeued, TypeOK, Statuses
  <2>2. reaping' = {} /\ spawning' \in 0 .. NumTasks
    BY <1>6, CoordinatorAssumption DEF StartTask, Popped, Starting
  <2> QED BY <1>6, <2>1, <2>2 DEF StartTask, TypeOK
<1>7. ASSUME NEW t \in Task, StartTaskFails(t)
      PROVE  TypeInv'
  <2>1. Settled(t, "failure") \in SUBSET Task
    BY <1>7, SettleEffect DEF StartTaskFails, Outcomes
  <2>2. batch' \in [Procs -> SUBSET Task]
    BY <1>7, <2>1 DEF StartTaskFails, TypeOK
  <2>3. spawning' \in 0 .. NumTasks
    BY <1>7, CoordinatorAssumption DEF StartTaskFails
  <2> QED BY <1>7, <2>2, <2>3, SettleEffect DEF StartTaskFails, TypeOK, Outcomes
<1>8. ASSUME NEW t \in Task, CommitReaped(t)
      PROVE  TypeInv'
  <2>1. agent[t] \in Outcomes
    BY <1>8 DEF CommitReaped
  <2>2. Settled(t, agent[t]) \in SUBSET Task
    BY <1>8, <2>1, SettleEffect DEF CommitReaped
  <2>3. batch' \in [Procs -> SUBSET Task]
    BY <1>8, <2>2 DEF CommitReaped, TypeOK
  <2> QED BY <1>8, <2>1, <2>3, SettleEffect DEF CommitReaped, TypeOK
<1>9. CASE LoopStopped
  BY <1>9 DEF LoopStopped, LoopAt, TypeOK
<1>10. CASE LoopReady
  <2>1. taskReadyCh' \in 0 .. ReadyCap
    BY <1>10, CoordinatorAssumption DEF LoopReady, TypeOK
  <2> QED BY <1>10, <2>1 DEF LoopReady, LoopAt, TypeOK
<1>11. CASE LoopTick
  BY <1>11 DEF LoopTick, LoopAt, TypeOK
<1>12. ASSUME NEW t \in Task, NEW res \in Outcomes, LoopDone(t, res)
       PROVE  TypeInv'
  <2>1. /\ agentDoneCh' \subseteq Task \X Outcomes
        /\ loopPc' = "check" /\ reaping' = {}
    BY <1>12 DEF LoopDone, LoopAt, TypeOK
  <2>2. CASE t \in running
    <3>1. Settle(t, res) /\ Register(Loop, Settled(t, res)) /\ running' = running \ {t}
      BY <1>12, <2>2 DEF LoopDone
    <3>2. Settled(t, res) \in SUBSET Task
      BY <3>1, SettleEffect
    <3>3. /\ pendingCallbacks' \in Nat
          /\ batch' \in [Procs -> SUBSET Task]
          /\ stage' \in [Procs -> {"idle", "publish", "invoke", "drain", "notify"}]
      BY <1>0, <3>1, <3>2, RegisterType
    <3> QED BY <1>12, <2>1, <3>1, <3>3, SettleEffect DEF LoopDone, TypeOK
  <2>3. CASE t \notin running
    BY <1>12, <2>1, <2>3 DEF LoopDone, TypeOK
  <2> QED BY <2>2, <2>3
<1> QED BY <1>1, <1>2, <1>2a, <1>3, <1>4, <1>5, <1>6, <1>7, <1>8, <1>9, <1>10, <1>11, <1>12
        DEF LoopStep, LoopEvent, Spawning

\* of an agent, its monitor or its eviction,
LEMMA RunnerTypeInv ==
  ASSUME TypeInv, NEW t \in Task, RunnerStep(t)
  PROVE  TypeInv'
<1> USE DEF TypeInv, ReapingPublished, Published
<1> USE DEF graphVars, loopVars, deliveryVars, runnerVars, doneVars
<1>1. ASSUME NEW res \in Outcomes, AgentFinish(t, res)
      PROVE  TypeInv'
  <2>1. \A u \in Task : Published(u) => agent'[u] = agent[u]
    BY <1>1 DEF AgentFinish, Alive, Outcomes, TypeOK
  <2> QED BY <1>1, <2>1 DEF AgentFinish, TypeOK
<1>2. CASE Evict(t)
  BY <1>2 DEF Evict, TypeOK
<1>3. ASSUME NEW pc \in Outcomes \union {"waiting", "gone"}, MonitorStep(t, pc),
             agentDoneCh' \subseteq Task \X Outcomes
      PROVE  TypeInv'
  BY <1>3 DEF MonitorStep, TypeOK
<1>4. CASE MonitorWait(t)
  <2>1. agentDoneCh' \subseteq Task \X Outcomes
    BY <1>4 DEF MonitorWait, TypeOK
  <2>2. \E pc \in Outcomes \union {"waiting", "gone"} : MonitorStep(t, pc)
    BY <1>4 DEF MonitorWait, Outcomes
  <2> QED BY <1>3, <2>1, <2>2
<1>5. CASE MonitorWake(t)
  <2>1. agentDoneCh' \subseteq Task \X Outcomes
    BY <1>5 DEF MonitorWake, TypeOK
  <2>2. \E pc \in Outcomes \union {"waiting", "gone"} : MonitorStep(t, pc)
    BY <1>5 DEF MonitorWake, Outcomes
  <2> QED BY <1>3, <2>1, <2>2
<1>6. CASE MonitorSend(t)
  <2>1. agentDoneCh' \subseteq Task \X Outcomes
    BY <1>6 DEF MonitorSend, TypeOK
  <2>2. MonitorStep(t, "gone")
    BY <1>6 DEF MonitorSend
  <2> QED BY <1>3, <2>1, <2>2
<1> QED BY <1>1, <1>2, <1>4, <1>5, <1>6 DEF RunnerStep, Finish, Monitor

\* and so after every step.
LEMMA NextTypeInv == TypeInv /\ [Next]_vars => TypeInv'
<1> SUFFICES ASSUME TypeInv, [Next]_vars
             PROVE  TypeInv'
  OBVIOUS
<1>1. CASE UNCHANGED vars
  BY <1>1 DEF vars, graphVars, loopVars, deliveryVars, runnerVars, doneVars,
              TypeInv, TypeOK, ReapingPublished, Published
<1> QED BY <1>1, CallerTypeInv, DeliveryTypeInv, LoopTypeInv, RunnerTypeInv DEF Next, Work

\* Every reachable state of the coordinator is well typed: in particular the
\* token count of taskReadyCh never leaves its capacity and pendingCallbacks
\* is never negative.
THEOREM TypeCorrect == Spec => []TypeOK
<1>1. Init => TypeInv
  BY InitTypeInv
<1>2. TypeInv /\ [Next]_vars => TypeInv'
  BY NextTypeInv
<1>3. TypeInv => TypeOK
  BY DEF TypeInv
<1> QED BY <1>1, <1>2, <1>3, PTL DEF Spec

-----------------------------------------------------------------------------
(* The dependency graph                                                    *)

\* A dependency names a task that has been added, or none at all.
DepsKnown ==
  \A t \in Task : \A d \in deps[t] : d = Missing \/ (d \in Task /\ status[d] # "absent")

\* A task leaves the blocked status for the queue only with its dependencies met.
ReadyHasDeps ==
  \A t \in Task : status[t] \in {"ready", "running", "completed"} =>
                    DependenciesMet(deps[t], status)

UnstartedHasNoAgent ==
  \A t \in Task : status[t] \in {"absent", "blocked", "ready"} => agent[t] = "none"

\* The inductive invariant.  DependenciesRespected and NoStrandedTask are the
\* properties of interest; they are not inductive without the agreement between
\* status, c.running and the queue, which fixes what each action may find.
GraphInv ==
  /\ TypeInv
  /\ RunningIsRunning
  /\ QueueIsReady
  /\ DepsKnown
  /\ ReadyHasDeps
  /\ UnstartedHasNoAgent
  /\ DependenciesRespected
  /\ NoStrandedTask
  /\ reaping \subseteq running

TerminalKept ==
  \A t \in Task : status[t] \in Terminal => status'[t] = status[t] /\ result'[t] = result[t]

\* More completed tasks can only satisfy more dependencies.
LEMMA DependenciesMetMonotone ==
  ASSUME NEW D, NEW st1, NEW st2,
         \A d \in Task : st1[d] = "completed" => st2[d] = "completed",
         DependenciesMet(D, st1)
  PROVE  DependenciesMet(D, st2)
BY DEF DependenciesMet

\* The cascade is closed: a blocked task outside it has no failed dependency
\* left, neither t nor a task of the cascade nor an older failure.
LEMMA CascadeComplete ==
  ASSUME NEW t \in Task, NEW st, NEW u \in Task, st[u] = "blocked",
         u \notin Cascade(t, st)
  PROVE  /\ deps[u] \intersect Cascade(t, st) = {}
         /\ t \in deps[u] => ~FailedDependency(deps[u], st)
<1>1. PICK S \in SUBSET Task : CascadeClosed(t, st, S) /\ u \notin S
  BY DEF Cascade
<1>2. Cascade(t, st) \subseteq S
  BY <1>1 DEF Cascade
<1>3. ~ ( /\ deps[u] \intersect (S \union {t}) # {}
          /\ FailedDependency(deps[u], st) \/ deps[u] \intersect S # {} )
  BY <1>1 DEF CascadeClosed
<1>4. deps[u] \intersect S = {}
  BY <1>3
<1> QED BY <1>2, <1>3, <1>4

\* Settling a live task keeps the graph invariant and every earlier verdict.
LEMMA SettleGraph ==
  ASSUME GraphInv, TypeInv',
         NEW t \in Task, NEW res \in Outcomes \union {"cancelled"}, Settle(t, res),
         status[t] \in {"blocked", "ready", "running"},
         res = "success" => status[t] = "running",
         running' = running \ {t}, UNCHANGED agent,
         reaping' \subseteq reaping \ {t}
  PROVE  GraphInv' /\ TerminalKept
<1> DEFINE st == SettledStatus(t, res)
           skipped == Cascade(t, st)
           ready == Unblocked(t, st) \ skipped
<1> USE DEF GraphInv
<1>1. /\ deps' = deps
      /\ status'[t] = st[t] /\ qseq'[t] = 0
      /\ st[t] = IF res = "success" THEN "completed" ELSE "failed"
      /\ status' \in [Task -> Statuses]
  BY SettleEffect DEF TypeInv
<1>2. ASSUME NEW u \in Task \ {t}
      PROVE  /\ st[u] = status[u]
             /\ u \in skipped => /\ status[u] = "blocked" /\ status'[u] = "failed"
                                 /\ qseq'[u] = qseq[u]
             /\ u \in ready => /\ status[u] = "blocked" /\ status'[u] = "ready"
                               /\ result'[u] = result[u] /\ qseq'[u] > 0
             /\ u \notin skipped /\ u \notin ready =>
                  status'[u] = status[u] /\ result'[u] = result[u] /\ qseq'[u] = qseq[u]
  BY SettleEffect DEF TypeInv
<1>3. \A u \in ready : t \in deps[u] /\ DependenciesMet(deps[u], st)
  BY DEF Unblocked
<1>4. ASSUME NEW u \in Task, status[u] = "blocked", u # t, u \notin skipped
      PROVE  /\ deps[u] \intersect skipped = {}
             /\ t \in deps[u] => ~FailedDependency(deps[u], st)
  <2>1. st[u] = "blocked"
    BY <1>2, <1>4
  <2> QED BY <1>4, <2>1, CascadeComplete
<1>5. ASSUME NEW u \in Task, status[u] = "blocked", u # t, u \notin skipped, t \in deps[u],
             DependenciesMet(deps[u], st)
      PROVE  u \in ready
  BY <1>2, <1>5 DEF Unblocked
<1> HIDE DEF st, skipped, ready
<1>6. TerminalKept
  BY <1>1, <1>2 DEF TerminalKept, Terminal
<1>7. RunningIsRunning'
  BY <1>1, <1>2 DEF RunningIsRunning
<1>8. QueueIsReady'
  <2>1. ASSUME NEW u \in Task PROVE qseq'[u] > 0 <=> status'[u] = "ready"
    <3>1. CASE u = t
      BY <1>1, <3>1
    <3>2. CASE u # t
      BY <1>2, <3>2 DEF QueueIsReady
    <3> QED BY <3>1, <3>2
  <2> QED BY <2>1 DEF QueueIsReady
<1>9. DepsKnown'
  BY <1>1, <1>2 DEF DepsKnown
<1>10. \A d \in Task : /\ status[d] = "completed" => status'[d] = "completed"
                       /\ st[d] = "completed" => status'[d] = "completed"
  BY <1>1, <1>2
<1>11. ASSUME NEW u \in Task, DependenciesMet(deps[u], status) \/ DependenciesMet(deps[u], st)
       PROVE  DependenciesMet(deps'[u], status')
  BY <1>1, <1>10, <1>11, DependenciesMetMonotone
<1>12. ReadyHasDeps'
  <2>1. ASSUME NEW u \in Task, status'[u] \in {"ready", "running", "completed"}
        PROVE  DependenciesMet(deps'[u], status')
    <3>1. CASE u = t
      BY <1>1, <1>11, <2>1, <3>1 DEF ReadyHasDeps
    <3>2. CASE u # t
      BY <1>2, <1>3, <1>11, <2>1, <3>2 DEF ReadyHasDeps
    <3> QED BY <3>1, <3>2
  <2> QED BY <2>1 DEF ReadyHasDeps
<1>13. UnstartedHasNoAgent'
  BY <1>1, <1>2 DEF UnstartedHasNoAgent
<1>14. DependenciesRespected'
  BY <1>11 DEF DependenciesRespected
<1>15. NoStrandedTask'
  <2> SUFFICES ASSUME NEW u \in Task, status'[u] = "blocked"
               PROVE  /\ ~FailedDependency(deps[u], status')
                      /\ \E d \in deps[u] : status'[d] \notin Terminal
    BY <1>1 DEF NoStrandedTask
  <2>1. u # t /\ u \notin skipped /\ u \notin ready /\ status[u] = "blocked"
    BY <1>1, <1>2
  <2>2. ~FailedDependency(deps[u], status) /\ \E d \in deps[u] : status[d] \notin Terminal
    BY <2>1 DEF NoStrandedTask
  <2>3. Missing \notin deps[u] /\ \A d \in deps[u] : d \in Task /\ status[d] # "failed"
    BY <2>2 DEF FailedDependency, DepsKnown
  <2>4. \A d \in deps[u] : status'[d] # "failed"
    <3> SUFFICES ASSUME NEW d \in deps[u], status'[d] = "failed"
                 PROVE  FALSE
      OBVIOUS
    <3>1. d \in Task /\ status[d] # "failed"
      BY <2>3
    <3>2. d # t => d \in skipped
      BY <1>2, <3>1
    <3>3. d = t
      BY <1>4, <2>1, <3>2
    <3>4. FailedDependency(deps[u], st)
      BY <1>1, <3>3 DEF FailedDependency
    <3> QED BY <1>4, <2>1, <3>3, <3>4
  <2>5. ~FailedDependency(deps[u], status')
    BY <2>3, <2>4 DEF FailedDependency
  <2>6. CASE t \notin deps[u]
    <3>1. PICK d \in deps[u] : status[d] \notin Terminal
      BY <2>2
    <3>2. d \in Task \ {t} /\ d \notin skipped
      BY <1>4, <2>1, <2>3, <2>6
    <3>3. status'[d] \notin Terminal
      BY <1>2, <3>1, <3>2 DEF Terminal
    <3> QED BY <2>5, <3>3
  <2>7. CASE t \in deps[u]
    <3>1. ~DependenciesMet(deps[u], st)
      BY <1>5, <2>1, <2>7
    <3>2. PICK d \in deps[u] : st[d] # "completed"
      BY <2>3, <3>1 DEF DependenciesMet
    <3>3. status'[d] # "completed"
      BY <1>1, <1>2, <2>3, <3>2
    <3> QED BY <2>4, <2>5, <3>3 DEF Terminal
  <2> QED BY <2>6, <2>7
<1>16. (reaping \subseteq running)'
  OBVIOUS
<1> QED BY <1>6, <1>7, <1>8, <1>9, <1>12, <1>13, <1>14, <1>15, <1>16

\* A step that leaves the tasks, the queue and c.running alone, and neither
\* creates nor removes an agent, keeps the invariant.
LEMMA QuietGraph ==
  ASSUME GraphInv, TypeInv',
         UNCHANGED <<status, deps, result, qseq, running>>,
         \A t \in Task : agent'[t] = "none" <=> agent[t] = "none",
         reaping' \subseteq running'
  PROVE  GraphInv' /\ TerminalKept
<1> USE DEF GraphInv
<1>1. TerminalKept
  BY DEF TerminalKept
<1>2. RunningIsRunning' /\ QueueIsReady' /\ DepsKnown' /\ ReadyHasDeps' /\ NoStrandedTask'
  BY DEF RunningIsRunning, QueueIsReady, DepsKnown, ReadyHasDeps, NoStrandedTask
<1>3. UnstartedHasNoAgent' /\ DependenciesRespected'
  BY DEF UnstartedHasNoAgent, DependenciesRespected
<1> QED BY <1>1, <1>2, <1>3

\* An empty graph is sound.
LEMMA InitGraphInv ==
  ASSUME Init
  PROVE  GraphInv
<1>1. TypeInv
  BY InitTypeInv
<1>2. \A t \in Task : /\ status[t] = "absent" /\ deps[t] = {} /\ qseq[t] = 0
                      /\ agent[t] = "none"
  BY DEF Init
<1>3. running = {} /\ reaping = {}
  BY DEF Init
<1>4. RunningIsRunning /\ QueueIsReady
  BY <1>2, <1>3 DEF RunningIsRunning, QueueIsReady
<1> QED BY <1>1, <1>2, <1>3, <1>4
        DEF GraphInv, DepsKnown, ReadyHasDeps, UnstartedHasNoAgent, DependenciesRespected,
            NoStrandedTask

\* AddTask: nothing depends on the new task yet, and its own status is chosen
\* from the statuses of its dependencies.
LEMMA AddTaskGraph ==
  ASSUME GraphInv, TypeInv', NEW p \in Callers, NEW t \in Task, NEW D \in DepChoices[t],
         NEW pr \in Priorities, AddTask(p, t, D, pr)
  PROVE  GraphInv' /\ TerminalKept
<1> USE DEF GraphInv
<1>1. /\ status[t] = "absent" /\ D \subseteq Added \union {Missing}
      /\ deps' = [deps EXCEPT ![t] = D]
      /\ UNCHANGED <<running, reaping, agent>>
      /\ agent[t] = "none" /\ qseq[t] = 0
  BY DEF AddTask, Added, loopVars, runnerVars, UnstartedHasNoAgent, QueueIsReady, TypeInv, TypeOK
<1>2. \A u \in Task \ {t} : status'[u] = status[u] /\ result'[u] = result[u] /\ deps'[u] = deps[u]
  BY DEF AddTask, TypeInv, TypeOK
<1>3. /\ deps'[t] = D
      /\ \/ status'[t] = "failed" /\ qseq' = qseq
         \/ status'[t] = "ready" /\ qseq' = Pushed(qseq, {t}) /\ DependenciesMet(D, status)
         \/ /\ status'[t] = "blocked" /\ qseq' = qseq
            /\ ~FailedDependency(D, status) /\ ~DependenciesMet(D, status)
  BY DEF AddTask, TypeInv, TypeOK
<1>4. \A u \in Task \ {t} : t \notin deps[u] \/ u = t
  BY <1>1 DEF DepsKnown, Missing, Task
<1>5. t \notin D /\ \A d \in D : d = Missing \/ (d \in Task /\ d # t /\ status[d] # "absent")
  BY <1>1 DEF Added, Missing, Task
<1>6. TerminalKept
  BY <1>1, <1>2 DEF TerminalKept, Terminal
<1>7. RunningIsRunning'
  BY <1>1, <1>2, <1>3 DEF RunningIsRunning
<1>8. QueueIsReady'
  <2>1. {t} \in SUBSET Task /\ nextSequence \in Nat /\ qseq \in [Task -> Nat]
    BY DEF TypeInv, TypeOK
  <2>2. /\ Pushed(qseq, {t})[t] > 0
        /\ \A u \in Task \ {t} : Pushed(qseq, {t})[u] = qseq[u]
    BY <2>1, PushedType
  <2>3. \A u \in Task \ {t} : qseq'[u] = qseq[u]
    BY <1>3, <2>2
  <2>4. qseq'[t] > 0 <=> status'[t] = "ready"
    BY <1>1, <1>3, <2>2
  <2> QED BY <1>2, <2>3, <2>4 DEF QueueIsReady
<1>9. DepsKnown'
  <2>1. \A u \in Task : status[u] # "absent" => status'[u] # "absent"
    BY <1>1, <1>2
  <2> QED BY <1>2, <1>3, <1>5, <2>1 DEF DepsKnown
<1>10. \A d \in Task : status[d] = "completed" => status'[d] = "completed"
  BY <1>1, <1>2
<1>11. ASSUME NEW u \in Task \ {t}, DependenciesMet(deps[u], status)
       PROVE  DependenciesMet(deps'[u], status')
  BY <1>2, <1>10, <1>11, DependenciesMetMonotone
<1>12. DependenciesMet(D, status) => DependenciesMet(deps'[t], status')
  BY <1>3, <1>10, DependenciesMetMonotone
<1>13. ReadyHasDeps'
  BY <1>2, <1>3, <1>11, <1>12 DEF ReadyHasDeps
<1>14. UnstartedHasNoAgent'
  BY <1>1, <1>2 DEF UnstartedHasNoAgent
<1>15. DependenciesRespected'
  BY <1>1, <1>11 DEF DependenciesRespected
<1>16. ASSUME NEW E, \A d \in E : d = Missing \/ (d \in Task /\ d # t),
              ~FailedDependency(E, status)
       PROVE  ~FailedDependency(E, status')
  BY <1>2, <1>16 DEF FailedDependency
<1>17. NoStrandedTask'
  <2> SUFFICES ASSUME NEW u \in Task, status'[u] = "blocked"
               PROVE  /\ ~FailedDependency(deps'[u], status')
                      /\ \E d \in deps'[u] : status'[d] \notin Terminal
    BY DEF NoStrandedTask
  <2>1. CASE u = t
    <3>1. ~FailedDependency(D, status) /\ ~DependenciesMet(D, status) /\ deps'[u] = D
      BY <1>3, <2>1
    <3>2. PICK d \in D : d \notin {e \in Task : status[e] = "completed"}
      BY <3>1 DEF DependenciesMet
    <3>3. d \in Task /\ d # t /\ status[d] \notin Terminal
      BY <1>5, <3>1, <3>2 DEF FailedDependency, Terminal
    <3> QED BY <1>2, <1>5, <1>16, <3>1, <3>3
  <2>2. CASE u # t
    <3>1. /\ status[u] = "blocked" /\ deps'[u] = deps[u]
          /\ \A d \in deps[u] : d = Missing \/ (d \in Task /\ d # t)
      BY <1>2, <1>4, <2>2 DEF DepsKnown
    <3>2. ~FailedDependency(deps[u], status)
      BY <3>1 DEF NoStrandedTask
    <3>3. PICK d \in deps[u] : status[d] \notin Terminal
      BY <3>1 DEF NoStrandedTask
    <3>4. d \in Task /\ d # t
      BY <3>1, <3>2, <3>3 DEF FailedDependency
    <3> QED BY <1>2, <1>16, <3>1, <3>2, <3>3, <3>4
  <2> QED BY <2>1, <2>2
<1> QED BY <1>1, <1>6, <1>7, <1>8, <1>9, <1>13, <1>14, <1>15, <1>17

\* startTask: a queued task is ready, so its dependencies are met.
LEMMA StartTaskGraph ==
  ASSUME GraphInv, TypeInv', NEW t \in Task, StartTask(t)
  PROVE  GraphInv' /\ TerminalKept
<1> USE DEF GraphInv
<1>1. /\ status[t] = "ready" /\ status'[t] = "running" /\ qseq'[t] = 0
      /\ running' = running \union {t} /\ agent'[t] = "working"
      /\ UNCHANGED <<deps, result, reaping>>
  BY DEF StartTask, Dequeued, loopVars, TypeInv, TypeOK
<1>2. \A u \in Task \ {t} : status'[u] = status[u] /\ qseq'[u] = qseq[u] /\ agent'[u] = agent[u]
  BY DEF StartTask, Dequeued, TypeInv, TypeOK
<1>3. TerminalKept
  BY <1>1, <1>2 DEF TerminalKept, Terminal
<1>4. RunningIsRunning' /\ DepsKnown'
  BY <1>1, <1>2 DEF RunningIsRunning, DepsKnown
<1>5. QueueIsReady'
  BY <1>1, <1>2 DEF QueueIsReady
<1>6. \A d \in Task : status[d] = "completed" => status'[d] = "completed"
  BY <1>1, <1>2
<1>7. ASSUME NEW u \in Task, DependenciesMet(deps[u], status)
      PROVE  DependenciesMet(deps'[u], status')
  BY <1>1, <1>6, <1>7, DependenciesMetMonotone
<1>8. ReadyHasDeps' /\ UnstartedHasNoAgent'
  BY <1>1, <1>2, <1>7 DEF ReadyHasDeps, UnstartedHasNoAgent
<1>9. DependenciesRespected'
  BY <1>1, <1>2, <1>7 DEF DependenciesRespected, ReadyHasDeps
<1>10. NoStrandedTask'
  <2> SUFFICES ASSUME NEW u \in Task, status'[u] = "blocked"
               PROVE  /\ ~FailedDependency(deps[u], status')
                      /\ \E d \in deps[u] : status'[d] \notin Terminal
    BY <1>1 DEF NoStrandedTask
  <2>1. status[u] = "blocked"
    BY <1>1, <1>2
  <2>2. ~FailedDependency(deps[u], status)
    BY <2>1 DEF NoStrandedTask
  <2>3. PICK d \in deps[u] : status[d] \notin Terminal
    BY <2>1 DEF NoStrandedTask
  <2>4. d \in Task
    BY <2>2 DEF FailedDependency, DepsKnown
  <2>5. status'[d] \notin Terminal
    BY <1>1, <1>2, <2>3, <2>4 DEF Terminal
  <2> QED BY <1>1, <1>2, <2>2, <2>5 DEF FailedDependency
<1> QED BY <1>1, <1>3, <1>4, <1>5, <1>8, <1>9, <1>10

\* The operations of the public interface.
LEMMA CallerGraph ==
  ASSUME GraphInv, CallerStep \/ Stop
  PROVE  GraphInv' /\ TerminalKept
<1> USE DEF graphVars, loopVars, runnerVars
<1>0. TypeInv' /\ TypeInv /\ reaping \subseteq running /\ RunningIsRunning /\ TypeOK
  BY CallerTypeInv DEF GraphInv, TypeInv
<1>1. CASE Start
  BY <1>0, <1>1, QuietGraph DEF Start
<1>2. ASSUME NEW n \in 1 .. MaxLimit, SetMaxParallel(n)
      PROVE  GraphInv' /\ TerminalKept
  BY <1>0, <1>2, QuietGraph DEF SetMaxParallel
<1>3. CASE Stop
  BY <1>0, <1>3, QuietGraph DEF Stop
<1>4. CASE CancelRunning
  <2>1. \A t \in Task : agent'[t] = "none" <=> agent[t] = "none"
    BY <1>4 DEF CancelRunning
  <2> QED BY <1>0, <1>4, <2>1, QuietGraph DEF CancelRunning
<1>5. ASSUME NEW p \in Callers, NEW t \in Task, NEW D \in DepChoices[t], NEW pr \in Priorities,
             AddTask(p, t, D, pr)
      PROVE  GraphInv' /\ TerminalKept
  BY <1>0, <1>5, AddTaskGraph
<1>6. ASSUME NEW p \in Callers, NEW t \in Task, CancelPublished(p, t)
      PROVE  GraphInv' /\ TerminalKept
  <2>1. agent[t] \in Outcomes /\ status[t] = "running" /\ reaping' = {}
    BY <1>0, <1>6 DEF CancelPublished, Published, MuFree, RunningIsRunning, TypeInv,
                      ReapingPublished
  <2>2. Settle(t, agent[t]) /\ running' = running \ {t} /\ UNCHANGED agent
    BY <1>6 DEF CancelPublished
  <2> QED BY <1>0, <2>1, <2>2, SettleGraph
<1>7. ASSUME NEW p \in Callers, NEW t \in Task, CancelRequest(p, t)
      PROVE  GraphInv' /\ TerminalKept
  <2>1. \A u \in Task : agent'[u] = "none" <=> agent[u] = "none"
    BY <1>0, <1>7 DEF CancelRequest, TypeOK
  <2> QED BY <1>0, <1>7, <2>1, QuietGraph DEF CancelRequest
<1>8. ASSUME NEW p \in Callers, NEW t \in Task, CancelUnstarted(p, t)
      PROVE  GraphInv' /\ TerminalKept
  <2>1. /\ t \notin running /\ status[t] \in {"blocked", "ready"} /\ reaping' = {}
    BY <1>0, <1>8 DEF CancelUnstarted, Added, MuFree, RunningIsRunning, TypeInv,
                      ReapingPublished, TypeOK, Statuses, Terminal
  <2>2. Settle(t, "cancelled") /\ running' = running \ {t} /\ UNCHANGED agent
    BY <1>8, <2>1 DEF CancelUnstarted
  <2> QED BY <1>0, <2>1, <2>2, SettleGraph
<1> QED BY <1>1, <1>2, <1>3, <1>4, <1>5, <1>6, <1>7, <1>8 DEF CallerStep

\* deliverTaskCompletions changes no task.
LEMMA DeliveryGraph ==
  ASSUME GraphInv, NEW p \in Procs, DeliveryStep(p)
  PROVE  GraphInv' /\ TerminalKept
<1>1. TypeInv' /\ reaping \subseteq running
  BY DeliveryTypeInv DEF GraphInv
<1>2. UNCHANGED <<graphVars, loopVars, runnerVars>>
  BY DEF DeliveryStep, Publish, Invoke, Drain, Notify
<1> QED BY <1>1, <1>2, QuietGraph DEF graphVars, loopVars, runnerVars

\* processLoop.
LEMMA LoopGraph ==
  ASSUME GraphInv, LoopStep \/ LoopEvent
  PROVE  GraphInv' /\ TerminalKept
<1> USE DEF graphVars, loopVars, runnerVars
<1>0. /\ TypeInv' /\ TypeInv /\ reaping \subseteq running /\ RunningIsRunning /\ TypeOK
      /\ ReapingPublished
  BY LoopTypeInv DEF GraphInv, TypeInv
<1>1. CASE StartReadyDone
  BY <1>0, <1>1, QuietGraph DEF StartReadyDone
<1>2. CASE CheckCompletedAgents
  BY <1>0, <1>2, QuietGraph DEF CheckCompletedAgents
<1>2a. ASSUME NEW t \in Task, SpawnAsync(t)
       PROVE  GraphInv' /\ TerminalKept
  BY <1>0, <1>2a, QuietGraph DEF SpawnAsync
<1>3. CASE CheckCompletedDone
  BY <1>0, <1>3, QuietGraph DEF CheckCompletedDone
<1>4. CASE LoopCheck
  BY <1>0, <1>4, QuietGraph DEF LoopCheck
<1>5. CASE LoopNotify
  BY <1>0, <1>5, QuietGraph DEF LoopNotify
<1>6. ASSUME NEW t \in Task, StartTask(t)
      PROVE  GraphInv' /\ TerminalKept
  BY <1>0, <1>6, StartTaskGraph
<1>7. ASSUME NEW t \in Task, StartTaskFails(t)
      PROVE  GraphInv' /\ TerminalKept
  <2>1. status[t] = "ready" /\ t \notin running /\ reaping' = {}
    BY <1>0, <1>7 DEF StartTaskFails, Popped, Starting, RunningIsRunning, ReapingPublished
  <2>2. Settle(t, "failure") /\ running' = running \ {t} /\ UNCHANGED agent
    BY <1>7, <2>1 DEF StartTaskFails
  <2>3. "failure" \in Outcomes \union {"cancelled"}
    BY DEF Outcomes
  <2> QED BY <1>0, <2>1, <2>2, <2>3, SettleGraph
<1>8. ASSUME NEW t \in Task, CommitReaped(t)
      PROVE  GraphInv' /\ TerminalKept
  <2>1. agent[t] \in Outcomes /\ status[t] = "running"
    BY <1>0, <1>8 DEF CommitReaped, ReapingPublished, Published, RunningIsRunning
  <2>2. /\ Settle(t, agent[t]) /\ running' = running \ {t} /\ UNCHANGED agent
        /\ reaping' \subseteq reaping \ {t}
    BY <1>8 DEF CommitReaped
  <2> QED BY <1>0, <2>1, <2>2, SettleGraph
<1>9. CASE LoopStopped
  BY <1>0, <1>9, QuietGraph DEF LoopStopped
<1>10. CASE LoopReady
  BY <1>0, <1>10, QuietGraph DEF LoopReady
<1>11. CASE LoopTick
  BY <1>0, <1>11, QuietGraph DEF LoopTick
<1>12. ASSUME NEW t \in Task, NEW res \in Outcomes, LoopDone(t, res)
       PROVE  GraphInv' /\ TerminalKept
  <2>1. UNCHANGED agent /\ reaping' = {}
    BY <1>0, <1>12 DEF LoopDone, LoopAt, ReapingPublished
  <2>2. CASE t \in running
    <3>1. Settle(t, res) /\ running' = running \ {t} /\ status[t] = "running"
      BY <1>0, <1>12, <2>2 DEF LoopDone, RunningIsRunning
    <3> QED BY <1>0, <2>1, <3>1, SettleGraph
  <2>3. CASE t \notin running
    <3>1. UNCHANGED <<status, deps, result, qseq, running>>
      BY <1>12, <2>3 DEF LoopDone
    <3> QED BY <1>0, <2>1, <3>1, QuietGraph
  <2> QED BY <2>2, <2>3
<1> QED BY <1>1, <1>2, <1>2a, <1>3, <1>4, <1>5, <1>6, <1>7, <1>8, <1>9, <1>10, <1>11, <1>12
        DEF LoopStep, LoopEvent, Spawning

\* The Runner and the monitors change no task.
LEMMA RunnerGraph ==
  ASSUME GraphInv, NEW t \in Task, RunnerStep(t)
  PROVE  GraphInv' /\ TerminalKept
<1> USE DEF graphVars, loopVars
<1>0. TypeInv' /\ reaping \subseteq running /\ TypeOK
  BY RunnerTypeInv DEF GraphInv, TypeInv
<1>1. ASSUME NEW res \in Outcomes, AgentFinish(t, res)
      PROVE  GraphInv' /\ TerminalKept
  <2>1. \A u \in Task : agent'[u] = "none" <=> agent[u] = "none"
    BY <1>0, <1>1 DEF AgentFinish, Alive, Outcomes, TypeOK
  <2> QED BY <1>0, <1>1, <2>1, QuietGraph DEF AgentFinish
<1>2. CASE Evict(t)
  BY <1>0, <1>2, QuietGraph DEF Evict
<1>3. CASE Monitor(t)
  <2>1. UNCHANGED <<graphVars, loopVars, agent>>
    BY <1>3 DEF Monitor, MonitorWait, MonitorWake, MonitorSend, MonitorStep
  <2> QED BY <1>0, <2>1, QuietGraph
<1> QED BY <1>1, <1>2, <1>3 DEF RunnerStep, Finish

\* Every step keeps the graph sound and changes no verdict.
LEMMA NextGraph == GraphInv /\ [Next]_vars => GraphInv' /\ (TerminalKept \/ UNCHANGED vars)
<1> SUFFICES ASSUME GraphInv, [Next]_vars
             PROVE  GraphInv' /\ (TerminalKept \/ UNCHANGED vars)
  OBVIOUS
<1>1. CASE UNCHANGED vars
  <2>1. TypeInv'
    BY <1>1, NextTypeInv DEF GraphInv
  <2> QED BY <1>1, <2>1, QuietGraph
          DEF vars, graphVars, loopVars, runnerVars, GraphInv
<1> QED BY <1>1, CallerGraph, DeliveryGraph, LoopGraph, RunnerGraph DEF Next, Work

\* The graph is sound in every state.
LEMMA GraphInvariant == Spec => []GraphInv
<1>1. Init => GraphInv
  BY InitGraphInv
<1>2. GraphInv /\ [Next]_vars => GraphInv'
  BY NextGraph
<1> QED BY <1>1, <1>2, PTL DEF Spec

\* An agent is only ever spawned for a task whose dependencies have all
\* completed, whatever the callers, the loop, the ticker and the monitors do.
\* Nor does resolveDependentsLocked strand a blocked task: the cascade takes
\* every task a failure reaches, and every other blocked task waits for one that
\* is still to finish.
THEOREM GraphAlwaysSound == Spec => []GraphSound
<1>1. GraphInv => GraphSound
  BY DEF GraphInv, GraphSound
<1> QED BY <1>1, GraphInvariant, PTL

\* The priority queue holds exactly the ready tasks, and c.running exactly the
\* running ones: no task is lost, no slot leaked or freed twice.
THEOREM BooksAlwaysAgree == Spec => []BooksAgree
<1>1. GraphInv => BooksAgree
  BY DEF GraphInv, BooksAgree
<1> QED BY <1>1, GraphInvariant, PTL

\* A verdict is never replaced by a late result, a second cancellation or a
\* second commit.
THEOREM VerdictsFinal == Spec => TerminalIsFinal
<1>1. GraphInv /\ [Next]_vars =>
        [\A t \in Task : status[t] \in Terminal =>
            status'[t] = status[t] /\ result'[t] = result[t]]_vars
  BY NextGraph DEF TerminalKept
<1> QED BY <1>1, GraphInvariant, PTL DEF Spec, TerminalIsFinal

-----------------------------------------------------------------------------
(* The results of the agents                                               *)

\* A result that somebody holds of the agent of t: the published one, or the failure
\* that a monitor makes up when the published one has been evicted.
Snapshot(t, res) == Published(t) /\ (res = agent[t] \/ (res = "failure" /\ t \in evicted))

\* The inductive invariant for OutcomeFaithful: results on their way to processLoop
\* are the agents' own, and a task with an agent at work is running.
OutcomeInv ==
  /\ OutcomeFaithful
  /\ \A t \in Task : Alive(t) => status[t] = "running"
  /\ \A t \in evicted : Published(t)
  /\ \A t \in Task : monitor[t] \in Outcomes => Snapshot(t, monitor[t])
  /\ \A t \in Task, res \in Outcomes : <<t, res>> \in agentDoneCh => Snapshot(t, res)
  /\ \A t \in Task : status[t] \in Terminal => result[t] # "none"

\* A task is settled with what its agent reported, or before it had one.
LEMMA SettleOutcome ==
  ASSUME GraphInv, OutcomeInv,
         NEW t \in Task, NEW res \in Outcomes \union {"cancelled"}, Settle(t, res),
         status[t] \notin Terminal, ~Alive(t),
         res = "success" => agent[t] = "success",
         res # "success" /\ agent[t] = "success" => t \in evicted,
         UNCHANGED <<agent, evicted, monitor>>, agentDoneCh' \subseteq agentDoneCh
  PROVE  OutcomeInv'
<1> DEFINE st == SettledStatus(t, res)
           skipped == Cascade(t, st)
           ready == Unblocked(t, st) \ skipped
<1>1. /\ status'[t] = (IF res = "success" THEN "completed" ELSE "failed") /\ result'[t] = res
      /\ \A u \in Task \ {t} :
           /\ u \in skipped => /\ status[u] = "blocked" /\ status'[u] = "failed" /\ result'[u] = "skipped"
           /\ u \in ready => status[u] = "blocked" /\ status'[u] = "ready"
           /\ u \notin skipped /\ u \notin ready => status'[u] = status[u] /\ result'[u] = result[u]
  BY SettleEffect DEF GraphInv, TypeInv
<1> HIDE DEF skipped, ready
<1>2. \A u \in Task : status[u] = "blocked" => agent[u] = "none"
  BY DEF GraphInv, UnstartedHasNoAgent
<1>3. OutcomeFaithful'
  BY <1>1, <1>2 DEF OutcomeInv, OutcomeFaithful
<1>4. \A u \in Task : Alive(u)' => status'[u] = "running"
  BY <1>1, <1>2 DEF OutcomeInv, Alive
<1>5. \A u \in Task : status'[u] \in Terminal => result'[u] # "none"
  BY <1>1 DEF OutcomeInv, Terminal, Outcomes
<1>6. \A u \in Task : \A r : Snapshot(u, r) => Snapshot(u, r)'
  BY DEF Snapshot, Published
<1>7. /\ \A u \in evicted' : Published(u)'
      /\ (\A u \in Task : monitor[u] \in Outcomes => Snapshot(u, monitor[u]))'
      /\ \A u \in Task, r \in Outcomes : <<u, r>> \in agentDoneCh' => Snapshot(u, r)'
  BY <1>6 DEF OutcomeInv, Published, Snapshot
<1> QED BY <1>3, <1>4, <1>5, <1>7 DEF OutcomeInv

\* A step that settles nothing and leaves agents and monitors alone.
LEMMA QuietOutcome ==
  ASSUME OutcomeInv, UNCHANGED <<agent, evicted, monitor>>, agentDoneCh' \subseteq agentDoneCh,
         \A t \in Task : /\ status'[t] \in Terminal =>
                              \/ status'[t] = status[t] /\ result'[t] = result[t]
                              \/ status'[t] = "failed" /\ result'[t] # "none" /\ agent[t] = "none"
                         /\ Alive(t) => status'[t] = status[t]
  PROVE  OutcomeInv'
<1>1. OutcomeFaithful'
  BY DEF OutcomeInv, OutcomeFaithful, Terminal
<1>2. \A u \in Task : \A r : Snapshot(u, r) => Snapshot(u, r)'
  BY DEF Snapshot, Published
<1> QED BY <1>1, <1>2 DEF OutcomeInv, Alive, Published, Snapshot

\* The public operations.
LEMMA CallerOutcome ==
  ASSUME GraphInv, OutcomeInv, CallerStep \/ Stop
  PROVE  OutcomeInv'
<1> USE DEF graphVars, runnerVars
<1>1. CASE Start \/ Stop \/ \E n \in 1 .. MaxLimit : SetMaxParallel(n)
  <2>1. UNCHANGED <<status, result, agent, evicted, monitor, agentDoneCh>>
    BY <1>1 DEF Start, Stop, SetMaxParallel
  <2> QED BY <2>1, QuietOutcome
<1>2. ASSUME UNCHANGED <<status, result, evicted, monitor, agentDoneCh>>,
             \A t \in Task : agent'[t] = agent[t] \/ (agent[t] = "working" /\ agent'[t] = "cancelling")
      PROVE  OutcomeInv'
  <2>1. \A t \in Task : /\ agent[t] = "success" <=> agent'[t] = "success"
                        /\ Alive(t)' => Alive(t)
                        /\ Published(t) => agent'[t] = agent[t]
    BY <1>2 DEF Alive, Published, Outcomes
  <2>2. \A u \in Task : \A r : Snapshot(u, r) => Snapshot(u, r)'
    BY <1>2, <2>1 DEF Snapshot, Published
  <2>3. evicted \subseteq Task
    BY DEF GraphInv, TypeInv, TypeOK
  <2>4. OutcomeFaithful'
    BY <1>2, <2>1 DEF OutcomeInv, OutcomeFaithful
  <2>5. \A t \in evicted' : Published(t)'
    BY <1>2, <2>1, <2>3 DEF OutcomeInv, Published
  <2> QED BY <1>2, <2>1, <2>2, <2>4, <2>5 DEF OutcomeInv
<1>3. CASE CancelRunning
  BY <1>2, <1>3 DEF CancelRunning
<1>4. ASSUME NEW p \in Callers, NEW t \in Task, CancelRequest(p, t)
      PROVE  OutcomeInv'
  <2>1. agent \in [Task -> Outcomes \union {"none", "working", "cancelling"}]
    BY DEF GraphInv, TypeInv, TypeOK
  <2> QED BY <1>2, <1>4, <2>1 DEF CancelRequest
<1>5. ASSUME NEW p \in Callers, NEW t \in Task, NEW D \in DepChoices[t], NEW pr \in Priorities,
             AddTask(p, t, D, pr)
      PROVE  OutcomeInv'
  <2>1. /\ UNCHANGED <<agent, evicted, monitor, agentDoneCh>> /\ status[t] = "absent"
        /\ \A u \in Task \ {t} : status'[u] = status[u] /\ result'[u] = result[u]
        /\ \/ status'[t] = "failed" /\ result'[t] = "skipped"
           \/ status'[t] \in {"ready", "blocked"}
    BY <1>5 DEF AddTask, Added, GraphInv, TypeInv, TypeOK
  <2>2. agent[t] = "none"
    BY <2>1 DEF GraphInv, UnstartedHasNoAgent
  <2>3. ~Alive(t)
    BY <2>2 DEF Alive
  <2>4. \A u \in Task : /\ status'[u] \in Terminal =>
                              \/ status'[u] = status[u] /\ result'[u] = result[u]
                              \/ status'[u] = "failed" /\ result'[u] # "none" /\ agent[u] = "none"
                        /\ Alive(u) => status'[u] = status[u]
    BY <2>1, <2>2, <2>3 DEF Terminal
  <2> QED BY <2>1, <2>4, QuietOutcome
<1>6. ASSUME NEW p \in Callers, NEW t \in Task, CancelPublished(p, t)
      PROVE  OutcomeInv'
  <2>1. /\ Settle(t, agent[t]) /\ Published(t) /\ t \in running
        /\ UNCHANGED <<agent, evicted, monitor, agentDoneCh>>
    BY <1>6 DEF CancelPublished
  <2>2. agent[t] \in Outcomes /\ ~Alive(t) /\ status[t] \notin Terminal
    BY <2>1 DEF Published, Alive, Outcomes, GraphInv, RunningIsRunning, Terminal
  <2> QED BY <2>1, <2>2, SettleOutcome
<1>7. ASSUME NEW p \in Callers, NEW t \in Task, CancelUnstarted(p, t)
      PROVE  OutcomeInv'
  <2>1. /\ Settle(t, "cancelled") /\ t \notin running /\ status[t] \notin Terminal
        /\ UNCHANGED <<agent, evicted, monitor, agentDoneCh>>
    BY <1>7 DEF CancelUnstarted
  <2>2. status[t] \in {"absent", "blocked", "ready"}
    BY <2>1 DEF GraphInv, TypeInv, TypeOK, RunningIsRunning, Statuses
  <2>3. agent[t] = "none" /\ ~Alive(t)
    BY <2>2 DEF GraphInv, UnstartedHasNoAgent, Alive
  <2> QED BY <2>1, <2>3, SettleOutcome
<1> QED BY <1>1, <1>3, <1>4, <1>5, <1>6, <1>7 DEF CallerStep

\* processLoop and the deliveries.
LEMMA LoopOutcome ==
  ASSUME GraphInv, OutcomeInv, LoopStep \/ LoopEvent \/ \E p \in Procs : DeliveryStep(p)
  PROVE  OutcomeInv'
<1> USE DEF graphVars, runnerVars
<1>1. CASE \/ StartReadyDone \/ Spawning \/ CheckCompletedAgents \/ CheckCompletedDone \/ LoopCheck \/ LoopNotify
           \/ LoopStopped \/ LoopReady \/ LoopTick \/ \E p \in Procs : DeliveryStep(p)
  <2>1. UNCHANGED <<status, result, agent, evicted, monitor, agentDoneCh>>
    BY <1>1 DEF StartReadyDone, CheckCompletedAgents, Spawning, SpawnAsync, CheckCompletedDone, LoopCheck,
                LoopNotify,
                LoopStopped, LoopReady, LoopTick, DeliveryStep, Publish, Invoke, Drain, Notify
  <2> QED BY <2>1, QuietOutcome
<1>2. ASSUME NEW t \in Task, StartTask(t)
      PROVE  OutcomeInv'
  <2>1. /\ status[t] = "ready" /\ status'[t] = "running" /\ agent'[t] = "working"
        /\ monitor'[t] = "spawned" /\ UNCHANGED <<result, evicted, agentDoneCh>>
        /\ \A u \in Task \ {t} : status'[u] = status[u] /\ agent'[u] = agent[u] /\ monitor'[u] = monitor[u]
    BY <1>2 DEF StartTask, GraphInv, TypeInv, TypeOK
  <2>2. agent[t] = "none" /\ evicted \subseteq Task
    BY <2>1 DEF GraphInv, UnstartedHasNoAgent, TypeInv, TypeOK
  <2>3. ~Published(t) /\ t \notin evicted
    BY <2>2 DEF Published, Outcomes, OutcomeInv
  <2>4. \A u \in Task : \A r : Snapshot(u, r) => Snapshot(u, r)'
    BY <2>1, <2>3 DEF Snapshot, Published
  <2>5. OutcomeFaithful'
    BY <2>1 DEF OutcomeInv, OutcomeFaithful
  <2>6. \A u \in Task : Alive(u)' => status'[u] = "running"
    BY <2>1 DEF OutcomeInv, Alive
  <2>7. \A u \in evicted' : Published(u)'
    BY <2>1, <2>2, <2>3 DEF OutcomeInv, Published
  <2>8. (\A u \in Task : monitor[u] \in Outcomes => Snapshot(u, monitor[u]))'
    BY <2>1, <2>4 DEF OutcomeInv, Outcomes
  <2>9. \A u \in Task : status'[u] \in Terminal => result'[u] # "none"
    BY <2>1 DEF OutcomeInv, Terminal
  <2> QED BY <2>1, <2>4, <2>5, <2>6, <2>7, <2>8, <2>9 DEF OutcomeInv
<1>3. ASSUME NEW t \in Task, StartTaskFails(t)
      PROVE  OutcomeInv'
  <2>1. /\ Settle(t, "failure") /\ status[t] = "ready"
        /\ UNCHANGED <<agent, evicted, monitor, agentDoneCh>> /\ "failure" \in Outcomes
    BY <1>3 DEF StartTaskFails, Outcomes
  <2>2. agent[t] = "none" /\ ~Alive(t) /\ status[t] \notin Terminal
    BY <2>1 DEF GraphInv, UnstartedHasNoAgent, Alive, Terminal
  <2> QED BY <2>1, <2>2, SettleOutcome
<1>4. ASSUME NEW t \in Task, CommitReaped(t)
      PROVE  OutcomeInv'
  <2>1. /\ Settle(t, agent[t]) /\ t \in reaping /\ UNCHANGED <<agent, evicted, monitor, agentDoneCh>>
    BY <1>4 DEF CommitReaped
  <2>2. Published(t) /\ t \in running
    BY <2>1 DEF GraphInv, TypeInv, ReapingPublished
  <2>3. agent[t] \in Outcomes /\ ~Alive(t) /\ status[t] \notin Terminal
    BY <2>2 DEF Published, Alive, Outcomes, GraphInv, RunningIsRunning, Terminal
  <2> QED BY <2>1, <2>3, SettleOutcome
<1>5. ASSUME NEW t \in Task, NEW res \in Outcomes, LoopDone(t, res)
      PROVE  OutcomeInv'
  <2>1. /\ <<t, res>> \in agentDoneCh /\ agentDoneCh' \subseteq agentDoneCh
        /\ UNCHANGED <<agent, evicted, monitor>>
    BY <1>5 DEF LoopDone
  <2>2. Snapshot(t, res)
    BY <2>1 DEF OutcomeInv
  <2>3. CASE t \in running
    <3>1. Settle(t, res)
      BY <1>5, <2>3 DEF LoopDone
    <3>2. ~Alive(t) /\ status[t] \notin Terminal
      BY <2>2, <2>3 DEF Snapshot, Published, Alive, Outcomes, GraphInv, RunningIsRunning, Terminal
    <3>3. /\ res = "success" => agent[t] = "success"
          /\ res # "success" /\ agent[t] = "success" => t \in evicted
      BY <2>2 DEF Snapshot
    <3> QED BY <2>1, <3>1, <3>2, <3>3, SettleOutcome
  <2>4. CASE t \notin running
    <3>1. UNCHANGED <<status, result>>
      BY <1>5, <2>4 DEF LoopDone
    <3> QED BY <2>1, <3>1, QuietOutcome
  <2> QED BY <2>3, <2>4
<1> QED BY <1>1, <1>2, <1>3, <1>4, <1>5 DEF LoopStep, LoopEvent

\* The Runner and the monitors: what a monitor takes away is what was published.
LEMMA RunnerOutcome ==
  ASSUME GraphInv, OutcomeInv, NEW t \in Task, RunnerStep(t)
  PROVE  OutcomeInv'
<1> USE DEF graphVars, runnerVars
<1>0. /\ agent \in [Task -> Outcomes \union {"none", "working", "cancelling"}]
      /\ monitor \in [Task -> Outcomes \union {"none", "spawned", "waiting", "gone"}]
      /\ evicted \subseteq Task
  BY DEF GraphInv, TypeInv, TypeOK
<1>1. ASSUME NEW res \in Outcomes, AgentFinish(t, res)
      PROVE  OutcomeInv'
  <2>1. /\ Alive(t) /\ agent'[t] = res /\ UNCHANGED <<status, result, evicted, monitor, agentDoneCh>>
        /\ \A u \in Task \ {t} : agent'[u] = agent[u]
    BY <1>0, <1>1 DEF AgentFinish
  <2>2. status[t] = "running" /\ ~Published(t) /\ t \notin evicted
    BY <2>1 DEF OutcomeInv, Alive, Published, Outcomes
  <2>3. \A u \in Task : \A r : Snapshot(u, r) => Snapshot(u, r)'
    BY <2>1, <2>2 DEF Snapshot, Published
  <2>4. OutcomeFaithful'
    BY <2>1, <2>2 DEF OutcomeInv, OutcomeFaithful
  <2>5. \A u \in Task : Alive(u)' => Alive(u)
    BY <2>1 DEF Alive
  <2>6. \A u \in evicted' : Published(u)'
    BY <1>0, <2>1, <2>2 DEF OutcomeInv, Published
  <2> QED BY <2>1, <2>3, <2>4, <2>5, <2>6 DEF OutcomeInv
<1>2. CASE Evict(t)
  <2>1. /\ Published(t) /\ evicted' = evicted \union {t}
        /\ UNCHANGED <<status, result, agent, monitor, agentDoneCh>>
    BY <1>2 DEF Evict
  <2>2. \A u \in Task : \A r : Snapshot(u, r) => Snapshot(u, r)'
    BY <2>1 DEF Snapshot, Published
  <2>3. OutcomeFaithful'
    BY <2>1 DEF OutcomeInv, OutcomeFaithful
  <2> QED BY <2>1, <2>2, <2>3 DEF OutcomeInv, Alive, Published
<1>3. ASSUME NEW pc, MonitorStep(t, pc), pc \in Outcomes => Snapshot(t, pc),
             agentDoneCh' \subseteq agentDoneCh \union {<<t, r>> : r \in {r \in Outcomes : Snapshot(t, r)}}
      PROVE  OutcomeInv'
  <2>1. /\ UNCHANGED <<status, result, agent, evicted>> /\ monitor'[t] = pc
        /\ \A u \in Task \ {t} : monitor'[u] = monitor[u]
    BY <1>0, <1>3 DEF MonitorStep
  <2>2. \A u \in Task : \A r : Snapshot(u, r) => Snapshot(u, r)'
    BY <2>1 DEF Snapshot, Published
  <2>3. (\A u \in Task : monitor[u] \in Outcomes => Snapshot(u, monitor[u]))'
    BY <1>3, <2>1, <2>2 DEF OutcomeInv
  <2>4. \A u \in Task, r \in Outcomes : <<u, r>> \in agentDoneCh' => Snapshot(u, r)'
    BY <1>3, <2>2 DEF OutcomeInv
  <2>5. OutcomeFaithful'
    BY <2>1 DEF OutcomeInv, OutcomeFaithful
  <2> QED BY <2>1, <2>3, <2>4, <2>5 DEF OutcomeInv, Alive, Published
<1>4. CASE MonitorWait(t) \/ MonitorWake(t)
  <2>1. UNCHANGED agentDoneCh
    BY <1>4 DEF MonitorWait, MonitorWake
  <2>2. t \in evicted => Published(t)
    BY DEF OutcomeInv
  <2>3. \E pc : MonitorStep(t, pc) /\ (pc \in Outcomes => Snapshot(t, pc))
    BY <1>4, <2>2 DEF MonitorWait, MonitorWake, Snapshot, Outcomes
  <2> QED BY <1>3, <2>1, <2>3
<1>5. CASE MonitorSend(t)
  <2>1. /\ monitor[t] \in Outcomes /\ MonitorStep(t, "gone")
        /\ agentDoneCh' \subseteq agentDoneCh \union {<<t, monitor[t]>>}
    BY <1>5 DEF MonitorSend
  <2>2. Snapshot(t, monitor[t]) /\ "gone" \notin Outcomes
    BY <2>1 DEF OutcomeInv, Outcomes
  <2>3. <<t, monitor[t]>> \in {<<t, r>> : r \in {r \in Outcomes : Snapshot(t, r)}}
    BY <2>1, <2>2
  <2> QED BY <1>3, <2>1, <2>2, <2>3
<1> QED BY <1>1, <1>2, <1>4, <1>5 DEF RunnerStep, Finish, Monitor

\* The invariant holds in every state.
LEMMA OutcomeInvariant == Spec => []OutcomeInv
<1>1. Init => OutcomeInv
  BY DEF Init, OutcomeInv, OutcomeFaithful, Alive, Published, Snapshot, Outcomes, Terminal
<1>2. GraphInv /\ OutcomeInv /\ [Next]_vars => OutcomeInv'
  <2> SUFFICES ASSUME GraphInv, OutcomeInv, [Next]_vars
               PROVE  OutcomeInv'
    OBVIOUS
  <2>1. CASE UNCHANGED vars
    BY <2>1, QuietOutcome DEF vars, graphVars, runnerVars
  <2> QED BY <2>1, CallerOutcome, LoopOutcome, RunnerOutcome DEF Next, Work
<1> QED BY <1>1, <1>2, GraphInvariant, PTL DEF Spec

\* A result is committed by three goroutines, from a channel, from the Runner's table
\* and from a failed wait; none of them invents a success, and a success is turned
\* into a failure only by its eviction (coordinator.go, runner_result.go).
THEOREM ResultsFollowAgents == Spec => []OutcomeFaithful
<1>1. OutcomeInv => OutcomeFaithful
  BY DEF OutcomeInv
<1> QED BY <1>1, OutcomeInvariant, PTL

-----------------------------------------------------------------------------
(* Completions                                                             *)

\* The completions that count in pendingCallbacks.
Delivering(p) == stage[p] \in {"publish", "invoke", "drain"}
Outstanding == {t \in Task : \E p \in Procs : Delivering(p) /\ t \in batch[p]}

\* The inductive invariant for AllCompleteIsLast: a terminal task is in one batch, or
\* its observer has been called; only processLoop, while it holds c.mu, collects
\* completions that are not yet registered; pendingCallbacks counts the registered.
DeliveryInv ==
  /\ \A p \in Procs : \A t \in batch[p] : status[t] \in Terminal
  /\ \A p, q \in Procs : \A t \in batch[p] : t \in batch[q] => p = q
  /\ \A p \in Procs : ~Delivering(p) /\ (p = Loop => MuFree) => batch[p] = {}
  /\ ~MuFree => stage[Loop] = "idle"
  /\ \A t \in Task : status[t] \notin Terminal => delivered[t] = 0
  /\ \A p \in Procs : \A t \in batch[p] : delivered[t] = IF stage[p] = "drain" THEN 1 ELSE 0
  /\ \A t \in Task : status[t] \in Terminal /\ (\A p \in Procs : t \notin batch[p]) => delivered[t] = 1
  /\ pendingCallbacks = Cardinality(Outstanding)

\* The completion events, in a graph that the loop runs only when it is sealed.
CompletionInv ==
  /\ loopPc # "off" => sealed
  /\ ReleasedIsTerminal
  /\ allCompleteFired => completionClosed /\ \A t \in Added : delivered[t] = 1

\* Settle makes exactly the settled tasks terminal, and none of them was before.
LEMMA SettledNew ==
  ASSUME TypeOK, NEW t \in Task, NEW res \in Outcomes \union {"cancelled"}, Settle(t, res),
         status[t] \notin Terminal
  PROVE  /\ Settled(t, res) \in SUBSET Task
         /\ \A u \in Settled(t, res) : status[u] \notin Terminal
         /\ \A u \in Task : status'[u] \in Terminal <=> status[u] \in Terminal \/ u \in Settled(t, res)
<1> DEFINE st == SettledStatus(t, res)
           skipped == Cascade(t, st)
           ready == Unblocked(t, st) \ skipped
<1>1. /\ Settled(t, res) \in SUBSET Task
      /\ status'[t] = (IF res = "success" THEN "completed" ELSE "failed")
      /\ \A u \in Task \ {t} :
           /\ u \in skipped => status[u] = "blocked" /\ status'[u] = "failed"
           /\ u \in ready => status[u] = "blocked" /\ status'[u] = "ready"
           /\ u \notin skipped /\ u \notin ready => status'[u] = status[u]
  BY SettleEffect
<1>2. Settled(t, res) = {t} \union skipped
  BY DEF Settled
<1>3. skipped \intersect ready = {}
  OBVIOUS
<1> HIDE DEF st, skipped, ready
<1> QED BY <1>1, <1>2, <1>3 DEF Terminal

\* The registered completions are a finite set.
LEMMA OutstandingFinite ==
  /\ Outstanding \in SUBSET Task
  /\ IsFiniteSet(Outstanding) /\ Cardinality(Outstanding) \in Nat
<1>1. Outstanding \in SUBSET Task
  BY DEF Outstanding
<1> QED BY <1>1, TaskSets

\* A step that moves no completion.
LEMMA KeepDelivery ==
  ASSUME DeliveryInv, UNCHANGED <<stage, batch, pendingCallbacks, delivered>>,
         \A t \in Task : status'[t] \in Terminal <=> status[t] \in Terminal,
         MuFree' => MuFree, ~MuFree' => stage[Loop] = "idle",
         batch \in [Procs -> SUBSET Task]
  PROVE  DeliveryInv'
<1>1. /\ \A p \in Procs : Delivering(p)' = Delivering(p)
      /\ Outstanding' = Outstanding
  BY DEF Delivering, Outstanding
<1>2. \A p \in Procs : \A t \in batch[p] : t \in Task
  OBVIOUS
<1> QED BY <1>1, <1>2 DEF DeliveryInv

\* A goroutine leaves its critical section with the completions it has caused.
LEMMA RegisterNew ==
  ASSUME TypeOK, DeliveryInv, NEW p \in Procs, NEW S \in SUBSET Task, Register(p, S),
         stage[p] = "idle", MuFree, MuFree', UNCHANGED delivered,
         \A u \in S : status[u] \notin Terminal,
         \A u \in Task : status'[u] \in Terminal <=> status[u] \in Terminal \/ u \in S
  PROVE  DeliveryInv'
<1>1. /\ pendingCallbacks' = pendingCallbacks + Cardinality(S)
      /\ batch'[p] = S /\ stage'[p] = (IF S = {} THEN "idle" ELSE "publish")
      /\ \A q \in Procs \ {p} : batch'[q] = batch[q] /\ stage'[q] = stage[q]
  BY DEF Register, TypeOK
<1>2. /\ \A q \in Procs : \A t \in batch[q] : t \in Task /\ status[t] \in Terminal /\ t \notin S
      /\ batch[p] = {}
  BY DEF TypeOK, DeliveryInv, Delivering
<1>3. Outstanding' = Outstanding \union S
  BY <1>1, <1>2 DEF Outstanding, Delivering
<1>4. Outstanding \intersect S = {}
  BY <1>2 DEF Outstanding
<1>5. pendingCallbacks' = Cardinality(Outstanding')
  <2>1. IsFiniteSet(S) /\ Cardinality(S) \in Nat
    BY TaskSets
  <2>2. Cardinality(Outstanding \union S) = Cardinality(Outstanding) + Cardinality(S) - Cardinality({})
    BY <1>4, <2>1, OutstandingFinite, FS_Union
  <2>3. pendingCallbacks = Cardinality(Outstanding)
    BY DEF DeliveryInv
  <2> QED BY <1>1, <1>3, <2>1, <2>2, <2>3, OutstandingFinite, FS_EmptySet
<1>6. /\ \A q \in Procs : \A t \in batch'[q] : status'[t] \in Terminal
      /\ \A q, r \in Procs : \A t \in batch'[q] : t \in batch'[r] => q = r
  BY <1>1, <1>2 DEF DeliveryInv
<1>7. \A q \in Procs : ~Delivering(q)' /\ (q = Loop => MuFree') => batch'[q] = {}
  BY <1>1, <1>2 DEF DeliveryInv, Delivering
<1>8. \A q \in Procs : \A t \in batch'[q] : delivered'[t] = IF stage'[q] = "drain" THEN 1 ELSE 0
  <2>1. \A t \in S : delivered[t] = 0
    BY DEF DeliveryInv
  <2> QED BY <1>1, <1>2, <2>1 DEF DeliveryInv
<1>9. \A t \in Task : status'[t] \in Terminal /\ (\A q \in Procs : t \notin batch'[q]) => delivered'[t] = 1
  <2>1. ASSUME NEW t \in Task, status'[t] \in Terminal, \A q \in Procs : t \notin batch'[q]
        PROVE  status[t] \in Terminal /\ \A q \in Procs : t \notin batch[q]
    BY <1>1, <1>2, <2>1
  <2> QED BY <2>1 DEF DeliveryInv
<1>10. \A t \in Task : status'[t] \notin Terminal => delivered'[t] = 0
  BY DEF DeliveryInv
<1> QED BY <1>5, <1>6, <1>7, <1>8, <1>9, <1>10 DEF DeliveryInv

\* processLoop collects completions while it holds c.mu.
LEMMA CollectNew ==
  ASSUME TypeOK, DeliveryInv, NEW S \in SUBSET Task,
         batch' = [batch EXCEPT ![Loop] = batch[Loop] \union S],
         ~MuFree, ~MuFree', UNCHANGED <<stage, pendingCallbacks, delivered>>,
         \A u \in S : status[u] \notin Terminal,
         \A u \in Task : status'[u] \in Terminal <=> status[u] \in Terminal \/ u \in S
  PROVE  DeliveryInv'
<1>0. Loop \in Procs
  BY DEF Procs
<1>1. /\ batch'[Loop] = batch[Loop] \union S
      /\ \A q \in Procs \ {Loop} : batch'[q] = batch[q]
      /\ stage[Loop] = "idle"
  BY <1>0 DEF TypeOK, DeliveryInv
<1>2. \A q \in Procs : \A t \in batch[q] : t \in Task /\ status[t] \in Terminal /\ t \notin S
  BY DEF TypeOK, DeliveryInv
<1>3. Outstanding' = Outstanding
  BY <1>0, <1>1 DEF Outstanding, Delivering
<1>4. pendingCallbacks' = Cardinality(Outstanding')
  BY <1>3 DEF DeliveryInv
<1>6. /\ \A q \in Procs : \A t \in batch'[q] : status'[t] \in Terminal
      /\ \A q, r \in Procs : \A t \in batch'[q] : t \in batch'[r] => q = r
  BY <1>0, <1>1, <1>2 DEF DeliveryInv
<1>7. \A q \in Procs : ~Delivering(q)' /\ (q = Loop => MuFree') => batch'[q] = {}
  BY <1>1 DEF DeliveryInv, Delivering
<1>8. \A q \in Procs : \A t \in batch'[q] : delivered'[t] = IF stage'[q] = "drain" THEN 1 ELSE 0
  <2>1. \A t \in S : delivered[t] = 0
    BY DEF DeliveryInv
  <2> QED BY <1>0, <1>1, <1>2, <2>1 DEF DeliveryInv
<1>9. \A t \in Task : status'[t] \in Terminal /\ (\A q \in Procs : t \notin batch'[q]) => delivered'[t] = 1
  <2>1. ASSUME NEW t \in Task, status'[t] \in Terminal, \A q \in Procs : t \notin batch'[q]
        PROVE  status[t] \in Terminal /\ \A q \in Procs : t \notin batch[q]
    BY <1>0, <1>1, <1>2, <2>1
  <2> QED BY <2>1 DEF DeliveryInv
<1>10. \A t \in Task : status'[t] \notin Terminal => delivered'[t] = 0
  BY DEF DeliveryInv
<1> QED BY <1>1, <1>4, <1>6, <1>7, <1>8, <1>9, <1>10 DEF DeliveryInv

\* processLoop registers what it has collected and gives c.mu back.
LEMMA RegisterCollected ==
  ASSUME TypeOK, DeliveryInv, Register(Loop, batch[Loop]), ~MuFree, MuFree',
         UNCHANGED <<status, delivered>>
  PROVE  DeliveryInv'
<1>0. Loop \in Procs
  BY DEF Procs
<1> DEFINE S == batch[Loop]
<1>1. /\ pendingCallbacks' = pendingCallbacks + Cardinality(S)
      /\ stage'[Loop] = (IF S = {} THEN "idle" ELSE "publish")
      /\ \A q \in Procs : batch'[q] = batch[q]
      /\ \A q \in Procs \ {Loop} : stage'[q] = stage[q]
      /\ stage[Loop] = "idle" /\ S \in SUBSET Task
  BY <1>0 DEF Register, TypeOK, DeliveryInv
<1>2. \A q \in Procs \ {Loop} : \A t \in batch[q] : t \notin S
  BY <1>0 DEF DeliveryInv
<1>3. Outstanding' = Outstanding \union S
  BY <1>0, <1>1 DEF Outstanding, Delivering
<1>4. Outstanding \intersect S = {}
  BY <1>0, <1>1, <1>2 DEF Outstanding, Delivering
<1> HIDE DEF S
<1>5. pendingCallbacks' = Cardinality(Outstanding')
  <2>1. IsFiniteSet(S) /\ Cardinality(S) \in Nat
    BY <1>1, TaskSets
  <2>2. Cardinality(Outstanding \union S) = Cardinality(Outstanding) + Cardinality(S) - Cardinality({})
    BY <1>4, <2>1, OutstandingFinite, FS_Union
  <2>3. pendingCallbacks = Cardinality(Outstanding)
    BY DEF DeliveryInv
  <2> QED BY <1>1, <1>3, <2>1, <2>2, <2>3, OutstandingFinite, FS_EmptySet
<1>7. \A q \in Procs : ~Delivering(q)' /\ (q = Loop => MuFree') => batch'[q] = {}
  BY <1>0, <1>1 DEF DeliveryInv, Delivering, S
<1>8. \A q \in Procs : \A t \in batch'[q] : delivered'[t] = IF stage'[q] = "drain" THEN 1 ELSE 0
  BY <1>0, <1>1 DEF DeliveryInv, S
<1> QED BY <1>1, <1>5, <1>7, <1>8 DEF DeliveryInv

\* The observers of a batch are called: each for the first time.
LEMMA InvokeDelivery ==
  ASSUME TypeOK, DeliveryInv, NEW p \in Procs, Invoke(p)
  PROVE  DeliveryInv'
<1>1. /\ stage[p] = "invoke" /\ stage'[p] = "drain"
      /\ UNCHANGED <<status, batch, pendingCallbacks, loopPc>>
      /\ \A q \in Procs \ {p} : stage'[q] = stage[q]
      /\ \A t \in Task : delivered'[t] = IF t \in batch[p] THEN delivered[t] + 1 ELSE delivered[t]
      /\ \A q \in Procs : batch[q] \subseteq Task
  BY DEF Invoke, TypeOK, graphVars, loopVars
<1>2. \A q \in Procs \ {p} : \A t \in batch[q] : t \notin batch[p]
  BY DEF DeliveryInv
<1>3. \A q \in Procs : Delivering(q)' = Delivering(q)
  BY <1>1 DEF Delivering
<1>4. Outstanding' = Outstanding /\ MuFree' = MuFree
  BY <1>1, <1>3 DEF Outstanding, MuFree
<1>5. ~MuFree => p # Loop /\ stage'[Loop] = "idle"
  <2>1. Loop \in Procs
    BY DEF Procs
  <2> QED BY <1>1, <2>1 DEF DeliveryInv
<1>6. \A t \in batch[p] : delivered[t] = 0 /\ delivered'[t] = 1
  BY <1>1 DEF DeliveryInv
<1>7. \A q \in Procs : \A t \in batch'[q] : delivered'[t] = IF stage'[q] = "drain" THEN 1 ELSE 0
  BY <1>1, <1>2, <1>6 DEF DeliveryInv
<1>8. \A t \in Task : status'[t] \notin Terminal => delivered'[t] = 0
  BY <1>1 DEF DeliveryInv
<1>9. \A t \in Task : status'[t] \in Terminal /\ (\A q \in Procs : t \notin batch'[q]) => delivered'[t] = 1
  BY <1>1 DEF DeliveryInv
<1> QED BY <1>1, <1>3, <1>4, <1>5, <1>7, <1>8, <1>9 DEF DeliveryInv

\* A delivered batch leaves pendingCallbacks, which held all of it.
LEMMA DrainDelivery ==
  ASSUME TypeOK, DeliveryInv, NEW p \in Procs, Drain(p)
  PROVE  DeliveryInv'
<1>1. /\ stage[p] = "drain" /\ stage'[p] \in {"idle", "notify"} /\ MuFree
      /\ UNCHANGED <<status, delivered, loopPc>>
      /\ batch'[p] = {} /\ batch[p] \in SUBSET Task
      /\ \A q \in Procs \ {p} : stage'[q] = stage[q] /\ batch'[q] = batch[q]
      /\ pendingCallbacks' = (IF pendingCallbacks < Cardinality(batch[p]) THEN 0
                              ELSE pendingCallbacks - Cardinality(batch[p]))
  BY DEF Drain, TypeOK, graphVars, loopVars
<1>2. MuFree'
  BY <1>1 DEF MuFree
<1>3. \A q \in Procs \ {p} : \A t \in batch[q] : t \notin batch[p]
  BY DEF DeliveryInv
<1>4. Outstanding = Outstanding' \union batch[p] /\ Outstanding' \intersect batch[p] = {}
  BY <1>1, <1>3 DEF Outstanding, Delivering
<1>5. pendingCallbacks' = Cardinality(Outstanding')
  <2> DEFINE S == batch[p]
             O == Outstanding'
  <2>0. O \in SUBSET Task
    BY DEF Outstanding
  <2> HIDE DEF S, O
  <2>1. /\ IsFiniteSet(S) /\ Cardinality(S) \in Nat
        /\ IsFiniteSet(O) /\ Cardinality(O) \in Nat
    BY <1>1, <2>0, TaskSets DEF S
  <2>2. Cardinality(O \union S) = Cardinality(O) + Cardinality(S) - Cardinality({})
    BY <1>4, <2>1, FS_Union DEF S, O
  <2>3. pendingCallbacks = Cardinality(O \union S)
    BY <1>4 DEF DeliveryInv, S, O
  <2>4. pendingCallbacks = Cardinality(O) + Cardinality(S)
    BY <2>1, <2>2, <2>3, FS_EmptySet
  <2>5. pendingCallbacks' = Cardinality(O)
    BY <1>1, <2>1, <2>4 DEF S
  <2> QED BY <2>5 DEF O
<1>6. \A t \in Task : status'[t] \in Terminal /\ (\A q \in Procs : t \notin batch'[q]) => delivered'[t] = 1
  <2> SUFFICES ASSUME NEW t \in Task, status[t] \in Terminal, \A q \in Procs : t \notin batch'[q]
               PROVE  delivered[t] = 1
    BY <1>1
  <2>1. CASE t \in batch[p]
    BY <1>1, <2>1 DEF DeliveryInv
  <2>2. CASE t \notin batch[p]
    BY <1>1, <2>2 DEF DeliveryInv
  <2> QED BY <2>1, <2>2
<1>7. \A q \in Procs : ~Delivering(q)' /\ (q = Loop => MuFree') => batch'[q] = {}
  BY <1>1 DEF DeliveryInv, Delivering
<1>8. /\ \A q \in Procs : \A t \in batch'[q] : t \in batch[q] /\ q # p
      /\ \A q, r \in Procs : \A t \in batch'[q] : t \in batch'[r] => q = r
  BY <1>1 DEF DeliveryInv
<1>9. \A q \in Procs : \A t \in batch'[q] : /\ status'[t] \in Terminal
                                           /\ delivered'[t] = IF stage'[q] = "drain" THEN 1 ELSE 0
  BY <1>1, <1>8 DEF DeliveryInv
<1> QED BY <1>1, <1>2, <1>5, <1>6, <1>7, <1>8, <1>9 DEF DeliveryInv

\* Publishing and notifying move a delivery on, with its batch.
LEMMA PublishDelivery ==
  ASSUME TypeOK, DeliveryInv, NEW p \in Procs, Publish(p) \/ Notify(p)
  PROVE  DeliveryInv'
<1>1. /\ MuFree /\ UNCHANGED <<status, delivered, loopPc, batch, pendingCallbacks>>
      /\ stage[p] # "drain" /\ stage'[p] # "drain"
      /\ \A q \in Procs \ {p} : stage'[q] = stage[q]
      /\ \/ stage[p] = "publish" /\ stage'[p] = "invoke"
         \/ stage[p] = "notify" /\ stage'[p] = "idle"
  BY DEF Publish, Notify, TypeOK, graphVars, loopVars
<1>2. MuFree'
  BY <1>1 DEF MuFree
<1>3. \A q \in Procs : Delivering(q)' = Delivering(q)
  BY <1>1 DEF Delivering
<1>4. Outstanding' = Outstanding
  BY <1>1, <1>3 DEF Outstanding
<1>5. \A q \in Procs : \A t \in batch'[q] : delivered'[t] = IF stage'[q] = "drain" THEN 1 ELSE 0
  BY <1>1 DEF DeliveryInv
<1> QED BY <1>1, <1>2, <1>3, <1>4, <1>5 DEF DeliveryInv

\* The public operations.
LEMMA CallerDelivery ==
  ASSUME GraphInv, DeliveryInv, CallerStep \/ Stop
  PROVE  DeliveryInv'
<1> USE DEF graphVars, deliveryVars, loopVars
<1>0. /\ TypeOK /\ batch \in [Procs -> SUBSET Task] /\ Callers \subseteq Procs
      /\ ~MuFree => stage[Loop] = "idle"
  BY DEF GraphInv, TypeInv, TypeOK, Procs, DeliveryInv
<1>1. CASE Stop \/ CancelRunning \/ \E n \in 1 .. MaxLimit : SetMaxParallel(n)
  <2>1. /\ UNCHANGED <<status, stage, batch, pendingCallbacks, delivered>> /\ MuFree' = MuFree
    BY <1>1 DEF Stop, CancelRunning, SetMaxParallel, MuFree
  <2> QED BY <1>0, <2>1, KeepDelivery
<1>2. CASE Start
  <2>1. UNCHANGED <<status, stage, batch, pendingCallbacks, delivered>> /\ MuFree /\ MuFree'
    BY <1>2 DEF Start, MuFree
  <2> QED BY <1>0, <2>1, KeepDelivery
<1>3. ASSUME NEW p \in Callers, NEW t \in Task, CancelRequest(p, t)
      PROVE  DeliveryInv'
  <2>1. UNCHANGED <<status, stage, batch, pendingCallbacks, delivered>> /\ MuFree' = MuFree
    BY <1>3 DEF CancelRequest, MuFree
  <2> QED BY <1>0, <2>1, KeepDelivery
<1>4. ASSUME NEW p \in Callers, NEW t \in Task, NEW D \in DepChoices[t], NEW pr \in Priorities,
             AddTask(p, t, D, pr)
      PROVE  DeliveryInv'
  <2>1. /\ MuFree /\ MuFree' /\ stage[p] = "idle" /\ status[t] = "absent" /\ UNCHANGED delivered
        /\ \A u \in Task \ {t} : status'[u] = status[u]
    BY <1>4 DEF AddTask, Added, MuFree, IdleCaller, GraphInv, TypeInv, TypeOK
  <2>2. CASE status'[t] = "failed" /\ Register(p, {t})
    <3>1. {t} \in SUBSET Task /\ p \in Procs
      BY <1>0
    <3>2. /\ \A u \in {t} : status[u] \notin Terminal
          /\ \A u \in Task : status'[u] \in Terminal <=> status[u] \in Terminal \/ u \in {t}
      BY <2>1, <2>2 DEF Terminal
    <3> QED BY <1>0, <2>1, <2>2, <3>1, <3>2, RegisterNew
  <2>3. CASE status'[t] \in {"ready", "blocked"} /\ UNCHANGED <<stage, batch, pendingCallbacks>>
    <3>1. \A u \in Task : status'[u] \in Terminal <=> status[u] \in Terminal
      BY <2>1, <2>3 DEF Terminal
    <3> QED BY <1>0, <2>1, <2>3, <3>1, KeepDelivery
  <2>4. \/ status'[t] = "failed" /\ Register(p, {t})
        \/ status'[t] \in {"ready", "blocked"} /\ UNCHANGED <<stage, batch, pendingCallbacks>>
    BY <1>0, <1>4 DEF AddTask, TypeOK
  <2> QED BY <2>2, <2>3, <2>4
<1>5. ASSUME NEW p \in Callers, NEW t \in Task, NEW res \in Outcomes \union {"cancelled"},
             Settle(t, res), Register(p, Settled(t, res)), IdleCaller(p), MuFree,
             status[t] \notin Terminal, UNCHANGED <<delivered, loopPc>>
      PROVE  DeliveryInv'
  <2>1. MuFree' /\ stage[p] = "idle" /\ p \in Procs
    BY <1>0, <1>5 DEF MuFree, IdleCaller
  <2> DEFINE S == Settled(t, res)
  <2>2. /\ S \in SUBSET Task
        /\ \A u \in S : status[u] \notin Terminal
        /\ \A u \in Task : status'[u] \in Terminal <=> status[u] \in Terminal \/ u \in S
    BY <1>0, <1>5, SettledNew
  <2>3. Register(p, S)
    BY <1>5
  <2> HIDE DEF S
  <2> QED BY <1>0, <1>5, <2>1, <2>2, <2>3, RegisterNew
<1>6. ASSUME NEW p \in Callers, NEW t \in Task, CancelPublished(p, t)
      PROVE  DeliveryInv'
  <2>1. agent[t] \in Outcomes /\ status[t] \notin Terminal
    BY <1>6 DEF CancelPublished, Published, GraphInv, RunningIsRunning, Terminal
  <2> QED BY <1>5, <1>6, <2>1 DEF CancelPublished
<1>7. ASSUME NEW p \in Callers, NEW t \in Task, CancelUnstarted(p, t)
      PROVE  DeliveryInv'
  BY <1>5, <1>7 DEF CancelUnstarted
<1> QED BY <1>1, <1>2, <1>3, <1>4, <1>6, <1>7 DEF CallerStep

\* processLoop.
LEMMA LoopDelivery ==
  ASSUME GraphInv, DeliveryInv, LoopStep \/ LoopEvent
  PROVE  DeliveryInv'
<1> USE DEF graphVars, deliveryVars, loopVars
<1>0. /\ TypeOK /\ batch \in [Procs -> SUBSET Task] /\ Loop \in Procs
      /\ ~MuFree => stage[Loop] = "idle"
  BY DEF GraphInv, TypeInv, TypeOK, Procs, DeliveryInv
<1>1. CASE LoopStopped \/ LoopReady \/ LoopTick \/ CheckCompletedAgents \/ LoopCheck \/ LoopNotify
  <2>1. /\ UNCHANGED <<status, stage, batch, pendingCallbacks, delivered>>
        /\ MuFree /\ stage[Loop] = "idle"
    BY <1>1 DEF LoopStopped, LoopReady, LoopTick, CheckCompletedAgents, LoopCheck, LoopNotify,
                LoopAt, MuFree
  <2> QED BY <1>0, <2>1, KeepDelivery
<1>1a. CASE Spawning
  <2>1. /\ UNCHANGED <<status, stage, batch, pendingCallbacks, delivered, loopPc>>
        /\ ~MuFree
    BY <1>1a DEF Spawning, SpawnAsync, Popped, Starting, MuFree
  <2> QED BY <1>0, <2>1, KeepDelivery DEF MuFree
<1>2. CASE StartReadyDone \/ CheckCompletedDone
  <2>1. /\ UNCHANGED <<status, delivered>> /\ Register(Loop, batch[Loop]) /\ ~MuFree /\ MuFree'
    BY <1>2 DEF StartReadyDone, CheckCompletedDone, Starting, MuFree
  <2> QED BY <1>0, <2>1, RegisterCollected
<1>3. ASSUME NEW t \in Task, StartTask(t)
      PROVE  DeliveryInv'
  <2>1. /\ UNCHANGED <<stage, batch, pendingCallbacks, delivered>> /\ MuFree' = MuFree
        /\ status[t] = "ready" /\ status'[t] = "running"
        /\ \A u \in Task \ {t} : status'[u] = status[u]
    BY <1>0, <1>3 DEF StartTask, MuFree, TypeOK
  <2>2. \A u \in Task : status'[u] \in Terminal <=> status[u] \in Terminal
    BY <2>1 DEF Terminal
  <2> QED BY <1>0, <2>1, <2>2, KeepDelivery
<1>4. ASSUME NEW t \in Task, NEW res \in Outcomes, Settle(t, res), status[t] \notin Terminal
      PROVE  /\ Settled(t, res) \in SUBSET Task
             /\ \A u \in Settled(t, res) : status[u] \notin Terminal
             /\ \A u \in Task : status'[u] \in Terminal <=> status[u] \in Terminal \/ u \in Settled(t, res)
  BY <1>0, <1>4, SettledNew
<1>5. ASSUME NEW t \in Task, NEW res \in Outcomes, Settle(t, res), status[t] \notin Terminal,
             batch' = [batch EXCEPT ![Loop] = batch[Loop] \union Settled(t, res)],
             ~MuFree, UNCHANGED <<stage, pendingCallbacks, delivered, loopPc>>
      PROVE  DeliveryInv'
  <2>1. ~MuFree'
    BY <1>5 DEF MuFree
  <2> DEFINE S == Settled(t, res)
  <2>2. /\ S \in SUBSET Task
        /\ \A u \in S : status[u] \notin Terminal
        /\ \A u \in Task : status'[u] \in Terminal <=> status[u] \in Terminal \/ u \in S
    BY <1>4, <1>5
  <2>3. batch' = [batch EXCEPT ![Loop] = batch[Loop] \union S]
    BY <1>5
  <2> HIDE DEF S
  <2> QED BY <1>0, <1>5, <2>1, <2>2, <2>3, CollectNew
<1>6. ASSUME NEW t \in Task, StartTaskFails(t)
      PROVE  DeliveryInv'
  <2>1. ~MuFree /\ status[t] \notin Terminal /\ "failure" \in Outcomes
    BY <1>6 DEF StartTaskFails, Popped, Starting, MuFree, Terminal, Outcomes
  <2> QED BY <1>5, <1>6, <2>1 DEF StartTaskFails
<1>7. ASSUME NEW t \in Task, CommitReaped(t)
      PROVE  DeliveryInv'
  <2>1. ~MuFree /\ status[t] \notin Terminal /\ agent[t] \in Outcomes
    BY <1>7 DEF CommitReaped, MuFree, Terminal, GraphInv, TypeInv, RunningIsRunning, ReapingPublished,
                Published
  <2> QED BY <1>5, <1>7, <2>1 DEF CommitReaped
<1>8. ASSUME NEW t \in Task, NEW res \in Outcomes, LoopDone(t, res)
      PROVE  DeliveryInv'
  <2>1. MuFree /\ MuFree' /\ stage[Loop] = "idle" /\ UNCHANGED delivered
    BY <1>8 DEF LoopDone, LoopAt, MuFree
  <2>2. CASE t \in running
    <3> DEFINE S == Settled(t, res)
    <3>1. Settle(t, res) /\ Register(Loop, S) /\ status[t] \notin Terminal
      BY <1>8, <2>2 DEF LoopDone, GraphInv, RunningIsRunning, Terminal
    <3>2. /\ S \in SUBSET Task
          /\ \A u \in S : status[u] \notin Terminal
          /\ \A u \in Task : status'[u] \in Terminal <=> status[u] \in Terminal \/ u \in S
      BY <1>4, <3>1
    <3> HIDE DEF S
    <3> QED BY <1>0, <2>1, <3>1, <3>2, RegisterNew
  <2>3. CASE t \notin running
    <3>1. UNCHANGED <<status, stage, batch, pendingCallbacks>>
      BY <1>8, <2>3 DEF LoopDone
    <3> QED BY <1>0, <2>1, <3>1, KeepDelivery
  <2> QED BY <2>2, <2>3
<1> QED BY <1>1, <1>1a, <1>2, <1>3, <1>6, <1>7, <1>8 DEF LoopStep, LoopEvent

\* The delivery invariant is inductive.
LEMMA NextDelivery == GraphInv /\ DeliveryInv /\ [Next]_vars => DeliveryInv'
<1> SUFFICES ASSUME GraphInv, DeliveryInv, [Next]_vars
             PROVE  DeliveryInv'
  OBVIOUS
<1> USE DEF graphVars, deliveryVars, loopVars
<1>0. /\ TypeOK /\ batch \in [Procs -> SUBSET Task]
      /\ ~MuFree => stage[Loop] = "idle"
  BY DEF GraphInv, TypeInv, TypeOK, DeliveryInv
<1>1. ASSUME UNCHANGED <<status, stage, batch, pendingCallbacks, delivered, loopPc>>
      PROVE  DeliveryInv'
  <2>1. MuFree' = MuFree
    BY <1>1 DEF MuFree
  <2> QED BY <1>0, <1>1, <2>1, KeepDelivery
<1>2. CASE UNCHANGED vars
  BY <1>1, <1>2 DEF vars
<1>3. ASSUME NEW t \in Task, RunnerStep(t)
      PROVE  DeliveryInv'
  BY <1>1, <1>3 DEF RunnerStep, Finish, AgentFinish, Evict, Monitor, MonitorWait, MonitorWake,
                    MonitorSend, MonitorStep
<1>4. ASSUME NEW p \in Procs, DeliveryStep(p)
      PROVE  DeliveryInv'
  BY <1>0, <1>4, PublishDelivery, InvokeDelivery, DrainDelivery DEF DeliveryStep
<1> QED BY <1>2, <1>3, <1>4, CallerDelivery, LoopDelivery DEF Next, Work

\* When c.mu is free and no callback is pending, every completion has been told.
LEMMA NothingPending ==
  ASSUME DeliveryInv, MuFree, pendingCallbacks = 0
  PROVE  \A t \in Task : status[t] \in Terminal => delivered[t] = 1
<1>1. Outstanding = {}
  BY OutstandingFinite, FS_EmptySet DEF DeliveryInv
<1>2. \A p \in Procs : \A t \in Task : t \notin batch[p]
  BY <1>1 DEF DeliveryInv, Outstanding
<1> QED BY <1>2 DEF DeliveryInv

\* Nothing happens any more to a sealed graph that is all terminal.
LEMMA EndedGraphStays ==
  ASSUME GraphInv, sealed, AllTasksTerminal, [Next]_vars
  PROVE  sealed' /\ AllTasksTerminal' /\ UNCHANGED status
<1> USE DEF graphVars, doneVars
<1>1. /\ running = {} /\ reaping = {}
      /\ \A t \in Task : status[t] \in {"absent", "completed", "failed"}
  BY DEF AllTasksTerminal, GraphInv, TypeInv, TypeOK, Added, Terminal
<1>2. UNCHANGED <<status, running, sealed>>
  <2>1. ASSUME CallerStep \/ Stop
        PROVE  UNCHANGED <<status, running, sealed>>
    <3>1. CASE Stop \/ Start \/ CancelRunning \/ \E n \in 1 .. MaxLimit : SetMaxParallel(n)
      BY <3>1 DEF Stop, Start, SetMaxParallel, CancelRunning
    <3>2. ASSUME NEW p \in Callers, NEW t \in Task, CancelRequest(p, t)
          PROVE  UNCHANGED <<status, running, sealed>>
      BY <3>2 DEF CancelRequest
    <3>3. \A p \in Callers, t \in Task : ~CancelPublished(p, t) /\ ~CancelUnstarted(p, t)
      BY <1>1 DEF CancelPublished, CancelUnstarted, Added, Terminal
    <3>4. \A p \in Callers, t \in Task : \A D \in DepChoices[t], pr \in Priorities : ~AddTask(p, t, D, pr)
      BY DEF AddTask
    <3> QED BY <2>1, <3>1, <3>2, <3>3, <3>4 DEF CallerStep
  <2>2. ASSUME NEW p \in Procs, DeliveryStep(p)
        PROVE  UNCHANGED <<status, running, sealed>>
    BY <2>2 DEF DeliveryStep, Publish, Invoke, Drain, Notify
  <2>3. ASSUME LoopStep \/ LoopEvent
        PROVE  UNCHANGED <<status, running, sealed>>
    BY <1>1, <2>3 DEF LoopStep, LoopEvent, StartReadyDone, CheckCompletedAgents, Spawning, SpawnAsync,
                      CheckCompletedDone,
                      LoopCheck, LoopNotify, StartTask, StartTaskFails, CommitReaped, LoopStopped,
                      LoopReady, LoopTick, LoopDone
  <2>4. ASSUME NEW t \in Task, RunnerStep(t)
        PROVE  UNCHANGED <<status, running, sealed>>
    BY <2>4 DEF RunnerStep, Finish, AgentFinish, Evict, Monitor, MonitorWait, MonitorWake, MonitorSend,
                MonitorStep
  <2> QED BY <2>1, <2>2, <2>3, <2>4 DEF Next, Work, vars
<1> QED BY <1>2 DEF AllTasksTerminal, Added

\* What a step may do to the completion events: they are not taken back, and they
\* come from publishCompletionIfReady and notifyAllComplete under their conditions.
LEMMA EventSteps ==
  ASSUME GraphInv, [Next]_vars
  PROVE  /\ sealed => sealed'
         /\ loopPc' # "off" => loopPc # "off" \/ sealed'
         /\ completionClosed => completionClosed'
         /\ completionClosed' => completionClosed \/ (sealed /\ AllTasksTerminal)
         /\ allCompleteFired' => allCompleteFired \/ (completionClosed' /\ sealed /\ IsAllComplete /\ MuFree)
         /\ \A t \in Task : delivered'[t] >= delivered[t]
<1> USE DEF graphVars, doneVars, loopVars
<1> DEFINE Events == UNCHANGED <<completionClosed, allCompleteFired>>
           Told == UNCHANGED delivered
           Loops == (sealed => sealed') /\ (loopPc' # "off" => loopPc # "off" \/ sealed')
<1>0. /\ sealed \in BOOLEAN /\ completionClosed \in BOOLEAN /\ allCompleteFired \in BOOLEAN
      /\ delivered \in [Task -> Nat]
  BY DEF GraphInv, TypeInv, TypeOK
<1>1. ASSUME Events, Told, Loops
      PROVE  /\ sealed => sealed'
             /\ loopPc' # "off" => loopPc # "off" \/ sealed'
             /\ completionClosed => completionClosed'
             /\ completionClosed' => completionClosed \/ (sealed /\ AllTasksTerminal)
             /\ allCompleteFired' => allCompleteFired \/ (completionClosed' /\ sealed /\ IsAllComplete /\ MuFree)
             /\ \A t \in Task : delivered'[t] >= delivered[t]
  BY <1>0, <1>1
<1>2. ASSUME CallerStep \/ Stop
      PROVE  Events /\ Told /\ Loops
  <2>1. CASE Stop \/ Start \/ CancelRunning \/ \E n \in 1 .. MaxLimit : SetMaxParallel(n)
    BY <2>1 DEF Stop, Start, SetMaxParallel, CancelRunning
  <2>2. ASSUME NEW p \in Callers, NEW t \in Task,
               CancelRequest(p, t) \/ CancelPublished(p, t) \/ CancelUnstarted(p, t)
        PROVE  Events /\ Told /\ Loops
    BY <2>2 DEF CancelRequest, CancelPublished, CancelUnstarted
  <2>3. ASSUME NEW p \in Callers, NEW t \in Task, NEW D \in DepChoices[t], NEW pr \in Priorities,
               AddTask(p, t, D, pr)
        PROVE  Events /\ Told /\ Loops
    BY <2>3 DEF AddTask
  <2> QED BY <1>2, <2>1, <2>2, <2>3 DEF CallerStep
<1>3. CASE StartReadyDone \/ Spawning \/ CheckCompletedAgents \/ CheckCompletedDone \/ LoopCheck \/ LoopEvent
           \/ \E t \in Task : StartTask(t) \/ StartTaskFails(t) \/ CommitReaped(t)
  <2>1. Events /\ Told /\ UNCHANGED sealed
    BY <1>3 DEF LoopEvent, StartReadyDone, CheckCompletedAgents, Spawning, SpawnAsync, CheckCompletedDone,
                LoopCheck, StartTask, StartTaskFails, CommitReaped, LoopStopped, LoopReady, LoopTick,
                LoopDone
  <2>2. loopPc # "off"
    BY <1>3 DEF LoopEvent, StartReadyDone, CheckCompletedAgents, Spawning, SpawnAsync, CheckCompletedDone,
                LoopCheck, StartTask, StartTaskFails, CommitReaped, LoopStopped, LoopReady, LoopTick,
                LoopDone, Popped, Starting, LoopAt
  <2> QED BY <1>1, <2>1, <2>2
<1>4. ASSUME NEW t \in Task, RunnerStep(t)
      PROVE  Events /\ Told /\ Loops
  BY <1>4 DEF RunnerStep, Finish, AgentFinish, Evict, Monitor, MonitorWait, MonitorWake, MonitorSend,
              MonitorStep
<1>5. ASSUME NEW p \in Procs, Drain(p)
      PROVE  Events /\ Told /\ Loops
  BY <1>5 DEF Drain
<1>6. ASSUME NEW p \in Procs, Invoke(p)
      PROVE  /\ Events /\ Loops
             /\ \A t \in Task : delivered'[t] >= delivered[t]
  BY <1>0, <1>6 DEF Invoke
<1>7. ASSUME NEW p \in Procs, Publish(p)
      PROVE  /\ Told /\ Loops /\ UNCHANGED allCompleteFired
             /\ completionClosed => completionClosed'
             /\ completionClosed' => completionClosed \/ (sealed /\ AllTasksTerminal)
  BY <1>0, <1>7 DEF Publish, CompletionReady
<1>8. ASSUME LoopNotify \/ \E p \in Procs : Notify(p)
      PROVE  /\ Told /\ Loops /\ MuFree
             /\ completionClosed => completionClosed'
             /\ completionClosed' => completionClosed \/ (sealed /\ AllTasksTerminal)
             /\ allCompleteFired' => allCompleteFired \/ (completionClosed' /\ sealed /\ IsAllComplete)
  <2>1. Told /\ Loops /\ MuFree
    BY <1>8 DEF LoopNotify, Notify, LoopAt, MuFree
  <2>2. /\ completionClosed' = (completionClosed \/ (sealed /\ IsAllComplete))
        /\ allCompleteFired' = (allCompleteFired \/ (sealed /\ IsAllComplete))
    BY <1>8 DEF LoopNotify, Notify, NotifyAllComplete
  <2> QED BY <2>1, <2>2 DEF IsAllComplete
<1>9. CASE UNCHANGED vars
  BY <1>1, <1>9 DEF vars
<1>10. \A t \in Task : delivered[t] >= delivered[t]
  BY <1>0
<1> QED BY <1>0, <1>1, <1>2, <1>3, <1>4, <1>5, <1>6, <1>7, <1>8, <1>9, <1>10
        DEF Next, Work, LoopStep, DeliveryStep

\* A completion is told at most once.
LEMMA ToldAtMostOnce ==
  ASSUME TypeOK, DeliveryInv
  PROVE  \A t \in Task : delivered[t] \in {0, 1}
BY DEF TypeOK, DeliveryInv

\* The completion events keep their promises.
LEMMA NextCompletion ==
  ASSUME GraphInv, GraphInv', DeliveryInv, DeliveryInv', CompletionInv, [Next]_vars
  PROVE  CompletionInv'
<1>1. loopPc' # "off" => sealed'
  BY EventSteps DEF CompletionInv
<1>2. completionClosed' => sealed /\ AllTasksTerminal
  BY EventSteps DEF CompletionInv, ReleasedIsTerminal
<1>3. completionClosed' => sealed' /\ AllTasksTerminal' /\ UNCHANGED status
  BY <1>2, EndedGraphStays
<1>4. ReleasedIsTerminal'
  BY <1>3 DEF ReleasedIsTerminal
<1>5. allCompleteFired' => /\ completionClosed'
                           /\ \A t \in Added : delivered[t] = 1
  <2>1. CASE allCompleteFired
    BY <2>1, EventSteps DEF CompletionInv
  <2>2. CASE allCompleteFired' /\ ~allCompleteFired
    <3>1. completionClosed' /\ IsAllComplete /\ MuFree
      BY <2>2, EventSteps
    <3>2. \A t \in Task : status[t] \in Terminal => delivered[t] = 1
      BY <3>1, NothingPending DEF IsAllComplete
    <3> QED BY <3>1, <3>2 DEF IsAllComplete, AllTasksTerminal, Added
  <2> QED BY <2>1, <2>2
<1>6. \A t \in Task : delivered[t] = 1 => delivered'[t] = 1
  <2>1. \A t \in Task : delivered'[t] \in {0, 1}
    BY ToldAtMostOnce DEF GraphInv, TypeInv, DeliveryInv, TypeOK
  <2> QED BY <2>1, EventSteps
<1> QED BY <1>1, <1>3, <1>4, <1>5, <1>6 DEF CompletionInv, Added

\* The three invariants together.
CompleteInv == GraphInv /\ DeliveryInv /\ CompletionInv

\* They hold in every state.
LEMMA CompleteInvariant == Spec => []CompleteInv
<1>1. Init => DeliveryInv /\ CompletionInv
  <2> SUFFICES ASSUME Init PROVE DeliveryInv /\ CompletionInv
    OBVIOUS
  <2>1. Outstanding = {}
    BY DEF Init, Outstanding
  <2> QED BY <2>1, FS_EmptySet DEF Init, DeliveryInv, CompletionInv, ReleasedIsTerminal, MuFree,
                                  Delivering, Terminal, Procs
<1>2. CompleteInv /\ [Next]_vars => CompleteInv'
  BY NextGraph, NextDelivery, NextCompletion DEF CompleteInv
<1> QED BY <1>1, <1>2, GraphInvariant, InitGraphInv, PTL DEF Spec, CompleteInv

\* Several goroutines commit results, deliver observers and race to announce the end
\* of the run (deliverTaskCompletions, notifyAllComplete, processLoop).  Whatever their
\* order, Wait is released only by a sealed, terminal graph, no observer hears of a
\* task twice, and onAllComplete comes after the observer of every task.
THEOREM CompletionComesLast == Spec => []CompletionIsLast
<1>1. CompleteInv => CompletionIsLast
  <2> SUFFICES ASSUME CompleteInv PROVE CompletionIsLast
    OBVIOUS
  <2>1. \A t \in Task : delivered[t] <= 1
    BY ToldAtMostOnce DEF CompleteInv, GraphInv, TypeInv
  <2>2. ReleasedIsTerminal
    BY DEF CompleteInv, CompletionInv
  <2>3. allCompleteFired => \A t \in Added : status[t] \in Terminal /\ delivered[t] = 1
    BY DEF CompleteInv, CompletionInv, ReleasedIsTerminal, AllTasksTerminal
  <2> QED BY <2>1, <2>2, <2>3 DEF CompletionIsLast, AllCompleteIsLast
<1> QED BY <1>1, CompleteInvariant, PTL

-----------------------------------------------------------------------------
(* The coordinator implements TaskGraph                                    *)

\* The mapped variables.
Phase == [t \in Task |-> IF status[t] \in {"blocked", "ready"} THEN "waiting" ELSE status[t]]
Told == {t \in Task : delivered[t] > 0}

\* A task that fails with t needs t or another task that fails with it: the worklist of
\* resolveDependentsLocked reaches nothing else.
LEMMA CascadeDepends ==
  ASSUME NEW t \in Task, NEW st, NEW u \in Cascade(t, st)
  PROVE  deps[u] \intersect (Cascade(t, st) \union {t}) # {}
<1> DEFINE C == Cascade(t, st)
           S == C \ {u}
<1> SUFFICES ASSUME deps[u] \intersect (C \union {t}) = {}
             PROVE  FALSE
  OBVIOUS
<1>1. C \in SUBSET Task
  BY DEF Cascade
<1>2. \A v \in Task : st[v] = "blocked" /\ v \notin C =>
        /\ deps[v] \intersect C = {}
        /\ t \in deps[v] => ~FailedDependency(deps[v], st)
  BY CascadeComplete
<1>3. CascadeClosed(t, st, S)
  <2> HIDE DEF C
  <2> SUFFICES ASSUME NEW v \in Task, st[v] = "blocked", deps[v] \intersect (S \union {t}) # {},
                      FailedDependency(deps[v], st) \/ deps[v] \intersect S # {}
               PROVE  v \in S
    BY DEF CascadeClosed
  <2>1. v # u
    OBVIOUS
  <2>2. v \in C
    BY <1>2
  <2> QED BY <2>1, <2>2
<1>4. S \in SUBSET Task /\ u \notin S
  BY <1>1
<1> HIDE DEF S
<1> QED BY <1>3, <1>4 DEF Cascade

\* A success fails nobody: no blocked task has a failed dependency.
LEMMA SuccessAlone ==
  ASSUME TypeOK, NoStrandedTask, NEW t \in Task, status[t] # "blocked"
  PROVE  Cascade(t, SettledStatus(t, "success")) = {}
<1> DEFINE st == SettledStatus(t, "success")
<1>1. /\ st[t] = "completed"
      /\ \A u \in Task \ {t} : st[u] = status[u]
  BY DEF SettledStatus, TypeOK
<1> HIDE DEF st
<1>2. \A u \in Task : st[u] = "blocked" => ~FailedDependency(deps[u], st)
  BY <1>1 DEF NoStrandedTask, FailedDependency
<1>3. CascadeClosed(t, st, {})
  BY <1>2 DEF CascadeClosed
<1>4. Cascade(t, st) = {}
  BY <1>3 DEF Cascade
<1> QED BY <1>4 DEF st

\* Dependencies that are met, or of which none has failed, hold no failure.
LEMMA NoFailureNeeded ==
  ASSUME NEW st, NEW D, ~FailedDependency(D, st) \/ DependenciesMet(D, st)
  PROVE  D \intersect ({Missing} \union {d \in Task : st[d] = "failed"}) = {}
<1>1. Missing \notin Task
  BY CoordinatorAssumption DEF Missing, Task
<1> QED BY <1>1 DEF FailedDependency, DependenciesMet

\* A settled task is a success of its own, or a failure with all its dependents.
LEMMA SettleImplements ==
  ASSUME GraphInv, GraphInv', NEW t \in Task, NEW res \in Outcomes \union {"cancelled"},
         Settle(t, res), status[t] \in {"blocked", "ready", "running"},
         res = "success" => status[t] = "running",
         UNCHANGED <<sealed, delivered, completionClosed, allCompleteFired>>
  PROVE  Graph!GNext
<1> DEFINE st == SettledStatus(t, res)
           skipped == Cascade(t, st)
           ready == Unblocked(t, st) \ skipped
<1>0. TypeOK /\ status \in [Task -> Statuses]
  BY DEF GraphInv, TypeInv, TypeOK
<1>1. /\ deps' = deps
      /\ status' \in [Task -> Statuses]
      /\ status'[t] = (IF res = "success" THEN "completed" ELSE "failed")
      /\ \A u \in Task \ {t} :
           /\ u \in skipped => status[u] = "blocked" /\ status'[u] = "failed"
           /\ u \in ready => status[u] = "blocked" /\ status'[u] = "ready"
           /\ u \notin skipped /\ u \notin ready => status'[u] = status[u]
  BY <1>0, SettleEffect
<1>2. skipped \in SUBSET (Task \ {t})
  <2>1. skipped \in SUBSET Task /\ \A u \in skipped : st[u] = "blocked"
    BY DEF Cascade
  <2>2. st[t] # "blocked"
    BY <1>0 DEF SettledStatus
  <2> QED BY <2>1, <2>2
<1>3. \A u \in skipped : deps[u] \intersect (skipped \union {t}) # {}
  BY CascadeDepends
<1>4. UNCHANGED Told
  BY DEF Told
<1>5. CASE res = "success"
  <2>1. skipped = {}
    BY <1>0, <1>5, SuccessAlone DEF GraphInv
  <2> HIDE DEF skipped, ready
  <2>2. Phase' = [Phase EXCEPT ![t] = "completed"]
    BY <1>1, <1>5, <2>1 DEF Phase
  <2>3. Phase[t] = "running"
    BY <1>5 DEF Phase
  <2>4. Graph!GSucceed(t)
    BY <1>1, <1>4, <2>2, <2>3 DEF Graph!GSucceed, Phase, Told
  <2> QED BY <2>4 DEF Graph!GNext
<1>6. CASE res # "success"
  <2> HIDE DEF skipped, ready
  <2>1. Phase' = [u \in Task |-> IF u = t \/ u \in skipped THEN "failed" ELSE Phase[u]]
    BY <1>1, <1>2, <1>6 DEF Phase
  <2>2. Phase[t] \in {"waiting", "running"} /\ \A u \in skipped : Phase[u] = "waiting"
    BY <1>1, <1>2 DEF Phase
  <2>3. \A u \in Task : Phase'[u] = "waiting" =>
            deps[u] \intersect ({Missing} \union {d \in Task : Phase'[d] = "failed"}) = {}
    <3> SUFFICES ASSUME NEW u \in Task, Phase'[u] = "waiting"
                 PROVE  deps[u] \intersect ({Missing} \union {d \in Task : Phase'[d] = "failed"}) = {}
      OBVIOUS
    <3>1. status'[u] \in {"blocked", "ready"}
      BY <1>1 DEF Phase, Statuses, Terminal
    <3>2. ~FailedDependency(deps'[u], status') \/ DependenciesMet(deps'[u], status')
      BY <3>1 DEF GraphInv, NoStrandedTask, ReadyHasDeps
    <3>3. \A d \in Task : Phase'[d] = "failed" <=> status'[d] = "failed"
      BY DEF Phase
    <3> QED BY <1>1, <3>2, <3>3, NoFailureNeeded
  <2>0. PICK S \in SUBSET (Task \ {t}) : S = skipped
    BY <1>2
  <2>4. Graph!GFail(t, S)
    <3>1. Phase = [u \in Task |-> IF status[u] \in {"blocked", "ready"} THEN "waiting" ELSE status[u]]
      BY DEF Phase
    <3>2. Told = {u \in Task : delivered[u] > 0}
      BY DEF Told
    <3>3. Phase' = [u \in Task |-> IF status'[u] \in {"blocked", "ready"} THEN "waiting" ELSE status'[u]]
      BY DEF Phase
    <3>4. {u \in Task : delivered'[u] > 0} = {u \in Task : delivered[u] > 0}
      BY DEF Told
    <3> HIDE DEF Phase, Told
    <3> QED BY <1>1, <1>3, <1>4, <2>0, <2>1, <2>2, <2>3, <3>1, <3>3, <3>4 DEF Graph!GFail, Graph!Failed
  <2> QED BY <2>4 DEF Graph!GNext
<1> QED BY <1>5, <1>6

\* AddTask adds a waiting task, or one that fails at once.
LEMMA AddImplements ==
  ASSUME GraphInv, NEW p \in Callers, NEW t \in Task, NEW D \in DepChoices[t], NEW pr \in Priorities,
         AddTask(p, t, D, pr)
  PROVE  Graph!GNext
<1>0. status \in [Task -> Statuses] /\ deps \in [Task -> SUBSET (0 .. NumTasks)]
  BY DEF GraphInv, TypeInv, TypeOK
<1>1. /\ ~sealed /\ status[t] = "absent"
      /\ D \subseteq Added \union {Missing}
      /\ deps' = [deps EXCEPT ![t] = D]
      /\ UNCHANGED <<sealed, delivered, completionClosed, allCompleteFired>>
      /\ \A u \in Task \ {t} : status'[u] = status[u]
      /\ status'[t] \in (IF FailedDependency(D, status) THEN {"failed"} ELSE {"ready", "blocked"})
  BY <1>0 DEF AddTask, Added, doneVars
<1>2. Phase[t] = "absent" /\ \A d \in Task : /\ Phase[d] = "failed" <=> status[d] = "failed"
                                             /\ Phase[d] # "absent" <=> status[d] # "absent"
  BY <1>0, <1>1 DEF Phase, Statuses, Terminal
<1>3. D \subseteq {u \in Task : Phase[u] # "absent"} \union {Missing}
  BY <1>1, <1>2 DEF Added
<1>4. FailedDependency(D, status) <=>
        D \intersect ({Missing} \union {d \in Task : Phase[d] = "failed"}) # {}
  BY <1>2 DEF FailedDependency
<1>5. Phase' = [Phase EXCEPT ![t] =
                  IF D \intersect ({Missing} \union {d \in Task : Phase[d] = "failed"}) = {}
                  THEN "waiting" ELSE "failed"]
  <2>1. \A u \in Task \ {t} : Phase'[u] = Phase[u]
    BY <1>1 DEF Phase
  <2>2. Phase'[t] = IF FailedDependency(D, status) THEN "failed" ELSE "waiting"
    BY <1>1 DEF Phase
  <2>3. Phase \in [Task -> {Phase[u] : u \in Task}] /\ Phase' \in [Task -> {Phase'[u] : u \in Task}]
    BY DEF Phase
  <2> QED BY <1>4, <2>1, <2>2, <2>3
<1>6. {u \in Task : delivered'[u] > 0} = {u \in Task : delivered[u] > 0}
  BY <1>1
<1>7. Graph!GAdd(t, D)
  <2>1. Phase = [u \in Task |-> IF status[u] \in {"blocked", "ready"} THEN "waiting" ELSE status[u]]
    BY DEF Phase
  <2>2. Phase' = [u \in Task |-> IF status'[u] \in {"blocked", "ready"} THEN "waiting" ELSE status'[u]]
    BY DEF Phase
  <2> QED BY <1>1, <1>2, <1>3, <1>5, <1>6, <2>1, <2>2 DEF Graph!GAdd, Graph!Failed, Graph!Present
<1>8. D \in SUBSET (Task \union {Missing})
  BY <1>1 DEF Added
<1> QED BY <1>1, <1>7, <1>8 DEF Graph!GNext

\* startTask launches a task whose dependencies have completed, in a sealed graph.
LEMMA StartImplements ==
  ASSUME GraphInv, CompletionInv, NEW t \in Task, StartTask(t)
  PROVE  Graph!GNext
<1>0. status \in [Task -> Statuses]
  BY DEF GraphInv, TypeInv, TypeOK
<1>1. /\ status[t] = "ready" /\ status' = [status EXCEPT ![t] = "running"]
      /\ UNCHANGED <<deps, sealed, delivered, completionClosed, allCompleteFired>>
      /\ loopPc # "off"
  BY DEF StartTask, doneVars, Popped, Starting
<1>2. sealed
  BY <1>1 DEF CompletionInv
<1>3. Phase[t] = "waiting" /\ Phase' = [Phase EXCEPT ![t] = "running"]
  BY <1>0, <1>1 DEF Phase
<1>4. \A d \in deps[t] : d \in Task /\ Phase[d] = "completed"
  BY <1>1 DEF GraphInv, ReadyHasDeps, DependenciesMet, Phase
<1>5. {u \in Task : delivered'[u] > 0} = {u \in Task : delivered[u] > 0}
  BY <1>1
<1>6. Graph!GLaunch(t)
  <2>1. Phase = [u \in Task |-> IF status[u] \in {"blocked", "ready"} THEN "waiting" ELSE status[u]]
    BY DEF Phase
  <2>2. Phase' = [u \in Task |-> IF status'[u] \in {"blocked", "ready"} THEN "waiting" ELSE status'[u]]
    BY DEF Phase
  <2> QED BY <1>1, <1>2, <1>3, <1>4, <1>5, <2>1, <2>2 DEF Graph!GLaunch, Graph!Satisfied
<1> QED BY <1>6 DEF Graph!GNext

\* The observers of a batch are told of tasks that have ended and were not told of.
LEMMA InvokeImplements ==
  ASSUME GraphInv, DeliveryInv, NEW p \in Procs, Invoke(p)
  PROVE  Graph!GNext \/ UNCHANGED Graph!gvars
<1>1. /\ stage[p] = "invoke" /\ batch[p] \in SUBSET Task
      /\ UNCHANGED <<status, deps, sealed, completionClosed, allCompleteFired>>
      /\ delivered' = [t \in Task |-> IF t \in batch[p] THEN delivered[t] + 1 ELSE delivered[t]]
      /\ delivered \in [Task -> Nat]
  BY DEF Invoke, graphVars, doneVars, GraphInv, TypeInv, TypeOK
<1>2. \A t \in batch[p] : status[t] \in Terminal /\ delivered[t] = 0
  BY <1>1 DEF DeliveryInv
<1>3. PICK S \in SUBSET Task : S = batch[p]
  BY <1>1
<1>4. {u \in Task : delivered'[u] > 0} = {u \in Task : delivered[u] > 0} \union S
  BY <1>1, <1>2, <1>3
<1>5. [u \in Task |-> IF status'[u] \in {"blocked", "ready"} THEN "waiting" ELSE status'[u]]
        = [u \in Task |-> IF status[u] \in {"blocked", "ready"} THEN "waiting" ELSE status[u]]
  BY <1>1
<1>6. CASE S = {}
  BY <1>1, <1>4, <1>5, <1>6 DEF Graph!gvars
<1>7. CASE S # {}
  <2>1. S \subseteq {u \in Task : (IF status[u] \in {"blocked", "ready"} THEN "waiting" ELSE status[u])
                                     \in {"completed", "failed"}}
    BY <1>2, <1>3 DEF Terminal
  <2>2. S \intersect {u \in Task : delivered[u] > 0} = {}
    BY <1>2, <1>3
  <2>3. Graph!GTell(S)
    BY <1>1, <1>4, <1>5, <1>7, <2>1, <2>2 DEF Graph!GTell, Graph!Ended
  <2> QED BY <2>3 DEF Graph!GNext
<1> QED BY <1>6, <1>7

\* The completion events: Wait is released, or the run is announced as finished.
LEMMA EventImplements ==
  ASSUME GraphInv, DeliveryInv, CompletionInv,
         UNCHANGED <<status, deps, sealed, delivered>>,
         \/ /\ completionClosed' = (completionClosed \/ CompletionReady)
            /\ UNCHANGED allCompleteFired
         \/ MuFree /\ NotifyAllComplete
  PROVE  Graph!GNext \/ UNCHANGED Graph!gvars
<1> DEFINE ph == [u \in Task |-> IF status[u] \in {"blocked", "ready"} THEN "waiting" ELSE status[u]]
           tl == {u \in Task : delivered[u] > 0}
<1>0. /\ sealed \in BOOLEAN /\ completionClosed \in BOOLEAN /\ allCompleteFired \in BOOLEAN
      /\ status \in [Task -> Statuses] /\ delivered \in [Task -> Nat]
  BY DEF GraphInv, TypeInv, TypeOK
<1>1. ph' = ph /\ tl' = tl
  OBVIOUS
<1>2. AllTasksTerminal =>
        \A t \in {u \in Task : ph[u] # "absent"} : t \in {u \in Task : ph[u] \in {"completed", "failed"}}
  BY DEF AllTasksTerminal, Added, Terminal
<1>3. CASE UNCHANGED <<completionClosed, allCompleteFired>>
  BY <1>1, <1>3 DEF Graph!gvars
<1>4. CASE /\ sealed /\ AllTasksTerminal /\ ~completionClosed /\ completionClosed'
           /\ UNCHANGED allCompleteFired
  <2>1. Graph!GRelease
    BY <1>0, <1>1, <1>2, <1>4 DEF Graph!GRelease, Graph!AllEnded, Graph!Present, Graph!Ended
  <2> QED BY <2>1 DEF Graph!GNext
<1>5. CASE /\ sealed /\ IsAllComplete /\ MuFree /\ ~allCompleteFired
           /\ completionClosed' /\ allCompleteFired'
  <2>1. \A t \in Task : status[t] \in Terminal => delivered[t] = 1
    BY <1>5, NothingPending DEF IsAllComplete
  <2>2. tl = {u \in Task : ph[u] # "absent"}
    BY <1>0, <1>5, <2>1 DEF IsAllComplete, AllTasksTerminal, Added, DeliveryInv, Statuses, Terminal
  <2>3. AllTasksTerminal
    BY <1>5 DEF IsAllComplete
  <2>4. Graph!GFinish
    BY <1>0, <1>1, <1>2, <1>5, <2>2, <2>3 DEF Graph!GFinish, Graph!AllEnded, Graph!Present, Graph!Ended
  <2> QED BY <2>4 DEF Graph!GNext
<1>6. \/ UNCHANGED <<completionClosed, allCompleteFired>>
      \/ /\ sealed /\ AllTasksTerminal /\ ~completionClosed /\ completionClosed'
         /\ UNCHANGED allCompleteFired
      \/ /\ sealed /\ IsAllComplete /\ MuFree /\ ~allCompleteFired
         /\ completionClosed' /\ allCompleteFired'
  BY <1>0 DEF CompletionReady, NotifyAllComplete, CompletionInv
<1> QED BY <1>3, <1>4, <1>5, <1>6

\* Every step of the coordinator is a step of TaskGraph or leaves its variables alone.
LEMMA StepImplements ==
  ASSUME CompleteInv, CompleteInv', [Next]_vars
  PROVE  [Graph!GNext]_(Graph!gvars)
<1> USE DEF graphVars, doneVars
<1>0. GraphInv /\ GraphInv' /\ DeliveryInv /\ CompletionInv
  BY DEF CompleteInv
<1>1. ASSUME UNCHANGED <<status, deps, sealed, delivered, completionClosed, allCompleteFired>>
      PROVE  UNCHANGED Graph!gvars
  BY <1>1 DEF Graph!gvars
<1>2. ASSUME NEW t \in Task, NEW res \in Outcomes \union {"cancelled"}, Settle(t, res),
             t \in running \/ (res # "success" /\ t \notin running /\ status[t] \in {"blocked", "ready"}),
             UNCHANGED <<sealed, delivered, completionClosed, allCompleteFired>>
      PROVE  Graph!GNext
  <2>1. t \in running => status[t] = "running"
    BY <1>0 DEF GraphInv, RunningIsRunning
  <2>2. status[t] \in {"blocked", "ready", "running"} /\ (res = "success" => status[t] = "running")
    BY <1>2, <2>1
  <2> QED BY <1>0, <1>2, <2>2, SettleImplements
<1>3. ASSUME CallerStep \/ Stop
      PROVE  Graph!GNext \/ UNCHANGED Graph!gvars
  <2>1. CASE Stop \/ CancelRunning \/ \E n \in 1 .. MaxLimit : SetMaxParallel(n)
    BY <1>1, <2>1 DEF Stop, SetMaxParallel, CancelRunning
  <2>2. CASE Start
    <3>1. /\ ~sealed /\ sealed' = TRUE
          /\ UNCHANGED <<status, deps, delivered, completionClosed, allCompleteFired>>
      BY <2>2 DEF Start
    <3>2. Graph!GSeal
      BY <3>1 DEF Graph!GSeal
    <3> QED BY <3>2 DEF Graph!GNext
  <2>3. ASSUME NEW p \in Callers, NEW t \in Task, CancelRequest(p, t)
        PROVE  UNCHANGED Graph!gvars
    BY <1>1, <2>3 DEF CancelRequest
  <2>4. ASSUME NEW p \in Callers, NEW t \in Task, CancelPublished(p, t)
        PROVE  Graph!GNext
    <3>1. agent[t] \in Outcomes
      BY <2>4 DEF CancelPublished, Published
    <3> QED BY <1>2, <2>4, <3>1 DEF CancelPublished
  <2>5. ASSUME NEW p \in Callers, NEW t \in Task, CancelUnstarted(p, t)
        PROVE  Graph!GNext
    <3>1. status[t] \in {"blocked", "ready"} /\ t \notin running
      BY <1>0, <2>5 DEF CancelUnstarted, Added, GraphInv, TypeInv, TypeOK, Statuses, RunningIsRunning
    <3> QED BY <1>2, <2>5, <3>1 DEF CancelUnstarted
  <2>6. ASSUME NEW p \in Callers, NEW t \in Task, NEW D \in DepChoices[t], NEW pr \in Priorities,
               AddTask(p, t, D, pr)
        PROVE  Graph!GNext
    BY <1>0, <2>6, AddImplements
  <2> QED BY <1>3, <2>1, <2>2, <2>3, <2>4, <2>5, <2>6 DEF CallerStep
<1>4. ASSUME LoopStep \/ LoopEvent
      PROVE  Graph!GNext \/ UNCHANGED Graph!gvars
  <2>1. CASE StartReadyDone \/ Spawning \/ CheckCompletedAgents \/ CheckCompletedDone \/ LoopCheck
             \/ LoopStopped \/ LoopReady \/ LoopTick
    BY <1>1, <2>1 DEF StartReadyDone, CheckCompletedAgents, Spawning, SpawnAsync, CheckCompletedDone, LoopCheck,
                      LoopStopped, LoopReady, LoopTick
  <2>2. CASE LoopNotify
    <3>1. UNCHANGED <<status, deps, sealed, delivered>> /\ MuFree /\ NotifyAllComplete
      BY <2>2 DEF LoopNotify, LoopAt, MuFree
    <3> QED BY <1>0, <3>1, EventImplements
  <2>3. ASSUME NEW t \in Task, StartTask(t)
        PROVE  Graph!GNext
    BY <1>0, <2>3, StartImplements
  <2>4. ASSUME NEW t \in Task, StartTaskFails(t)
        PROVE  Graph!GNext
    <3>1. "failure" \in Outcomes /\ t \notin running /\ "failure" # "success"
      BY <1>0, <2>4 DEF Outcomes, StartTaskFails, GraphInv, RunningIsRunning
    <3> QED BY <1>2, <2>4, <3>1 DEF StartTaskFails
  <2>5. ASSUME NEW t \in Task, CommitReaped(t)
        PROVE  Graph!GNext
    <3>1. agent[t] \in Outcomes /\ t \in running
      BY <1>0, <2>5 DEF CommitReaped, GraphInv, TypeInv, ReapingPublished, Published
    <3> QED BY <1>2, <2>5, <3>1 DEF CommitReaped
  <2>6. ASSUME NEW t \in Task, NEW res \in Outcomes, LoopDone(t, res)
        PROVE  Graph!GNext \/ UNCHANGED Graph!gvars
    <3>1. CASE t \in running
      BY <1>2, <2>6, <3>1 DEF LoopDone
    <3>2. CASE t \notin running
      BY <1>1, <2>6, <3>2 DEF LoopDone
    <3> QED BY <3>1, <3>2
  <2> QED BY <1>4, <2>1, <2>2, <2>3, <2>4, <2>5, <2>6 DEF LoopStep, LoopEvent
<1>5. ASSUME NEW t \in Task, RunnerStep(t)
      PROVE  UNCHANGED Graph!gvars
  BY <1>1, <1>5 DEF RunnerStep, Finish, AgentFinish, Evict, Monitor, MonitorWait, MonitorWake,
                    MonitorSend, MonitorStep
<1>6. ASSUME NEW p \in Procs, DeliveryStep(p)
      PROVE  Graph!GNext \/ UNCHANGED Graph!gvars
  <2>1. CASE Invoke(p)
    BY <1>0, <2>1, InvokeImplements
  <2>2. CASE Drain(p)
    BY <1>1, <2>2 DEF Drain
  <2>3. CASE Publish(p) \/ Notify(p)
    <3>1. UNCHANGED <<status, deps, sealed, delivered>>
      BY <2>3 DEF Publish, Notify
    <3>2. \/ /\ completionClosed' = (completionClosed \/ CompletionReady)
             /\ UNCHANGED allCompleteFired
          \/ MuFree /\ NotifyAllComplete
      BY <2>3 DEF Publish, Notify
    <3> QED BY <1>0, <3>1, <3>2, EventImplements
  <2> QED BY <1>6, <2>1, <2>2, <2>3 DEF DeliveryStep
<1>7. CASE UNCHANGED vars
  BY <1>1, <1>7 DEF vars
<1> QED BY <1>3, <1>4, <1>5, <1>6, <1>7 DEF Next, Work

\* The coordinator with its loop, lock, queue, channels, monitors and callbacks behaves
\* as the dependency graph of TaskGraph: tasks run after their dependencies in a sealed
\* graph, a failure takes exactly its dependents with it, every task is told of once and
\* after its end, and the two completion events come when they may.
THEOREM CoordinatorRefinesTaskGraph == Spec => ImplementsTaskGraph
<1>1. Init => Graph!GInit
  <2> SUFFICES ASSUME Init PROVE Graph!GInit
    OBVIOUS
  <2>1. {t \in Task : delivered[t] > 0} = {}
    BY DEF Init
  <2>2. [t \in Task |-> IF status[t] \in {"blocked", "ready"} THEN "waiting" ELSE status[t]]
          = [t \in Task |-> "absent"]
    BY DEF Init
  <2> QED BY <2>1, <2>2 DEF Init, Graph!GInit
<1>2. CompleteInv /\ CompleteInv' /\ [Next]_vars => [Graph!GNext]_(Graph!gvars)
  BY StepImplements
<1> QED BY <1>1, <1>2, CompleteInvariant, PTL DEF Spec, ImplementsTaskGraph, Graph!GSpec

-----------------------------------------------------------------------------
(* Nobody waits for something that cannot come                             *)

\* A step adds a task or leaves the tasks and their dependencies.
LEMMA GraphGrows ==
  ASSUME GraphInv, [Next]_vars
  PROVE  \/ \E p \in Callers, t \in Task : \E D \in DepChoices[t], pr \in Priorities : AddTask(p, t, D, pr)
         \/ UNCHANGED deps /\ \A t \in Task : status'[t] = "absent" <=> status[t] = "absent"
<1> USE DEF graphVars
<1> DEFINE Same == UNCHANGED deps /\ \A t \in Task : status'[t] = "absent" <=> status[t] = "absent"
<1>0. /\ TypeOK /\ running = {t \in Task : status[t] = "running"} /\ reaping \subseteq running
      /\ status \in [Task -> Statuses]
      /\ \A t \in reaping : Published(t)
  BY DEF GraphInv, TypeInv, TypeOK, ReapingPublished, RunningIsRunning
<1>1. ASSUME UNCHANGED <<status, deps>> PROVE Same
  BY <1>1
<1>2. ASSUME NEW t \in Task, NEW res \in Outcomes \union {"cancelled"}, Settle(t, res), status[t] # "absent"
      PROVE  Same
  <2> DEFINE st == SettledStatus(t, res)
             skipped == Cascade(t, st)
             ready == Unblocked(t, st) \ skipped
  <2>1. /\ deps' = deps
        /\ status'[t] \in {"completed", "failed"}
        /\ \A u \in Task \ {t} :
             /\ u \in skipped => status[u] = "blocked" /\ status'[u] = "failed"
             /\ u \in ready => status[u] = "blocked" /\ status'[u] = "ready"
             /\ u \notin skipped /\ u \notin ready => status'[u] = status[u]
    BY <1>0, <1>2, SettleEffect
  <2> HIDE DEF skipped, ready
  <2> QED BY <1>2, <2>1
<1>3. ASSUME CallerStep \/ Stop,
             ~ \E p \in Callers, t \in Task : \E D \in DepChoices[t], pr \in Priorities : AddTask(p, t, D, pr)
      PROVE  Same
  <2>1. CASE Stop \/ Start \/ CancelRunning \/ \E n \in 1 .. MaxLimit : SetMaxParallel(n)
    BY <1>1, <2>1 DEF Stop, Start, SetMaxParallel, CancelRunning
  <2>2. ASSUME NEW p \in Callers, NEW t \in Task, CancelRequest(p, t) PROVE Same
    BY <1>1, <2>2 DEF CancelRequest
  <2>3. ASSUME NEW p \in Callers, NEW t \in Task, CancelPublished(p, t) PROVE Same
    BY <1>0, <1>2, <2>3 DEF CancelPublished, Published
  <2>4. ASSUME NEW p \in Callers, NEW t \in Task, CancelUnstarted(p, t) PROVE Same
    BY <1>2, <2>4 DEF CancelUnstarted, Added
  <2> QED BY <1>3, <2>1, <2>2, <2>3, <2>4 DEF CallerStep
<1>4. ASSUME NEW p \in Procs, DeliveryStep(p) PROVE Same
  BY <1>1, <1>4 DEF DeliveryStep, Publish, Invoke, Drain, Notify
<1>5. ASSUME LoopStep \/ LoopEvent PROVE Same
  <2>1. CASE StartReadyDone \/ Spawning \/ CheckCompletedAgents \/ CheckCompletedDone \/ LoopCheck \/ LoopNotify
             \/ LoopStopped \/ LoopReady \/ LoopTick
    BY <1>1, <2>1 DEF StartReadyDone, CheckCompletedAgents, Spawning, SpawnAsync, CheckCompletedDone,
                      LoopCheck, LoopNotify,
                      LoopStopped, LoopReady, LoopTick
  <2>2. ASSUME NEW t \in Task, StartTask(t) PROVE Same
    BY <1>0, <2>2 DEF StartTask
  <2>3. ASSUME NEW t \in Task, StartTaskFails(t) PROVE Same
    BY <1>2, <2>3 DEF StartTaskFails, Outcomes
  <2>4. ASSUME NEW t \in Task, CommitReaped(t) PROVE Same
    BY <1>0, <1>2, <2>4 DEF CommitReaped, Published
  <2>5. ASSUME NEW t \in Task, NEW res \in Outcomes, LoopDone(t, res) PROVE Same
    BY <1>0, <1>1, <1>2, <2>5 DEF LoopDone
  <2> QED BY <1>5, <2>1, <2>2, <2>3, <2>4, <2>5 DEF LoopStep, LoopEvent
<1>6. ASSUME NEW t \in Task, RunnerStep(t) PROVE Same
  BY <1>1, <1>6 DEF RunnerStep, Finish, AgentFinish, Evict, Monitor, MonitorWait, MonitorWake, MonitorSend,
                    MonitorStep
<1>7. CASE UNCHANGED vars
  BY <1>1, <1>7 DEF vars
<1> QED BY <1>3, <1>4, <1>5, <1>6, <1>7 DEF Next, Work

\* Tasks are added in the order of their numbers, and a dependency was there first.
EarlierDeps ==
  /\ \A t \in Task : deps[t] \subseteq 0 .. t - 1
  /\ \A t \in Added : 1 .. t - 1 \subseteq Added

\* It stays so.
LEMMA NextEarlierDeps == GraphInv /\ EarlierDeps /\ [Next]_vars => EarlierDeps'
<1> SUFFICES ASSUME GraphInv, EarlierDeps, [Next]_vars PROVE EarlierDeps'
  OBVIOUS
<1>0. status \in [Task -> Statuses] /\ deps \in [Task -> SUBSET (0 .. NumTasks)] /\ NumTasks \in Nat
  BY CoordinatorAssumption DEF GraphInv, TypeInv, TypeOK
<1>1. CASE UNCHANGED deps /\ \A t \in Task : status'[t] = "absent" <=> status[t] = "absent"
  BY <1>1 DEF EarlierDeps, Added
<1>2. ASSUME NEW p \in Callers, NEW t \in Task, NEW D \in DepChoices[t], NEW pr \in Priorities,
             AddTask(p, t, D, pr)
      PROVE  EarlierDeps'
  <2>1. /\ t \notin Added /\ 1 .. t - 1 \subseteq Added /\ D \subseteq Added \union {Missing}
        /\ deps' = [deps EXCEPT ![t] = D]
        /\ \E s \in {"failed", "ready", "blocked"} : status' = [status EXCEPT ![t] = s]
    BY <1>2 DEF AddTask
  <2>2. Added' = Added \union {t}
    BY <1>0, <2>1 DEF Added
  <2>3. ASSUME NEW u \in Added PROVE u \in 1 .. t - 1
    <3>1. u \in Task /\ t \in Task /\ (t \in 1 .. u - 1 => t \in Added)
      BY DEF EarlierDeps, Added
    <3> QED BY <1>0, <2>1, <3>1 DEF Task
  <2>4. D \subseteq 0 .. t - 1
    BY <1>0, <2>1, <2>3 DEF Missing, Task
  <2>5. \A u \in Task : deps'[u] \subseteq 0 .. u - 1
    BY <1>0, <2>1, <2>4 DEF EarlierDeps
  <2>6. \A u \in Added' : 1 .. u - 1 \subseteq Added'
    BY <2>1, <2>2 DEF EarlierDeps
  <2> QED BY <2>5, <2>6 DEF EarlierDeps
<1> QED BY <1>1, <1>2, GraphGrows

\* A graph with nothing running and nothing queued is terminal: the first blocked
\* task would have a dependency that is not, before it.
LEMMA WorkRemains == GraphInv /\ EarlierDeps /\ running = {} /\ Queue = {} => AllTasksTerminal
<1> SUFFICES ASSUME GraphInv, EarlierDeps, running = {}, Queue = {}
             PROVE  AllTasksTerminal
  OBVIOUS
<1> DEFINE Blocked == {t \in Task : status[t] = "blocked"}
<1>1. status \in [Task -> Statuses] /\ NumTasks \in Nat /\ qseq \in [Task -> Nat]
  BY CoordinatorAssumption DEF GraphInv, TypeInv, TypeOK
<1>2. \A t \in Task : status[t] \notin {"ready", "running"}
  BY <1>1 DEF GraphInv, QueueIsReady, RunningIsRunning, Queue
<1>3. ASSUME NEW t \in Blocked, \A u \in Blocked : t <= u
      PROVE  FALSE
  <2>1. PICK d \in deps[t] : status[d] \notin Terminal
    BY DEF GraphInv, NoStrandedTask
  <2>2. d # Missing
    BY DEF GraphInv, NoStrandedTask, FailedDependency
  <2>3. d \in Task /\ status[d] # "absent"
    BY <2>2 DEF GraphInv, DepsKnown
  <2>4. d \in Blocked
    BY <1>1, <1>2, <2>1, <2>3 DEF Statuses
  <2>5. d < t
    BY <1>1, <2>3 DEF EarlierDeps, Task
  <2> QED BY <1>1, <1>3, <2>3, <2>4, <2>5 DEF Task
<1>4. Blocked = {}
  <2>1. Blocked \in SUBSET Nat
    BY <1>1 DEF Task
  <2> HIDE DEF Blocked
  <2> QED BY <1>3, <2>1, LeastNumber
<1> QED BY <1>1, <1>2, <1>4 DEF AllTasksTerminal, Added, Statuses

\* The monitor of a running task has a result, waits for one the Runner keeps for
\* it, is about to ask, or has handed it to agentDoneCh.
MonitorInv ==
  /\ \A t \in Task : monitor[t] = "waiting" => (Alive(t) \/ Published(t)) /\ t \notin evicted
  /\ ~stopped => \A t \in running : /\ monitor[t] # "none"
                                    /\ monitor[t] = "gone" =>
                                         \E res \in Outcomes : <<t, res>> \in agentDoneCh

\* It is kept by a step that takes no agent, no monitor and no message of a task
\* that goes on running.
LEMMA QuietMonitor ==
  ASSUME MonitorInv, UNCHANGED <<evicted, monitor>>, stopped => stopped', running' \subseteq running,
         \A t \in Task : Alive(t) \/ Published(t) => Alive(t)' \/ Published(t)',
         \A t \in running', res \in Outcomes : <<t, res>> \in agentDoneCh => <<t, res>> \in agentDoneCh'
  PROVE  MonitorInv'
<1>1. \A t \in Task : monitor'[t] = "waiting" => (Alive(t)' \/ Published(t)') /\ t \notin evicted'
  BY DEF MonitorInv
<1>2. ~stopped' => \A t \in running' : /\ monitor'[t] # "none"
                                       /\ monitor'[t] = "gone" =>
                                            \E res \in Outcomes : <<t, res>> \in agentDoneCh'
  BY DEF MonitorInv
<1> QED BY <1>1, <1>2 DEF MonitorInv

\* Callers, deliveries and processLoop keep it,
LEMMA LoopMonitor ==
  ASSUME GraphInv, MonitorInv,
         CallerStep \/ Stop \/ LoopStep \/ LoopEvent \/ \E p \in Procs : DeliveryStep(p)
  PROVE  MonitorInv'
<1> USE DEF graphVars, runnerVars
<1>0. /\ agent \in [Task -> Outcomes \union {"none", "working", "cancelling"}]
      /\ monitor \in [Task -> Outcomes \union {"none", "spawned", "waiting", "gone"}]
      /\ stopped \in BOOLEAN /\ running \subseteq Task
  BY DEF GraphInv, TypeInv, TypeOK
<1>1. ASSUME UNCHANGED <<agent, evicted, monitor, agentDoneCh>>, stopped => stopped', running' \subseteq running
      PROVE  MonitorInv'
  BY <1>1, QuietMonitor DEF Alive, Published
<1>2. ASSUME CallerStep \/ Stop PROVE MonitorInv'
  <2>1. CASE Stop \/ Start \/ \E n \in 1 .. MaxLimit : SetMaxParallel(n)
    BY <1>1, <2>1 DEF Stop, Start, SetMaxParallel
  <2>2. ASSUME CancelRunning \/ \E p \in Callers, t \in Task : CancelRequest(p, t) PROVE MonitorInv'
    <3>1. /\ UNCHANGED <<evicted, monitor, agentDoneCh, running, stopped>>
          /\ \A t \in Task : agent'[t] = agent[t] \/ agent'[t] = "cancelling"
      BY <1>0, <2>2 DEF CancelRunning, CancelRequest
    <3> QED BY <3>1, QuietMonitor DEF Alive, Published
  <2>3. ASSUME NEW p \in Callers, NEW t \in Task, CancelPublished(p, t) \/ CancelUnstarted(p, t)
        PROVE  MonitorInv'
    BY <1>1, <2>3 DEF CancelPublished, CancelUnstarted
  <2>4. ASSUME NEW p \in Callers, NEW t \in Task, NEW D \in DepChoices[t], NEW pr \in Priorities,
               AddTask(p, t, D, pr)
        PROVE  MonitorInv'
    BY <1>1, <2>4 DEF AddTask
  <2> QED BY <1>2, <2>1, <2>2, <2>3, <2>4 DEF CallerStep
<1>3. ASSUME NEW p \in Procs, DeliveryStep(p) PROVE MonitorInv'
  BY <1>1, <1>3 DEF DeliveryStep, Publish, Invoke, Drain, Notify
<1>4. CASE StartReadyDone \/ Spawning \/ CheckCompletedAgents \/ CheckCompletedDone \/ LoopCheck \/ LoopNotify
           \/ LoopStopped \/ LoopReady \/ LoopTick
           \/ \E t \in Task : StartTaskFails(t) \/ CommitReaped(t)
  BY <1>1, <1>4 DEF StartReadyDone, CheckCompletedAgents, Spawning, SpawnAsync, CheckCompletedDone,
                    LoopCheck, LoopNotify,
                    LoopStopped, LoopReady, LoopTick, StartTaskFails, CommitReaped
<1>5. ASSUME NEW t \in Task, StartTask(t) PROVE MonitorInv'
  <2>1. /\ running' = running \union {t} /\ agent'[t] = "working" /\ monitor'[t] = "spawned"
        /\ \A u \in Task \ {t} : agent'[u] = agent[u] /\ monitor'[u] = monitor[u]
        /\ UNCHANGED <<evicted, agentDoneCh, stopped>>
    BY <1>0, <1>5 DEF StartTask
  <2>2. \A u \in Task : monitor'[u] = "waiting" => (Alive(u)' \/ Published(u)') /\ u \notin evicted'
    BY <2>1 DEF MonitorInv, Alive, Published
  <2>3. ~stopped' => \A u \in running' : /\ monitor'[u] # "none"
                                         /\ monitor'[u] = "gone" =>
                                              \E res \in Outcomes : <<u, res>> \in agentDoneCh'
    BY <1>0, <2>1 DEF MonitorInv
  <2> QED BY <2>2, <2>3 DEF MonitorInv
<1>6. ASSUME NEW t \in Task, NEW res \in Outcomes, LoopDone(t, res) PROVE MonitorInv'
  <2>1. /\ UNCHANGED <<agent, evicted, monitor, stopped>> /\ running' = running \ {t}
        /\ agentDoneCh' = agentDoneCh \ {<<t, res>>}
    BY <1>6 DEF LoopDone
  <2>2. \A u \in running', r \in Outcomes : <<u, r>> \in agentDoneCh => <<u, r>> \in agentDoneCh'
    BY <2>1
  <2> QED BY <2>1, <2>2, QuietMonitor DEF Alive, Published
<1> QED BY <1>2, <1>3, <1>4, <1>5, <1>6 DEF LoopStep, LoopEvent

\* and so do the Runner and the monitors.
LEMMA RunnerMonitor ==
  ASSUME GraphInv, OutcomeInv, MonitorInv, NEW t \in Task, RunnerStep(t)
  PROVE  MonitorInv'
<1> USE DEF graphVars
<1>0. /\ agent \in [Task -> Outcomes \union {"none", "working", "cancelling"}]
      /\ monitor \in [Task -> Outcomes \union {"none", "spawned", "waiting", "gone"}]
      /\ stopped \in BOOLEAN /\ running \subseteq Task
  BY DEF GraphInv, TypeInv, TypeOK
<1>1. ASSUME NEW res \in Outcomes, AgentFinish(t, res) PROVE MonitorInv'
  <2>1. /\ UNCHANGED <<evicted, monitor, agentDoneCh, running, stopped>> /\ agent'[t] = res
        /\ \A u \in Task \ {t} : agent'[u] = agent[u]
    BY <1>0, <1>1 DEF AgentFinish
  <2> QED BY <2>1, QuietMonitor DEF Alive, Published
<1>2. CASE Evict(t)
  <2>1. /\ evicted' = evicted \union {t} /\ monitor[t] # "waiting"
        /\ UNCHANGED <<agent, monitor, agentDoneCh, running, stopped>>
    BY <1>2 DEF Evict
  <2> QED BY <2>1 DEF MonitorInv, Alive, Published
<1>3. ASSUME NEW pc, MonitorStep(t, pc), pc # "none",
             pc = "waiting" => Alive(t),
             pc = "gone" => stopped \/ \E res \in Outcomes : <<t, res>> \in agentDoneCh',
             agentDoneCh \subseteq agentDoneCh'
      PROVE  MonitorInv'
  <2>1. /\ UNCHANGED <<agent, evicted, running, stopped>> /\ monitor'[t] = pc
        /\ \A u \in Task \ {t} : monitor'[u] = monitor[u]
    BY <1>0, <1>3 DEF MonitorStep, runnerVars
  <2>2. Alive(t) => t \notin evicted
    BY DEF OutcomeInv, Alive, Published, Outcomes
  <2>3. \A u \in Task : monitor'[u] = "waiting" => (Alive(u)' \/ Published(u)') /\ u \notin evicted'
    BY <1>3, <2>1, <2>2 DEF MonitorInv, Alive, Published
  <2>4. ~stopped' => \A u \in running' : /\ monitor'[u] # "none"
                                         /\ monitor'[u] = "gone" =>
                                              \E res \in Outcomes : <<u, res>> \in agentDoneCh'
    BY <1>0, <1>3, <2>1 DEF MonitorInv
  <2> QED BY <2>3, <2>4 DEF MonitorInv
<1>4. CASE MonitorWait(t) \/ MonitorWake(t)
  <2>1. UNCHANGED agentDoneCh
    BY <1>4 DEF MonitorWait, MonitorWake
  <2>2. \E pc : /\ MonitorStep(t, pc) /\ pc # "none"
                /\ pc = "waiting" => Alive(t)
                /\ pc = "gone" => stopped
    BY <1>4 DEF MonitorWait, MonitorWake, Published, Outcomes
  <2> QED BY <1>3, <2>1, <2>2
<1>5. CASE MonitorSend(t)
  <2>1. /\ MonitorStep(t, "gone") /\ monitor[t] \in Outcomes
        /\ agentDoneCh \subseteq agentDoneCh'
        /\ stopped \/ <<t, monitor[t]>> \in agentDoneCh'
    BY <1>5 DEF MonitorSend
  <2> QED BY <1>3, <2>1
<1> QED BY <1>1, <1>2, <1>4, <1>5 DEF RunnerStep, Finish, Monitor

\* In every state.
LEMMA MonitorInvariant == Spec => []MonitorInv
<1>1. Init => MonitorInv
  BY DEF Init, MonitorInv
<1>2. GraphInv /\ OutcomeInv /\ MonitorInv /\ [Next]_vars => MonitorInv'
  <2> SUFFICES ASSUME GraphInv, OutcomeInv, MonitorInv, [Next]_vars PROVE MonitorInv'
    OBVIOUS
  <2>1. CASE UNCHANGED vars
    BY <2>1, QuietMonitor DEF vars, graphVars, runnerVars, Alive, Published
  <2> QED BY <2>1, LoopMonitor, RunnerMonitor DEF Next, Work
<1> QED BY <1>1, <1>2, GraphInvariant, OutcomeInvariant, PTL DEF Spec

\* What the monitors hold is on its way to the coordinator.
LEMMA SlotsComeBack == GraphInv /\ MonitorInv /\ ~stopped => \A t \in running : ResultOnItsWay(t)
<1> SUFFICES ASSUME GraphInv, MonitorInv, ~stopped, NEW t \in running PROVE ResultOnItsWay(t)
  OBVIOUS
<1>1. /\ t \in Task
      /\ monitor[t] \in Outcomes \union {"none", "spawned", "waiting", "gone"}
  BY DEF GraphInv, TypeInv, TypeOK
<1> QED BY <1>1 DEF MonitorInv, ResultOnItsWay

\* The run is over and every completion has been delivered.
RunOver == sealed /\ AllTasksTerminal /\ pendingCallbacks = 0 /\ \A q \in Procs : batch[q] = {}

\* Whoever is about to notify has seen the end of the run, processLoop leaves only
\* after it or after Stop, and an end that was published is carried to the observer.
NotifyInv ==
  /\ \A p \in Procs : stage[p] = "notify" => RunOver
  /\ loopPc = "notify" => RunOver
  /\ loopPc = "exited" => stopped \/ allCompleteFired
  /\ sealed => loopPc # "off"
  /\ completionClosed /\ ~allCompleteFired => \E p \in Procs : stage[p] # "idle"

\* With no callback pending no delivery has anything left.
NoBatchLeft ==
  TypeOK /\ DeliveryInv /\ MuFree /\ pendingCallbacks = 0 => \A q \in Procs : batch[q] = {}

\* (Outstanding is what pendingCallbacks counts.)
LEMMA NothingLeft == NoBatchLeft
<1> SUFFICES ASSUME TypeOK, DeliveryInv, MuFree, pendingCallbacks = 0, NEW q \in Procs
             PROVE  batch[q] = {}
  BY DEF NoBatchLeft
<1>1. Cardinality(Outstanding) = 0 /\ IsFiniteSet(Outstanding)
  BY OutstandingFinite DEF DeliveryInv
<1>2. Outstanding = {}
  BY <1>1, FS_EmptySet
<1>3. CASE Delivering(q)
  BY <1>2, <1>3 DEF Outstanding, TypeOK
<1>4. CASE ~Delivering(q)
  BY <1>4 DEF DeliveryInv
<1> QED BY <1>3, <1>4

\* A delivery in progress is one that is counted.
SomebodyDelivers ==
  DeliveryInv /\ pendingCallbacks # 0 => \E q \in Procs : Delivering(q)

\* (An empty Outstanding would have been counted as none.)
LEMMA CountedIsDelivered == SomebodyDelivers
<1> SUFFICES ASSUME DeliveryInv, ~ \E q \in Procs : Delivering(q) PROVE pendingCallbacks = 0
  BY DEF SomebodyDelivers
<1>1. Outstanding = {}
  BY DEF Outstanding
<1> QED BY <1>1, FS_EmptySet DEF DeliveryInv

\* A run that is over stays over, and nobody begins a delivery.
LEMMA RunOverStays ==
  ASSUME GraphInv, RunOver, [Next]_vars
  PROVE  RunOver'
<1> USE DEF graphVars, deliveryVars
<1>0. /\ running = {} /\ reaping = {} /\ Queue = {}
      /\ \A t \in Task : status[t] \in {"absent", "completed", "failed"}
      /\ batch \in [Procs -> SUBSET Task] /\ pendingCallbacks = 0
      /\ \A q \in Procs : batch[q] = {}
  <2>1. running = {} /\ \A t \in Task : status[t] \in {"absent", "completed", "failed"}
    BY DEF RunOver, AllTasksTerminal, GraphInv, TypeInv, TypeOK, Added, Terminal
  <2>2. Queue = {}
    BY <2>1 DEF GraphInv, QueueIsReady, Queue
  <2> QED BY <2>1, <2>2 DEF RunOver, GraphInv, TypeInv, TypeOK
<1>1. sealed' /\ AllTasksTerminal'
  BY EndedGraphStays DEF RunOver
<1> DEFINE Kept == pendingCallbacks' = 0 /\ \A q \in Procs : batch'[q] = {}
<1>2. ASSUME UNCHANGED <<pendingCallbacks, batch>> PROVE Kept
  BY <1>0, <1>2
<1>3. Loop \in Procs
  BY DEF Procs
<1>4. ASSUME Register(Loop, batch[Loop]) PROVE Kept
  <2>1. Cardinality({}) = 0
    BY FS_EmptySet
  <2> QED BY <1>0, <1>3, <1>4, <2>1 DEF Register
<1>5. ASSUME CallerStep \/ Stop PROVE Kept
  <2>1. CASE Stop \/ Start \/ CancelRunning \/ \E n \in 1 .. MaxLimit : SetMaxParallel(n)
    BY <1>2, <2>1 DEF Stop, Start, SetMaxParallel, CancelRunning
  <2>2. ASSUME NEW p \in Callers, NEW t \in Task, CancelRequest(p, t) PROVE Kept
    BY <1>2, <2>2 DEF CancelRequest
  <2>3. \A p \in Callers, t \in Task : ~CancelPublished(p, t) /\ ~CancelUnstarted(p, t)
    BY <1>0 DEF CancelPublished, CancelUnstarted, Added, Terminal
  <2>4. \A p \in Callers, t \in Task : \A D \in DepChoices[t], pr \in Priorities : ~AddTask(p, t, D, pr)
    BY DEF AddTask, RunOver
  <2> QED BY <1>5, <2>1, <2>2, <2>3, <2>4 DEF CallerStep
<1>6. ASSUME NEW p \in Procs, DeliveryStep(p) PROVE Kept
  <2>1. CASE Publish(p) \/ Invoke(p) \/ Notify(p)
    BY <1>2, <2>1 DEF Publish, Invoke, Notify
  <2>2. CASE Drain(p)
    <3>1. Cardinality({}) = 0
      BY FS_EmptySet
    <3> QED BY <1>0, <2>2, <3>1 DEF Drain
  <2> QED BY <1>6, <2>1, <2>2 DEF DeliveryStep
<1>7. ASSUME LoopStep \/ LoopEvent PROVE Kept
  <2>1. CASE Spawning \/ CheckCompletedAgents \/ LoopCheck \/ LoopNotify \/ LoopStopped \/ LoopReady \/ LoopTick
    BY <1>2, <2>1 DEF CheckCompletedAgents, Spawning, SpawnAsync, LoopCheck, LoopNotify, LoopStopped,
                      LoopReady, LoopTick
  <2>2. CASE StartReadyDone \/ CheckCompletedDone
    BY <1>4, <2>2 DEF StartReadyDone, CheckCompletedDone
  <2>3. \A t \in Task : ~StartTask(t) /\ ~StartTaskFails(t) /\ ~CommitReaped(t)
    BY <1>0 DEF StartTask, StartTaskFails, CommitReaped, Popped, IsHead
  <2>4. ASSUME NEW t \in Task, NEW res \in Outcomes, LoopDone(t, res) PROVE Kept
    BY <1>0, <1>2, <2>4 DEF LoopDone
  <2> QED BY <1>7, <2>1, <2>2, <2>3, <2>4 DEF LoopStep, LoopEvent
<1>8. ASSUME NEW t \in Task, RunnerStep(t) PROVE Kept
  BY <1>2, <1>8 DEF RunnerStep, Finish, AgentFinish, Evict, Monitor, MonitorWait, MonitorWake, MonitorSend,
                    MonitorStep
<1>9. ASSUME UNCHANGED vars PROVE Kept
  BY <1>2, <1>9 DEF vars
<1>10. Kept
  BY <1>5, <1>6, <1>7, <1>8, <1>9 DEF Next, Work
<1> QED BY <1>1, <1>10 DEF RunOver

\* The stages a step may leave a goroutine in: only a drain that finds the run over
\* goes on to notify, and a goroutine becomes idle only by a drain or a notification.
LEMMA StageSteps ==
  ASSUME GraphInv, DeliveryInv, [Next]_vars
  PROVE  /\ \A p \in Procs : stage'[p] = "notify" => stage[p] = "notify" \/ Drain(p)
         /\ \A p \in Procs : stage'[p] = "idle" => stage[p] = "idle" \/ Drain(p) \/ Notify(p)
<1> USE DEF graphVars, deliveryVars
<1>0. /\ stage \in [Procs -> {"idle", "publish", "invoke", "drain", "notify"}]
      /\ ~MuFree => stage[Loop] = "idle"
      /\ Loop \in Procs /\ Callers \subseteq Procs
  BY DEF GraphInv, TypeInv, TypeOK, DeliveryInv, Procs
<1> DEFINE Fine == /\ \A p \in Procs : stage'[p] = "notify" => stage[p] = "notify" \/ Drain(p)
                   /\ \A p \in Procs : stage'[p] = "idle" => stage[p] = "idle" \/ Drain(p) \/ Notify(p)
<1>1. ASSUME UNCHANGED stage PROVE Fine
  BY <1>1
<1>2. ASSUME NEW p \in Procs, NEW S, Register(p, S), stage[p] = "idle" PROVE Fine
  BY <1>0, <1>2 DEF Register
<1>3. ASSUME CallerStep \/ Stop PROVE Fine
  <2>1. CASE Stop \/ Start \/ CancelRunning \/ \E n \in 1 .. MaxLimit : SetMaxParallel(n)
    BY <1>1, <2>1 DEF Stop, Start, SetMaxParallel, CancelRunning
  <2>2. ASSUME NEW p \in Callers, NEW t \in Task, CancelRequest(p, t) PROVE Fine
    BY <1>1, <2>2 DEF CancelRequest
  <2>3. ASSUME NEW p \in Callers, NEW t \in Task, CancelPublished(p, t) PROVE Fine
    <3>1. stage[p] = "idle" /\ Register(p, Settled(t, agent[t]))
      BY <2>3 DEF CancelPublished, IdleCaller
    <3> QED BY <1>0, <1>2, <3>1
  <2>4. ASSUME NEW p \in Callers, NEW t \in Task, CancelUnstarted(p, t) PROVE Fine
    <3>1. stage[p] = "idle" /\ Register(p, Settled(t, "cancelled"))
      BY <2>4 DEF CancelUnstarted, IdleCaller
    <3> QED BY <1>0, <1>2, <3>1
  <2>5. ASSUME NEW p \in Callers, NEW t \in Task, NEW D \in DepChoices[t], NEW pr \in Priorities,
               AddTask(p, t, D, pr)
        PROVE  Fine
    <3>1. stage[p] = "idle" /\ (Register(p, {t}) \/ UNCHANGED stage)
      BY <2>5 DEF AddTask, IdleCaller
    <3> QED BY <1>0, <1>1, <1>2, <3>1
  <2> QED BY <1>3, <2>1, <2>2, <2>3, <2>4, <2>5 DEF CallerStep
<1>4. ASSUME NEW p \in Procs, Publish(p) \/ Invoke(p) \/ Notify(p) PROVE Fine
  BY <1>0, <1>4 DEF Publish, Invoke, Notify
<1>5. ASSUME NEW p \in Procs, Drain(p) PROVE Fine
  <2>1. \A q \in Procs \ {p} : stage'[q] = stage[q]
    BY <1>0, <1>5 DEF Drain
  <2> QED BY <1>5, <2>1
<1>6. ASSUME LoopStep \/ LoopEvent PROVE Fine
  <2>1. CASE Spawning \/ CheckCompletedAgents \/ LoopCheck \/ LoopNotify \/ LoopStopped \/ LoopReady \/ LoopTick
             \/ \E t \in Task : StartTask(t) \/ StartTaskFails(t) \/ CommitReaped(t)
    BY <1>1, <2>1 DEF CheckCompletedAgents, Spawning, SpawnAsync, LoopCheck, LoopNotify, LoopStopped,
                      LoopReady, LoopTick,
                      StartTask, StartTaskFails, CommitReaped
  <2>2. CASE StartReadyDone \/ CheckCompletedDone
    <3>1. ~MuFree /\ Register(Loop, batch[Loop])
      BY <2>2 DEF StartReadyDone, CheckCompletedDone, MuFree, Starting
    <3> QED BY <1>0, <1>2, <3>1
  <2>3. ASSUME NEW t \in Task, NEW res \in Outcomes, LoopDone(t, res) PROVE Fine
    <3>1. stage[Loop] = "idle" /\ (Register(Loop, Settled(t, res)) \/ UNCHANGED stage)
      BY <2>3 DEF LoopDone, LoopAt
    <3> QED BY <1>0, <1>1, <1>2, <3>1
  <2> QED BY <1>6, <2>1, <2>2, <2>3 DEF LoopStep, LoopEvent
<1>7. ASSUME NEW t \in Task, RunnerStep(t) PROVE Fine
  BY <1>1, <1>7 DEF RunnerStep, Finish, AgentFinish, Evict, Monitor, MonitorWait, MonitorWake, MonitorSend,
                    MonitorStep
<1>8. CASE UNCHANGED vars
  BY <1>1, <1>8 DEF vars
<1>9. Fine
  BY <1>3, <1>4, <1>5, <1>6, <1>7, <1>8 DEF Next, Work, DeliveryStep
<1> QED BY <1>9

\* The places processLoop may go to: to its notification after it has seen the run
\* complete, and to its end from there or after Stop.
LEMMA LoopPlaces ==
  ASSUME GraphInv, [Next]_vars
  PROVE  /\ loopPc' = "notify" => loopPc = "notify" \/ (LoopCheck /\ IsAllComplete)
         /\ loopPc' = "exited" => loopPc = "exited" \/ LoopNotify \/ (LoopStopped /\ stopped)
         /\ loopPc' = "off" => loopPc = "off" /\ sealed' = sealed
         /\ stopped => stopped'
<1> USE DEF graphVars, loopVars, doneVars
<1>0. stopped \in BOOLEAN
  BY DEF GraphInv, TypeInv, TypeOK
<1> DEFINE Goes == /\ loopPc' = "notify" => loopPc = "notify" \/ (LoopCheck /\ IsAllComplete)
                   /\ loopPc' = "exited" => loopPc = "exited" \/ LoopNotify \/ (LoopStopped /\ stopped)
                   /\ loopPc' = "off" => loopPc = "off" /\ sealed' = sealed
                   /\ stopped => stopped'
<1>1. ASSUME UNCHANGED <<loopPc, sealed>>, stopped => stopped' PROVE Goes
  BY <1>1
<1>2. ASSUME CallerStep \/ Stop PROVE Goes
  <2>1. CASE Start
    BY <2>1 DEF Start
  <2>2. CASE Stop \/ CancelRunning \/ \E n \in 1 .. MaxLimit : SetMaxParallel(n)
    BY <1>1, <2>2 DEF Stop, SetMaxParallel, CancelRunning
  <2>3. ASSUME NEW p \in Callers, NEW t \in Task,
               CancelRequest(p, t) \/ CancelPublished(p, t) \/ CancelUnstarted(p, t)
        PROVE  Goes
    BY <1>1, <2>3 DEF CancelRequest, CancelPublished, CancelUnstarted
  <2>4. ASSUME NEW p \in Callers, NEW t \in Task, NEW D \in DepChoices[t], NEW pr \in Priorities,
               AddTask(p, t, D, pr)
        PROVE  Goes
    BY <1>1, <2>4 DEF AddTask
  <2> QED BY <1>2, <2>1, <2>2, <2>3, <2>4 DEF CallerStep
<1>3. ASSUME NEW p \in Procs, DeliveryStep(p) PROVE Goes
  BY <1>1, <1>3 DEF DeliveryStep, Publish, Invoke, Drain, Notify
<1>4. CASE StartReadyDone \/ Spawning \/ CheckCompletedAgents \/ CheckCompletedDone \/ LoopReady \/ LoopTick
           \/ \E t \in Task : StartTask(t) \/ StartTaskFails(t) \/ CommitReaped(t)
  <2>1. UNCHANGED stopped /\ loopPc' \in {"starting", "tickStarting", "tickAgents", "check", "reaping"}
    BY <1>4 DEF StartReadyDone, CheckCompletedAgents, Spawning, SpawnAsync, CheckCompletedDone, LoopReady,
                LoopTick, StartTask,
                StartTaskFails, CommitReaped, Popped, Starting
  <2> QED BY <2>1
<1>5. CASE LoopCheck \/ LoopNotify \/ LoopStopped
  <2>1. CASE LoopCheck
    BY <2>1 DEF LoopCheck
  <2>2. CASE LoopNotify
    BY <2>2 DEF LoopNotify
  <2>3. CASE LoopStopped
    BY <2>3 DEF LoopStopped
  <2> QED BY <1>5, <2>1, <2>2, <2>3
<1>6. ASSUME NEW t \in Task, NEW res \in Outcomes, LoopDone(t, res) PROVE Goes
  BY <1>6 DEF LoopDone
<1>7. ASSUME NEW t \in Task, RunnerStep(t) PROVE Goes
  BY <1>1, <1>7 DEF RunnerStep, Finish, AgentFinish, Evict, Monitor, MonitorWait, MonitorWake, MonitorSend,
                    MonitorStep
<1>8. CASE UNCHANGED vars
  BY <1>1, <1>8 DEF vars
<1>9. Goes
  BY <1>2, <1>3, <1>4, <1>5, <1>6, <1>7, <1>8 DEF Next, Work, LoopStep, LoopEvent
<1> QED BY <1>9

\* Completion is published by a delivery or announced by a notification, and an
\* announcement is not taken back.
LEMMA CloseSteps ==
  ASSUME GraphInv, [Next]_vars
  PROVE  /\ completionClosed' # completionClosed =>
              LoopNotify \/ \E p \in Procs : Publish(p) \/ Notify(p)
         /\ allCompleteFired => allCompleteFired'
<1> USE DEF graphVars, doneVars
<1>0. allCompleteFired \in BOOLEAN
  BY DEF GraphInv, TypeInv, TypeOK
<1> DEFINE Same == UNCHANGED <<completionClosed, allCompleteFired>>
<1>1. ASSUME CallerStep \/ Stop PROVE Same
  <2>1. CASE Stop \/ Start \/ CancelRunning \/ \E n \in 1 .. MaxLimit : SetMaxParallel(n)
    BY <2>1 DEF Stop, Start, SetMaxParallel, CancelRunning
  <2>2. ASSUME NEW p \in Callers, NEW t \in Task,
               CancelRequest(p, t) \/ CancelPublished(p, t) \/ CancelUnstarted(p, t)
        PROVE  Same
    BY <2>2 DEF CancelRequest, CancelPublished, CancelUnstarted
  <2>3. ASSUME NEW p \in Callers, NEW t \in Task, NEW D \in DepChoices[t], NEW pr \in Priorities,
               AddTask(p, t, D, pr)
        PROVE  Same
    BY <2>3 DEF AddTask
  <2> QED BY <1>1, <2>1, <2>2, <2>3 DEF CallerStep
<1>2. ASSUME LoopStep \/ LoopEvent, ~LoopNotify PROVE Same
  BY <1>2 DEF LoopStep, LoopEvent, StartReadyDone, CheckCompletedAgents, Spawning, SpawnAsync,
              CheckCompletedDone, LoopCheck,
              StartTask, StartTaskFails, CommitReaped, LoopStopped, LoopReady, LoopTick, LoopDone
<1>3. ASSUME NEW p \in Procs, Invoke(p) \/ Drain(p) PROVE Same
  BY <1>3 DEF Invoke, Drain
<1>4. ASSUME NEW t \in Task, RunnerStep(t) PROVE Same
  BY <1>4 DEF RunnerStep, Finish, AgentFinish, Evict, Monitor, MonitorWait, MonitorWake, MonitorSend,
              MonitorStep
<1>5. ASSUME NEW p \in Procs, Publish(p) PROVE allCompleteFired' = allCompleteFired
  BY <1>5 DEF Publish
<1>6. ASSUME LoopNotify \/ \E p \in Procs : Notify(p) PROVE allCompleteFired => allCompleteFired'
  BY <1>6 DEF LoopNotify, Notify, NotifyAllComplete
<1>7. ASSUME UNCHANGED vars PROVE Same
  BY <1>7 DEF vars
<1> QED BY <1>1, <1>2, <1>3, <1>4, <1>5, <1>6, <1>7 DEF Next, Work, DeliveryStep

\* Every step keeps the invariant.
LEMMA NextNotify ==
  ASSUME CompleteInv, CompleteInv', NotifyInv, [Next]_vars
  PROVE  NotifyInv'
<1>0. /\ GraphInv /\ DeliveryInv /\ CompletionInv /\ TypeOK
      /\ sealed \in BOOLEAN /\ completionClosed \in BOOLEAN /\ allCompleteFired \in BOOLEAN
  BY DEF CompleteInv, GraphInv, TypeInv, TypeOK
<1>1. RunOver => RunOver'
  BY <1>0, RunOverStays
<1>2. ASSUME NEW p \in Procs, Drain(p), stage'[p] = "notify" PROVE RunOver'
  <2>1. /\ LastDrain(pendingCallbacks') /\ MuFree
        /\ UNCHANGED <<status, running, loopPc, sealed>>
    BY <1>0, <1>2 DEF Drain, graphVars, loopVars, doneVars, TypeOK
  <2>2. pendingCallbacks' = 0 /\ sealed /\ AllTasksTerminal
    BY <2>1 DEF LastDrain, CompletionReady
  <2>3. sealed' /\ AllTasksTerminal' /\ MuFree'
    BY <2>1, <2>2 DEF AllTasksTerminal, MuFree, Added
  <2>4. TypeOK' /\ DeliveryInv'
    BY DEF CompleteInv, GraphInv, TypeInv
  <2>5. NoBatchLeft'
    BY NothingLeft, PTL
  <2> QED BY <2>2, <2>3, <2>4, <2>5 DEF NoBatchLeft, RunOver
<1>3. \A p \in Procs : stage'[p] = "notify" => RunOver'
  BY <1>0, <1>1, <1>2, StageSteps DEF NotifyInv
<1>4. loopPc' = "notify" => RunOver'
  <2>1. ASSUME LoopCheck, IsAllComplete PROVE RunOver
    <3>1. loopPc = "check" /\ MuFree /\ sealed
      BY <1>0, <2>1 DEF LoopCheck, LoopAt, MuFree, CompletionInv
    <3> QED BY <1>0, <2>1, <3>1, NothingLeft DEF NoBatchLeft, RunOver, IsAllComplete
  <2> QED BY <1>0, <1>1, <2>1, LoopPlaces DEF NotifyInv
<1>5. ASSUME LoopNotify \/ \E p \in Procs : Notify(p) PROVE allCompleteFired'
  <2>1. RunOver /\ NotifyAllComplete
    BY <1>5 DEF NotifyInv, LoopNotify, Notify, LoopAt
  <2> QED BY <2>1 DEF NotifyAllComplete, RunOver, IsAllComplete
<1>6. allCompleteFired => allCompleteFired'
  BY <1>0, CloseSteps
<1>7. loopPc' = "exited" => stopped' \/ allCompleteFired'
  BY <1>0, <1>5, <1>6, LoopPlaces DEF NotifyInv
<1>8. sealed' => loopPc' # "off"
  BY <1>0, LoopPlaces DEF NotifyInv
<1>9. ASSUME completionClosed', ~allCompleteFired' PROVE \E p \in Procs : stage'[p] # "idle"
  <2>1. ~allCompleteFired
    BY <1>6, <1>9
  <2>2. CASE completionClosed
    <3>1. PICK p \in Procs : stage[p] # "idle"
      BY <2>1, <2>2 DEF NotifyInv
    <3>2. CASE stage'[p] # "idle"
      BY <3>2
    <3>3. ~Notify(p)
      BY <1>5, <1>9
    <3>4. CASE Drain(p) /\ stage'[p] = "idle"
      <4>1. pendingCallbacks' # 0
        <5>1. CompletionReady
          BY <1>0, <2>2 DEF CompletionInv, ReleasedIsTerminal, CompletionReady
        <5>2. ~LastDrain(pendingCallbacks')
          BY <1>0, <3>4 DEF Drain, TypeOK
        <5> QED BY <5>1, <5>2 DEF LastDrain
      <4>2. DeliveryInv'
        BY DEF CompleteInv
      <4>3. SomebodyDelivers'
        BY CountedIsDelivered, PTL
      <4>4. \E q \in Procs : Delivering(q)'
        BY <4>1, <4>2, <4>3 DEF SomebodyDelivers
      <4> QED BY <4>4 DEF Delivering
    <3> QED BY <1>0, <3>1, <3>2, <3>3, <3>4, StageSteps
  <2>3. CASE ~completionClosed
    <3>1. PICK p \in Procs : Publish(p)
      BY <1>0, <1>5, <1>9, <2>3, CloseSteps
    <3>2. stage'[p] = "invoke"
      BY <1>0, <3>1 DEF Publish, TypeOK
    <3> QED BY <3>2
  <2> QED BY <2>2, <2>3
<1> QED BY <1>3, <1>4, <1>7, <1>8, <1>9 DEF NotifyInv

\* In every state.
LEMMA NotifyInvariant == Spec => []NotifyInv
<1>1. Init => NotifyInv
  BY DEF Init, NotifyInv
<1> QED BY <1>1, NextNotify, CompleteInvariant, PTL DEF Spec

\* The safety half of RunCompletes, for any graph, any limits and any number of callers:
\* whatever the loop, the callers, the monitors and the evictions of the Runner do, no
\* slot waits for a result nobody will deliver, no blocked task for a dependency nobody
\* will run, and neither Wait nor onAllComplete for a goroutine that has left.
THEOREM CoordinatorNeverStuck == Spec => []NeverStuck
<1>1. Init => EarlierDeps
  BY DEF Init, EarlierDeps, Added
<1>2. Spec => []EarlierDeps
  BY <1>1, NextEarlierDeps, GraphInvariant, PTL DEF Spec
<1>3. GraphInv /\ EarlierDeps /\ MonitorInv /\ NotifyInv => NeverStuck
  BY SlotsComeBack, WorkRemains DEF NeverStuck, NotifyInv
<1> QED BY <1>2, <1>3, GraphInvariant, MonitorInvariant, NotifyInvariant, PTL
=============================================================================
