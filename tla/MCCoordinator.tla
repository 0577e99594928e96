---------------------------- MODULE MCCoordinator ----------------------------
(* Small instances of Coordinator for TLC.                                 *)
EXTENDS Coordinator

CONSTANTS c1, loop

OneCaller == {c1}
OnePriority == {5}

\* The first two tasks get every dependency list AddTask can be given, earlier
\* tasks and an unknown ID; the third makes chains, forks and joins of them.
Shapes == [t \in 1 .. NumTasks |-> IF t < 3 THEN SUBSET (0 .. t - 1) ELSE {{2}, {1, 2}}]

\* Two tasks under everything a user of the interface may do.
TwoTasks == 3 \notin Added /\ Next /\ 3 \notin Added'

\* Three tasks as the coordinate tool uses them: the whole graph is added before
\* Start and the limit stays; results are not evicted, running agents are not
\* asked to cancel, and the coordinator is not stopped.
Untouched == ~sealed /\ ~stopped /\ maxParallel = MaxLimit /\ \A t \in Added : status[t] # "failed"
WholeGraph ==
  \/ Untouched /\ \E p \in Callers, D \in DepChoices[3], pr \in Priorities : AddTask(p, 3, D, pr)
  \/ /\ 3 \in Added
     /\ \/ Start
        \/ sealed /\ \E p \in Callers, t \in Task : CancelPublished(p, t) \/ CancelUnstarted(p, t)
        \/ \E p \in Procs : DeliveryStep(p)
        \/ LoopStep
        \/ LoopEvent
        \/ \E t \in Task : Finish(t) \/ Monitor(t)

UseSpec == Init /\ [][TwoTasks \/ WholeGraph]_vars

\* The same use of the smallest graphs, with unknown dependencies left out, stopped
\* at any time, under fairness.
SmallShapes == [t \in 1 .. NumTasks |-> IF t = 1 THEN {{}} ELSE {{}, {1}}]
SmallGraph ==
  \/ Added = Task /\ Start
  \/ \E p \in Callers, t \in Task, pr \in Priorities :
       \E D \in DepChoices[t] : AddTask(p, t, D, pr)
  \/ sealed /\ \E p \in Callers, t \in Task : CancelPublished(p, t) \/ CancelUnstarted(p, t)
  \/ \E p \in Procs : DeliveryStep(p)
  \/ LoopStep
  \/ LoopEvent
  \/ \E t \in Task : Finish(t) \/ Monitor(t)
  \/ Stop
SmallGraphFairSpec == Init /\ [][SmallGraph]_vars /\ Fairness
=============================================================================
