------------------------------ MODULE MCPlanRun ------------------------------
(* A small instance of PlanRun for TLC.                                    *)
EXTENDS PlanRun

Last == {NumSteps}
AllActions == {"start", "complete", "fail", "skip"}

\* Which of two uses of the plan the behaviour is: it may be replanned while it runs,
\* every save succeeds and only the orchestrator marks its steps; or saves fail and
\* steps are marked by hand too, and the plan keeps its steps.
VARIABLE use

ByHand == \E i \in Indices(plan), action \in ManualActions : UpdatePlanProgress(action, i)

Within == /\ use = "replanned" => failedSaves' = 0 /\ ~ByHand
          /\ use = "marked" => replans' = 0
          /\ UNCHANGED use

UseInit == Init /\ use \in {"replanned", "marked"}
UseNext == Next /\ Within
UseSpec == /\ UseInit
           /\ [][UseNext]_<<vars, use>>
           /\ WF_<<vars, use>>(Orchestrator /\ Within)
=============================================================================
