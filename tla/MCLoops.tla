------------------------------- MODULE MCLoops -------------------------------
(* Small instances of Loops for TLC.                                       *)
EXTENDS LoopSchedule

CONSTANTS p1, p2

TwoProcs == {p1, p2}
WorkDirs == [p \in Procs |-> IF p = p1 THEN "here" ELSE "there"]

None == {}
First == {1}
All == Loop
Unlimited == [l \in Loop |-> 0]
FirstCapped == [l \in Loop |-> IF l = 1 THEN 2 ELSE 0]
FirstThree == [l \in Loop |-> IF l = 1 THEN 3 ELSE 0]

AnySave == {"saved", "failed", "uncertain"}

\* Which of three uses of the files the behaviour is: one loop under everything its
\* user and its agent can do, two schedulers at once, or two that find a loop from
\* before loops had an owner.
VARIABLE use

\* One process, one loop from before loops had an owner.
Alone ==
  \/ StartUp(p1)
  \/ Exit(p1)
  \/ Scheduler(p1)
  \/ Cancel(p1)
  \/ Remove(p1, 1)
  \/ \E o \in SaveOutcomes : Pause(p1, 1, o) \/ Resume(p1, 1, o) \/ FireNow(p1, 1, o) \/ Stop(p1, 1, o)

\* Two processes over the same files, with the first loop never due: the others
\* are added and stopped, their iterations succeed, processes exit and start again.
Shared ==
  \E p \in Procs :
     \/ StartUp(p)
     \/ Exit(p)
     \/ \E l \in Loop \ {1} : \/ \E o \in {"saved", "failed"} : Add(p, l, o)
                              \/ \E o \in SaveOutcomes : Stop(p, l, o)
                              \/ BecomesDue(p, l)
     \/ Tick(p)
     \/ TickEmpty(p)
     \/ FireOne(p)
     \/ Spawn(p)
     \/ \E res \in Results : ~res.done /\ res.tokens = 0 /\ res.kind = "change" /\ SpawnReturns(p, res)
     \/ \E o \in {"saved", "failed"} : Record(p, o)

\* Both processes may find the first loop due.
Adoption ==
  \E p \in Procs :
     \/ StartUp(p)
     \/ Exit(p)
     \/ BecomesDue(p, 1)
     \/ Remove(p, 1)
     \/ \E o \in SaveOutcomes : Pause(p, 1, o) \/ Resume(p, 1, o) \/ Stop(p, 1, o)
     \/ Tick(p)
     \/ FireOne(p)

UseInit == Init /\ use \in {"alone", "shared", "adoption"}
UseNext == /\ \/ use = "alone" /\ Alone
              \/ use = "shared" /\ Shared
              \/ use = "adoption" /\ Adoption
           /\ UNCHANGED use
UseSpec == UseInit /\ [][UseNext]_<<vars, use>> /\ Fairness

\* Counts on both sides of zero, of the largest that fits a unit and of its
\* multiples, floors below and above the daily cap and beyond what a duration of
\* the instance holds, streaks beyond the shift.
SmallCounts == {-1, 0, 1, 4, 5, 6, 24, 25, 776, 777, 800, 1553, 1554, 18641, 18642, 24000}
SmallFloors == {0, 60, 300, 90000, 6710886, 6710887, 10000000}
SmallStreaks == -1 .. 70
=============================================================================
