---------------------------- MODULE LoopSchedule ----------------------------
(***************************************************************************)
(* The loops of Loops with the arithmetic of LoopTiming: what AppendIter-  *)
(* ation (loops/types.go) makes of the streak a loop has, of the floor its *)
(* user gave it and of the hint its model wrote.                           *)
(***************************************************************************)
EXTENDS Loops, LoopTiming

CONSTANTS Counts,    \* counts and durations a hint may hold
          Floors,    \* MinDelaySeconds or IntervalSeconds of a loop
          Streaks    \* streaks a loop file may hold

ASSUME ScheduleAssumption == Counts \union Floors \union Streaks \subseteq Int

\* Hints in both notations: whatever they say, the next run is within its
\* bounds (if the floor is a duration at all), and a longer one never means an
\* earlier run.
HintsSound ==
  \A floor \in Floors, n \in Counts, unit \in Units :
    /\ \A m \in Counts : HintMonotone(floor, n, m, unit)
    /\ \A streak \in Streaks : \A transient \in BOOLEAN :
         /\ DelayInBounds(floor, parseHumanDurationSeconds(n, unit), transient, streak)
         /\ DelayInBounds(floor, parsedDurationSeconds(n), transient, streak)

\* Also a streak no breaker would have let grow, from a file, only doubles the
\* backoff up to its cap.
StreaksSound == \A streak \in Streaks : BackoffDoubles(streak)

\* The streak a loop really has, with no hint: its backoff doubles with the next
\* transient failure, up to the cap, and its next run stays in bounds in both modes.
OwnStreakSound(streak) ==
  /\ BackoffDoubles(streak)
  /\ \A floor \in Floors : /\ DelayInBounds(floor, 0, streak > 0, streak)
                           /\ IntervalInBounds(floor, streak > 0, streak)

\* Whatever streak a loop has, its next run is never below its floor or interval
\* nor out of sight, as long as these fit a time.Duration; a longer hint never
\* means an earlier run, and every further transient failure doubles the backoff
\* until it is at its cap (AppendIteration, parseHumanDurationSeconds,
\* transientBackoffSeconds).
TimingSound ==
  /\ HintsSound
  /\ StreaksSound
  /\ \A p \in Procs, l \in Loop : OwnStreakSound(mem[p][l].transients)
=============================================================================
