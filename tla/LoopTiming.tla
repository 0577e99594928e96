----------------------------- MODULE LoopTiming -----------------------------
(***************************************************************************)
(* When a loop runs next: the arithmetic of AppendIteration (loops/        *)
(* types.go) that Loops abstracts to whether NextRunAt has passed.         *)
(*                                                                         *)
(* Hints, floors and streaks are seconds and counts; the next run is a     *)
(* time.Duration counted from LastRunAt.  The hint comes from the model's  *)
(* own words, the floor and the streak from a file, so all of them may be  *)
(* any number; the words are abstracted to what they are parsed to.        *)
(* Integers wrap like int64, whose largest value is the parameter IntMax,  *)
(* and Second is time.Second, 10^9: a small instance scales both down.     *)
(***************************************************************************)
EXTENDS Integers

CONSTANTS IntMax, Second

DefaultMinDelaySeconds == 300
MaxSelfPacedDelaySeconds == 24 * 60 * 60
transientBackoffBaseSeconds == 60
transientBackoffCapSeconds == 1800

\* 60 << 20 fits an int64, and so does a day in nanoseconds.
ASSUME WidthAssumption ==
  /\ IntMax \in Nat /\ IntMax > 62914560
  /\ Second \in Nat \ {0}
  /\ MaxSelfPacedDelaySeconds * Second <= IntMax

Later(a, b) == IF a < b THEN b ELSE a
Sooner(a, b) == IF a < b THEN a ELSE b

\* An int64 result in two's complement.
Wrapped(n) == ((n + IntMax + 1) % (2 * (IntMax + 1))) - (IntMax + 1)

\* 60 << 20 dwarfs the cap already; a larger shift would overflow.
Shift(streak) == Sooner(Later(streak, 1) - 1, 20)

\* The base shifted left by n bits: every bit doubles it.
ShiftedLeft[n \in 0 .. 20] ==
  IF n = 0 THEN transientBackoffBaseSeconds ELSE Wrapped(2 * ShiftedLeft[n - 1])

transientBackoffSeconds(streak) ==
  LET delay == ShiftedLeft[Shift(streak)]
  IN IF delay <= 0 \/ delay > transientBackoffCapSeconds THEN transientBackoffCapSeconds ELSE delay

-----------------------------------------------------------------------------
(* The hint: "1h30m" is parsed by the library to a number of seconds, "3    *)
(* days" to a count and a unit, anything else to nothing.                  *)

Units == {1, 60, 3600, 86400}

\* (variant: the product is taken without a look at its size)
parseHumanUnguarded(n, seconds) == IF n < 0 THEN 0 ELSE Wrapped(n * seconds)

parseHumanDurationSeconds(n, seconds) ==
  IF n < 0 THEN 0
  ELSE IF n > IntMax \div seconds THEN IntMax ELSE Wrapped(n * seconds)

\* Seconds that time.ParseDuration reports; a negative duration is no hint.
parsedDurationSeconds(d) == IF d < 0 THEN 0 ELSE d

\* time.Duration(seconds) * time.Second: a product that does not fit wraps.
AsDuration(seconds) == Wrapped(seconds * Second)

\* The floor of a loop; one that is not set is the default one.  Validate does
\* not bound it.
Floor(minDelay) == IF minDelay <= 0 THEN DefaultMinDelaySeconds ELSE minDelay

\* A hint longer than the floor counts up to a day.
SelfPacedDelay(minDelay, hinted) ==
  AsDuration(Later(Floor(minDelay), Sooner(hinted, MaxSelfPacedDelaySeconds)))

\* A loop with an interval, which is positive and as unbounded as the floor.
IntervalDelay(interval) == AsDuration(interval)

\* After a transient failure the later of the schedule and the backoff holds.
NextRunDelay(scheduled, transient, streak) ==
  IF transient /\ streak > 0
  THEN Later(scheduled, AsDuration(transientBackoffSeconds(streak))) ELSE scheduled

-----------------------------------------------------------------------------

\* A number of seconds that a time.Duration can hold (292 years).
Fits(seconds) == seconds * Second <= IntMax

\* What the delay of a self-paced loop may be, whatever the model says and
\* whatever the streak is: never below the floor and never so long that the
\* loop is silently dead, provided that the floor itself is a duration.
DelayInBounds(minDelay, hinted, transient, streak) ==
  LET floor == Floor(minDelay)
      delay == NextRunDelay(SelfPacedDelay(minDelay, hinted), transient, streak)
  IN Fits(minDelay) =>
       /\ floor * Second <= delay
       /\ delay <= Later(floor, MaxSelfPacedDelaySeconds) * Second

\* The same for a loop with an interval, which only a backoff moves.
IntervalInBounds(interval, transient, streak) ==
  LET delay == NextRunDelay(IntervalDelay(interval), transient, streak)
  IN interval > 0 /\ Fits(interval) =>
       /\ interval * Second <= delay
       /\ delay <= Later(interval, transientBackoffCapSeconds) * Second

\* Asking for more never gives less: also where the product no longer fits.
HintMonotone(minDelay, n, m, unit) ==
  n <= m => SelfPacedDelay(minDelay, parseHumanDurationSeconds(n, unit))
              <= SelfPacedDelay(minDelay, parseHumanDurationSeconds(m, unit))

\* Every further transient failure doubles the backoff until it is at its cap.
BackoffDoubles(streak) ==
  transientBackoffSeconds(streak + 1) =
    IF streak < 1 THEN transientBackoffBaseSeconds
    ELSE Sooner(2 * transientBackoffSeconds(streak), transientBackoffCapSeconds)

=============================================================================
