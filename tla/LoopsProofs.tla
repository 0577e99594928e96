----------------------------- MODULE LoopsProofs -----------------------------
(***************************************************************************)
(* The safety properties of Loops for any number of loops and any limits.  *)
(*                                                                         *)
(* All of them hold for any number of processes on the same files and      *)
(* whatever becomes of a save.  BreakersHonest does because it is a prop-  *)
(* erty of the single record, and every record written is a record in      *)
(* memory changed by one of six operators.  EndStays and OwnerRespected do *)
(* because a step changes the records of a loop in one of four ways        *)
(* (Changes): a process loads or loses its copy, creates the loop, or      *)
(* writes what it makes of its own copy.  The timing is arithmetic, of     *)
(* integers of any width.                                                  *)
(***************************************************************************)
EXTENDS LoopSchedule, SelectionProofs, FiniteSetTheorems, TLAPS

\* What the operators that change a record keep.  A loop that may run again is
\* within its limits, and a reason belongs to a pause (or to the stop after it).
Within(rec, l) ==
  /\ rec.status = "running" =>
       /\ rec.reason = "none"
       /\ rec.fails < ConsecutiveFailureLimit
       /\ rec.transients < TransientFailureLimit
       /\ rec.noProgress < NoProgressLimit
  /\ rec.status \in {"running", "paused"} => ~Exhausted(rec, l)
  /\ rec.reason = "none" /\ rec.status = "paused" =>
       /\ rec.fails < ConsecutiveFailureLimit
       /\ rec.transients < TransientFailureLimit
       /\ rec.noProgress < NoProgressLimit
  /\ rec.reason # "none" =>
       /\ rec.status \in {"paused", "stopped"}
       /\ rec.reason = "failures" <=> rec.fails = ConsecutiveFailureLimit
       /\ rec.reason = "provider" => rec.transients = TransientFailureLimit
       /\ rec.reason \in {"tokenBudget", "noProgress"} => rec.transients < TransientFailureLimit
       /\ rec.reason = "tokenBudget" => OverTokenBudget(rec, l)
       /\ rec.reason = "noProgress" => rec.noProgress = NoProgressLimit

Fine(rec, l) == rec \in LoopRecord /\ Within(rec, l)

\* Every record, in memory or in a file, is fine.
RecordsFine ==
  /\ disk \in [Loop -> LoopRecord]
  /\ mem \in [Procs -> [Loop -> LoopRecord]]
  /\ \A l \in Loop : Within(disk[l], l)
  /\ \A p \in Procs, l \in Loop : Within(mem[p][l], l)

\* The types of the rest.
SchedulerTypeOK ==
  /\ added \subseteq Loop /\ up \subseteq Procs
  /\ due \in [Procs -> SUBSET Loop]
  /\ rotation \in [Procs -> 0 .. NumLoops]
  /\ flight \in [Procs -> [pc : {"none", "launched", "checked", "spawned", "returned", "selfStop"},
                           loop : 0 .. NumLoops, cancelled : BOOLEAN,
                           result : Results \union {NoResult}]]

\* An iteration in progress is one of a loop, and has a result once the agent ended.
FlightHasLoop ==
  \A p \in Procs :
     /\ flight[p].loop = 0 <=> flight[p].pc = "none"
     /\ flight[p].pc = "returned" => flight[p].result \in Results

LoopsInv == RecordsFine /\ SchedulerTypeOK /\ FlightHasLoop

-----------------------------------------------------------------------------
(* Records *)

\* The constants, one by one.
LEMMA Limits ==
  /\ ConsecutiveFailureLimit \in Nat \ {0}
  /\ TransientFailureLimit \in Nat \ {0}
  /\ NoProgressLimit \in Nat \ {0}
  /\ NumLoops \in Nat
  /\ \A l \in Loop : MaxIterations[l] \in Nat /\ MaxTotalTokens[l] \in Nat
  BY LoopsAssumption

\* What a save may do.
LEMMA Outcomes == SaveOutcomes \subseteq {"saved", "failed", "uncertain"}
  BY LoopsAssumption

\* A new loop is within its limits, which are not zero.
LEMMA NewIsFine ==
  ASSUME NEW l \in Loop
  PROVE  /\ Fine(NoLoop, l)
         /\ Fine(NewLoop(Unowned), l)
         /\ \A p \in Procs : Fine(NewLoop(WorkDir[p]), l)
<1>1. NoLoop \in LoopRecord
  BY Limits DEF NoLoop, LoopRecord, Ended
<1>2. NewLoop(Unowned) \in LoopRecord
  BY <1>1 DEF NewLoop, LoopRecord
<1>3. ASSUME NEW p \in Procs
      PROVE  NewLoop(WorkDir[p]) \in LoopRecord
  BY <1>1 DEF NewLoop, LoopRecord
<1>4. Within(NoLoop, l)
  BY DEF NoLoop, Within
<1>5. \A o : Within(NewLoop(o), l)
  BY Limits DEF NoLoop, NewLoop, Within, Exhausted
<1> QED
  BY <1>1, <1>2, <1>3, <1>4, <1>5 DEF Fine

\* The operators of the commands: pause, resume, stop, adopt.
LEMMA CommandsKeepFine ==
  ASSUME NEW l \in Loop, NEW rec, Fine(rec, l)
  PROVE  /\ rec.status = "running" => Fine([rec EXCEPT !.status = "paused"], l)
         /\ rec.status = "paused" => Fine(Resumed(rec), l)
         /\ Fine(Stopped(rec), l)
         /\ \A p \in Procs : Fine([rec EXCEPT !.owner = WorkDir[p]], l)
<1>1. rec.status = "running" => Fine([rec EXCEPT !.status = "paused"], l)
  BY DEF Fine, LoopRecord, Within, Exhausted, OverTokenBudget
<1>2. rec.status = "paused" => Fine(Resumed(rec), l)
  <2> SUFFICES ASSUME rec.status = "paused"
               PROVE  Fine(Resumed(rec), l)
    OBVIOUS
  <2>0. /\ 0 \in 0 .. ConsecutiveFailureLimit /\ 0 \in 0 .. TransientFailureLimit
        /\ 0 \in 0 .. NoProgressLimit
    BY Limits
  <2>1. Resumed(rec) \in LoopRecord
    <3>1. rec \in LoopRecord
      BY DEF Fine
    <3> QED
      BY <2>0, <3>1 DEF LoopRecord, Resumed
  <2>2. /\ Resumed(rec).status = "running" /\ Resumed(rec).reason = "none"
        /\ Resumed(rec).fails = 0 /\ Resumed(rec).transients = 0
        /\ Resumed(rec).noProgress = 0 /\ Resumed(rec).count = rec.count
    BY DEF Fine, LoopRecord, Resumed
  <2>3. ~Exhausted(Resumed(rec), l)
    BY <2>2 DEF Exhausted, Fine, Within
  <2> QED
    BY <2>1, <2>2, <2>3, Limits DEF Fine, Within
<1>3. Fine(Stopped(rec), l)
  <2>1. CASE rec.status \in Ended
    BY <2>1 DEF Stopped
  <2>2. CASE rec.status \notin Ended
    <3>1. Stopped(rec) = [rec EXCEPT !.status = "stopped"]
      BY <2>2 DEF Stopped
    <3>2. [rec EXCEPT !.status = "stopped"] \in LoopRecord
      BY DEF Fine, LoopRecord, Ended
    <3> QED
      BY <3>1, <3>2 DEF Fine, LoopRecord, Within, OverTokenBudget
  <2> QED
    BY <2>1, <2>2
<1>4. ASSUME NEW p \in Procs
      PROVE  Fine([rec EXCEPT !.owner = WorkDir[p]], l)
  BY DEF Fine, LoopRecord, Within, Exhausted, OverTokenBudget
<1> QED
  BY <1>1, <1>2, <1>3, <1>4

\* The accounting of a recorded iteration.
LEMMA AppendKeepsFine ==
  ASSUME NEW l \in Loop, NEW rec, Fine(rec, l), rec.status = "running", NEW res \in Results
  PROVE  Fine(Appended(rec, l, res), l)
<1> DEFINE new == Counted(rec, l, res)
<1>1. /\ new \in LoopRecord /\ new.status = "running" /\ new.reason = "none"
  <2>1. res.tokens \in 0 .. 1
    BY DEF Results
  <2>2. /\ Toward(rec.count + 1, MaxIterations[l]) \in Nat
        /\ Toward(rec.spent + res.tokens, MaxTotalTokens[l]) \in Nat
    BY <2>1, Limits DEF Fine, LoopRecord, Toward
  <2> DEFINE fails == CASE res.kind = "failure" -> rec.fails + 1
                        [] res.kind = "transient" -> rec.fails
                        [] OTHER -> 0
             transients == IF res.kind = "transient" THEN rec.transients + 1 ELSE 0
             noProgress == CASE res.kind = "change" /\ l \notin Monitors -> 0
                             [] res.kind = "noChange" /\ l \notin Monitors -> rec.noProgress + 1
                             [] OTHER -> rec.noProgress
  <2>3. new = [rec EXCEPT !.count = Toward(rec.count + 1, MaxIterations[l]),
                          !.spent = Toward(rec.spent + res.tokens, MaxTotalTokens[l]),
                          !.fails = fails, !.transients = transients, !.noProgress = noProgress]
    BY DEF Fine, LoopRecord, Counted
  <2>4. /\ rec.fails + 1 \in 0 .. ConsecutiveFailureLimit
        /\ rec.transients + 1 \in 0 .. TransientFailureLimit
        /\ rec.noProgress + 1 \in 0 .. NoProgressLimit
        /\ rec.reason = "none"
    BY Limits DEF Fine, LoopRecord, Within
  <2>5. /\ fails \in 0 .. ConsecutiveFailureLimit
        /\ transients \in 0 .. TransientFailureLimit
        /\ noProgress \in 0 .. NoProgressLimit
    BY <2>4, Limits DEF Fine, LoopRecord
  <2> HIDE DEF fails, transients, noProgress, new
  <2> QED
    BY <2>2, <2>3, <2>4, <2>5 DEF Fine, LoopRecord
<1> HIDE DEF new
<1>2. CASE Exhausted(new, l)
  <2>1. Appended(rec, l, res) = [new EXCEPT !.status = "completed"]
    BY <1>2 DEF Appended, new
  <2>2. [new EXCEPT !.status = "completed"] \in LoopRecord
    BY <1>1 DEF LoopRecord, Ended
  <2> QED
    BY <1>1, <2>1, <2>2 DEF Fine, LoopRecord, Within
<1>3. CASE ~Exhausted(new, l) /\ Breaker(new, l) # "none"
  <2>1. Appended(rec, l, res) = [new EXCEPT !.status = "paused", !.reason = Breaker(new, l)]
    BY <1>3 DEF Appended, new
  <2>2. Breaker(new, l) \in {"failures", "provider", "tokenBudget", "noProgress"}
    BY <1>3 DEF Breaker
  <2> DEFINE final == Appended(rec, l, res)
  <2>3. /\ final \in LoopRecord /\ final.status = "paused" /\ final.reason = Breaker(new, l)
        /\ final.fails = new.fails /\ final.transients = new.transients
        /\ final.noProgress = new.noProgress
        /\ final.count = new.count /\ final.spent = new.spent
    BY <1>1, <2>1, <2>2 DEF LoopRecord
  <2>4. /\ new.fails \in 0 .. ConsecutiveFailureLimit
        /\ new.transients \in 0 .. TransientFailureLimit
        /\ new.noProgress \in 0 .. NoProgressLimit
    BY <1>1 DEF LoopRecord
  <2>5. ~Exhausted(final, l) /\ (OverTokenBudget(final, l) <=> OverTokenBudget(new, l))
    BY <1>3, <2>3 DEF Exhausted, OverTokenBudget
  <2> HIDE DEF final
  <2> QED
    BY <2>2, <2>3, <2>4, <2>5, Limits DEF final, Fine, Within, Breaker
<1>4. CASE ~Exhausted(new, l) /\ Breaker(new, l) = "none"
  <2>1. Appended(rec, l, res) = new
    BY <1>4 DEF Appended, new
  <2> QED
    BY <1>1, <1>4, <2>1, Limits
    DEF Fine, LoopRecord, Within, Exhausted, OverTokenBudget, Breaker
<1> QED
  BY <1>2, <1>3, <1>4

-----------------------------------------------------------------------------
(* Steps *)

\* The invariant after a step, from the records after it.
LEMMA FineAfter ==
  ASSUME disk' \in [Loop -> LoopRecord], mem' \in [Procs -> [Loop -> LoopRecord]],
         \A k \in Loop : Within(disk'[k], k),
         \A q \in Procs, k \in Loop : Within(mem'[q][k], k)
  PROVE  RecordsFine'
<1>1. \A k \in Loop : Within(disk[k], k)' <=> Within(disk'[k], k)
  BY DEF Within, Exhausted, OverTokenBudget
<1>2. \A q \in Procs, k \in Loop : Within(mem[q][k], k)' <=> Within(mem'[q][k], k)
  BY DEF Within, Exhausted, OverTokenBudget
<1> QED
  BY <1>1, <1>2 DEF RecordsFine

\* Saving a record that is fine keeps all of them fine, however the save goes.
LEMMA SaveKeepsFine ==
  ASSUME RecordsFine, NEW p \in Procs, NEW l \in Loop, NEW rec, Fine(rec, l), NEW o,
         Save(p, l, rec, o)
  PROVE  RecordsFine'
<1>1. disk' \in [Loop -> LoopRecord] /\ \A k \in Loop : Within(disk'[k], k)
  BY DEF Save, Stored, RecordsFine, Fine
<1>2. mem' \in [Procs -> [Loop -> LoopRecord]]
  BY DEF Save, Remembered, RecordsFine, Fine
<1>3. \A q \in Procs, k \in Loop : mem'[q][k] = mem[q][k] \/ (k = l /\ mem'[q][k] = rec)
  BY DEF Save, Remembered, RecordsFine
<1>4. \A q \in Procs, k \in Loop : Within(mem'[q][k], k)
  BY <1>3 DEF RecordsFine, Fine
<1> QED
  BY <1>1, <1>2, <1>4, FineAfter

\* A record of the process that is about to be changed.
LEMMA MemFine ==
  ASSUME RecordsFine, NEW p \in Procs, NEW l \in Loop
  PROVE  Fine(mem[p][l], l) /\ Fine(disk[l], l)
  BY DEF RecordsFine, Fine

\* What a scan does: it adopts unowned loops (written: in the files, kept: in memory
\* too) and may launch a loop of this workspace.
Adopts(p, written, kept) ==
  /\ kept \subseteq written
  /\ \A l \in written : mem[p][l].owner = Unowned
  /\ disk' = [l \in Loop |-> IF l \in written THEN Adopted(p, l) ELSE disk[l]]
  /\ mem' = [mem EXCEPT ![p] = [l \in Loop |-> IF l \in kept THEN Adopted(p, l) ELSE mem[p][l]]]

Launches(p, kept, l) ==
  /\ l \in kept \/ mem[p][l].owner = WorkDir[p]
  /\ rotation' = [rotation EXCEPT ![p] = Rotated(Index(p, l))]
  /\ flight' = [flight EXCEPT ![p] = [NoFlight EXCEPT !.pc = "launched", !.loop = l]]

\* The scan of tick adopts, and launches or not.
LEMMA TickEffect ==
  ASSUME RecordsFine, SchedulerTypeOK, NEW p \in Procs, Tick(p)
  PROVE  /\ p \in up /\ flight[p].pc = "none" /\ UNCHANGED <<added, up, due>>
         /\ \E written, kept \in SUBSET Active(p) :
              /\ Adopts(p, written, kept)
              /\ UNCHANGED <<rotation, flight>> \/ \E l \in Active(p) : Launches(p, kept, l)
<1> DEFINE found == Active(p) \intersect due[p]
           orphans == {l \in found : Orphan(p, l)}
           adopted(o) == {l \in orphans : o[l] = "saved"}
           mine(o) == adopted(o) \union {l \in found \ orphans : Owns(p, l)}
           first(o) == {l \in mine(o) : \A k \in mine(o) : Distance(p, l) <= Distance(p, k)}
           seen(o) == {l \in orphans : \A f \in first(o) : Distance(p, l) <= Distance(p, f)}
<1>1. PICK o \in [orphans -> SaveOutcomes] :
        /\ disk' = [l \in Loop |-> IF l \in seen(o) /\ o[l] # "failed" THEN Adopted(p, l) ELSE disk[l]]
        /\ mem' = [mem EXCEPT ![p] = [l \in Loop |->
                     IF l \in seen(o) \intersect adopted(o) THEN Adopted(p, l) ELSE mem[p][l]]]
        /\ \/ \E l \in first(o) :
                /\ rotation' = [rotation EXCEPT ![p] = Rotated(Index(p, l))]
                /\ flight' = [flight EXCEPT ![p] = [NoFlight EXCEPT !.pc = "launched", !.loop = l]]
           \/ seen(o) # {} /\ UNCHANGED <<rotation, flight>>
  BY DEF Tick
<1> DEFINE written == {l \in seen(o) : o[l] # "failed"}
           kept == seen(o) \intersect adopted(o)
<1>2. /\ kept \subseteq written /\ written \in SUBSET Active(p) /\ kept \in SUBSET Active(p)
      /\ \A l \in written : mem[p][l].owner = Unowned
  BY DEF Orphan
<1>4. disk' = [l \in Loop |-> IF l \in written THEN Adopted(p, l) ELSE disk[l]]
  BY <1>1
<1>5. ASSUME NEW l \in first(o)
      PROVE  l \in Active(p) /\ (l \in kept \/ mem[p][l].owner = WorkDir[p])
  BY DEF Owns
<1>6. p \in up /\ flight[p].pc = "none" /\ UNCHANGED <<added, up, due>>
  BY DEF Tick
<1>7. Adopts(p, written, kept)
  <2> HIDE DEF written
  <2> QED
    BY <1>1, <1>2, <1>4 DEF Adopts
<1>8. UNCHANGED <<rotation, flight>> \/ \E l \in Active(p) : Launches(p, kept, l)
  <2> HIDE DEF first, kept
  <2> QED
    BY <1>1, <1>5 DEF Launches
<1> HIDE DEF written, kept
<1> QED
  BY <1>2, <1>6, <1>7, <1>8

\* Whatever a step writes is fine.
LEMMA RecordsStep ==
  ASSUME LoopsInv, [Next]_vars
  PROVE  RecordsFine'
<1> USE DEF LoopsInv
<1>0. ASSUME UNCHANGED <<disk, mem>>
      PROVE  RecordsFine'
  BY <1>0 DEF RecordsFine, Within, Exhausted, OverTokenBudget
<1>1. ASSUME UNCHANGED vars
      PROVE  RecordsFine'
  BY <1>0, <1>1 DEF vars
<1>2. ASSUME NEW p \in Procs, StartUp(p)
      PROVE  RecordsFine'
  <2>1. /\ disk' = disk /\ mem' \in [Procs -> [Loop -> LoopRecord]]
        /\ \A q \in Procs, k \in Loop : mem'[q][k] \in {mem[q][k], disk[k]}
    BY <1>2 DEF StartUp, RecordsFine
  <2> QED
    BY <2>1 DEF RecordsFine, Within, Exhausted, OverTokenBudget
<1>3. ASSUME NEW p \in Procs, Exit(p)
      PROVE  RecordsFine'
  <2>1. \A k \in Loop : Fine(NoLoop, k)
    BY NewIsFine
  <2>2. /\ disk' = disk /\ mem' \in [Procs -> [Loop -> LoopRecord]]
        /\ \A q \in Procs, k \in Loop : mem'[q][k] \in {mem[q][k], NoLoop}
    <3>1. [k \in Loop |-> NoLoop] \in [Loop -> LoopRecord]
      BY <2>1 DEF Fine
    <3> QED
      BY <1>3, <3>1 DEF Exit, RecordsFine
  <2> QED
    BY <2>1, <2>2 DEF RecordsFine, Fine, Within, Exhausted, OverTokenBudget
<1>4. ASSUME NEW p \in Procs, NEW l \in Loop, NEW o \in SaveOutcomes,
             Add(p, l, o) \/ Pause(p, l, o) \/ Resume(p, l, o) \/ FireNow(p, l, o) \/ Stop(p, l, o)
      PROVE  RecordsFine'
  <2>1. PICK rec : Fine(rec, l) /\ Save(p, l, rec, o)
    <3>1. CASE Add(p, l, o)
      BY <3>1, NewIsFine DEF Add
    <3>2. CASE Pause(p, l, o)
      BY <3>2, MemFine, CommandsKeepFine DEF Pause
    <3>3. CASE Resume(p, l, o)
      BY <3>3, MemFine, CommandsKeepFine DEF Resume
    <3>4. CASE FireNow(p, l, o)
      BY <3>4, MemFine DEF FireNow
    <3>5. CASE Stop(p, l, o)
      BY <3>5, MemFine, CommandsKeepFine DEF Stop
    <3> QED
      BY <1>4, <3>1, <3>2, <3>3, <3>4, <3>5
  <2> QED
    BY <2>1, SaveKeepsFine
<1>5. ASSUME NEW p \in Procs, NEW l \in Loop, Remove(p, l)
      PROVE  RecordsFine'
  <2>1. Save(p, l, NoLoop, "saved")
    BY <1>5 DEF Remove, Save, Stored, Remembered
  <2> QED
    BY <2>1, NewIsFine, SaveKeepsFine
<1>6. ASSUME NEW p \in Procs, Tick(p)
      PROVE  RecordsFine'
  <2>1. PICK written \in SUBSET Active(p), kept \in SUBSET Active(p) :
          Adopts(p, written, kept)
    BY <1>6, TickEffect
  <2>2. \A l \in Loop : Fine(Adopted(p, l), l)
    BY MemFine, CommandsKeepFine DEF Adopted
  <2>3. disk' \in [Loop -> LoopRecord] /\ \A k \in Loop : disk'[k] \in {disk[k], Adopted(p, k)}
    BY <2>1, <2>2 DEF RecordsFine, Fine, Adopts
  <2>4. /\ mem' \in [Procs -> [Loop -> LoopRecord]]
        /\ \A q \in Procs, k \in Loop : mem'[q][k] \in {mem[q][k], Adopted(p, k)}
    <3>1. [l \in Loop |-> IF l \in kept THEN Adopted(p, l) ELSE mem[p][l]] \in [Loop -> LoopRecord]
      BY <2>2 DEF RecordsFine, Fine
    <3> QED
      BY <2>1, <3>1 DEF RecordsFine, Adopts
  <2>5. \A k \in Loop : Within(disk'[k], k)
    BY <2>2, <2>3 DEF RecordsFine, Fine
  <2>6. \A q \in Procs, k \in Loop : Within(mem'[q][k], k)
    BY <2>2, <2>4 DEF RecordsFine, Fine
  <2> QED
    BY <2>3, <2>4, <2>5, <2>6, FineAfter
<1>7. ASSUME NEW p \in Procs, NEW o \in SaveOutcomes, Record(p, o) \/ SelfStop(p, o)
      PROVE  RecordsFine'
  <2> DEFINE l == flight[p].loop
  <2>1. CASE UNCHANGED <<disk, mem>>
    BY <1>0, <2>1
  <2>2. CASE ~UNCHANGED <<disk, mem>>
    <3>1. l \in Loop
      BY <1>7 DEF Record, SelfStop, FlightHasLoop, SchedulerTypeOK, Loop
    <3>2. PICK rec : Fine(rec, l) /\ Save(p, l, rec, o)
      <4>1. CASE Record(p, o)
        <5>1. /\ mem[p][l].status = "running" /\ flight[p].pc = "returned"
              /\ Save(p, l, Appended(mem[p][l], l, flight[p].result), o)
          BY <4>1, <2>2 DEF Record, Recordable
        <5>2. flight[p].result \in Results
          BY <5>1 DEF FlightHasLoop
        <5> QED
          BY <3>1, <5>1, <5>2, MemFine, AppendKeepsFine
      <4>2. CASE SelfStop(p, o)
        BY <2>2, <3>1, <4>2, MemFine, CommandsKeepFine DEF SelfStop
      <4> QED
        BY <1>7, <4>1, <4>2
    <3> QED
      BY <3>1, <3>2, SaveKeepsFine
  <2> QED
    BY <2>1, <2>2
<1>8. ASSUME NEW p \in Procs,
             \/ Cancel(p) \/ TickEmpty(p) \/ FireOne(p) \/ Spawn(p)
             \/ \E l \in Loop : BecomesDue(p, l)
             \/ \E res \in Results : SpawnReturns(p, res)
      PROVE  RecordsFine'
  BY <1>0, <1>8 DEF Cancel, TickEmpty, FireOne, Spawn, BecomesDue, SpawnReturns, fileVars
<1> QED
  BY <1>1, <1>2, <1>3, <1>4, <1>5, <1>6, <1>7, <1>8 DEF Next, Command, Scheduler, Iteration

\* The position of a loop among the running ones.
LEMMA IndexBound ==
  ASSUME NEW p \in Procs, NEW l \in Loop
  PROVE  Index(p, l) + 1 \in 0 .. NumLoops
<1> DEFINE before == {k \in Active(p) : k < l}
<1>1. before \subseteq 1 .. l - 1
  BY Limits DEF Active, Loop
<1>2. IsFiniteSet(1 .. l - 1) /\ Cardinality(1 .. l - 1) = l - 1
  BY Limits, FS_Interval DEF Loop
<1>3. IsFiniteSet(before) /\ Cardinality(before) <= l - 1 /\ Cardinality(before) \in Nat
  BY <1>1, <1>2, FS_Subset, FS_CardinalityType
<1> QED
  BY <1>3, Limits DEF Index, Loop

\* The scheduler keeps its types, and an iteration in progress its loop.
LEMMA SchedulerStep ==
  ASSUME LoopsInv, [Next]_vars
  PROVE  SchedulerTypeOK' /\ FlightHasLoop'
<1> USE DEF LoopsInv
<1> DEFINE Flights == [pc : {"none", "launched", "checked", "spawned", "returned", "selfStop"},
                       loop : 0 .. NumLoops, cancelled : BOOLEAN, result : Results \union {NoResult}]
<1>0. NoFlight \in Flights /\ NoFlight.loop = 0 /\ NoFlight.pc = "none"
  BY Limits DEF NoFlight, NoResult
<1>1. ASSUME UNCHANGED flight
      PROVE  FlightHasLoop'
  BY <1>1 DEF FlightHasLoop
<1>2. ASSUME NEW p \in Procs, NEW f \in Flights, flight' = [flight EXCEPT ![p] = f],
             f.loop = 0 <=> f.pc = "none", f.pc = "returned" => f.result \in Results
      PROVE  FlightHasLoop' /\ flight' \in [Procs -> Flights]
  BY <1>2 DEF FlightHasLoop, SchedulerTypeOK
<1>3. CASE UNCHANGED vars
  BY <1>1, <1>3 DEF vars, SchedulerTypeOK
<1>4. ASSUME NEW p \in Procs, StartUp(p) \/ Exit(p)
      PROVE  SchedulerTypeOK' /\ FlightHasLoop'
  <2>1. CASE StartUp(p)
    BY <1>1, <2>1 DEF StartUp, SchedulerTypeOK
  <2>2. CASE Exit(p)
    <3>1. FlightHasLoop' /\ flight' \in [Procs -> Flights]
      BY <1>0, <1>2, <2>2 DEF Exit
    <3>2. /\ added' \subseteq Loop /\ up' \subseteq Procs /\ due' \in [Procs -> SUBSET Loop]
          /\ rotation' \in [Procs -> 0 .. NumLoops]
      BY <2>2, Limits DEF Exit, SchedulerTypeOK
    <3> QED
      BY <3>1, <3>2 DEF SchedulerTypeOK
  <2> QED
    BY <1>4, <2>1, <2>2
<1>5. ASSUME NEW p \in Procs, NEW l \in Loop, NEW o,
             Add(p, l, o) \/ Pause(p, l, o) \/ Resume(p, l, o) \/ FireNow(p, l, o) \/ Remove(p, l)
      PROVE  SchedulerTypeOK' /\ FlightHasLoop'
  <2>1. UNCHANGED <<up, rotation, flight>> /\ added' \subseteq Loop
    BY <1>5 DEF Add, Pause, Resume, FireNow, Remove, procVars, SchedulerTypeOK
  <2>2. due' \in [Procs -> SUBSET Loop]
    BY <1>5 DEF Add, Pause, Resume, FireNow, Remove, Armed, procVars, SchedulerTypeOK
  <2> QED
    BY <1>1, <2>1, <2>2 DEF SchedulerTypeOK
<1>6. ASSUME NEW p \in Procs, NEW o,
             \/ \E l \in Loop : Stop(p, l, o)
             \/ Cancel(p) \/ FireOne(p) \/ Spawn(p) \/ SelfStop(p, o) \/ Record(p, o)
             \/ \E res \in Results : SpawnReturns(p, res)
      PROVE  SchedulerTypeOK' /\ FlightHasLoop'
  <2>1. /\ UNCHANGED <<added, up, rotation>>
        /\ due' \in [Procs -> SUBSET Loop]
    BY <1>6 DEF Stop, Cancel, FireOne, Spawn, SelfStop, Record, SpawnReturns, fileVars, SchedulerTypeOK
  <2>2. FlightHasLoop' /\ flight' \in [Procs -> Flights]
    <3>0. flight[p] \in Flights
      BY DEF SchedulerTypeOK
    <3>1. CASE UNCHANGED flight
      BY <1>1, <3>1 DEF SchedulerTypeOK
    <3>2. CASE flight' = [flight EXCEPT ![p] = NoFlight]
      BY <1>0, <1>2, <3>2
    <3>3. CASE flight' = [flight EXCEPT ![p].cancelled = TRUE]
      <4> DEFINE f == [flight[p] EXCEPT !.cancelled = TRUE]
      <4>1. /\ f \in Flights /\ flight' = [flight EXCEPT ![p] = f]
            /\ f.loop = flight[p].loop /\ f.pc = flight[p].pc /\ f.result = flight[p].result
        BY <3>0, <3>3
      <4> HIDE DEF f
      <4> QED
        BY <1>2, <4>1 DEF FlightHasLoop
    <3>4. CASE \E pc \in {"checked", "spawned", "selfStop"} :
                  flight' = [flight EXCEPT ![p].pc = pc] /\ flight[p].pc # "none"
      <4>1. PICK pc \in {"checked", "spawned", "selfStop"} :
                  flight' = [flight EXCEPT ![p].pc = pc] /\ flight[p].pc # "none"
        BY <3>4
      <4> DEFINE f == [flight[p] EXCEPT !.pc = pc]
      <4>2. /\ f \in Flights /\ flight' = [flight EXCEPT ![p] = f]
            /\ f.loop = flight[p].loop /\ f.pc = pc
        BY <3>0, <4>1
      <4> HIDE DEF f
      <4> QED
        BY <1>2, <4>1, <4>2 DEF FlightHasLoop
    <3>5. CASE \E res \in Results : SpawnReturns(p, res)
      <4>1. PICK res \in Results : SpawnReturns(p, res)
        BY <3>5
      <4> DEFINE f == [flight[p] EXCEPT !.pc = "returned", !.result = res]
      <4>2. /\ f \in Flights /\ flight' = [flight EXCEPT ![p] = f]
            /\ f.loop = flight[p].loop /\ f.pc = "returned" /\ f.result = res
        BY <3>0, <4>1 DEF SpawnReturns, SchedulerTypeOK
      <4> HIDE DEF f
      <4> QED
        BY <1>2, <4>1, <4>2 DEF FlightHasLoop, SpawnReturns
    <3> QED
      BY <1>6, <3>1, <3>2, <3>3, <3>4, <3>5
      DEF Stop, Cancel, FireOne, Spawn, SelfStop, Record, SchedulerTypeOK
  <2> QED
    BY <2>1, <2>2 DEF SchedulerTypeOK
<1>7. ASSUME NEW p \in Procs, Tick(p)
      PROVE  SchedulerTypeOK' /\ FlightHasLoop'
  <2>1. UNCHANGED <<added, up, due>>
    BY <1>7, TickEffect
  <2>2. UNCHANGED <<rotation, flight>> \/ \E l \in Active(p) : \E kept : Launches(p, kept, l)
    BY <1>7, TickEffect
  <2>3. CASE UNCHANGED <<rotation, flight>>
    BY <1>1, <2>1, <2>3 DEF SchedulerTypeOK
  <2>4. ASSUME NEW l \in Active(p), NEW kept, Launches(p, kept, l)
        PROVE  SchedulerTypeOK' /\ FlightHasLoop'
    <3> DEFINE f == [NoFlight EXCEPT !.pc = "launched", !.loop = l]
    <3>1. l \in Loop /\ l \in 0 .. NumLoops
      BY Limits DEF Active, Loop
    <3>2. f \in Flights /\ f.loop = l /\ f.pc = "launched"
      BY <1>0, <3>1
    <3>3. FlightHasLoop' /\ flight' \in [Procs -> Flights]
      <4> HIDE DEF f
      <4>1. flight' = [flight EXCEPT ![p] = f]
        BY <2>4 DEF Launches, f
      <4>2. f.loop # 0
        BY <3>1, <3>2, Limits DEF Loop
      <4> QED
        BY <1>2, <3>2, <4>1, <4>2
    <3>4. rotation' \in [Procs -> 0 .. NumLoops]
      BY <2>4, <3>1, IndexBound DEF Launches, Rotated, SchedulerTypeOK
    <3> QED
      BY <2>1, <3>3, <3>4 DEF SchedulerTypeOK
  <2> QED
    BY <2>2, <2>3, <2>4
<1>8. ASSUME NEW p \in Procs, TickEmpty(p) \/ \E l \in Loop : BecomesDue(p, l)
      PROVE  SchedulerTypeOK' /\ FlightHasLoop'
  BY <1>1, <1>8, Limits DEF TickEmpty, BecomesDue, fileVars, SchedulerTypeOK
<1> QED
  BY <1>3, <1>4, <1>5, <1>6, <1>7, <1>8 DEF Next, Command, Scheduler, Iteration

\* The invariant of the records and of the scheduler.
LEMMA LoopsInvariant == Spec => []LoopsInv
<1>1. Init => LoopsInv
  <2> SUFFICES ASSUME Init
               PROVE  LoopsInv
    OBVIOUS
  <2>1. disk \in [Loop -> LoopRecord] /\ \A k \in Loop : disk[k] \in {NoLoop, NewLoop(Unowned)}
    BY NewIsFine DEF Init, Fine
  <2>2. mem \in [Procs -> [Loop -> LoopRecord]] /\ \A q \in Procs, k \in Loop : mem[q][k] = NoLoop
    BY NewIsFine DEF Init, Fine
  <2>3. RecordsFine
    BY <2>1, <2>2, NewIsFine DEF RecordsFine, Fine
  <2>4. /\ SchedulerTypeOK
    BY LoopsAssumption, Limits DEF Init, SchedulerTypeOK, NoFlight, NoResult
  <2>5. FlightHasLoop
    BY DEF Init, FlightHasLoop, NoFlight
  <2> QED
    BY <2>3, <2>4, <2>5 DEF LoopsInv
<1>2. LoopsInv /\ [Next]_vars => LoopsInv'
  BY RecordsStep, SchedulerStep DEF LoopsInv
<1> QED
  BY <1>1, <1>2, PTL DEF Spec

\* BreakersHonest: whatever becomes of a save, and with any number of processes on
\* the same files, no streak passes its limit, none is at its limit in a loop that
\* runs, and every pause names the breaker that made it (Manager.AppendIteration).
THEOREM BreakersAlwaysHonest == Spec => []BreakersHonest
<1>1. LoopsInv => BreakersHonest
  <2> SUFFICES ASSUME LoopsInv
               PROVE  BreakersHonest
    OBVIOUS
  <2>1. LoopsTypeOK
    BY DEF LoopsInv, RecordsFine, SchedulerTypeOK, LoopsTypeOK
  <2>2. RunningWithinLimits
    BY DEF LoopsInv, RecordsFine, Within, RunningWithinLimits, Active
  <2>3. PauseReasonHonest
    <3> SUFFICES ASSUME NEW p \in Procs, NEW l \in Loop
                 PROVE  LET rec == mem[p][l]
                            atLimit == [failures |-> rec.fails = ConsecutiveFailureLimit,
                                        provider |-> rec.transients = TransientFailureLimit,
                                        tokenBudget |-> OverTokenBudget(rec, l),
                                        noProgress |-> rec.noProgress = NoProgressLimit]
                        IN IF rec.reason = "none"
                           THEN rec.status = "paused" =>
                                  ~atLimit.failures /\ ~atLimit.provider /\ ~atLimit.noProgress
                           ELSE /\ rec.status \in {"paused", "stopped"}
                                /\ atLimit[rec.reason]
                                /\ rec.reason # "failures" => ~atLimit.failures
                                /\ rec.reason \notin {"failures", "provider"} => ~atLimit.provider
      BY DEF PauseReasonHonest
    <3> DEFINE rec == mem[p][l]
               atLimit == [failures |-> rec.fails = ConsecutiveFailureLimit,
                           provider |-> rec.transients = TransientFailureLimit,
                           tokenBudget |-> OverTokenBudget(rec, l),
                           noProgress |-> rec.noProgress = NoProgressLimit]
    <3>1. Within(rec, l) /\ rec \in LoopRecord
      BY DEF LoopsInv, RecordsFine
    <3>2. /\ atLimit.failures = (rec.fails = ConsecutiveFailureLimit)
          /\ atLimit.provider = (rec.transients = TransientFailureLimit)
          /\ atLimit.tokenBudget = OverTokenBudget(rec, l)
          /\ atLimit.noProgress = (rec.noProgress = NoProgressLimit)
      OBVIOUS
    <3>3. rec.reason \in {"none", "failures", "provider", "tokenBudget", "noProgress"}
      BY <3>1 DEF LoopRecord
    <3>4. /\ rec.fails \in Nat /\ rec.transients \in Nat /\ rec.noProgress \in Nat
      BY <3>1, Limits DEF LoopRecord
    <3> HIDE DEF rec, atLimit
    <3>5. CASE rec.reason = "none"
      <4>1. rec.status = "paused" => /\ rec.fails # ConsecutiveFailureLimit
                                     /\ rec.transients # TransientFailureLimit
                                     /\ rec.noProgress # NoProgressLimit
        BY <3>1, <3>4, <3>5, Limits DEF Within
      <4> QED
        BY <3>2, <3>5, <4>1 DEF rec, atLimit
    <3>6. CASE rec.reason # "none"
      <4>1. /\ rec.status \in {"paused", "stopped"}
            /\ rec.reason # "failures" => rec.fails # ConsecutiveFailureLimit
            /\ rec.reason \notin {"failures", "provider"} => rec.transients # TransientFailureLimit
        BY <3>1, <3>3, <3>4, <3>6, Limits DEF Within
      <4>2. atLimit[rec.reason]
        BY <3>1, <3>2, <3>3, <3>6 DEF Within
      <4> QED
        BY <3>2, <3>6, <4>1, <4>2 DEF rec, atLimit
    <3> QED
      BY <3>5, <3>6
  <2> QED
    BY <2>1, <2>2, <2>3 DEF BreakersHonest
<1> QED
  BY <1>1, LoopsInvariant, PTL
-----------------------------------------------------------------------------
(* Ends and owners                                                         *)

\* A process that does not run holds no loops and has no iteration in progress.
DownIsEmpty ==
  \A p \in Procs \ up : /\ \A l \in Loop : mem[p][l].status = "none"
                        /\ flight[p].pc = "none"

\* The process that acts runs, or starts.
LEMMA ActorIsUp ==
  ASSUME DownIsEmpty, NEW p \in Procs
  PROVE  /\ \A l \in Loop : mem[p][l].status # "none" => p \in up
         /\ flight[p].pc # "none" => p \in up
  BY DEF DownIsEmpty

\* What may become of the records of loop l, in its file and in the memories: nothing,
\* a process loads or loses its copy, the loop is created, or
Same(l) == disk'[l] = disk[l] /\ \A p \in Procs : mem'[p][l] = mem[p][l]
OnlyIn(p, l) == \A q \in Procs \ {p} : mem'[q][l] = mem[q][l]
Loads(p, l) == p \notin up /\ disk'[l] = disk[l] /\ mem'[p][l] = disk[l]
Loses(p, l) == p \notin up' /\ disk'[l] = disk[l] /\ mem'[p][l] = NoLoop
Creates(p, l) ==
  /\ p \in up /\ l \notin added /\ l \in added'
  /\ disk'[l] = NewLoop(WorkDir[p]) /\ mem'[p][l] \in {mem[p][l], NewLoop(WorkDir[p])}

\* a process that runs and holds the loop writes a record made from its own copy:
\* one of an ended loop is not open, and one of an owned loop has the same owner.
\* It is on file before it is in memory.
MadeFrom(rec, copy) ==
  /\ Over(copy) => rec.status \in {copy.status, "none"}
  /\ rec.status # "none" /\ copy.owner # Unowned => rec.owner = copy.owner
Writes(p, l, rec) ==
  /\ p \in up /\ p \in up'
  /\ mem[p][l].status # "none" /\ MadeFrom(rec, mem[p][l])
  /\ disk'[l] \in {disk[l], rec}
  /\ mem'[p][l] = mem[p][l] \/ (mem'[p][l] = rec /\ disk'[l] = rec)

Changes(l) ==
  \/ Same(l)
  \/ \E p \in Procs : OnlyIn(p, l) /\ (Loads(p, l) \/ Loses(p, l) \/ Creates(p, l) \/ \E rec : Writes(p, l, rec))

\* The records the commands and the accounting make.
LEMMA RecordsMade ==
  ASSUME NEW rec \in LoopRecord
  PROVE  /\ MadeFrom(rec, rec)
         /\ MadeFrom(NoLoop, rec)
         /\ rec.status = "running" => MadeFrom([rec EXCEPT !.status = "paused"], rec)
         /\ rec.status = "paused" => MadeFrom(Resumed(rec), rec)
         /\ rec.status # "none" => MadeFrom(Stopped(rec), rec)
         /\ \A l \in Loop, res \in Results : rec.status = "running" => MadeFrom(Appended(rec, l, res), rec)
         /\ \A w : rec.status = "running" /\ rec.owner = Unowned => MadeFrom([rec EXCEPT !.owner = w], rec)
<1>1. ASSUME NEW l \in Loop, NEW res \in Results
      PROVE  Appended(rec, l, res).owner = rec.owner
  <2> DEFINE new == Counted(rec, l, res)
  <2>1. new.owner = rec.owner
    BY DEF Counted, LoopRecord
  <2>2. DOMAIN new = DOMAIN rec
    BY DEF Counted, LoopRecord
  <2>3. Appended(rec, l, res).owner = new.owner
    <3>1. DOMAIN rec = {"status", "owner", "count", "spent", "fails", "transients",
                        "noProgress", "reason"}
      BY DEF LoopRecord
    <3> HIDE DEF new
    <3>2. \A v : [new EXCEPT !.status = v].owner = new.owner
      BY <2>2, <3>1
    <3>3. \A v, w : [new EXCEPT !.status = v, !.reason = w].owner = new.owner
      BY <2>2, <3>1
    <3> QED
      BY <3>2, <3>3 DEF Appended, new
  <2> QED
    BY <2>1, <2>3
<1>2. MadeFrom(rec, rec) /\ MadeFrom(NoLoop, rec)
  BY DEF MadeFrom, NoLoop
<1>3. rec.status = "running" => MadeFrom([rec EXCEPT !.status = "paused"], rec)
  BY DEF MadeFrom, Over, Ended, LoopRecord
<1>4. rec.status = "paused" => MadeFrom(Resumed(rec), rec)
  BY DEF MadeFrom, Over, Ended, LoopRecord, Resumed
<1>5. rec.status # "none" => MadeFrom(Stopped(rec), rec)
  <2>1. CASE rec.status \in Ended
    BY <2>1 DEF MadeFrom, Stopped
  <2>2. CASE rec.status \notin Ended \union {"none"}
    BY <2>2 DEF MadeFrom, Stopped, Over, LoopRecord
  <2> QED
    BY <2>1, <2>2
<1>6. ASSUME NEW l \in Loop, NEW res \in Results, rec.status = "running"
      PROVE  MadeFrom(Appended(rec, l, res), rec)
  BY <1>1, <1>6 DEF MadeFrom, Over, Ended
<1>7. \A w : rec.status = "running" /\ rec.owner = Unowned => MadeFrom([rec EXCEPT !.owner = w], rec)
  BY DEF MadeFrom, Over, Ended, LoopRecord
<1> QED
  BY <1>2, <1>3, <1>4, <1>5, <1>6, <1>7

\* A save by a process that holds the loop, however it goes.
LEMMA SaveChanges ==
  ASSUME LoopsInv, NEW p \in Procs, p \in up, up' = up, NEW k \in Loop, NEW rec, NEW o,
         Save(p, k, rec, o), mem[p][k].status # "none", MadeFrom(rec, mem[p][k]), NEW l \in Loop
  PROVE  Changes(l)
<1>1. /\ \A q \in Procs \ {p} : mem'[q][l] = mem[q][l]
      /\ l # k => disk'[l] = disk[l] /\ mem'[p][l] = mem[p][l]
      /\ l = k => /\ disk'[l] \in {disk[l], rec}
                  /\ mem'[p][l] = mem[p][l] \/ (mem'[p][l] = rec /\ disk'[l] = rec)
  BY DEF Save, Stored, Remembered, LoopsInv, RecordsFine
<1>2. CASE l = k
  <2>1. Writes(p, l, rec)
    BY <1>1, <1>2 DEF Writes
  <2> QED
    BY <1>1, <2>1 DEF Changes, OnlyIn
<1>3. CASE l # k
  BY <1>1, <1>3 DEF Changes, Same
<1> QED
  BY <1>2, <1>3

\* Every step is one of these changes to every loop.
LEMMA StepChanges ==
  ASSUME LoopsInv, DownIsEmpty, [Next]_vars, NEW l \in Loop
  PROVE  Changes(l)
<1> USE DEF LoopsInv
<1>0. ASSUME UNCHANGED <<disk, mem>> PROVE Changes(l)
  BY <1>0 DEF Changes, Same
<1>1. CASE UNCHANGED vars
  BY <1>0, <1>1 DEF vars
<1>2. ASSUME NEW p \in Procs, StartUp(p) PROVE Changes(l)
  <2>1. OnlyIn(p, l) /\ Loads(p, l)
    BY <1>2 DEF StartUp, OnlyIn, Loads, RecordsFine
  <2> QED
    BY <2>1 DEF Changes
<1>3. ASSUME NEW p \in Procs, Exit(p) PROVE Changes(l)
  <2>1. OnlyIn(p, l) /\ Loses(p, l)
    BY <1>3 DEF Exit, OnlyIn, Loses, RecordsFine
  <2> QED
    BY <2>1 DEF Changes
<1>4. ASSUME NEW p \in Procs, NEW k \in Loop, NEW o \in SaveOutcomes, Add(p, k, o) PROVE Changes(l)
  <2>1. CASE l # k \/ o = "failed"
    BY <1>4, <2>1 DEF Add, Save, Stored, Remembered, RecordsFine, Changes, Same
  <2>2. CASE l = k /\ o # "failed"
    <3>1. OnlyIn(p, l) /\ Creates(p, l)
      BY <1>4, <2>2 DEF Add, Save, Stored, Remembered, RecordsFine, OnlyIn, Creates
    <3> QED
      BY <3>1 DEF Changes
  <2> QED
    BY <2>1, <2>2
<1>5. ASSUME NEW p \in Procs, NEW k \in Loop, NEW o \in SaveOutcomes,
             Pause(p, k, o) \/ Resume(p, k, o) \/ FireNow(p, k, o) \/ Stop(p, k, o)
      PROVE  Changes(l)
  <2>1. mem[p][k].status # "none" /\ p \in up /\ up' = up /\ mem[p][k] \in LoopRecord
    BY <1>5, ActorIsUp DEF Pause, Resume, FireNow, Stop, procVars, RecordsFine
  <2>2. \E rec : Save(p, k, rec, o) /\ MadeFrom(rec, mem[p][k])
    BY <1>5, <2>1, RecordsMade DEF Pause, Resume, FireNow, Stop
  <2> QED
    BY <2>1, <2>2, SaveChanges
<1>6. ASSUME NEW p \in Procs, NEW k \in Loop, Remove(p, k) PROVE Changes(l)
  <2>1. mem[p][k].status # "none" /\ p \in up /\ up' = up /\ mem[p][k] \in LoopRecord
    BY <1>6, ActorIsUp DEF Remove, procVars, RecordsFine
  <2>2. Save(p, k, NoLoop, "saved") /\ MadeFrom(NoLoop, mem[p][k])
    BY <1>6, <2>1, RecordsMade DEF Remove, Save, Stored, Remembered
  <2> QED
    BY <2>1, <2>2, SaveChanges
<1>7. ASSUME NEW p \in Procs, Tick(p) PROVE Changes(l)
  <2>1. p \in up /\ up' = up
    BY <1>7, TickEffect
  <2>2. PICK written \in SUBSET Active(p), kept \in SUBSET Active(p) : Adopts(p, written, kept)
    BY <1>7, TickEffect
  <2>3. /\ \A q \in Procs \ {p} : mem'[q][l] = mem[q][l]
        /\ disk'[l] = IF l \in written THEN Adopted(p, l) ELSE disk[l]
        /\ mem'[p][l] = IF l \in kept THEN Adopted(p, l) ELSE mem[p][l]
        /\ kept \subseteq written
    BY <2>2 DEF Adopts, RecordsFine
  <2>4. CASE l \notin written
    BY <2>3, <2>4 DEF Changes, Same
  <2>5. CASE l \in written
    <3>1. mem[p][l].status = "running" /\ mem[p][l].owner = Unowned /\ mem[p][l] \in LoopRecord
      BY <2>2, <2>5 DEF Adopts, Active, RecordsFine
    <3>2. MadeFrom(Adopted(p, l), mem[p][l])
      BY <3>1, RecordsMade DEF Adopted
    <3>3. Writes(p, l, Adopted(p, l))
      BY <2>1, <2>3, <2>5, <3>1, <3>2 DEF Writes
    <3> QED
      BY <2>3, <3>3 DEF Changes, OnlyIn
  <2> QED
    BY <2>4, <2>5
<1>8. ASSUME NEW p \in Procs, NEW o \in SaveOutcomes, Record(p, o) \/ SelfStop(p, o) PROVE Changes(l)
  <2> DEFINE k == flight[p].loop
  <2>1. flight[p].pc # "none"
    BY <1>8 DEF Record, SelfStop
  <2>2. p \in up /\ k \in Loop /\ up' = up
    BY <1>8, <2>1, ActorIsUp DEF Record, SelfStop, FlightHasLoop, SchedulerTypeOK, Loop
  <2>3. CASE UNCHANGED <<disk, mem>>
    BY <1>0, <2>3
  <2>4. CASE ~UNCHANGED <<disk, mem>>
    <3>1. mem[p][k] \in LoopRecord
      BY <2>2 DEF RecordsFine
    <3>2. \E rec : Save(p, k, rec, o) /\ mem[p][k].status # "none" /\ MadeFrom(rec, mem[p][k])
      <4>1. CASE Record(p, o)
        <5>1. /\ mem[p][k].status = "running" /\ flight[p].pc = "returned"
              /\ Save(p, k, Appended(mem[p][k], k, flight[p].result), o)
          BY <2>4, <4>1 DEF Record, Recordable
        <5>2. flight[p].result \in Results
          BY <5>1 DEF FlightHasLoop
        <5>3. MadeFrom(Appended(mem[p][k], k, flight[p].result), mem[p][k])
          BY <2>2, <3>1, <5>1, <5>2, RecordsMade
        <5> QED
          BY <5>1, <5>3
      <4>2. CASE SelfStop(p, o)
        BY <2>4, <3>1, <4>2, RecordsMade DEF SelfStop
      <4> QED
        BY <1>8, <4>1, <4>2
    <3> QED
      BY <2>2, <3>2, SaveChanges
  <2> QED
    BY <2>3, <2>4
<1>9. ASSUME NEW p \in Procs,
             \/ Cancel(p) \/ TickEmpty(p) \/ FireOne(p) \/ Spawn(p)
             \/ \E k \in Loop : BecomesDue(p, k)
             \/ \E res \in Results : SpawnReturns(p, res)
      PROVE  Changes(l)
  <2>1. UNCHANGED <<disk, mem>>
    BY <1>9 DEF Cancel, TickEmpty, FireOne, Spawn, BecomesDue, SpawnReturns, fileVars
  <2> QED
    BY <1>0, <2>1
<1> QED
  BY <1>1, <1>2, <1>3, <1>4, <1>5, <1>6, <1>7, <1>8, <1>9 DEF Next, Command, Scheduler, Iteration

\* Only a process that runs, or ends, has its memory or its iteration changed.
LEMMA DownStep ==
  ASSUME LoopsInv, DownIsEmpty, [Next]_vars
  PROVE  DownIsEmpty'
<1> USE DEF LoopsInv
<1>1. ASSUME NEW q \in Procs, q \in up, up' = up,
             \A p \in Procs \ {q} : mem'[p] = mem[p] /\ flight'[p] = flight[p]
      PROVE  DownIsEmpty'
  BY <1>1 DEF DownIsEmpty
<1>2. CASE UNCHANGED vars
  BY <1>2 DEF vars, DownIsEmpty
<1>3. ASSUME NEW q \in Procs, StartUp(q) PROVE DownIsEmpty'
  <2>1. up' = up \union {q} /\ flight' = flight /\ \A p \in Procs \ {q} : mem'[p] = mem[p]
    BY <1>3 DEF StartUp, RecordsFine
  <2> QED
    BY <2>1 DEF DownIsEmpty
<1>4. ASSUME NEW q \in Procs, Exit(q) PROVE DownIsEmpty'
  <2>1. /\ up' = up \ {q}
        /\ mem'[q] = [l \in Loop |-> NoLoop] /\ flight'[q] = NoFlight
        /\ \A p \in Procs \ {q} : mem'[p] = mem[p] /\ flight'[p] = flight[p]
    BY <1>4 DEF Exit, RecordsFine, SchedulerTypeOK
  <2>2. NoFlight.pc = "none" /\ NoLoop.status = "none"
    BY DEF NoFlight, NoLoop
  <2> QED
    BY <2>1, <2>2 DEF DownIsEmpty
<1>5. ASSUME NEW q \in Procs, NEW l \in Loop, NEW o \in SaveOutcomes,
             Add(q, l, o) \/ Pause(q, l, o) \/ Resume(q, l, o) \/ FireNow(q, l, o)
      PROVE  DownIsEmpty'
  <2>1. q \in up /\ up' = up /\ flight' = flight
    BY <1>5, ActorIsUp DEF Add, Pause, Resume, FireNow, procVars
  <2>2. PICK rec : Save(q, l, rec, o)
    BY <1>5 DEF Add, Pause, Resume, FireNow
  <2>3. \A p \in Procs \ {q} : mem'[p] = mem[p]
    BY <2>2 DEF Save, Remembered, RecordsFine
  <2> QED
    BY <1>1, <2>1, <2>3
<1>6. ASSUME NEW q \in Procs, NEW l \in Loop, NEW o \in SaveOutcomes, Stop(q, l, o)
      PROVE  DownIsEmpty'
  <2>1. q \in up /\ up' = up /\ Save(q, l, Stopped(mem[q][l]), o)
    BY <1>6, ActorIsUp DEF Stop
  <2>2. \A p \in Procs \ {q} : mem'[p] = mem[p]
    BY <2>1 DEF Save, Remembered, RecordsFine
  <2>3. \A p \in Procs \ {q} : flight'[p] = flight[p]
    BY <1>6 DEF Stop, SchedulerTypeOK
  <2> QED
    BY <1>1, <2>1, <2>2, <2>3
<1>7. ASSUME NEW q \in Procs, NEW l \in Loop, Remove(q, l) PROVE DownIsEmpty'
  <2>1. q \in up /\ up' = up /\ flight' = flight
    BY <1>7, ActorIsUp DEF Remove, procVars
  <2>2. \A p \in Procs \ {q} : mem'[p] = mem[p]
    BY <1>7 DEF Remove, RecordsFine
  <2> QED
    BY <1>1, <2>1, <2>2
<1>8. ASSUME NEW q \in Procs, Tick(q) PROVE DownIsEmpty'
  <2>1. q \in up /\ up' = up
    BY <1>8, TickEffect
  <2>2. PICK written, kept \in SUBSET Active(q) :
          /\ Adopts(q, written, kept)
          /\ UNCHANGED <<rotation, flight>> \/ \E l \in Active(q) : Launches(q, kept, l)
    BY <1>8, TickEffect
  <2>3. \A p \in Procs \ {q} : mem'[p] = mem[p]
    BY <2>2 DEF Adopts, RecordsFine
  <2>4. \A p \in Procs \ {q} : flight'[p] = flight[p]
    BY <2>2 DEF Launches, SchedulerTypeOK
  <2> QED
    BY <1>1, <2>1, <2>3, <2>4
<1>9. ASSUME NEW q \in Procs, NEW o \in SaveOutcomes, Record(q, o) \/ SelfStop(q, o)
      PROVE  DownIsEmpty'
  <2>1. flight[q].pc # "none" /\ up' = up
    BY <1>9 DEF Record, SelfStop
  <2>2. q \in up
    BY <2>1, ActorIsUp
  <2>3. mem' = mem \/ \E l, rec : mem' = [mem EXCEPT ![q][l] = rec]
    BY <1>9 DEF Record, SelfStop, Save, Remembered
  <2>4. \A p \in Procs \ {q} : mem'[p] = mem[p]
    BY <2>3 DEF RecordsFine
  <2>5. \A p \in Procs \ {q} : flight'[p] = flight[p]
    BY <1>9 DEF Record, SelfStop, SchedulerTypeOK
  <2> QED
    BY <1>1, <2>1, <2>2, <2>4, <2>5
<1>10. ASSUME NEW q \in Procs,
              Cancel(q) \/ FireOne(q) \/ Spawn(q) \/ \E res \in Results : SpawnReturns(q, res)
       PROVE  DownIsEmpty'
  <2>1. flight[q].pc # "none" /\ up' = up /\ mem' = mem
    BY <1>10 DEF Cancel, Cancellable, FireOne, Spawn, SpawnReturns
  <2>2. q \in up
    BY <2>1, ActorIsUp
  <2>3. \A p \in Procs \ {q} : flight'[p] = flight[p]
    BY <1>10 DEF Cancel, FireOne, Spawn, SpawnReturns, SchedulerTypeOK
  <2> QED
    BY <1>1, <2>1, <2>2, <2>3
<1>11. ASSUME NEW q \in Procs, TickEmpty(q) \/ \E l \in Loop : BecomesDue(q, l)
       PROVE  DownIsEmpty'
  BY <1>11 DEF TickEmpty, BecomesDue, DownIsEmpty
<1> QED
  BY <1>2, <1>3, <1>4, <1>5, <1>6, <1>7, <1>8, <1>9, <1>10, <1>11
     DEF Next, Command, Scheduler, Iteration

\* A process that does not run has nothing to write.
LEMMA DownAlwaysEmpty == Spec => [](LoopsInv /\ DownIsEmpty)
<1>1. Init => DownIsEmpty
  BY DEF Init, DownIsEmpty, NoLoop, NoFlight
<1>2. LoopsInv /\ DownIsEmpty /\ [Next]_vars => DownIsEmpty'
  BY DownStep
<1> QED
  BY <1>1, <1>2, LoopsInvariant, PTL DEF Spec

\* EndStays, with any number of processes on the files and whatever becomes of a
\* save: the end of a loop is on file before its process has it in memory, that
\* process never takes it back, and only a process that still holds the loop open
\* writes it open again (Manager.Stop, Remove and RecordIteration, which work on the
\* copy of their own process).
THEOREM EndedLoopsStay == Spec => EndStays
<1> DEFINE Kept(l) ==
      /\ \A p \in up \intersect up' :
           /\ Over(mem[p][l]) => mem'[p][l].status \in {mem[p][l].status, "none"}
           /\ ~Over(mem[p][l]) /\ Over(mem'[p][l]) => disk'[l] = mem'[p][l]
      /\ Over(disk[l]) /\ ~Over(disk'[l]) => \E p \in up : ~Over(mem[p][l])
<1>1. ASSUME LoopsInv, DownIsEmpty, [Next]_vars, NEW l \in added
      PROVE  Kept(l)
  <2>1. l \in Loop /\ up \subseteq Procs
    BY <1>1 DEF LoopsInv, SchedulerTypeOK
  <2>2. Changes(l)
    BY <1>1, <2>1, StepChanges
  <2>3. CASE Same(l)
    BY <2>1, <2>3 DEF Same
  <2>4. ASSUME NEW q \in Procs, OnlyIn(q, l), Loads(q, l) \/ Loses(q, l) PROVE Kept(l)
    BY <2>1, <2>4 DEF OnlyIn, Loads, Loses
  <2>5. ASSUME NEW q \in Procs, Creates(q, l) PROVE Kept(l)
    BY <1>1, <2>5 DEF Creates
  <2>6. ASSUME NEW q \in Procs, NEW rec, OnlyIn(q, l), Writes(q, l, rec) PROVE Kept(l)
    <3>1. Over(mem[q][l]) => rec.status \in {mem[q][l].status, "none"}
      BY <2>6 DEF Writes, MadeFrom
    <3>2. \A p \in up \intersect up' :
            /\ Over(mem[p][l]) => mem'[p][l].status \in {mem[p][l].status, "none"}
            /\ ~Over(mem[p][l]) /\ Over(mem'[p][l]) => disk'[l] = mem'[p][l]
      BY <2>1, <2>6, <3>1 DEF Writes, OnlyIn
    <3>3. Over(disk[l]) /\ ~Over(disk'[l]) => \E p \in up : ~Over(mem[p][l])
      BY <2>6, <3>1 DEF Writes, Over
    <3> QED
      BY <3>2, <3>3
  <2> QED
    BY <2>2, <2>3, <2>4, <2>5, <2>6 DEF Changes
<1>2. LoopsInv /\ DownIsEmpty /\ [Next]_vars => [\A l \in added : Kept(l)]_vars
  BY <1>1
<1> QED
  BY <1>2, DownAlwaysEmpty, PTL DEF Spec, EndStays

\* Only loops that were created have records, and all the copies of one that was not
\* written before loops had an owner name the same one.
Real(rec) == rec.status # "none"
OwnerInv ==
  \A l \in Loop :
    /\ Real(disk[l]) \/ (\E p \in Procs : Real(mem[p][l])) => l \in added
    /\ l \notin Legacy =>
         /\ Real(disk[l]) => disk[l].owner # Unowned
         /\ \A p \in Procs : Real(mem[p][l]) => mem[p][l].owner # Unowned
         /\ \A p \in Procs : Real(mem[p][l]) /\ Real(disk[l]) => mem[p][l].owner = disk[l].owner
         /\ \A p, q \in Procs : Real(mem[p][l]) /\ Real(mem[q][l]) => mem[p][l].owner = mem[q][l].owner

\* What was created stays so.
LEMMA AddedGrows ==
  ASSUME [Next]_vars
  PROVE  added \subseteq added'
<1>1. ASSUME NEW p \in Procs, NEW l \in Loop, NEW o \in SaveOutcomes, Add(p, l, o)
      PROVE  added \subseteq added'
  BY <1>1 DEF Add
<1>2. ASSUME NEW p \in Procs, NEW l \in Loop, NEW o \in SaveOutcomes,
             Pause(p, l, o) \/ Resume(p, l, o) \/ FireNow(p, l, o) \/ Stop(p, l, o) \/ Remove(p, l)
      PROVE  added' = added
  BY <1>2 DEF Pause, Resume, FireNow, Stop, Remove
<1>3. ASSUME NEW p \in Procs, NEW l \in Loop, Remove(p, l)
      PROVE  added' = added
  BY <1>3 DEF Remove
<1>4. ASSUME NEW p \in Procs, StartUp(p) \/ Exit(p) \/ Cancel(p) \/ Scheduler(p)
      PROVE  added' = added
  BY <1>4 DEF StartUp, Exit, Cancel, Scheduler, Tick, TickEmpty, BecomesDue, Iteration, FireOne,
              Spawn, SpawnReturns, Record, SelfStop, fileVars
<1>5. CASE UNCHANGED vars
  BY <1>5 DEF vars
<1> QED
  BY <1>1, <1>2, <1>3, <1>4, <1>5 DEF Next, Command

\* The owner of a loop is settled when it is created.
LEMMA OwnerStep ==
  ASSUME LoopsInv, DownIsEmpty, OwnerInv, [Next]_vars
  PROVE  OwnerInv'
<1> DEFINE Good(l) ==
      /\ Real(disk'[l]) \/ (\E p \in Procs : Real(mem'[p][l])) => l \in added'
      /\ l \notin Legacy =>
           /\ Real(disk'[l]) => disk'[l].owner # Unowned
           /\ \A p \in Procs : Real(mem'[p][l]) => mem'[p][l].owner # Unowned
           /\ \A p \in Procs : Real(mem'[p][l]) /\ Real(disk'[l]) => mem'[p][l].owner = disk'[l].owner
           /\ \A p, q \in Procs : Real(mem'[p][l]) /\ Real(mem'[q][l]) => mem'[p][l].owner = mem'[q][l].owner
<1>1. SUFFICES ASSUME NEW l \in Loop PROVE Good(l)
  BY DEF OwnerInv, Real
<1>2. added \subseteq added' /\ Changes(l)
  BY AddedGrows, StepChanges
<1>3. CASE Same(l)
  BY <1>2, <1>3 DEF Same, OwnerInv, Real
<1>4. ASSUME NEW q \in Procs, OnlyIn(q, l), Loads(q, l) PROVE Good(l)
  BY <1>2, <1>4 DEF OnlyIn, Loads, OwnerInv, Real
<1>5. ASSUME NEW q \in Procs, OnlyIn(q, l), Loses(q, l) PROVE Good(l)
  <2>1. ~Real(mem'[q][l])
    BY <1>5 DEF Loses, Real, NoLoop
  <2> QED
    BY <1>2, <1>5, <2>1 DEF OnlyIn, Loses, OwnerInv, Real
<1>6. ASSUME NEW q \in Procs, OnlyIn(q, l), Creates(q, l) PROVE Good(l)
  <2>1. /\ l \in added' /\ ~Real(disk[l]) /\ \A p \in Procs : ~Real(mem[p][l])
    BY <1>6 DEF Creates, OwnerInv
  <2>2. NewLoop(WorkDir[q]).owner = WorkDir[q] /\ WorkDir[q] # Unowned
    BY LoopsAssumption DEF NewLoop, NoLoop
  <2>3. \A p \in Procs : Real(mem'[p][l]) => mem'[p][l] = NewLoop(WorkDir[q])
    BY <1>6, <2>1 DEF Creates, OnlyIn
  <2>4. disk'[l] = NewLoop(WorkDir[q])
    BY <1>6 DEF Creates
  <2> HIDE DEF Real
  <2> QED
    BY <2>1, <2>2, <2>3, <2>4
<1>7. ASSUME NEW q \in Procs, NEW rec, OnlyIn(q, l), Writes(q, l, rec) PROVE Good(l)
  <2>1. /\ l \in added' /\ Real(mem[q][l])
        /\ disk'[l] \in {disk[l], rec} /\ mem'[q][l] \in {mem[q][l], rec}
    BY <1>2, <1>7 DEF Writes, OwnerInv, Real
  <2>2. CASE l \in Legacy
    BY <2>1, <2>2
  <2>3. CASE l \notin Legacy
    <3> DEFINE w == mem[q][l].owner
    <3>1. w # Unowned /\ (Real(disk[l]) => disk[l].owner = w)
          /\ \A p \in Procs : Real(mem[p][l]) => mem[p][l].owner = w
      BY <2>1, <2>3 DEF OwnerInv
    <3>2. Real(rec) => rec.owner = w
      BY <1>7, <3>1 DEF Writes, MadeFrom, Real
    <3>3. \A p \in Procs : mem'[p][l] \in {mem[p][l], rec}
      BY <1>7, <2>1 DEF OnlyIn
    <3> HIDE DEF w, Real
    <3>4. /\ Real(disk'[l]) => disk'[l].owner = w
          /\ \A p \in Procs : Real(mem'[p][l]) => mem'[p][l].owner = w
      BY <2>1, <3>1, <3>2, <3>3
    <3> QED
      BY <2>1, <3>1, <3>4
  <2> QED
    BY <2>2, <2>3
<1> QED
  BY <1>2, <1>3, <1>4, <1>5, <1>6, <1>7 DEF Changes

\* OwnerRespected, with any number of processes and workspaces and whatever becomes
\* of a save: a process never replaces an owner that it knows, and the owner on file
\* is replaced only for a loop from before ownership, by a process whose copy does
\* not name it (Manager.AdoptWorkspace and every later save of that copy).
THEOREM OwnersAlwaysRespected == Spec => OwnerRespected
<1> DEFINE Kept(l) ==
      /\ \A p \in up \intersect up' :
           Owned(mem[p][l]) /\ mem'[p][l].status # "none" => mem'[p][l].owner = mem[p][l].owner
      /\ Owned(disk[l]) /\ disk'[l].status # "none" /\ disk'[l].owner # disk[l].owner =>
           l \in Legacy /\ \E p \in up : mem[p][l].status # "none" /\ mem[p][l].owner # disk[l].owner
<1>1. ASSUME LoopsInv, DownIsEmpty, OwnerInv, [Next]_vars, NEW l \in Loop
      PROVE  Kept(l)
  <2>1. up \subseteq Procs
    BY <1>1 DEF LoopsInv, SchedulerTypeOK
  <2>2. Changes(l)
    BY <1>1, StepChanges
  <2>3. CASE Same(l)
    BY <2>1, <2>3 DEF Same
  <2>4. ASSUME NEW q \in Procs, OnlyIn(q, l), Loads(q, l) \/ Loses(q, l) PROVE Kept(l)
    BY <2>1, <2>4 DEF OnlyIn, Loads, Loses
  <2>5. ASSUME NEW q \in Procs, Creates(q, l) PROVE Kept(l)
    BY <1>1, <2>1, <2>5 DEF Creates, OwnerInv, Owned, Real
  <2>6. ASSUME NEW q \in Procs, NEW rec, OnlyIn(q, l), Writes(q, l, rec) PROVE Kept(l)
    <3>1. /\ q \in up /\ mem[q][l].status # "none"
          /\ rec.status # "none" /\ mem[q][l].owner # Unowned => rec.owner = mem[q][l].owner
          /\ disk'[l] \in {disk[l], rec} /\ mem'[q][l] \in {mem[q][l], rec}
      BY <2>6 DEF Writes, MadeFrom
    <3>2. \A p \in up \intersect up' :
            Owned(mem[p][l]) /\ mem'[p][l].status # "none" => mem'[p][l].owner = mem[p][l].owner
      BY <2>1, <2>6, <3>1 DEF OnlyIn, Owned
    <3>3. ASSUME Owned(disk[l]), disk'[l].status # "none", disk'[l].owner # disk[l].owner
          PROVE  l \in Legacy /\ mem[q][l].owner # disk[l].owner
      <4>1. disk'[l] = rec
        BY <3>1, <3>3
      <4>2. mem[q][l].owner # disk[l].owner
        BY <3>1, <3>3, <4>1 DEF Owned
      <4>3. l \in Legacy
        BY <1>1, <2>6, <3>1, <3>3, <4>2 DEF OwnerInv, Real, Owned
      <4> QED
        BY <4>2, <4>3
    <3> QED
      BY <3>1, <3>2, <3>3
  <2> QED
    BY <2>2, <2>3, <2>4, <2>5, <2>6 DEF Changes
<1>2. LoopsInv /\ DownIsEmpty /\ OwnerInv /\ [Next]_vars => [\A l \in Loop : Kept(l)]_vars
  BY <1>1
<1>3. Init => OwnerInv
  BY DEF Init, OwnerInv, Real, NoLoop
<1>4. LoopsInv /\ DownIsEmpty /\ OwnerInv /\ [Next]_vars => OwnerInv'
  BY OwnerStep
<1> QED
  BY <1>2, <1>3, <1>4, DownAlwaysEmpty, PTL DEF Spec, OwnerRespected

-----------------------------------------------------------------------------
(* When a loop runs next: the arithmetic of LoopTiming, for every hint,    *)
(* floor, streak and width of the integers                                 *)

\* A value that fits is not changed by wrapping.
LEMMA WrappedFits ==
  ASSUME NEW n \in Nat, n <= IntMax
  PROVE  Wrapped(n) = n
<1>0. IntMax \in Nat
  BY WidthAssumption, SMT
<1>1. /\ n + IntMax + 1 \in Nat
      /\ n + IntMax + 1 < 2 * (IntMax + 1)
      /\ 2 * (IntMax + 1) \in Nat \ {0}
  BY <1>0
<1>2. (n + IntMax + 1) % (2 * (IntMax + 1)) = n + IntMax + 1
  <2> DEFINE x == n + IntMax + 1
             y == 2 * (IntMax + 1)
  <2>1. x \in Nat /\ y \in Nat \ {0} /\ x < y
    BY <1>1
  <2> HIDE DEF x, y
  <2>2. x % y = x
    BY <2>1, SMT
  <2> QED BY <2>2 DEF x, y
<1> QED BY <1>0, <1>2 DEF Wrapped

\* The shift is defined for every number of bits and is the one its recursion
\* describes: a least number of bits for which it is not would have a smaller one.
LEMMA ShiftedLeftUnfolds ==
  /\ ShiftedLeft[0] = 60
  /\ \A n \in 1 .. 20 : ShiftedLeft[n] = Wrapped(2 * ShiftedLeft[n - 1])
<1> DEFINE Upto(f, k) == /\ f = [n \in 0 .. 20 |-> f[n]]
                         /\ f[0] = 60
                         /\ \A n \in 1 .. k : f[n] = Wrapped(2 * f[n - 1])
           Bad == {k \in 0 .. 20 : ~ \E f : Upto(f, k)}
           Unfolds(f) == f = [n \in 0 .. 20 |-> IF n = 0 THEN transientBackoffBaseSeconds
                                                ELSE Wrapped(2 * f[n - 1])]
<1>1. \E f : Upto(f, 0)
  <2>1. Upto([n \in 0 .. 20 |-> 60], 0)
    OBVIOUS
  <2> HIDE DEF Upto
  <2> QED BY <2>1
<1>2. ASSUME NEW k \in 1 .. 20, NEW f, Upto(f, k - 1)
      PROVE  \E g : Upto(g, k)
  <2> DEFINE g == [f EXCEPT ![k] = Wrapped(2 * f[k - 1])]
  <2>1. \A n \in 0 .. 20 : g[n] = IF n = k THEN Wrapped(2 * f[k - 1]) ELSE f[n]
    BY <1>2
  <2>2. g = [n \in 0 .. 20 |-> g[n]]
    BY <1>2
  <2> HIDE DEF g
  <2>3. f[0] = 60 /\ \A n \in 1 .. k - 1 : f[n] = Wrapped(2 * f[n - 1])
    BY <1>2
  <2>4. ASSUME NEW n \in 1 .. k PROVE g[n] = Wrapped(2 * g[n - 1])
    <3>1. n \in 0 .. 20 /\ n - 1 \in 0 .. 20 /\ n - 1 # k /\ (n # k => n \in 1 .. k - 1)
      OBVIOUS
    <3> QED BY <2>1, <2>3, <3>1
  <2>5. g[0] = 60
    BY <2>1, <2>3
  <2>6. Upto(g, k)
    BY <2>2, <2>4, <2>5
  <2> HIDE DEF Upto
  <2> QED BY <2>6
<1>3. \E f : Upto(f, 20)
  <2> HIDE DEF Upto
  <2>1. Bad \in SUBSET Nat
    OBVIOUS
  <2>2. ASSUME NEW k \in Bad, \A j \in Bad : k <= j
        PROVE  FALSE
    <3>1. k \in 1 .. 20 /\ k - 1 \in 0 .. 20 /\ k - 1 \notin Bad
      BY <1>1, <2>2
    <3>2. \E f : Upto(f, k - 1)
      BY <3>1
    <3> QED BY <1>2, <3>1, <3>2
  <2>3. Bad = {}
    <3> HIDE DEF Bad
    <3> QED BY <2>1, <2>2, LeastNumber
  <2> QED BY <2>3
<1>4. PICK f : Upto(f, 20)
  BY <1>3
<1>5. Unfolds(f)
  <2>1. \A n \in 0 .. 20 : f[n] = IF n = 0 THEN 60 ELSE Wrapped(2 * f[n - 1])
    BY <1>4
  <2> QED BY <1>4, <2>1 DEF transientBackoffBaseSeconds
<1>6. ShiftedLeft = CHOOSE g : Unfolds(g)
  BY DEF ShiftedLeft
<1>7. Unfolds(ShiftedLeft)
  <2> HIDE DEF Unfolds
  <2> QED BY <1>5, <1>6
<1> QED BY <1>7 DEF transientBackoffBaseSeconds

\* One more bit doubles a value whose double fits.
LEMMA OneMoreBit ==
  ASSUME NEW n \in 1 .. 20, NEW v \in Nat, ShiftedLeft[n - 1] = v, 2 * v <= 62914560
  PROVE  ShiftedLeft[n] = 2 * v
<1>1. 2 * v \in Nat /\ 2 * v <= IntMax
  BY WidthAssumption, SMT
<1> QED BY <1>1, ShiftedLeftUnfolds, WrappedFits

\* The base doubled by every bit: twenty of them still fit.
LEMMA ShiftedLeftValues ==
  /\ ShiftedLeft[0] = 60
  /\ ShiftedLeft[1] = 120
  /\ ShiftedLeft[2] = 240
  /\ ShiftedLeft[3] = 480
  /\ ShiftedLeft[4] = 960
  /\ ShiftedLeft[5] = 1920
  /\ ShiftedLeft[6] = 3840
  /\ ShiftedLeft[7] = 7680
  /\ ShiftedLeft[8] = 15360
  /\ ShiftedLeft[9] = 30720
  /\ ShiftedLeft[10] = 61440
  /\ ShiftedLeft[11] = 122880
  /\ ShiftedLeft[12] = 245760
  /\ ShiftedLeft[13] = 491520
  /\ ShiftedLeft[14] = 983040
  /\ ShiftedLeft[15] = 1966080
  /\ ShiftedLeft[16] = 3932160
  /\ ShiftedLeft[17] = 7864320
  /\ ShiftedLeft[18] = 15728640
  /\ ShiftedLeft[19] = 31457280
  /\ ShiftedLeft[20] = 62914560
<1>0. ShiftedLeft[0] = 60
  BY ShiftedLeftUnfolds
<1>1. ShiftedLeft[1] = 120
  BY <1>0, OneMoreBit, SMT
<1>2. ShiftedLeft[2] = 240
  BY <1>1, OneMoreBit, SMT
<1>3. ShiftedLeft[3] = 480
  BY <1>2, OneMoreBit, SMT
<1>4. ShiftedLeft[4] = 960
  BY <1>3, OneMoreBit, SMT
<1>5. ShiftedLeft[5] = 1920
  BY <1>4, OneMoreBit, SMT
<1>6. ShiftedLeft[6] = 3840
  BY <1>5, OneMoreBit, SMT
<1>7. ShiftedLeft[7] = 7680
  BY <1>6, OneMoreBit, SMT
<1>8. ShiftedLeft[8] = 15360
  BY <1>7, OneMoreBit, SMT
<1>9. ShiftedLeft[9] = 30720
  BY <1>8, OneMoreBit, SMT
<1>10. ShiftedLeft[10] = 61440
  BY <1>9, OneMoreBit, SMT
<1>11. ShiftedLeft[11] = 122880
  BY <1>10, OneMoreBit, SMT
<1>12. ShiftedLeft[12] = 245760
  BY <1>11, OneMoreBit, SMT
<1>13. ShiftedLeft[13] = 491520
  BY <1>12, OneMoreBit, SMT
<1>14. ShiftedLeft[14] = 983040
  BY <1>13, OneMoreBit, SMT
<1>15. ShiftedLeft[15] = 1966080
  BY <1>14, OneMoreBit, SMT
<1>16. ShiftedLeft[16] = 3932160
  BY <1>15, OneMoreBit, SMT
<1>17. ShiftedLeft[17] = 7864320
  BY <1>16, OneMoreBit, SMT
<1>18. ShiftedLeft[18] = 15728640
  BY <1>17, OneMoreBit, SMT
<1>19. ShiftedLeft[19] = 31457280
  BY <1>18, OneMoreBit, SMT
<1>20. ShiftedLeft[20] = 62914560
  BY <1>19, OneMoreBit, SMT
<1> QED BY <1>0, <1>1, <1>2, <1>3, <1>4, <1>5, <1>6, <1>7, <1>8, <1>9, <1>10, <1>11, <1>12, <1>13, <1>14, <1>15, <1>16, <1>17, <1>18, <1>19, <1>20, SMT

\* The backoff for every number of bits: five of them are beyond the cap, and no
\* number of them wraps around to something small.
LEMMA BackoffValues ==
  ASSUME NEW streak \in Int
  PROVE  /\ Shift(streak) \in 0 .. 20
         /\ transientBackoffSeconds(streak) =
              CASE Shift(streak) = 0 -> 60 [] Shift(streak) = 1 -> 120
                [] Shift(streak) = 2 -> 240 [] Shift(streak) = 3 -> 480
                [] Shift(streak) = 4 -> 960 [] OTHER -> 1800
<1>1. Shift(streak) \in 0 .. 20
  BY DEF Shift, Sooner, Later
<1>2. \A n \in 5 .. 20 : ShiftedLeft[n] \in Nat /\ ShiftedLeft[n] > 1800
  BY ShiftedLeftValues, SMT
<1> DEFINE n == Shift(streak)
<1> HIDE DEF n
<1>3. n \in 0 .. 20
  BY <1>1 DEF n
<1>4. transientBackoffSeconds(streak) =
        IF ShiftedLeft[n] <= 0 \/ ShiftedLeft[n] > 1800 THEN 1800 ELSE ShiftedLeft[n]
  BY DEF transientBackoffSeconds, transientBackoffCapSeconds, n
<1>5. CASE n \in 5 .. 20
  BY <1>2, <1>4, <1>5, SMT DEF n
<1>6. CASE n \in 0 .. 4
  <2>1. /\ ShiftedLeft[0] = 60 /\ ShiftedLeft[1] = 120 /\ ShiftedLeft[2] = 240
        /\ ShiftedLeft[3] = 480 /\ ShiftedLeft[4] = 960
    BY ShiftedLeftValues, SMT
  <2> QED BY <1>4, <1>6, <2>1, SMT DEF n
<1> QED BY <1>1, <1>3, <1>5, <1>6, SMT

\* The backoff stays between one second and its cap, however the shift ends.
LEMMA BackoffBounded ==
  ASSUME NEW streak \in Int
  PROVE  transientBackoffSeconds(streak) \in 1 .. transientBackoffCapSeconds
BY BackoffValues, SMT DEF transientBackoffCapSeconds

\* transientBackoffSeconds: whatever the streak is, one more transient failure
\* doubles the backoff until it is at its cap.
THEOREM BackoffAlwaysDoubles ==
  ASSUME NEW streak \in Int
  PROVE  BackoffDoubles(streak)
<1> DEFINE n == Shift(streak)
           m == Shift(streak + 1)
<1>1. /\ streak < 1 => m = 0
      /\ streak >= 1 => n \in 0 .. 20 /\ m = IF n = 20 THEN 20 ELSE n + 1
  BY DEF Shift, Sooner, Later
<1>2. streak + 1 \in Int
  OBVIOUS
<1> DEFINE b == transientBackoffSeconds(streak)
           c == transientBackoffSeconds(streak + 1)
<1>3. /\ b = CASE n = 0 -> 60 [] n = 1 -> 120 [] n = 2 -> 240
                [] n = 3 -> 480 [] n = 4 -> 960 [] OTHER -> 1800
      /\ c = CASE m = 0 -> 60 [] m = 1 -> 120 [] m = 2 -> 240
                [] m = 3 -> 480 [] m = 4 -> 960 [] OTHER -> 1800
      /\ n \in 0 .. 20 /\ m \in 0 .. 20
  <2> HIDE DEF b, c, n, m
  <2>1. /\ b = CASE n = 0 -> 60 [] n = 1 -> 120 [] n = 2 -> 240
                  [] n = 3 -> 480 [] n = 4 -> 960 [] OTHER -> 1800
        /\ n \in 0 .. 20
    BY BackoffValues DEF b, n
  <2>2. /\ c = CASE m = 0 -> 60 [] m = 1 -> 120 [] m = 2 -> 240
                  [] m = 3 -> 480 [] m = 4 -> 960 [] OTHER -> 1800
        /\ m \in 0 .. 20
    BY BackoffValues, <1>2 DEF c, m
  <2> QED BY <2>1, <2>2
<1> HIDE DEF b, c, n, m
<1>4. c = IF streak < 1 THEN 60 ELSE IF 2 * b < 1800 THEN 2 * b ELSE 1800
  BY <1>1, <1>3, SMT
<1> QED BY <1>4 DEF BackoffDoubles, Sooner, transientBackoffBaseSeconds,
                    transientBackoffCapSeconds, b, c

\* More seconds are not fewer nanoseconds.
LEMMA Times ==
  ASSUME NEW a \in Int, NEW b \in Int, a <= b
  PROVE  a * Second \in Int /\ b * Second \in Int /\ a * Second <= b * Second
<1>1. Second \in Nat
  BY WidthAssumption, SMT
<1> QED BY <1>1, SMT

\* What fits a time.Duration is what it was, and so is all that is shorter.
LEMMA DurationFits ==
  ASSUME NEW b \in Int, Fits(b), NEW a \in Nat, a <= b
  PROVE  AsDuration(a) = a * Second /\ Fits(a)
<1>1. a * Second \in Int /\ b * Second \in Int /\ a * Second <= b * Second
  BY Times
<1>2. a * Second >= 0
  <2>1. Second \in Nat
    BY WidthAssumption, SMT
  <2> QED BY <2>1, SMT
<1> DEFINE x == a * Second
           y == b * Second
<1>3. x \in Nat /\ y \in Int /\ x <= y /\ y <= IntMax /\ IntMax \in Nat
  BY <1>1, <1>2, WidthAssumption, SMT DEF Fits
<1> HIDE DEF x, y
<1>4. x <= IntMax /\ x \in Nat
  BY <1>3
<1>5. Wrapped(x) = x
  BY <1>4, WrappedFits
<1> QED BY <1>4, <1>5 DEF AsDuration, Fits, x

\* A day, and with it the default floor and the cap of the backoff, are durations.
LEMMA DayFits == Fits(86400)
BY WidthAssumption, SMT DEF Fits, MaxSelfPacedDelaySeconds

\* A backoff only moves the next run, up to its cap.
LEMMA BackoffMoves ==
  ASSUME NEW d \in Nat, Fits(d), NEW transient \in BOOLEAN, NEW streak \in Int
  PROVE  LET delay == NextRunDelay(AsDuration(d), transient, streak)
         IN d * Second <= delay /\ delay <= Later(d, transientBackoffCapSeconds) * Second
<1> DEFINE b == transientBackoffSeconds(streak)
<1>1. b \in 1 .. 1800
  <2>1. b \in 1 .. transientBackoffCapSeconds
    BY BackoffBounded
  <2> QED BY <2>1 DEF transientBackoffCapSeconds
<1> HIDE DEF b
<1>2. AsDuration(d) = d * Second /\ AsDuration(b) = b * Second
  BY <1>1, DurationFits, DayFits, SMT
<1> DEFINE top == Later(d, transientBackoffCapSeconds)
<1>3. top \in Int /\ d <= top /\ b <= top
  BY <1>1 DEF Later, transientBackoffCapSeconds
<1> HIDE DEF top
<1>4. /\ d * Second <= top * Second /\ b * Second <= top * Second
      /\ d * Second \in Int /\ b * Second \in Int /\ top * Second \in Int
  BY <1>1, <1>3, Times, SMT
<1> DEFINE x == d * Second
           y == b * Second
           z == top * Second
           delay == NextRunDelay(AsDuration(d), transient, streak)
<1>5. delay = IF transient /\ streak > 0 THEN Later(x, y) ELSE x
  BY <1>2 DEF NextRunDelay, b
<1>6. x <= z /\ y <= z /\ x \in Int /\ y \in Int /\ z \in Int
  BY <1>4
<1> HIDE DEF x, y, z, delay
<1>7. x <= delay /\ delay <= z
  BY <1>5, <1>6 DEF Later
<1> QED BY <1>7 DEF x, z, delay, top

\* AppendIteration: no hint and no streak takes a self-paced loop below its
\* floor or beyond a day, as long as the floor is one a time.Duration can hold.
THEOREM DelayBounds ==
  ASSUME NEW minDelay \in Int, NEW hinted \in Int, NEW transient \in BOOLEAN, NEW streak \in Int
  PROVE  DelayInBounds(minDelay, hinted, transient, streak)
<1> SUFFICES ASSUME Fits(minDelay)
             PROVE  LET floor == Floor(minDelay)
                        delay == NextRunDelay(SelfPacedDelay(minDelay, hinted), transient, streak)
                    IN /\ floor * Second <= delay
                       /\ delay <= Later(floor, MaxSelfPacedDelaySeconds) * Second
  BY DEF DelayInBounds
<1> DEFINE floor == Floor(minDelay)
           d == Later(floor, Sooner(hinted, MaxSelfPacedDelaySeconds))
           top == Later(floor, MaxSelfPacedDelaySeconds)
           delay == NextRunDelay(AsDuration(d), transient, streak)
<1>1. floor \in Nat /\ floor \in {300, minDelay}
  BY DEF Floor, DefaultMinDelaySeconds
<1>2. /\ d \in Nat /\ top \in Nat /\ floor <= d /\ d <= top /\ top \in {floor, 86400}
      /\ Later(d, 1800) <= top /\ Later(d, 1800) \in Int
  <2> HIDE DEF floor
  <2> QED BY <1>1, SMT DEF Later, Sooner, MaxSelfPacedDelaySeconds
<1>3. Fits(300)
  BY DayFits, DurationFits, SMT
<1>4. Fits(top)
  BY <1>1, <1>2, <1>3, DayFits, SMT
<1> HIDE DEF floor, top, d
<1>5. Fits(d)
  BY <1>2, <1>4, DurationFits, SMT
<1>6. d * Second <= delay /\ delay <= Later(d, 1800) * Second
  BY <1>2, <1>5, BackoffMoves DEF transientBackoffCapSeconds
<1>7. /\ floor * Second <= d * Second /\ Later(d, 1800) * Second <= top * Second
      /\ floor * Second \in Int /\ d * Second \in Int /\ top * Second \in Int
      /\ Later(d, 1800) * Second \in Int
  BY <1>1, <1>2, Times
<1>8. delay \in Int
  <2> DEFINE b == transientBackoffSeconds(streak)
  <2>1. b \in 1 .. 1800
    <3>1. b \in 1 .. transientBackoffCapSeconds
      BY BackoffBounded
    <3> QED BY <3>1 DEF transientBackoffCapSeconds
  <2> HIDE DEF b
  <2>2. AsDuration(b) \in Int /\ AsDuration(d) \in Int
    <3>1. AsDuration(b) = b * Second
      BY <2>1, DurationFits, DayFits, SMT
    <3>2. AsDuration(d) = d * Second
      BY <1>2, <1>5, DurationFits
    <3>3. b * Second \in Int
      BY <2>1, Times
    <3> QED BY <1>7, <3>1, <3>2, <3>3
  <2> QED BY <2>2 DEF NextRunDelay, Later, b
<1> HIDE DEF delay
<1>9. floor * Second <= delay /\ delay <= top * Second
  <2> DEFINE w == floor * Second
             x == d * Second
             y == Later(d, 1800) * Second
             z == top * Second
  <2>1. w <= x /\ x <= delay /\ delay <= y /\ y <= z /\ {w, x, y, z, delay} \subseteq Int
    BY <1>6, <1>7, <1>8
  <2> HIDE DEF w, x, y, z
  <2>2. w <= delay /\ delay <= z
    BY <2>1
  <2> QED BY <2>2 DEF w, z
<1> QED BY <1>9 DEF delay, d, floor, top, SelfPacedDelay

\* AppendIteration: a loop with an interval that a time.Duration can hold keeps
\* it, and a backoff moves it no further than its cap.
THEOREM IntervalBounds ==
  ASSUME NEW interval \in Int, NEW transient \in BOOLEAN, NEW streak \in Int
  PROVE  IntervalInBounds(interval, transient, streak)
<1>1. ASSUME interval > 0, Fits(interval)
      PROVE  LET delay == NextRunDelay(AsDuration(interval), transient, streak)
             IN interval * Second <= delay /\ delay <= Later(interval, transientBackoffCapSeconds) * Second
  <2>1. interval \in Nat
    BY <1>1
  <2> QED BY <1>1, <2>1, BackoffMoves
<1> QED BY <1>1 DEF IntervalInBounds, IntervalDelay

\* parseHumanDurationSeconds: a larger count of the same unit never parses to
\* less, on both sides of the largest count that fits.
LEMMA ParseMonotone ==
  ASSUME NEW n \in Int, NEW m \in Int, n <= m, NEW unit \in Units
  PROVE  /\ parseHumanDurationSeconds(n, unit) \in 0 .. IntMax
         /\ parseHumanDurationSeconds(n, unit) <= parseHumanDurationSeconds(m, unit)
<1> DEFINE P(k) == parseHumanDurationSeconds(k, unit)
<1>1. ASSUME NEW k \in Nat PROVE P(k) = IF k > IntMax \div unit THEN IntMax ELSE k * unit
  <2>1. ASSUME k <= IntMax \div unit PROVE k * unit \in Nat /\ k * unit <= IntMax
    BY <2>1, WidthAssumption, SMT DEF Units
  <2>2. ASSUME k <= IntMax \div unit PROVE Wrapped(k * unit) = k * unit
    BY <2>1, <2>2, WrappedFits
  <2> QED BY <2>2, WidthAssumption, SMT DEF parseHumanDurationSeconds, Units
<1>2. ASSUME NEW k \in Int, k < 0 PROVE P(k) = 0
  BY <1>2 DEF parseHumanDurationSeconds
<1>3. ASSUME NEW k \in Nat, k <= IntMax \div unit PROVE k * unit \in 0 .. IntMax
  BY <1>3, WidthAssumption, SMT DEF Units
<1>4. ASSUME NEW k \in Nat, NEW j \in Nat, k <= j PROVE k * unit <= j * unit
  BY <1>4 DEF Units
<1> HIDE DEF P
<1>5. \A k \in Int : P(k) \in 0 .. IntMax
  BY <1>1, <1>2, <1>3, WidthAssumption, SMT DEF Units
<1>6. P(n) <= P(m)
  <2>1. CASE n < 0
    BY <1>2, <1>5, <2>1
  <2>2. CASE n >= 0 /\ m > IntMax \div unit
    BY <1>1, <1>5, <2>2, WidthAssumption, SMT DEF Units
  <2>3. CASE n >= 0 /\ m <= IntMax \div unit
    BY <1>1, <1>4, <2>3, WidthAssumption, SMT DEF Units
  <2> QED BY <2>1, <2>2, <2>3, WidthAssumption, SMT DEF Units
<1> QED BY <1>5, <1>6 DEF P

\* The delay follows the hint: the overflow guard of parseHumanDurationSeconds
\* and the cap of AppendIteration never turn a longer wait into a shorter one, not
\* even for a floor that wraps.
THEOREM HintsMonotone ==
  ASSUME NEW minDelay \in Int, NEW n \in Int, NEW m \in Int, NEW unit \in Units
  PROVE  HintMonotone(minDelay, n, m, unit)
<1> DEFINE p == parseHumanDurationSeconds(n, unit)
           q == parseHumanDurationSeconds(m, unit)
           floor == Floor(minDelay)
           Wait(h) == Later(floor, Sooner(h, MaxSelfPacedDelaySeconds))
<1> SUFFICES ASSUME n <= m
             PROVE  AsDuration(Wait(p)) <= AsDuration(Wait(q))
  BY DEF HintMonotone, SelfPacedDelay
<1>1. p \in Int /\ q \in Int /\ p <= q
  <2>1. p \in 0 .. IntMax /\ q \in 0 .. IntMax /\ p <= q
    BY ParseMonotone
  <2> QED BY <2>1, WidthAssumption, SMT
<1>2. floor \in Nat
  BY DEF Floor, DefaultMinDelaySeconds
<1> HIDE DEF p, q, floor
<1>3. CASE floor <= 86400
  <2>1. Wait(p) \in Nat /\ Wait(q) \in Nat /\ Wait(p) <= Wait(q) /\ Wait(q) <= 86400
    BY <1>1, <1>2, <1>3, SMT DEF Later, Sooner, MaxSelfPacedDelaySeconds
  <2> HIDE DEF Wait
  <2>2. Wait(p) <= 86400 /\ 86400 \in Int
    BY <2>1, SMT
  <2>3. AsDuration(Wait(p)) = Wait(p) * Second /\ AsDuration(Wait(q)) = Wait(q) * Second
    BY <2>1, <2>2, DayFits, DurationFits, SMT
  <2>4. Wait(p) * Second <= Wait(q) * Second
    BY <2>1, Times
  <2> QED BY <2>3, <2>4
<1>4. CASE floor > 86400
  <2>1. Wait(p) = floor /\ Wait(q) = floor
    BY <1>1, <1>2, <1>4, SMT DEF Later, Sooner, MaxSelfPacedDelaySeconds
  <2>2. AsDuration(floor) \in Int
    <3>1. floor * Second \in Int
      BY <1>2, Times
    <3> DEFINE x == floor * Second + IntMax + 1
               y == 2 * (IntMax + 1)
    <3>2. x \in Int /\ y \in Nat \ {0} /\ IntMax \in Nat
      BY <3>1, WidthAssumption, SMT
    <3> HIDE DEF x, y
    <3>3. x % y \in Int
      BY <3>2, SMT
    <3>4. (x % y) - (IntMax + 1) \in Int
      BY <3>2, <3>3
    <3> QED BY <3>4 DEF AsDuration, Wrapped, x, y
  <2> HIDE DEF Wait
  <2> QED BY <2>1, <2>2
<1> QED BY <1>2, <1>3, <1>4, SMT

\* The constant part: any hints, floors and streaks.
LEMMA ArithmeticAlwaysSound == HintsSound /\ StreaksSound
<1>1. ASSUME NEW floor \in Floors, NEW n \in Counts, NEW unit \in Units
      PROVE  /\ \A m \in Counts : HintMonotone(floor, n, m, unit)
             /\ \A streak \in Streaks : \A transient \in BOOLEAN :
                  /\ DelayInBounds(floor, parseHumanDurationSeconds(n, unit), transient, streak)
                  /\ DelayInBounds(floor, parsedDurationSeconds(n), transient, streak)
  <2>1. floor \in Int /\ n \in Int /\ Counts \subseteq Int /\ Streaks \subseteq Int
    BY ScheduleAssumption
  <2>2. parsedDurationSeconds(n) \in Int
    BY <2>1 DEF parsedDurationSeconds
  <2>3. parseHumanDurationSeconds(n, unit) \in Int
    <3>1. parseHumanDurationSeconds(n, unit) \in 0 .. IntMax
      BY <2>1, ParseMonotone
    <3> QED BY <3>1, WidthAssumption, SMT
  <2>4. \A m \in Counts : HintMonotone(floor, n, m, unit)
    BY <2>1, HintsMonotone
  <2>5. \A streak \in Streaks : \A transient \in BOOLEAN :
          DelayInBounds(floor, parseHumanDurationSeconds(n, unit), transient, streak)
    BY <2>1, <2>3, DelayBounds
  <2>6. \A streak \in Streaks : \A transient \in BOOLEAN :
          DelayInBounds(floor, parsedDurationSeconds(n), transient, streak)
    BY <2>1, <2>2, DelayBounds
  <2> QED BY <2>4, <2>5, <2>6
<1>2. HintsSound
  BY <1>1 DEF HintsSound
<1>3. StreaksSound
  BY BackoffAlwaysDoubles, ScheduleAssumption DEF StreaksSound
<1> QED BY <1>2, <1>3

\* The next run of every loop is in bounds and its backoff doubles, in every
\* reachable state, for any hints, floors, streaks on file and width of the integers.
THEOREM TimingAlwaysSound == Spec => []TimingSound
<1>1. LoopsInv => TimingSound
  <2> SUFFICES ASSUME LoopsInv, NEW p \in Procs, NEW l \in Loop
               PROVE  OwnStreakSound(mem[p][l].transients)
    BY ArithmeticAlwaysSound DEF TimingSound
  <2>1. mem[p][l].transients \in 0 .. TransientFailureLimit
    BY DEF LoopsInv, RecordsFine, LoopRecord
  <2> DEFINE streak == mem[p][l].transients
  <2> HIDE DEF streak
  <2>2. streak \in Int
    BY <2>1, LoopsAssumption DEF streak
  <2>3. BackoffDoubles(streak)
    BY <2>2, BackoffAlwaysDoubles
  <2>4. ASSUME NEW floor \in Floors
        PROVE  DelayInBounds(floor, 0, streak > 0, streak)
    <3>1. floor \in Int /\ 0 \in Int /\ (streak > 0) \in BOOLEAN
      BY <2>2, ScheduleAssumption
    <3> QED BY <2>2, <3>1, DelayBounds
  <2>5. ASSUME NEW floor \in Floors
        PROVE  IntervalInBounds(floor, streak > 0, streak)
    <3>1. floor \in Int /\ (streak > 0) \in BOOLEAN
      BY <2>2, ScheduleAssumption
    <3> QED BY <2>2, <3>1, IntervalBounds
  <2> QED BY <2>3, <2>4, <2>5 DEF OwnStreakSound, streak
<1> QED
  BY <1>1, LoopsInvariant, PTL

-----------------------------------------------------------------------------
(* The round robin                                                         *)

\* How far the scan that starts at r is from position i, of n positions.
Ahead(i, r, n) == (i + n - (r % n)) % n

\* The distance without the remainder.
LEMMA AheadValue ==
  ASSUME NEW n \in Nat \ {0}, NEW i \in 0 .. n - 1, NEW r \in Nat
  PROVE  /\ r % n \in 0 .. n - 1
         /\ i >= r % n => Ahead(i, r, n) = i - (r % n)
         /\ i < r % n => Ahead(i, r, n) = i + n - (r % n)
<1> DEFINE s == r % n
<1>1. s \in 0 .. n - 1
  OBVIOUS
<1> HIDE DEF s
<1>2. ASSUME NEW x \in 0 .. n - 1 PROVE x % n = x /\ (x + n) % n = x
  OBVIOUS
<1>3. CASE i >= s
  <2>1. i - s \in 0 .. n - 1 /\ i + n - s = (i - s) + n
    BY <1>1, <1>3
  <2>2. (i + n - s) % n = i - s
    BY <1>2, <2>1
  <2> QED BY <1>1, <1>3, <2>2 DEF Ahead, s
<1>4. CASE i < s
  <2>1. i + n - s \in 0 .. n - 1
    BY <1>1, <1>4
  <2>2. (i + n - s) % n = i + n - s
    BY <1>2, <2>1
  <2> QED BY <1>1, <1>4, <2>2 DEF Ahead, s
<1> QED BY <1>1, <1>3, <1>4

\* A scan that stops at f, no further away than i, and then starts behind f has come
\* nearer to i.
LEMMA AheadShrinks ==
  ASSUME NEW n \in Nat \ {0}, NEW i \in 0 .. n - 1, NEW f \in 0 .. n - 1, NEW r \in Nat,
         i # f, Ahead(f, r, n) <= Ahead(i, r, n)
  PROVE  Ahead(i, f + 1, n) < Ahead(i, r, n)
<1> DEFINE s == r % n
           d == Ahead(i, r, n)
           e == Ahead(f, r, n)
           a == Ahead(i, f + 1, n)
           t == (f + 1) % n
<1>1. /\ s \in 0 .. n - 1
      /\ i >= s => d = i - s
      /\ i < s => d = i + n - s
      /\ f >= s => e = f - s
      /\ f < s => e = f + n - s
  BY AheadValue
<1>2. /\ t \in 0 .. n - 1
      /\ i >= t => a = i - t
      /\ i < t => a = i + n - t
  <2>1. f + 1 \in Nat
    OBVIOUS
  <2> QED BY <2>1, AheadValue
<1>3. f + 1 < n => t = f + 1
  <2>1. ASSUME NEW x \in 0 .. n - 1 PROVE x % n = x
    OBVIOUS
  <2> QED BY <2>1
<1>4. f + 1 = n => t = 0
  <2>1. n % n = 0
    <3>1. (0 + n) % n = 0
      OBVIOUS
    <3> QED BY <3>1
  <2> QED BY <2>1
<1>5. e <= d
  OBVIOUS
<1> HIDE DEF s, d, e, a, t
<1>6. a < d
  BY <1>1, <1>2, <1>3, <1>4, <1>5
<1> QED BY <1>6 DEF a, d

\* The running loops are finitely many, and the position of one among them says
\* which it is.
LEMMA IndexOrders ==
  ASSUME NEW p \in Procs, NEW l \in Active(p)
  PROVE  /\ Cardinality(Active(p)) \in Nat \ {0}
         /\ Index(p, l) \in 0 .. Cardinality(Active(p)) - 1
         /\ \A k \in Active(p) : k < l => Index(p, k) < Index(p, l)
<1> DEFINE below(k) == {j \in Active(p) : j < k}
<1>1. Active(p) \subseteq Loop /\ IsFiniteSet(Active(p))
  <2>1. IsFiniteSet(Loop)
    BY Limits, FS_Interval DEF Loop
  <2> QED BY <2>1, FS_Subset DEF Active
<1>2. ASSUME NEW k \in Active(p)
      PROVE  /\ IsFiniteSet(below(k)) /\ IsFiniteSet(below(k) \union {k})
             /\ Cardinality(below(k)) \in Nat
             /\ Cardinality(below(k) \union {k}) = Cardinality(below(k)) + 1
  <2>1. IsFiniteSet(below(k)) /\ k \notin below(k)
    <3>1. below(k) \subseteq Active(p)
      OBVIOUS
    <3>2. k \notin below(k)
      BY <1>1, Limits DEF Loop
    <3> HIDE DEF below
    <3> QED BY <1>1, <3>1, <3>2, FS_Subset
  <2> HIDE DEF below
  <2> QED BY <2>1, FS_AddElement, FS_CardinalityType
<1>3. Index(p, l) + 1 <= Cardinality(Active(p)) /\ Cardinality(Active(p)) \in Nat
  <2>1. below(l) \union {l} \subseteq Active(p)
    OBVIOUS
  <2>2. Index(p, l) = Cardinality(below(l))
    BY DEF Index
  <2> HIDE DEF below
  <2> QED BY <1>1, <1>2, <2>1, <2>2, FS_Subset, FS_CardinalityType
<1>4. ASSUME NEW k \in Active(p), k < l PROVE Index(p, k) < Index(p, l)
  <2>1. below(k) \union {k} \subseteq below(l)
    BY <1>1, <1>4, Limits DEF Loop
  <2>2. Index(p, l) = Cardinality(below(l)) /\ Index(p, k) = Cardinality(below(k))
    BY DEF Index
  <2>3. /\ IsFiniteSet(below(l)) /\ Cardinality(below(l)) \in Nat /\ Cardinality(below(k)) \in Nat
        /\ Cardinality(below(k) \union {k}) = Cardinality(below(k)) + 1
    BY <1>2
  <2> HIDE DEF below
  <2>4. Cardinality(below(k) \union {k}) <= Cardinality(below(l))
    BY <2>1, <2>3, FS_Subset
  <2> QED BY <2>2, <2>3, <2>4
<1>5. Index(p, l) \in Nat
  BY <1>2 DEF Index
<1> QED BY <1>3, <1>4, <1>5

\* tick launches the first of its own due loops behind scanRotation: none that waits
\* is nearer.
LEMMA LaunchIsNearest ==
  ASSUME SchedulerTypeOK, NEW p \in Procs, NEW l \in Loop, Tick(p), Waiting(p, l)
  PROVE  \/ UNCHANGED <<rotation, flight>>
         \/ \E k \in Active(p) :
              /\ Distance(p, k) <= Distance(p, l)
              /\ rotation' = [rotation EXCEPT ![p] = Index(p, k) + 1]
              /\ flight'[p].loop = k
<1> DEFINE found == Active(p) \intersect due[p]
           orphans == {k \in found : Orphan(p, k)}
           adopted(o) == {k \in orphans : o[k] = "saved"}
           mine(o) == adopted(o) \union {k \in found \ orphans : Owns(p, k)}
           first(o) == {k \in mine(o) : \A j \in mine(o) : Distance(p, k) <= Distance(p, j)}
           launched(k) == [NoFlight EXCEPT !.pc = "launched", !.loop = k]
<1>1. PICK o \in [orphans -> SaveOutcomes] :
        \/ \E k \in first(o) :
             /\ rotation' = [rotation EXCEPT ![p] = Rotated(Index(p, k))]
             /\ flight' = [flight EXCEPT ![p] = launched(k)]
        \/ UNCHANGED <<rotation, flight>>
  BY DEF Tick
<1>2. l \in mine(o)
  <2>1. mem[p][l].owner # Unowned
    BY LoopsAssumption DEF Waiting, Owns
  <2> QED BY <2>1 DEF Waiting, Orphan
<1>3. ASSUME NEW k \in first(o) PROVE k \in Active(p) /\ Distance(p, k) <= Distance(p, l)
  BY <1>2
<1>4. ASSUME NEW k \in first(o), flight' = [flight EXCEPT ![p] = launched(k)]
      PROVE  flight'[p].loop = k
  <2>1. launched(k).loop = k
    BY DEF NoFlight
  <2>2. flight'[p] = launched(k)
    BY <1>4 DEF SchedulerTypeOK
  <2> HIDE DEF launched
  <2> QED BY <2>1, <2>2
<1> HIDE DEF first, launched
<1> QED BY <1>1, <1>3, <1>4 DEF Rotated

\* Only tick moves the scan of a process that has running loops, unless the process
\* exits; and only tick begins an iteration.
LEMMA ScanFrame ==
  ASSUME LoopsInv, Next, NEW p \in Procs, ~Tick(p), Active(p) # {}, Active(p)' = Active(p)
  PROVE  /\ rotation'[p] = rotation[p]
         /\ flight[p].pc = "none" => flight'[p].pc = "none"
<1> USE DEF LoopsInv, SchedulerTypeOK
<1> DEFINE Still == /\ rotation'[p] = rotation[p]
                    /\ flight[p].pc = "none" => flight'[p].pc = "none"
<1>0. NoFlight.pc = "none"
  BY DEF NoFlight
<1>1. ASSUME NEW q \in Procs, StartUp(q) \/ Exit(q) PROVE Still
  <2>1. CASE StartUp(q)
    BY <2>1 DEF StartUp
  <2>2. CASE Exit(q)
    <3>1. q # p
      <4>1. SUFFICES ASSUME q = p PROVE FALSE
        OBVIOUS
      <4>2. mem'[p] = [l \in Loop |-> NoLoop]
        BY <2>2, <4>1 DEF Exit, RecordsFine
      <4>3. \A l \in Loop : mem'[p][l].status = "none"
        BY <4>2 DEF NoLoop
      <4> QED BY <4>3 DEF Active
    <3> QED BY <2>2, <3>1 DEF Exit
  <2> QED BY <1>1, <2>1, <2>2
<1>2. ASSUME NEW q \in Procs, NEW l \in Loop, NEW o,
             Add(q, l, o) \/ Pause(q, l, o) \/ Resume(q, l, o) \/ FireNow(q, l, o) \/ Remove(q, l)
      PROVE  Still
  BY <1>2 DEF Add, Pause, Resume, FireNow, Remove, procVars
<1>3. ASSUME NEW q \in Procs, NEW l \in Loop, NEW o, Stop(q, l, o) PROVE Still
  BY <1>3 DEF Stop, Cancellable
<1>4. ASSUME NEW q \in Procs, Cancel(q) \/ FireOne(q) \/ Spawn(q) PROVE Still
  BY <1>0, <1>4 DEF Cancel, Cancellable, FireOne, Spawn
<1>5. ASSUME NEW q \in Procs, NEW res \in Results, SpawnReturns(q, res) PROVE Still
  BY <1>5 DEF SpawnReturns
<1>6. ASSUME NEW q \in Procs, NEW o, Record(q, o) \/ SelfStop(q, o) PROVE Still
  BY <1>0, <1>6 DEF Record, SelfStop
<1>7. ASSUME NEW q \in Procs, TickEmpty(q) PROVE Still
  <2>1. q # p
    BY <1>7 DEF TickEmpty
  <2> QED BY <1>7, <2>1 DEF TickEmpty
<1>8. ASSUME NEW q \in Procs, NEW l \in Loop, BecomesDue(q, l) PROVE Still
  BY <1>8 DEF BecomesDue
<1>9. ASSUME NEW q \in Procs, Tick(q) PROVE Still
  <2>1. q # p
    BY <1>9
  <2>2. UNCHANGED <<rotation, flight>> \/ \E l \in Active(q) : \E kept : Launches(q, kept, l)
    BY <1>9, TickEffect
  <2> QED BY <2>1, <2>2 DEF Launches
<1> HIDE DEF Still, LoopsInv, SchedulerTypeOK
<1>10. Still
  BY <1>1, <1>2, <1>3, <1>4, <1>5, <1>6, <1>7, <1>8, <1>9 DEF Next, Command, Scheduler, Iteration
<1> QED BY <1>10 DEF Still

\* The measure behind NoStarvation, for any number of loops and processes: a loop of
\* this workspace that is due is passed over by fewer launches than there are
\* running loops, because each of them brings the scan nearer to it.
THEOREM RoundRobin == Spec => TurnComesNearer
<1>1. ASSUME LoopsInv, Next, NEW p \in Procs, NEW l \in Loop,
             Waiting(p, l), Active(p)' = Active(p), flight'[p].loop # l
      PROVE  /\ Distance(p, l)' <= Distance(p, l)
             /\ flight[p].pc = "none" /\ flight'[p].pc # "none" => Distance(p, l)' < Distance(p, l)
  <2> DEFINE n == Cardinality(Active(p))
             i == Index(p, l)
  <2>1. l \in Active(p) /\ Active(p) # {}
    BY <1>1 DEF Waiting
  <2>2. n \in Nat \ {0} /\ i \in 0 .. n - 1
    BY <2>1, IndexOrders
  <2>3. /\ rotation[p] \in Nat
        /\ Distance(p, l) = Ahead(i, rotation[p], n)
        /\ Distance(p, l)' = Ahead(i, rotation'[p], n)
    <3>1. Index(p, l)' = Index(p, l) /\ Cardinality(Active(p))' = Cardinality(Active(p))
      BY <1>1 DEF Index
    <3> QED BY <1>1, <3>1, Limits DEF Distance, Ahead, LoopsInv, SchedulerTypeOK
  <2> HIDE DEF n, i
  <2>4. Ahead(i, rotation[p], n) \in Nat
    <3>1. /\ rotation[p] % n \in 0 .. n - 1
          /\ i >= rotation[p] % n => Ahead(i, rotation[p], n) = i - (rotation[p] % n)
          /\ i < rotation[p] % n => Ahead(i, rotation[p], n) = i + n - (rotation[p] % n)
      BY <2>2, <2>3, AheadValue
    <3> QED BY <2>2, <3>1
  <2>5. CASE ~Tick(p)
    <3>1. /\ rotation'[p] = rotation[p]
          /\ flight[p].pc = "none" => flight'[p].pc = "none"
      BY <1>1, <2>1, <2>5, ScanFrame
    <3> QED BY <2>3, <2>4, <3>1
  <2>6. CASE Tick(p)
    <3>1. CASE UNCHANGED <<rotation, flight>>
      BY <2>3, <2>4, <3>1
    <3>2. CASE ~UNCHANGED <<rotation, flight>>
      <4>1. PICK k \in Active(p) : /\ Distance(p, k) <= Distance(p, l)
                                   /\ rotation' = [rotation EXCEPT ![p] = Index(p, k) + 1]
                                   /\ flight'[p].loop = k
        BY <1>1, <2>6, <3>2, LaunchIsNearest DEF LoopsInv
      <4>2. rotation'[p] = Index(p, k) + 1
        BY <1>1, <4>1 DEF LoopsInv, SchedulerTypeOK
      <4>3. Index(p, k) \in 0 .. n - 1 /\ Index(p, k) # i
        <5>1. k # l /\ k \in Int /\ l \in Int
          BY <1>1, <2>1, <4>1, Limits DEF Active, Loop
        <5>2. k < l \/ l < k
          BY <5>1
        <5>3. /\ Index(p, k) \in 0 .. Cardinality(Active(p)) - 1
              /\ k < l => Index(p, k) < Index(p, l)
              /\ l < k => Index(p, l) < Index(p, k)
          BY <2>1, IndexOrders
        <5> QED BY <2>2, <5>2, <5>3 DEF n, i
      <4>4. Distance(p, k) = Ahead(Index(p, k), rotation[p], n)
        BY DEF Distance, Ahead, n
      <4>5. Ahead(i, Index(p, k) + 1, n) < Ahead(i, rotation[p], n)
        <5> DEFINE f == Index(p, k)
                   r == rotation[p]
        <5>1. Ahead(f, r, n) <= Ahead(i, r, n)
          BY <2>3, <4>1, <4>4
        <5>2. f \in 0 .. n - 1 /\ r \in Nat /\ i # f
          BY <2>3, <4>3
        <5> HIDE DEF f, r
        <5>3. Ahead(i, f + 1, n) < Ahead(i, r, n)
          BY <2>2, <5>1, <5>2, AheadShrinks
        <5> QED BY <5>3 DEF f, r
      <4>6. Ahead(i, Index(p, k) + 1, n) \in Int
        <5>1. Index(p, k) + 1 \in Nat
          BY <2>2, <4>3
        <5>2. /\ (Index(p, k) + 1) % n \in 0 .. n - 1
              /\ i >= (Index(p, k) + 1) % n => Ahead(i, Index(p, k) + 1, n) = i - ((Index(p, k) + 1) % n)
              /\ i < (Index(p, k) + 1) % n => Ahead(i, Index(p, k) + 1, n) = i + n - ((Index(p, k) + 1) % n)
          BY <2>2, <5>1, AheadValue
        <5> QED BY <2>2, <5>2
      <4> QED BY <2>3, <2>4, <4>2, <4>5, <4>6
    <3> QED BY <3>1, <3>2
  <2> QED BY <2>5, <2>6
<1> DEFINE Nearer ==
      \A p \in Procs, l \in Loop :
         Waiting(p, l) /\ Active(p)' = Active(p) /\ flight'[p].loop # l =>
           /\ Distance(p, l)' <= Distance(p, l)
           /\ flight[p].pc = "none" /\ flight'[p].pc # "none" =>
                Distance(p, l)' < Distance(p, l)
<1>2. LoopsInv /\ Next => Nearer
  BY <1>1
<1>3. LoopsInv /\ [Next]_vars => [Nearer]_vars
  <2> HIDE DEF Nearer
  <2> QED BY <1>2
<1> QED BY <1>3, LoopsInvariant, PTL DEF Spec, TurnComesNearer
=============================================================================
