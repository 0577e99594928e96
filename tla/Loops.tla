-------------------------------- MODULE Loops --------------------------------
(***************************************************************************)
(* Recurring unattended tasks (/loop): the Manager, its file storage and   *)
(* the Runner of internal/loops (manager.go, storage.go, runner.go,        *)
(* types.go) with the commands of commands/loop_cmd.go.                    *)
(*                                                                         *)
(* The loop files are global to the user: every gokin process loads all of *)
(* them once, into a Manager of its own, and later only writes.  A loop    *)
(* belongs to the workspace that created it; one written before loops had  *)
(* an owner is adopted by the first scheduler that finds it due.           *)
(*                                                                         *)
(* Loops are numbered in the order of CreatedAt.  A method of the Manager  *)
(* is one step (m.mu covers the change and the save).  Time is only        *)
(* whether NextRunAt has passed.  Iteration history, summaries, hints,     *)
(* markdown and toasts are left out.                                       *)
(***************************************************************************)
EXTENDS Integers, FiniteSets

CONSTANTS Procs,            \* gokin processes
          WorkDir,          \* the workspace of each process
          NumLoops,         \* how many loops there may be
          Legacy,           \* loops whose files predate workspace ownership
          SelfPaced,        \* loops in self-paced mode, the others have an interval
          Monitors,         \* loops whose task only watches (IsMonitorTask)
          MaxIterations,    \* per loop, 0 = unlimited
          MaxTotalTokens,   \* per loop, 0 = unlimited
          ConsecutiveFailureLimit, TransientFailureLimit, NoProgressLimit,
          SaveOutcomes      \* what Storage.Save may do

Loop == 1 .. NumLoops
Unowned == "unowned"

ASSUME LoopsAssumption ==
  /\ NumLoops \in Nat
  /\ Unowned \notin {WorkDir[p] : p \in Procs}
  /\ Legacy \subseteq Loop /\ SelfPaced \subseteq Loop /\ Monitors \subseteq Loop
  /\ MaxIterations \in [Loop -> Nat] /\ MaxTotalTokens \in [Loop -> Nat]
  /\ {ConsecutiveFailureLimit, TransientFailureLimit, NoProgressLimit} \subseteq Nat \ {0}
  /\ SaveOutcomes \subseteq {"saved", "failed", "uncertain"}

VARIABLES
  disk,       \* the loop files
  added,      \* loops that have been created
  up,         \* running processes
  mem,        \* per process, Manager.loops
  due,        \* per process, the loops whose NextRunAt has passed
  rotation,   \* per process, Runner.scanRotation
  flight      \* per process, the iteration in progress

fileVars == <<disk, added>>
procVars == <<up, due, rotation, flight>>
vars == <<disk, added, up, mem, due, rotation, flight>>

Ended == {"stopped", "completed"}

\* The absence of a loop, and the fields of one (count and spent stop counting
\* at the limit they are compared with).
NoLoop == [status |-> "none", owner |-> Unowned, count |-> 0, spent |-> 0, fails |-> 0,
           transients |-> 0, noProgress |-> 0, reason |-> "none"]
NewLoop(owner) == [NoLoop EXCEPT !.status = "running", !.owner = owner]

\* The result of Spawner: what happened, tokens spent, the done marker.
Results == [kind : {"change", "noChange"}, tokens : 0 .. 1, done : BOOLEAN]
             \union [kind : {"transient", "failure"}, tokens : 0 .. 1, done : {FALSE}]
NoResult == [kind |-> "none", tokens |-> 0, done |-> FALSE]
NoFlight == [pc |-> "none", loop |-> 0, cancelled |-> FALSE, result |-> NoResult]

Active(p) == {l \in Loop : mem[p][l].status = "running"}
Toward(n, limit) == IF n < limit THEN n ELSE limit

Init ==
  /\ disk = [l \in Loop |-> IF l \in Legacy THEN NewLoop(Unowned) ELSE NoLoop]
  /\ added = Legacy
  /\ up = {}
  /\ mem = [p \in Procs |-> [l \in Loop |-> NoLoop]]
  /\ due = [p \in Procs |-> {}]
  /\ rotation = [p \in Procs |-> 0]
  /\ flight = [p \in Procs |-> NoFlight]

-----------------------------------------------------------------------------
(* Saving                                                                  *)

\* The Manager keeps the change only when Save reports success.
Remembered(p, l, rec, o) == IF o = "saved" THEN [mem EXCEPT ![p][l] = rec] ELSE mem

\* AtomicWrite: an error before the rename leaves the file alone, one from the
\* sync of the directory comes after it ("uncertain").
Stored(l, rec, o) == IF o = "failed" THEN disk ELSE [disk EXCEPT ![l] = rec]

Save(p, l, rec, o) ==
  /\ disk' = Stored(l, rec, o)
  /\ mem' = Remembered(p, l, rec, o)

-----------------------------------------------------------------------------
(* Processes and commands                                                  *)

\* NewManager: overdue loops are staggered into the future.
StartUp(p) ==
  /\ p \notin up
  /\ up' = up \union {p}
  /\ mem' = [mem EXCEPT ![p] = disk]
  /\ UNCHANGED <<disk, added, due, rotation, flight>>

\* Shutdown or a crash: an iteration in progress is not recorded.
Exit(p) ==
  /\ p \in up
  /\ up' = up \ {p}
  /\ mem' = [mem EXCEPT ![p] = [l \in Loop |-> NoLoop]]
  /\ due' = [due EXCEPT ![p] = {}]
  /\ rotation' = [rotation EXCEPT ![p] = 0]
  /\ flight' = [flight EXCEPT ![p] = NoFlight]
  /\ UNCHANGED <<disk, added>>

\* The first run of a self-paced loop is due at once.
Armed(p, l, o) ==
  due' = IF o # "saved" THEN due
         ELSE [due EXCEPT ![p] = IF l \in SelfPaced THEN @ \union {l} ELSE @ \ {l}]

Add(p, l, o) ==
  /\ p \in up /\ l \notin added /\ 1 .. l - 1 \subseteq added
  /\ Save(p, l, NewLoop(WorkDir[p]), o)
  /\ added' = IF o = "failed" THEN added ELSE added \union {l}
  /\ Armed(p, l, o)
  /\ UNCHANGED <<up, rotation, flight>>

Pause(p, l, o) ==
  /\ mem[p][l].status = "running"
  /\ Save(p, l, [mem[p][l] EXCEPT !.status = "paused"], o)
  /\ UNCHANGED <<added, procVars>>

\* (variant: the failure streak survives)
ResumedWithStreak(rec) == [rec EXCEPT !.status = "running", !.reason = "none"]

\* Resume clears the reason and the streaks, not the spend.
Resumed(rec) == [rec EXCEPT !.status = "running", !.reason = "none", !.fails = 0,
                            !.transients = 0, !.noProgress = 0]

Resume(p, l, o) ==
  /\ mem[p][l].status = "paused"
  /\ Save(p, l, Resumed(mem[p][l]), o)
  /\ Armed(p, l, o)
  /\ UNCHANGED <<added, up, rotation, flight>>

FireNow(p, l, o) ==
  /\ mem[p][l].status = "running"
  /\ Save(p, l, mem[p][l], o)
  /\ due' = IF o = "saved" THEN [due EXCEPT ![p] = @ \union {l}] ELSE due
  /\ UNCHANGED <<added, up, rotation, flight>>

\* A stopped or completed loop is saved again as it is.
Stopped(rec) == IF rec.status \in Ended THEN rec ELSE [rec EXCEPT !.status = "stopped"]

\* CancelInFlight finds an iteration from its spawn to the end of fireOne.
Cancellable(p) == flight[p].pc \in {"spawned", "returned", "selfStop"}

\* /loop stop: Manager.Stop, then CancelInFlight of the same loop.
Stop(p, l, o) ==
  /\ mem[p][l].status # "none"
  /\ Save(p, l, Stopped(mem[p][l]), o)
  /\ flight' = IF o = "saved" /\ Cancellable(p) /\ flight[p].loop = l
               THEN [flight EXCEPT ![p].cancelled = TRUE] ELSE flight
  /\ UNCHANGED <<added, up, due, rotation>>

Remove(p, l) ==
  /\ mem[p][l].status # "none"
  /\ disk' = [disk EXCEPT ![l] = NoLoop]
  /\ mem' = [mem EXCEPT ![p][l] = NoLoop]
  /\ UNCHANGED <<added, procVars>>

\* Esc with an idle foreground: CancelInFlight of whatever runs.
Cancel(p) ==
  /\ Cancellable(p) /\ ~flight[p].cancelled
  /\ flight' = [flight EXCEPT ![p].cancelled = TRUE]
  /\ UNCHANGED <<fileVars, up, mem, due, rotation>>

-----------------------------------------------------------------------------
(* The scheduler                                                           *)

BecomesDue(p, l) ==
  /\ l \in Active(p) \ due[p]
  /\ due' = [due EXCEPT ![p] = @ \union {l}]
  /\ UNCHANGED <<fileVars, up, mem, rotation, flight>>

\* ownsLoop of a loop that has an owner.
Owns(p, l) == mem[p][l].owner = WorkDir[p]

\* (variant: a loop that names another workspace is adopted as well)
OrphanForeign(p, l) == mem[p][l].owner # WorkDir[p]

\* AdoptWorkspace binds a loop that has no owner in this process' copy of it.
Orphan(p, l) == mem[p][l].owner = Unowned
Adopted(p, l) == [mem[p][l] EXCEPT !.owner = WorkDir[p]]

\* Position of a running loop in Active(), and how far the scan of tick, which
\* starts at scanRotation, is from it.
Index(p, l) == Cardinality({k \in Active(p) : k < l})
Distance(p, l) ==
  LET n == Cardinality(Active(p)) IN (Index(p, l) + n - (rotation[p] % n)) % n

\* (variant: every scan starts with the oldest loop)
RotatedNot(i) == 0

\* The next scan starts behind the loop that fired.
Rotated(i) == i + 1

\* tick with a free runner and an idle foreground.  Unowned due loops are
\* adopted as the scan reaches them; o says how each of these saves goes.  The
\* foreground may be busy again before the loop is launched.
Tick(p) ==
  /\ p \in up /\ flight[p].pc = "none" /\ Active(p) # {}
  /\ LET found == Active(p) \intersect due[p]
         orphans == {l \in found : Orphan(p, l)}
     IN \E o \in [orphans -> SaveOutcomes] :
        LET adopted == {l \in orphans : o[l] = "saved"}
            mine == adopted \union {l \in found \ orphans : Owns(p, l)}
            first == {l \in mine : \A k \in mine : Distance(p, l) <= Distance(p, k)}
            seen == {l \in orphans : \A f \in first : Distance(p, l) <= Distance(p, f)}
        IN /\ disk' = [l \in Loop |-> IF l \in seen /\ o[l] # "failed"
                                      THEN Adopted(p, l) ELSE disk[l]]
           /\ mem' = [mem EXCEPT ![p] = [l \in Loop |->
                        IF l \in seen \intersect adopted THEN Adopted(p, l) ELSE mem[p][l]]]
           /\ \/ \E l \in first :
                   /\ rotation' = [rotation EXCEPT ![p] = Rotated(Index(p, l))]
                   /\ flight' = [flight EXCEPT ![p] = [NoFlight EXCEPT !.pc = "launched", !.loop = l]]
              \/ seen # {} /\ UNCHANGED <<rotation, flight>>
  /\ UNCHANGED <<added, up, due>>

\* tick with no running loop.
TickEmpty(p) ==
  /\ p \in up /\ flight[p].pc = "none" /\ Active(p) = {}
  /\ rotation' = [rotation EXCEPT ![p] = 0]
  /\ UNCHANGED <<fileVars, up, mem, due, flight>>

\* fireOne looks at the loop again before it starts the agent.
FireOne(p) ==
  /\ flight[p].pc = "launched"
  /\ flight' = [flight EXCEPT ![p] = IF flight[p].loop \in Active(p)
                                     THEN [@ EXCEPT !.pc = "checked"] ELSE NoFlight]
  /\ UNCHANGED <<fileVars, up, mem, due, rotation>>

\* Only now can the iteration be cancelled: a stop since the check has missed it.
Spawn(p) ==
  /\ flight[p].pc = "checked"
  /\ flight' = [flight EXCEPT ![p].pc = "spawned"]
  /\ UNCHANGED <<fileVars, up, mem, due, rotation>>

\* The agent ends: by itself, at the iteration timeout, or because of a cancel.
SpawnReturns(p, res) ==
  /\ flight[p].pc = "spawned"
  /\ flight' = [flight EXCEPT ![p].pc = "returned", ![p].result = res]
  /\ UNCHANGED <<fileVars, up, mem, due, rotation>>

\* AppendIteration: the counters,
Counted(rec, l, res) ==
  [rec EXCEPT
     !.count = Toward(@ + 1, MaxIterations[l]),
     !.spent = Toward(@ + res.tokens, MaxTotalTokens[l]),
     !.fails = CASE res.kind = "failure" -> @ + 1
                 [] res.kind = "transient" -> @
                 [] OTHER -> 0,
     !.transients = IF res.kind = "transient" THEN @ + 1 ELSE 0,
     !.noProgress = CASE res.kind = "change" /\ l \notin Monitors -> 0
                      [] res.kind = "noChange" /\ l \notin Monitors -> @ + 1
                      [] OTHER -> @]

\* then the cap on iterations,
Exhausted(rec, l) == MaxIterations[l] > 0 /\ rec.count >= MaxIterations[l]

OverTokenBudget(rec, l) == MaxTotalTokens[l] > 0 /\ rec.spent >= MaxTotalTokens[l]

\* then the first breaker that trips.
Breaker(rec, l) ==
  IF rec.fails >= ConsecutiveFailureLimit THEN "failures"
  ELSE IF rec.transients >= TransientFailureLimit THEN "provider"
  ELSE IF OverTokenBudget(rec, l) THEN "tokenBudget"
  ELSE IF rec.noProgress >= NoProgressLimit THEN "noProgress"
  ELSE "none"

Appended(rec, l, res) ==
  LET new == Counted(rec, l, res)
      tripped == Breaker(new, l)
  IN IF Exhausted(new, l) THEN [new EXCEPT !.status = "completed"]
     ELSE IF tripped # "none" THEN [new EXCEPT !.status = "paused", !.reason = tripped]
     ELSE new

\* (variant: a loop the user has walked away from is recorded as well)
RecordableAlways(p, l) == TRUE

\* RecordIteration refuses a loop that is gone or not running.
Recordable(p, l) == mem[p][l].status = "running"

\* fireOne after the spawn: a cancelled iteration is not recorded; one that was
\* recorded moves NextRunAt, and its done marker stops the loop.
Record(p, o) ==
  LET l == flight[p].loop
      res == flight[p].result
  IN /\ flight[p].pc = "returned"
     /\ \/ /\ flight[p].cancelled \/ ~Recordable(p, l)
           /\ o = "saved"
           /\ flight' = [flight EXCEPT ![p] = NoFlight]
           /\ UNCHANGED <<disk, mem, due>>
        \/ /\ ~flight[p].cancelled /\ Recordable(p, l)
           /\ Save(p, l, Appended(mem[p][l], l, res), o)
           /\ due' = IF o = "saved" THEN [due EXCEPT ![p] = @ \ {l}] ELSE due
           /\ flight' = [flight EXCEPT ![p] = IF o = "saved" /\ res.done
                                              THEN [@ EXCEPT !.pc = "selfStop"] ELSE NoFlight]
     /\ UNCHANGED <<added, up, rotation>>

SelfStop(p, o) ==
  LET l == flight[p].loop
  IN /\ flight[p].pc = "selfStop"
     /\ flight' = [flight EXCEPT ![p] = NoFlight]
     /\ \/ mem[p][l].status = "none" /\ o = "saved" /\ UNCHANGED <<disk, mem>>
        \/ mem[p][l].status # "none" /\ Save(p, l, Stopped(mem[p][l]), o)
     /\ UNCHANGED <<added, up, due, rotation>>

-----------------------------------------------------------------------------

Command(p) ==
  \/ Cancel(p)
  \/ \E l \in Loop :
       \/ Remove(p, l)
       \/ \E o \in SaveOutcomes : Add(p, l, o) \/ Pause(p, l, o) \/ Resume(p, l, o)
                                 \/ FireNow(p, l, o) \/ Stop(p, l, o)

Iteration(p) ==
  \/ FireOne(p)
  \/ Spawn(p)
  \/ \E res \in Results : SpawnReturns(p, res)
  \/ \E o \in SaveOutcomes : Record(p, o) \/ SelfStop(p, o)

Scheduler(p) ==
  \/ Tick(p)
  \/ TickEmpty(p)
  \/ \E l \in Loop : BecomesDue(p, l)
  \/ Iteration(p)

Next == \E p \in Procs : StartUp(p) \/ Exit(p) \/ Command(p) \/ Scheduler(p)

Spec == Init /\ [][Next]_vars

\* The ticker keeps firing and finds the foreground idle now and then; an
\* iteration ends (DefaultIterationTimeout) and its goroutine goes on.
Fairness == \A p \in Procs : WF_vars(Iteration(p)) /\ SF_vars(Tick(p) /\ flight' # flight)

-----------------------------------------------------------------------------
(* Properties                                                              *)

LoopRecord ==
  [status : {"none", "running", "paused"} \union Ended,
   owner : {Unowned} \union {WorkDir[p] : p \in Procs},
   count : Nat, spent : Nat,
   fails : 0 .. ConsecutiveFailureLimit,
   transients : 0 .. TransientFailureLimit,
   noProgress : 0 .. NoProgressLimit,
   reason : {"none", "failures", "provider", "tokenBudget", "noProgress"}]

\* The streaks never pass their limits: a breaker trips when one is reached.
LoopsTypeOK ==
  /\ disk \in [Loop -> LoopRecord]
  /\ mem \in [Procs -> [Loop -> LoopRecord]]
  /\ added \subseteq Loop /\ up \subseteq Procs
  /\ due \in [Procs -> SUBSET Loop]
  /\ rotation \in [Procs -> 0 .. NumLoops]
  /\ flight \in [Procs -> [pc : {"none", "launched", "checked", "spawned", "returned", "selfStop"},
                           loop : 0 .. NumLoops, cancelled : BOOLEAN,
                           result : Results \union {NoResult}]]

\* The scheduler only sees loops that are within their limits: whatever order
\* iterations, pauses and resumes come in, a running loop has no streak at its
\* breaker's limit and iterations left to run.
RunningWithinLimits ==
  \A p \in Procs : \A l \in Active(p) :
     /\ mem[p][l].fails < ConsecutiveFailureLimit
     /\ mem[p][l].transients < TransientFailureLimit
     /\ mem[p][l].noProgress < NoProgressLimit
     /\ ~Exhausted(mem[p][l], l)

\* The recorded reason of an automatic pause is the breaker that tripped, the
\* first in the order of precedence, and no loop that runs or was paused by its
\* user carries one.
PauseReasonHonest ==
  \A p \in Procs, l \in Loop :
     LET rec == mem[p][l]
         atLimit == [failures |-> rec.fails = ConsecutiveFailureLimit,
                     provider |-> rec.transients = TransientFailureLimit,
                     tokenBudget |-> OverTokenBudget(rec, l),
                     noProgress |-> rec.noProgress = NoProgressLimit]
     IN IF rec.reason = "none"
        THEN rec.status = "paused" =>
               ~atLimit.failures /\ ~atLimit.provider /\ ~atLimit.noProgress
        ELSE /\ rec.status \in {"paused", "stopped"}
             /\ atLimit[rec.reason]
             /\ rec.reason # "failures" => ~atLimit.failures
             /\ rec.reason \notin {"failures", "provider"} => ~atLimit.provider

\* The breakers do their work: no streak passes its limit, none is at its limit
\* in a loop that runs, and every pause names the breaker that made it.
BreakersHonest == LoopsTypeOK /\ RunningWithinLimits /\ PauseReasonHonest

\* A loop that has ended or was removed.
Over(rec) == rec.status \in Ended \union {"none"}

\* The end of a loop is kept, whatever iteration is in progress, however its saves
\* go and whatever other processes do to its file: a process that has ended or
\* removed a loop has its end on file by then and never takes it back, and a file
\* that says so is reopened only by a process whose own copy is still open (one
\* that was loaded before, or put back after a save that failed behind the rename).
EndStays ==
  [][\A l \in added :
       /\ \A p \in up \intersect up' :
            /\ Over(mem[p][l]) => mem'[p][l].status \in {mem[p][l].status, "none"}
            /\ ~Over(mem[p][l]) /\ Over(mem'[p][l]) => disk'[l] = mem'[p][l]
       /\ Over(disk[l]) /\ ~Over(disk'[l]) => \E p \in up : ~Over(mem[p][l])]_vars

\* A loop of this workspace that is due waits for its turn.
Waiting(p, l) == l \in Active(p) \intersect due[p] /\ Owns(p, l)

\* No loop of this workspace that is due is passed over for ever, however often
\* the others are due (the round-robin scan of tick).
NoStarvation ==
  \A p \in Procs, l \in Loop :
     Waiting(p, l) ~>
        (l \notin Active(p) \/ flight[p].loop = l)

\* The turn of a loop that waits comes nearer: while the same loops run, only its own
\* launch moves the scan away from it, and every launch of another loop moves it closer, so
\* that fewer launches than there are running loops pass it over (scanRotation).
TurnComesNearer ==
  [][\A p \in Procs, l \in Loop :
       Waiting(p, l) /\ Active(p)' = Active(p) /\ flight'[p].loop # l =>
         /\ Distance(p, l)' <= Distance(p, l)
         /\ flight[p].pc = "none" /\ flight'[p].pc # "none" =>
              Distance(p, l)' < Distance(p, l)]_vars

Owned(rec) == rec.status # "none" /\ rec.owner # Unowned

\* A workspace keeps its loops as far as anybody knows of its ownership: a process
\* that has seen an owner never replaces it, and the owner on file is replaced only
\* for a loop that began without one, by a process whose own copy does not name it
\* (it loaded the loop before the adoption; manager.go AdoptWorkspace).
OwnerRespected ==
  [][\A l \in Loop :
       /\ \A p \in up \intersect up' :
            Owned(mem[p][l]) /\ mem'[p][l].status # "none" => mem'[p][l].owner = mem[p][l].owner
       /\ Owned(disk[l]) /\ disk'[l].status # "none" /\ disk'[l].owner # disk[l].owner =>
            l \in Legacy /\ \E p \in up : mem[p][l].status # "none" /\ mem[p][l].owner # disk[l].owner]_vars

\* What is said of adoption, "this can never steal another project's loop"
\* (manager.go), for the owner on file: it does not hold of two processes that
\* loaded an unowned loop.
AdoptNeverSteals ==
  [][\A l \in Loop : Owned(disk[l]) /\ disk'[l].status # "none" =>
                       disk'[l].owner = disk[l].owner]_vars

=============================================================================
