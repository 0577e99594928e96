---------------------------- MODULE PlanRunProofs ----------------------------
(***************************************************************************)
(* The safety properties of PlanRun for plans of any length and any number *)
(* of replans, crashes and commands.                                       *)
(***************************************************************************)
EXTENDS PlanRun, SelectionProofs

\* Statuses of a step that nobody will begin again by itself.
Settled == {"completed", "in_progress", "skipped"}

\* The tags a plan may use after r replans.
Used(r) == NumSteps + r * MaxNew

\* A plan of known steps, with one step per tag, after r replans; a completed plan
\* has only completed and skipped steps.
PlanFine(p, r) ==
  /\ p \in PlanType
  /\ Len(p.steps) <= Used(r)
  /\ \A i \in Indices(p) : p.steps[i].tag <= Used(r)
  /\ \A i, j \in Indices(p) : p.steps[i].tag = p.steps[j].tag => i = j
  /\ p.status # "skipped"
  /\ p.status = "completed" => AllDone(p)

PCs == {"idle", "boundary", "context", "loop", "exec", "backoff", "verify", "finish", "replan",
        "between", "stopping", "cooldown", "gate"}
RunType == [pc : PCs, id : 0 .. MaxSteps, tag : 0 .. MaxSteps, attempt : 0 .. maxRetries,
            auto : 0 .. maxAutoResumeRounds, rounds : Nat, limit : Nat]

\* The step an orchestrator o is at, when it is at one.
StepOf(p, o) == p.steps[Find(p, o.id)]
AtStep(o) == o.pc \in {"exec", "backoff", "verify", "finish"}

\* What an orchestrator knows of its plan, by its place.
RunFine(p, o) ==
  /\ o \in RunType /\ o.rounds <= o.limit
  /\ o.pc \in {"idle", "boundary", "context"} => o.id = 0
  /\ o.pc # "idle" => p # NoPlan
  /\ o.id # 0 => Has(p, o.id)
  /\ AtStep(o) => o.id # 0 /\ StepOf(p, o).status = "in_progress"
  /\ o.pc = "replan" => o.id # 0 /\ StepOf(p, o).status \in {"failed", "completed"}
  /\ o.pc = "gate" => StatusIs(p, {"pending"}) = {}
  /\ o.pc = "backoff" => o.attempt < maxRetries

\* The manager's flags, the step it names, the watchdog, and the verification of a
\* step that is about to be completed.
Controls ==
  /\ stepID = run.id
  /\ run.pc = "idle" => watchdog = "gone"
  /\ run.pc = "finish" => run.tag \in verified
  /\ handoff \in BOOLEAN /\ mode \in BOOLEAN /\ cancelled \in BOOLEAN /\ clash \in BOOLEAN
  /\ stale \in BOOLEAN
  /\ watchdog \in {"armed", "paused", "gone"}

\* The inductive invariant: types, and where the orchestrator is in the plan.
PlanInv ==
  /\ \A p \in {plan, file} : p = NoPlan \/ PlanFine(p, replans)
  /\ RunFine(plan, run)
  /\ replans \in 0 .. MaxReplans /\ run.tag <= Used(replans)
  /\ Controls

\* The lifecycle of a plan, and of one that runs.  A plan whose steps are all completed
\* says so in its status, so that no plan that is kept is ever given the lifecycle
\* "completed".
LifeFine(p) ==
  /\ p.lifecycle \in {"approved", "executing", "paused", "failed"}
  /\ p.status \in {"pending", "in_progress"} => ~AllCompleted(p)
LifecycleInv ==
  /\ \A p \in {plan, file} : p # NoPlan => LifeFine(p)
  /\ ~At("idle") => plan.lifecycle \in {"executing", "paused"}

\* Without a clash an ID names one step, and the orchestrator is at the one it thinks.
ClearIDs ==
  /\ \A p \in {plan, file} : p # NoPlan => DistinctIDs(p)
  /\ run.id # 0 => StepOf(plan, run).tag = run.tag

\* A step with effects is in the plan and, unless the last save failed, on file, its
\* effects are in the ledger, and it is not pending.
Shows(p, t) == \E i \in Indices(p) :
  p.steps[i].tag = t /\ p.ledger[p.steps[i].id].partial /\ p.steps[i].status # "pending"
EffectsInv == \A t \in dirty : /\ stale \/ (file # NoPlan /\ Shows(file, t))
                               /\ plan # NoPlan => Shows(plan, t)

\* A completed step was verified.
AllVerified(p, V) == \A i \in StatusIs(p, {"completed"}) : p.steps[i].tag \in V
VerifiedInv == \A p \in {plan, file} : p # NoPlan => AllVerified(p, verified)

\* A step that was once completed is settled, in memory and, unless the last save
\* failed, on file; the orchestrator is at none of them, and a step it waits to try
\* again has no effects, or a ledger entry that hides them.
DoneFine(p, D) == \A i \in Indices(p) : p.steps[i].tag \in D => p.steps[i].status \in Settled
DoneInv ==
  /\ \A t \in done : t \in Nat /\ t <= Used(replans)
  /\ plan # NoPlan => DoneFine(plan, done)
  /\ file # NoPlan /\ ~stale => DoneFine(file, done)
  /\ AtStep(run) => run.tag \notin done
  /\ At("backoff") => run.tag \notin dirty \/ plan.ledger[run.id].completed

-----------------------------------------------------------------------------
(* The constants and the plan's operations                                  *)

\* The bounds are numbers, and a replan stays within the last tag.
LEMMA PlanBounds ==
  /\ NumSteps \in Nat /\ NumSteps > 0 /\ MaxNew \in Nat /\ MaxReplans \in Nat /\ MaxSteps \in Nat
  /\ maxRetries \in Nat /\ maxRetries > 0 /\ maxAutoResumeRounds \in Nat
  /\ MaxSteps = Used(MaxReplans)
  BY PlanRunAssumption DEF MaxSteps, Used

\* Used counts up to the number of tags, and a replan adds MaxNew tags to it.
LEMMA UsedTags ==
  ASSUME NEW r \in 0 .. MaxReplans
  PROVE  /\ Used(r) \in Nat /\ Used(r) >= NumSteps /\ Used(r) <= MaxSteps
         /\ Used(r + 1) = Used(r) + MaxNew
<1>1. r \in Nat /\ MaxNew \in Nat /\ MaxReplans \in Nat /\ NumSteps \in Nat
  BY PlanBounds
<1>2. \A a, b, n \in Nat : a <= b => a * n <= b * n
  OBVIOUS
<1>3. r * MaxNew <= MaxReplans * MaxNew /\ r * MaxNew \in Nat
  BY <1>1, <1>2
<1>4. (r + 1) * MaxNew = r * MaxNew + MaxNew
  BY <1>1
<1> QED
  BY <1>1, <1>3, <1>4 DEF Used, MaxSteps

\* A plan is told from its absence by its fields.
LEMMA PlanIsNotNone == NoPlan \notin PlanType
<1>1. \A p \in PlanType : "status" \in DOMAIN p
  BY DEF PlanType
<1>2. "status" \notin DOMAIN NoPlan
  BY DEF NoPlan
<1> QED
  BY <1>1, <1>2

\* plan.go's loops over the steps find the first step with the ID.
LEMMA FindIs ==
  ASSUME NEW p \in PlanType, NEW id, Has(p, id)
  PROVE  /\ Find(p, id) \in Indices(p) /\ p.steps[Find(p, id)].id = id
         /\ \A j \in Indices(p) : p.steps[j].id = id => Find(p, id) <= j
<1> DEFINE S == {i \in Indices(p) : p.steps[i].id = id}
<1>1. S \in SUBSET Nat /\ S # {}
  BY DEF Has, Indices, PlanType
<1>2. PICK n \in S : \A m \in S : n <= m
  BY <1>1, LeastNumber
<1> QED
  BY <1>2 DEF Find

\* Same steps in the same order, whatever has become of them.
Alike(p, q) ==
  /\ q \in PlanType /\ Len(q.steps) = Len(p.steps)
  /\ \A i \in Indices(p) : q.steps[i].id = p.steps[i].id /\ q.steps[i].tag = p.steps[i].tag

\* Of a plan's steps, the one at f alone has a new status.
Marked(p, q, f, st) ==
  /\ Alike(p, q)
  /\ \A i \in Indices(p) : q.steps[i].status = IF i = f THEN st ELSE p.steps[i].status

\* A plan's steps are records with an ID, a tag and a status.
LEMMA StepFields ==
  ASSUME NEW p \in PlanType
  PROVE  /\ Len(p.steps) \in Nat /\ Indices(p) = 1 .. Len(p.steps)
         /\ \A i \in Indices(p) : /\ p.steps[i] \in StepType /\ p.steps[i].id \in Tags
                                  /\ p.steps[i].tag \in Tags /\ p.steps[i].status \in Statuses
         /\ p.ledger \in [Tags -> EntryType] /\ p.status \in Statuses /\ p.lifecycle \in Lifecycles
<1>1. /\ p.steps \in Seq(StepType) /\ p.ledger \in [Tags -> EntryType]
      /\ p.status \in Statuses /\ p.lifecycle \in Lifecycles
  BY DEF PlanType
<1>2. /\ Len(p.steps) \in Nat /\ Indices(p) = 1 .. Len(p.steps)
      /\ \A i \in Indices(p) : p.steps[i] \in StepType
  BY <1>1 DEF Indices
<1>3. \A s \in StepType : s.id \in Tags /\ s.tag \in Tags /\ s.status \in Statuses
  BY DEF StepType
<1> QED
  BY <1>1, <1>2, <1>3

\* A sequence with one element replaced.
WithStep(s, f, t) == [s EXCEPT ![f] = t]

\* It has the other elements in their places.
LEMMA ReplaceOne ==
  ASSUME NEW T, NEW q \in Seq(T), NEW n \in DOMAIN q, NEW x \in T
  PROVE  /\ WithStep(q, n, x) \in Seq(T) /\ Len(WithStep(q, n, x)) = Len(q)
         /\ DOMAIN WithStep(q, n, x) = DOMAIN q
<1>1. q \in [1 .. Len(q) -> T] /\ Len(q) \in Nat
  OBVIOUS
<1>2. WithStep(q, n, x) \in [1 .. Len(q) -> T]
  BY <1>1 DEF WithStep
<1>3. \A k \in Nat : \A g \in [1 .. k -> T] : g \in Seq(T) /\ Len(g) = k /\ DOMAIN g = 1 .. k
  OBVIOUS
<1> QED
  BY <1>1, <1>2, <1>3, Zenon

\* A plan with new values of its fields.
With(p, s, l, x, y) == [p EXCEPT !.steps = s, !.ledger = l, !.status = x, !.lifecycle = y]

\* Such a plan is a plan.
LEMMA WithIs ==
  ASSUME NEW p \in PlanType, NEW s \in Seq(StepType), NEW l \in [Tags -> EntryType],
         NEW x \in Statuses, NEW y \in Lifecycles, NEW q, q = With(p, s, l, x, y)
  PROVE  q \in PlanType /\ q.steps = s /\ q.ledger = l /\ q.status = x /\ q.lifecycle = y
  BY DEF PlanType, With

\* What the operations that give a step a new status have in common.
LEMMA SetStatus ==
  ASSUME NEW p \in PlanType, NEW id, Has(p, id), NEW t \in StepType,
         t.id = p.steps[Find(p, id)].id, t.tag = p.steps[Find(p, id)].tag,
         NEW l \in [Tags -> EntryType], NEW x \in Statuses, NEW q,
         q = With(p, WithStep(p.steps, Find(p, id), t), l, x, p.lifecycle)
  PROVE  /\ Marked(p, q, Find(p, id), t.status) /\ q.ledger = l /\ q.lifecycle = p.lifecycle
         /\ q.status = x
<1> DEFINE f == Find(p, id)
           s == WithStep(p.steps, f, t)
<1>1. /\ f \in Indices(p) /\ p.steps \in Seq(StepType)
      /\ Indices(p) = DOMAIN p.steps /\ f \in DOMAIN p.steps
  BY FindIs DEF PlanType, Indices
<1>2. t.id = p.steps[f].id /\ t.tag = p.steps[f].tag
  OBVIOUS
<1> HIDE DEF f
<1>3. s \in Seq(StepType) /\ Len(s) = Len(p.steps) /\ DOMAIN s = Indices(p)
  BY <1>1, ReplaceOne
<1>4. \A i \in Indices(p) : s[i] = IF i = f THEN t ELSE p.steps[i]
  BY <1>1 DEF WithStep
<1>5. q = With(p, s, l, x, p.lifecycle)
  BY DEF f
<1> HIDE DEF s
<1>6. q \in PlanType /\ q.steps = s /\ q.ledger = l /\ q.status = x /\ q.lifecycle = p.lifecycle
  BY <1>3, <1>5, WithIs, StepFields
<1>7. \A i \in Indices(p) : /\ s[i].id = p.steps[i].id /\ s[i].tag = p.steps[i].tag
                            /\ s[i].status = IF i = f THEN t.status ELSE p.steps[i].status
  BY <1>2, <1>4
<1> QED
  BY <1>3, <1>6, <1>7 DEF Marked, Alike, f

\* Plan.StartStep.
LEMMA StartEffect ==
  ASSUME NEW p \in PlanType, NEW id, Has(p, id), NEW q, q = StartStep(p, id)
  PROVE  /\ Marked(p, q, Find(p, id), "in_progress") /\ q.ledger = p.ledger
         /\ q.lifecycle = p.lifecycle /\ q.status = "in_progress"
<1> DEFINE f == Find(p, id)
           s == p.steps[f]
           t == [s EXCEPT !.status = "in_progress"]
<1>1. f \in Indices(p) /\ s \in StepType /\ "in_progress" \in Statuses
  BY FindIs, StepFields DEF Statuses
<1>2. t \in StepType /\ t.id = s.id /\ t.tag = s.tag /\ t.status = "in_progress"
  BY <1>1 DEF StepType
<1>3. q = With(p, WithStep(p.steps, f, t), p.ledger, "in_progress", p.lifecycle)
  BY DEF StartStep, PlanType, With, WithStep
<1> HIDE DEF t
<1> QED
  BY <1>1, <1>2, <1>3, SetStatus, StepFields

\* Plan.FailStep.
LEMMA FailEffect ==
  ASSUME NEW p \in PlanType, NEW id, Has(p, id), NEW q, q = FailStep(p, id)
  PROVE  /\ Marked(p, q, Find(p, id), "failed") /\ q.ledger = p.ledger
         /\ q.lifecycle = p.lifecycle /\ q.status = "failed"
<1> DEFINE f == Find(p, id)
           s == p.steps[f]
           t == [s EXCEPT !.status = "failed", !.error = "other"]
<1>1. f \in Indices(p) /\ s \in StepType /\ "failed" \in Statuses
  BY FindIs, StepFields DEF Statuses
<1>2. t \in StepType /\ t.id = s.id /\ t.tag = s.tag /\ t.status = "failed"
  BY <1>1 DEF StepType
<1>3. q = With(p, WithStep(p.steps, f, t), p.ledger, "failed", p.lifecycle)
  BY DEF FailStep, PlanType, With, WithStep
<1> HIDE DEF t
<1> QED
  BY <1>1, <1>2, <1>3, SetStatus, StepFields

\* Plan.SkipStep.
LEMMA SkipEffect ==
  ASSUME NEW p \in PlanType, NEW id, Has(p, id), NEW q, q = SkipStep(p, id)
  PROVE  /\ Marked(p, q, Find(p, id), "skipped") /\ q.ledger = p.ledger
         /\ q.lifecycle = p.lifecycle /\ q.status = p.status
<1> DEFINE f == Find(p, id)
           s == p.steps[f]
           t == [s EXCEPT !.status = "skipped"]
<1>1. f \in Indices(p) /\ s \in StepType /\ "skipped" \in Statuses
  BY FindIs, StepFields DEF Statuses
<1>2. t \in StepType /\ t.id = s.id /\ t.tag = s.tag /\ t.status = "skipped"
  BY <1>1 DEF StepType
<1>3. q = With(p, WithStep(p.steps, f, t), p.ledger, p.status, p.lifecycle)
  BY DEF SkipStep, PlanType, With, WithStep
<1> HIDE DEF t
<1> QED
  BY <1>1, <1>2, <1>3, SetStatus, StepFields

\* Plan.PauseStep.
Reasons == {"other", "checkpoint required"}

\* PauseStep pauses the step of that ID and nothing else.
LEMMA PauseEffect ==
  ASSUME NEW p \in PlanType, NEW id, Has(p, id), NEW reason \in Reasons,
         NEW q, q = PauseStep(p, id, reason)
  PROVE  /\ Marked(p, q, Find(p, id), "paused") /\ q.ledger = p.ledger
         /\ q.lifecycle = p.lifecycle /\ q.status = p.status
<1> DEFINE f == Find(p, id)
           s == p.steps[f]
           t == [s EXCEPT !.status = "paused", !.error = reason]
<1>1. f \in Indices(p) /\ s \in StepType /\ "paused" \in Statuses
  BY FindIs, StepFields DEF Statuses
<1>2. t \in StepType /\ t.id = s.id /\ t.tag = s.tag /\ t.status = "paused"
  BY <1>1 DEF StepType, Reasons
<1>3. q = With(p, WithStep(p.steps, f, t), p.ledger, p.status, p.lifecycle)
  BY DEF PauseStep, PlanType, With, WithStep
<1>4. p.ledger \in [Tags -> EntryType] /\ p.status \in Statuses
  BY StepFields
<1> HIDE DEF t
<1>5. /\ Marked(p, q, f, t.status) /\ q.ledger = p.ledger /\ q.lifecycle = p.lifecycle
      /\ q.status = p.status
  BY <1>1, <1>2, <1>3, <1>4, SetStatus
<1> QED
  BY <1>2, <1>5

\* The ledger entry of a step is closed, and no other changes.
Closes(p, q, id) ==
  /\ q.ledger[id].completed
  /\ \A x \in Tags : x # id => q.ledger[x] = p.ledger[x]

\* Plan.CompleteStep.
LEMMA CompleteEffect ==
  ASSUME NEW p \in PlanType, NEW id \in Tags, Has(p, id), NEW q, q = CompleteStep(p, id)
  PROVE  /\ Marked(p, q, Find(p, id), "completed") /\ Closes(p, q, id)
         /\ q.lifecycle = p.lifecycle
         /\ q.status = p.status \/ (q.status = "completed" /\ AllDone(q))
         /\ AllDone(q) => q.status = "completed"
<1> DEFINE f == Find(p, id)
           s == p.steps[f]
           t == [s EXCEPT !.status = "completed"]
           e == p.ledger[id]
           d == [e EXCEPT !.completed = TRUE, !.partial = FALSE, !.dups = 0]
           l == [p.ledger EXCEPT ![id] = d]
           r == [p EXCEPT !.steps[f].status = "completed", !.ledger[id] = d]
<1>1. /\ f \in Indices(p) /\ s \in StepType /\ e \in EntryType /\ p.ledger \in [Tags -> EntryType]
      /\ "completed" \in Statuses
  BY FindIs, StepFields DEF Statuses
<1>2. t \in StepType /\ t.id = s.id /\ t.tag = s.tag /\ t.status = "completed"
  BY <1>1 DEF StepType
<1>3. d \in EntryType /\ d.completed = TRUE
  <2>1. 0 \in 0 .. 2
    OBVIOUS
  <2>2. [e EXCEPT !.completed = TRUE, !.partial = FALSE] \in {x \in EntryType : x.completed = TRUE}
    BY <1>1 DEF EntryType
  <2> QED
    BY <2>1, <2>2 DEF EntryType
<1>4. r = With(p, WithStep(p.steps, f, t), l, p.status, p.lifecycle)
  BY DEF PlanType, With, WithStep
<1>5. q = IF AllDone(r) THEN [r EXCEPT !.status = "completed"] ELSE r
  BY DEF CompleteStep
<1> HIDE DEF t, r, d
<1>6. l \in [Tags -> EntryType] /\ l[id] = d /\ \A x \in Tags : x # id => l[x] = p.ledger[x]
  BY <1>1, <1>3
<1> HIDE DEF l
<1>7. Marked(p, r, f, "completed") /\ r.ledger = l /\ r.lifecycle = p.lifecycle /\ r.status = p.status
  BY <1>1, <1>2, <1>4, <1>6, SetStatus, StepFields
<1>8. r \in PlanType
  BY <1>7 DEF Marked, Alike
<1>9. /\ q \in PlanType /\ q.steps = r.steps /\ q.ledger = r.ledger /\ q.lifecycle = r.lifecycle
      /\ q.status = r.status \/ (q.status = "completed" /\ AllDone(r))
      /\ AllDone(r) => q.status = "completed"
  BY <1>1, <1>5, <1>8 DEF PlanType
<1>10. AllDone(q) <=> AllDone(r)
  BY <1>9 DEF AllDone, StatusIs, Indices
<1>11. Closes(p, q, id)
  BY <1>3, <1>6, <1>7, <1>9 DEF Closes
<1>12. Marked(p, q, f, "completed")
  BY <1>7, <1>9 DEF Marked, Alike
<1> QED
  BY <1>7, <1>9, <1>10, <1>11, <1>12

\* Plan.RecordStepEffect: the entry of the step shows effects, no other changes.
LEMMA RecordEffect ==
  ASSUME NEW p \in PlanType, NEW id \in Tags, NEW repeat \in BOOLEAN,
         NEW q, q = RecordStepEffect(p, id, repeat)
  PROVE  /\ q \in PlanType /\ q.steps = p.steps /\ q.status = p.status /\ q.lifecycle = p.lifecycle
         /\ q.ledger[id].partial /\ q.ledger[id].completed = p.ledger[id].completed
         /\ \A x \in Tags : x # id => q.ledger[x] = p.ledger[x]
<1> DEFINE e == p.ledger[id]
           g == [e EXCEPT !.partial = TRUE, !.seen = TRUE]
           n == IF repeat /\ e.dups < 2 THEN e.dups + 1 ELSE e.dups
           d == [g EXCEPT !.dups = n]
           l == [p.ledger EXCEPT ![id] = d]
<1>1. e \in EntryType /\ p.ledger \in [Tags -> EntryType]
  BY StepFields
<1>2. g \in EntryType /\ g.partial = TRUE /\ g.completed = e.completed
  BY <1>1 DEF EntryType
<1>3. q = With(p, p.steps, l, p.status, p.lifecycle)
  <2>1. RecordStepEffect(p, id, repeat) = [p EXCEPT !.ledger = l]
    BY DEF RecordStepEffect
  <2> HIDE DEF l
  <2> QED
    BY <2>1 DEF With, PlanType
<1>4. d \in EntryType /\ d.partial = TRUE /\ d.completed = e.completed
  <2> HIDE DEF g
  <2>1. n \in 0 .. 2
    BY <1>1 DEF EntryType
  <2> HIDE DEF n
  <2> QED
    BY <1>2, <2>1 DEF EntryType
<1> HIDE DEF d
<1>5. l \in [Tags -> EntryType] /\ l[id] = d /\ \A x \in Tags : x # id => l[x] = p.ledger[x]
  BY <1>1, <1>4
<1> HIDE DEF l
<1>6. p.steps \in Seq(StepType)
  BY DEF PlanType
<1>7. q \in PlanType /\ q.steps = p.steps /\ q.ledger = l /\ q.status = p.status /\ q.lifecycle = p.lifecycle
  BY <1>3, <1>5, <1>6, StepFields, WithIs
<1> QED
  BY <1>4, <1>5, <1>7

\* Plan.TransitionLifecycle.
LEMMA TransitionEffect ==
  ASSUME NEW p \in PlanType, NEW next \in Lifecycles, NEW q, q = TransitionLifecycle(p, next)
  PROVE  /\ q \in PlanType /\ q.steps = p.steps /\ q.ledger = p.ledger /\ q.status = p.status
         /\ q.lifecycle = IF CanTransitionTo(p.lifecycle, next) THEN next ELSE p.lifecycle
  BY DEF TransitionLifecycle, PlanType

\* Manager.PausePlan.
LEMMA PausePlanEffect ==
  ASSUME NEW p \in PlanType, NEW q, q = PausePlan(p)
  PROVE  /\ q \in PlanType /\ q.steps = p.steps /\ q.ledger = p.ledger /\ q.status = "paused"
         /\ q.lifecycle \in {p.lifecycle, "paused"}
<1> DEFINE r == [p EXCEPT !.status = "paused"]
<1>1. r \in PlanType /\ r.steps = p.steps /\ r.ledger = p.ledger /\ r.status = "paused"
      /\ r.lifecycle = p.lifecycle
  BY DEF PlanType, Statuses
<1>2. q = TransitionLifecycle(r, "paused") /\ "paused" \in Lifecycles
  BY DEF PausePlan, Lifecycles
<1> HIDE DEF r
<1> QED
  BY <1>1, <1>2, TransitionEffect

\* Plan.ResumePausedSteps and the loop of Manager.ResumePlan: the steps at I are
\* pending again and their ledger entries no longer show effects.
Resumed(p, q, I) ==
  /\ Alike(p, q)
  /\ \A i \in Indices(p) : q.steps[i].status = IF i \in I THEN "pending" ELSE p.steps[i].status
  /\ \A x \in Tags : /\ q.ledger[x].completed = p.ledger[x].completed
                     /\ ~(\E i \in I : p.steps[i].id = x) => q.ledger[x] = p.ledger[x]

\* ResumeSteps makes exactly these steps pending.
LEMMA ResumeEffect ==
  ASSUME NEW p \in PlanType, NEW I \in SUBSET Indices(p), NEW q, q = ResumeSteps(p, I)
  PROVE  Resumed(p, q, I) /\ q.status = p.status /\ q.lifecycle = p.lifecycle
<1> DEFINE s == [i \in Indices(p) |-> IF i \in I THEN ResumedStep(p.steps[i]) ELSE p.steps[i]]
           hit(x) == \E i \in I : p.steps[i].id = x
           l == [x \in Tags |-> IF hit(x) THEN [p.ledger[x] EXCEPT !.partial = FALSE] ELSE p.ledger[x]]
<1>1. /\ p.ledger \in [Tags -> EntryType] /\ Indices(p) = 1 .. Len(p.steps) /\ Len(p.steps) \in Nat
      /\ \A i \in Indices(p) : p.steps[i] \in StepType
  BY StepFields
<1>2. \A t \in StepType : /\ ResumedStep(t) \in StepType /\ ResumedStep(t).status = "pending"
                          /\ ResumedStep(t).id = t.id /\ ResumedStep(t).tag = t.tag
  BY DEF ResumedStep, StepType, Statuses
<1>3. s \in Seq(StepType) /\ Len(s) = Len(p.steps)
  BY <1>1, <1>2
<1>4. \A e \in EntryType : /\ [e EXCEPT !.partial = FALSE] \in EntryType
                           /\ [e EXCEPT !.partial = FALSE].completed = e.completed
  BY DEF EntryType
<1>5. q = With(p, s, l, p.status, p.lifecycle)
  BY DEF ResumeSteps, With, PlanType
<1> HIDE DEF hit
<1>6. l \in [Tags -> EntryType]
  BY <1>1, <1>4
<1>7. \A x \in Tags : l[x].completed = p.ledger[x].completed /\ (~hit(x) => l[x] = p.ledger[x])
  BY <1>1, <1>4
<1>8. \A i \in Indices(p) : /\ s[i].status = IF i \in I THEN "pending" ELSE p.steps[i].status
                            /\ s[i].id = p.steps[i].id /\ s[i].tag = p.steps[i].tag
  BY <1>1, <1>2
<1> HIDE DEF s, l
<1>9. q \in PlanType /\ q.steps = s /\ q.ledger = l /\ q.status = p.status /\ q.lifecycle = p.lifecycle
  BY <1>3, <1>5, <1>6, StepFields, WithIs
<1> QED
  BY <1>3, <1>7, <1>8, <1>9 DEF Resumed, Alike, hit

\* Manager.ResumePlan.
LEMMA ResumePlanEffect ==
  ASSUME NEW p \in PlanType, NEW q, q = ResumePlan(p)
  PROVE  /\ Resumed(p, q, StatusIs(p, {"paused", "failed"})) /\ q.status = "in_progress"
         /\ q.lifecycle = IF CanTransitionTo(p.lifecycle, "approved") THEN "approved" ELSE p.lifecycle
<1> DEFINE r == TransitionLifecycle(p, "approved")
           I == StatusIs(p, {"paused", "failed"})
           u == ResumeSteps(r, I)
<1>1. /\ r \in PlanType /\ r.steps = p.steps /\ r.ledger = p.ledger /\ r.status = p.status
      /\ r.lifecycle = IF CanTransitionTo(p.lifecycle, "approved") THEN "approved" ELSE p.lifecycle
  BY TransitionEffect DEF Lifecycles
<1>2. I \in SUBSET Indices(r) /\ Indices(r) = Indices(p)
  BY <1>1 DEF StatusIs, Indices
<1>3. q = [u EXCEPT !.status = "in_progress"]
  BY DEF ResumePlan
<1> HIDE DEF r, I
<1>4. Resumed(r, u, I) /\ u.status = r.status /\ u.lifecycle = r.lifecycle
  BY <1>1, <1>2, ResumeEffect
<1> HIDE DEF u
<1>5. /\ q \in PlanType /\ q.steps = u.steps /\ q.ledger = u.ledger /\ q.status = "in_progress"
      /\ q.lifecycle = u.lifecycle
  BY <1>3, <1>4 DEF Resumed, Alike, PlanType, Statuses
<1> QED
  BY <1>1, <1>2, <1>4, <1>5 DEF Resumed, Alike, I

\* In a plan with the same steps an ID leads to the same place.
LEMMA AlikeFind ==
  ASSUME NEW p \in PlanType, NEW q, Alike(p, q)
  PROVE  /\ q \in PlanType /\ Indices(q) = Indices(p)
         /\ DistinctIDs(p) => DistinctIDs(q)
         /\ \A id : Has(q, id) <=> Has(p, id)
         /\ \A id : Has(p, id) => Find(q, id) = Find(p, id)
<1>1. q \in PlanType /\ Indices(q) = Indices(p)
  BY StepFields DEF Alike
<1>2. \A id : Has(q, id) <=> Has(p, id)
  BY <1>1 DEF Has, Alike
<1>3. ASSUME NEW id, Has(p, id)
      PROVE  Find(q, id) = Find(p, id)
  <2>1. Has(q, id)
    BY <1>2, <1>3
  <2> DEFINE f == Find(p, id)
             g == Find(q, id)
  <2>2. /\ f \in Indices(p) /\ p.steps[f].id = id
        /\ \A j \in Indices(p) : p.steps[j].id = id => f <= j
    BY <1>3, FindIs
  <2>3. /\ g \in Indices(p) /\ q.steps[g].id = id
        /\ \A j \in Indices(p) : q.steps[j].id = id => g <= j
    BY <1>1, <2>1, FindIs
  <2> HIDE DEF f, g
  <2>4. f <= g /\ g <= f
    BY <2>2, <2>3 DEF Alike
  <2>5. f \in Nat /\ g \in Nat
    BY <2>2, <2>3, StepFields
  <2> QED
    BY <2>4, <2>5 DEF f, g
<1>4. DistinctIDs(p) => DistinctIDs(q)
  BY <1>1 DEF DistinctIDs, Alike
<1> QED
  BY <1>1, <1>2, <1>3, <1>4

\* Plans with equal steps are alike.
LEMMA SameSteps ==
  ASSUME NEW p \in PlanType, NEW q \in PlanType, q.steps = p.steps
  PROVE  /\ Alike(p, q) /\ Indices(q) = Indices(p) /\ (AllDone(q) <=> AllDone(p))
         /\ \A S : StatusIs(q, S) = StatusIs(p, S)
  BY DEF Alike, AllDone, StatusIs, Indices

\* A plan that is alike and whose status fits its steps is as good as the other.
LEMMA AlikeFine ==
  ASSUME NEW p, NEW r, PlanFine(p, r), NEW q, Alike(p, q),
         q.status # "skipped", q.status = "completed" => AllDone(q)
  PROVE  PlanFine(q, r)
<1>1. p \in PlanType /\ q \in PlanType /\ Indices(q) = Indices(p)
  BY AlikeFind DEF PlanFine
<1> QED
  BY <1>1 DEF PlanFine, Alike

\* A plan with a step that is neither completed nor skipped is not all done.
LEMMA StillToDo ==
  ASSUME NEW p \in PlanType, NEW i \in Indices(p), p.steps[i].status \notin {"completed", "skipped"}
  PROVE  ~AllDone(p)
  BY DEF AllDone, StatusIs

\* The orchestrator is in a plan that is alike where it was, if its own step and the
\* pending ones did not change.
LEMMA RunFineAlike ==
  ASSUME NEW p \in PlanType, NEW q \in PlanType, NEW o, RunFine(p, o), q.steps = p.steps
  PROVE  RunFine(q, o)
<1>1. /\ Alike(p, q) /\ StatusIs(q, {"pending"}) = StatusIs(p, {"pending"})
  BY SameSteps
<1>2. /\ \A id : Has(q, id) <=> Has(p, id)
      /\ \A id : Has(p, id) => Find(q, id) = Find(p, id)
  BY <1>1, AlikeFind
<1>3. q # NoPlan
  BY PlanIsNotNone
<1>4. o.id # 0 => StepOf(q, o) = StepOf(p, o)
  BY <1>2 DEF StepOf, RunFine
<1> QED
  BY <1>1, <1>2, <1>3, <1>4 DEF RunFine

-----------------------------------------------------------------------------
(* What a step of the system does to the plan, for the invariants that     *)
(* speak of the plan and not of the orchestrator's place.                   *)

\* The file is what it was or the plan; if it was stale and is not the plan, it is
\* still stale.
Stored == file' \in {file, plan'} /\ (file' = plan' \/ (stale => stale'))

\* The file is loaded.
Loaded == file' = file /\ dirty' \subseteq EffectsLeft(dirty) /\ done' = DoneLeft(done)

\* Steps and ledger stay as they are.
KeepsSteps ==
  /\ plan # NoPlan /\ plan' \in PlanType
  /\ plan'.steps = plan.steps /\ plan'.ledger = plan.ledger
  /\ plan'.status \in {plan.status, "paused"}
  /\ file' \in {file, plan'} /\ Stored
  /\ dirty' = dirty /\ done' = done /\ clash' = clash /\ replans' = replans
  /\ verified \subseteq verified'
  /\ run'.id # 0 => run'.id = run.id /\ run'.tag = run.tag
  /\ AtStep(run') => AtStep(run) /\ run'.id # 0
  /\ At("backoff")' => At("backoff") \/ (At("exec") /\ ~AtRisk(plan, run.id))
  /\ At("exec")' => At("exec") \/ At("backoff")
  /\ \/ plan'.lifecycle \in {plan.lifecycle, "paused"} /\ (At("idle") => At("idle")')
     \/ plan'.lifecycle = "executing"
     \/ At("idle")' /\ plan'.lifecycle = "failed"
     \/ /\ At("idle")' /\ plan'.lifecycle = "completed" /\ AllCompleted(plan)
        /\ plan.status \in {"pending", "in_progress"}

\* A step of the plan, the first with the ID, gets a new status; if it is completed
\* its ledger entry is closed and the step with tag t counts as done and clean.
MarksStep(id, st, t) ==
  /\ plan # NoPlan /\ id \in Tags /\ Has(plan, id) /\ Marked(plan, plan', Find(plan, id), st)
  /\ file' \in {file, plan'} /\ Stored /\ (st # "skipped" => file' = plan' \/ stale')
  /\ clash' = clash /\ replans' = replans /\ verified \subseteq verified'
  /\ \/ /\ st = "completed" /\ Closes(plan, plan', id) /\ t \in verified'
        /\ done' = done \cup {t} /\ dirty' = dirty \ {t}
        /\ AllDone(plan') => plan'.status = "completed"
     \/ /\ st # "completed" /\ plan'.ledger = plan.ledger /\ dirty' = dirty
        /\ done' = done \/ (st = "failed" /\ done' = done \ {t})
  /\ plan'.lifecycle = plan.lifecycle

\* It is the orchestrator's own step, which ends.
MarksCurrent ==
  /\ AtStep(run) /\ ~AtStep(run')
  /\ run'.id # 0 => run'.id = run.id /\ run'.tag = run.tag
  /\ \E st \in {"paused", "failed", "completed"} : MarksStep(run.id, st, run.tag)

\* It is the next pending step, which is paused or begun.
MarksReady ==
  /\ run.pc = "loop"
  /\ \E i \in StatusIs(plan, {"pending"}), st \in {"paused", "in_progress"} :
       /\ MarksStep(plan.steps[i].id, st, plan.steps[i].tag)
       /\ \/ /\ st = "paused" /\ run'.pc = "between"
             /\ run'.id = run.id /\ run'.tag = run.tag
          \/ /\ st = "in_progress" /\ run'.pc = "exec"
             /\ run'.id = plan.steps[i].id /\ run'.tag = plan.steps[i].tag

\* It is a step that update_plan_progress names.
MarksByHand ==
  /\ At("idle") /\ run' = run
  /\ \E i \in Indices(plan), st \in {"in_progress", "completed", "failed", "skipped"} :
       /\ MarksStep(plan.steps[i].id, st, plan.steps[i].tag)
       /\ st = "failed" => plan.steps[i].tag \notin done'

\* An effect of the orchestrator's step is recorded, and saved unless the save fails.
Records ==
  /\ run.pc \in {"exec", "verify", "gate"} /\ run' = run /\ run.id \in Tags
  /\ \E repeat \in BOOLEAN : plan' = RecordStepEffect(plan, run.id, repeat)
  /\ file' \in {file, plan'} /\ (file' = plan' \/ stale')
  /\ dirty' = dirty \cup {run.tag}
  /\ done' = done /\ verified' = verified /\ clash' = clash /\ replans' = replans

\* Paused steps, and failed ones by command, are pending again.
Resumes ==
  /\ ~AtStep(run') /\ run'.id = run.id /\ run'.tag = run.tag
  /\ \E p \in {plan, file}, S \in {{"paused"}, {"paused", "failed"}} :
       /\ p # NoPlan /\ Resumed(p, plan', StatusIs(p, S))
       /\ \/ p = plan /\ Stored /\ dirty' \subseteq dirty /\ done' = done
          \/ p = file /\ At("idle") /\ Loaded
       /\ \A i \in StatusIs(p, S) : p.steps[i].tag \notin dirty'
       /\ plan'.status = p.status \/ StatusIs(p, Open) # {}
       /\ \/ ~At("idle") /\ plan'.lifecycle = plan.lifecycle
          \/ At("idle")' /\ plan'.lifecycle = "approved"
  /\ file' \in {file, plan'}
  /\ verified' = verified /\ clash' = clash /\ replans' = replans

\* A replan.
Replans ==
  /\ run.pc = "replan" /\ run'.pc = "between" /\ run'.id = run.id /\ run'.tag = run.tag
  /\ replans < MaxReplans /\ replans' = replans + 1
  /\ \E n \in 1 .. MaxNew : plan' = RequestReplan(plan, n)
  /\ file' = file /\ stale' = stale /\ clash' = (clash \/ ~DistinctIDs(plan'))
  /\ dirty' = dirty /\ done' = done /\ verified' = verified

\* Plan and file are what they were, or the plan is gone or on file now, or the file
\* is loaded.
SwapsPlan ==
  /\ plan' \in {NoPlan, plan, file} /\ (file' = file \/ (plan # NoPlan /\ file' = plan))
  /\ \/ /\ plan' \in {NoPlan, plan} /\ dirty' = dirty /\ done' = done
        /\ (file' = file /\ (stale => stale')) \/ (plan # NoPlan /\ file' = plan)
     \/ plan' \in {NoPlan, file} /\ Loaded
  /\ verified' = verified /\ clash' = clash /\ replans' = replans

\* And nothing runs.
Swaps == run'.pc = "idle" /\ run'.id = 0 /\ SwapsPlan

Does == KeepsSteps \/ MarksCurrent \/ MarksReady \/ MarksByHand \/ Records \/ Resumes \/ Replans \/ Swaps

-----------------------------------------------------------------------------
(* The actions                                                              *)

\* A save that may fail: the plan is the new one, and the file too or it is stale.
LEMMA SaveStores ==
  ASSUME NEW p, Save(p)
  PROVE  /\ plan' = p /\ file' \in {file, plan'} /\ (file' = plan' \/ stale') /\ stale' \in BOOLEAN
         /\ Stored
<1>1. CASE Written(p)
  BY <1>1 DEF Written, Stored
<1>2. CASE NotWritten(p)
  <2>1. plan' = p /\ file' = file /\ (stale' <=> file # p) /\ stale' \in BOOLEAN
    BY <1>2, Zenon DEF NotWritten
  <2> QED
    BY <2>1 DEF Stored
<1> QED
  BY <1>1, <1>2 DEF Save

\* The orchestrator goes to another place.
LEMMA GotoFields ==
  ASSUME NEW o \in RunType, NEW x \in PCs, NEW n, n = [o EXCEPT !.pc = x]
  PROVE  /\ n \in RunType /\ n.pc = x /\ n.id = o.id /\ n.tag = o.tag /\ n.attempt = o.attempt
         /\ n.rounds = o.rounds /\ n.limit = o.limit
  BY DEF RunType

\* An orchestrator that is not there is in no plan.
LEMMA NoRunFine ==
  ASSUME NEW p
  PROVE  RunFine(p, NoRun) /\ NoRun.pc = "idle" /\ NoRun.id = 0 /\ NoRun.tag = 0 /\ ~AtStep(NoRun)
<1>1. 0 \in 0 .. MaxSteps /\ 0 \in 0 .. maxRetries /\ 0 \in 0 .. maxAutoResumeRounds
  BY PlanBounds
<1>2. NoRun \in RunType
  BY <1>1 DEF NoRun, RunType, PCs
<1> QED
  BY <1>2 DEF NoRun, RunFine, AtStep

\* The plan of a run.
LEMMA RunHasPlan ==
  ASSUME PlanInv, plan # NoPlan
  PROVE  PlanFine(plan, replans) /\ plan \in PlanType /\ Used(replans) \in Nat
  BY UsedTags DEF PlanInv, PlanFine

\* A step that leaves the plan's steps alone and takes the orchestrator to a place
\* that fits the plan keeps the invariant.
LEMMA KeepsPlanInv ==
  ASSUME PlanInv, plan # NoPlan, plan' \in PlanType, plan'.steps = plan.steps,
         plan'.status \in {plan.status, "paused"}, file' \in {file, plan'}, replans' = replans,
         RunFine(plan, run'), run'.tag \in {0, run.tag}, Controls'
  PROVE  PlanInv'
<1>1. PlanFine(plan, replans) /\ plan \in PlanType /\ Used(replans) \in Nat
  BY RunHasPlan
<1>2. Alike(plan, plan') /\ (AllDone(plan') <=> AllDone(plan))
  BY <1>1, SameSteps
<1>3. plan'.status # "skipped" /\ (plan'.status = "completed" => AllDone(plan'))
  BY <1>1, <1>2 DEF PlanFine
<1>4. PlanFine(plan', replans)
  BY <1>1, <1>2, <1>3, AlikeFine
<1>5. RunFine(plan', run')
  BY <1>1, RunFineAlike
<1>6. \A p \in {plan', file'} : p = NoPlan \/ PlanFine(p, replans')
  BY <1>4 DEF PlanInv
<1>7. replans' \in 0 .. MaxReplans /\ run'.tag <= Used(replans)
  BY <1>1 DEF PlanInv
<1> QED
  BY <1>5, <1>6, <1>7 DEF PlanInv

\* What KeepsSteps says of the plan and of the histories.
KeepsPlan ==
  /\ plan # NoPlan /\ plan' \in PlanType
  /\ plan'.steps = plan.steps /\ plan'.ledger = plan.ledger
  /\ plan'.status \in {plan.status, "paused"}
  /\ file' \in {file, plan'} /\ Stored /\ stale' \in BOOLEAN
  /\ dirty' = dirty /\ done' = done /\ clash' = clash /\ replans' = replans
  /\ verified \subseteq verified'

\* The orchestrator goes on from one place to another.
LEMMA GoesOn ==
  ASSUME PlanInv, KeepsPlan, run.pc # "idle", NEW x \in PCs \ {"idle", "boundary", "replan", "exec"},
         run' = [run EXCEPT !.pc = x], plan'.lifecycle \in {plan.lifecycle, "paused"},
         UNCHANGED <<handoff, mode, stepID, cancelled, watchdog>>,
         x \in {"exec", "backoff", "verify", "finish"} => AtStep(run),
         x = "context" => run.pc = "boundary",
         x = "gate" => StatusIs(plan, {"pending"}) = {},
         x = "backoff" => run.attempt < maxRetries /\ run.pc = "exec" /\ ~AtRisk(plan, run.id),
         x = "finish" => run.tag \in verified'
  PROVE  PlanInv' /\ Does
<1>1. RunFine(plan, run) /\ run \in RunType /\ x \in PCs
  BY DEF PlanInv, RunFine
<1>2. /\ run' \in RunType /\ run'.pc = x /\ run'.id = run.id /\ run'.tag = run.tag
      /\ run'.rounds = run.rounds /\ run'.limit = run.limit /\ run'.attempt = run.attempt
  BY <1>1, GotoFields
<1>3. StepOf(plan, run') = StepOf(plan, run)
  BY <1>2 DEF StepOf
<1>4. RunFine(plan, run')
  BY <1>1, <1>2, <1>3 DEF RunFine, AtStep, KeepsPlan, PCs
<1>5. Controls'
  BY <1>1, <1>2 DEF PlanInv, Controls, KeepsPlan
<1>6. PlanInv'
  BY <1>2, <1>4, <1>5, KeepsPlanInv DEF KeepsPlan
<1>7. AtStep(run) => run.id # 0
  BY <1>1 DEF RunFine
<1>8. KeepsSteps
  BY <1>1, <1>2, <1>7 DEF KeepsSteps, KeepsPlan, AtStep, At
<1> QED
  BY <1>6, <1>8 DEF Does

\* The orchestrator returns.
LEMMA Returns ==
  ASSUME PlanInv, KeepsPlan, Return, handoff' \in BOOLEAN,
         \/ plan'.lifecycle \in {plan.lifecycle, "paused", "failed"}
         \/ /\ plan'.lifecycle = "completed" /\ AllCompleted(plan)
            /\ plan.status \in {"pending", "in_progress"}
  PROVE  PlanInv' /\ Does
<1>1. /\ run' = NoRun /\ mode' = FALSE /\ stepID' = 0 /\ cancelled' = FALSE /\ watchdog' = "gone"
  BY DEF Return, LeaveMode
<1>2. /\ RunFine(plan, run') /\ run'.pc = "idle" /\ run'.id = 0 /\ run'.tag = 0 /\ ~AtStep(run')
  BY <1>1, NoRunFine
<1>3. Controls'
  BY <1>1, <1>2 DEF PlanInv, Controls, KeepsPlan
<1>4. PlanInv'
  BY <1>2, <1>3, KeepsPlanInv DEF KeepsPlan
<1>5. KeepsSteps
  BY <1>2 DEF KeepsSteps, KeepsPlan, At
<1> QED
  BY <1>4, <1>5 DEF Does

\* The orchestrator does not move.
LEMMA StaysPut ==
  ASSUME PlanInv, KeepsPlan, run' = run, plan'.lifecycle \in {plan.lifecycle, "paused"},
         UNCHANGED <<handoff, mode, stepID>>, cancelled' \in BOOLEAN,
         watchdog' \in {"paused", "gone", watchdog}, run.pc = "idle" => watchdog' = "gone"
  PROVE  PlanInv' /\ Does
<1>1. RunFine(plan, run) /\ run \in RunType
  BY DEF PlanInv, RunFine
<1>2. Controls'
  BY DEF PlanInv, Controls, KeepsPlan
<1>3. PlanInv'
  BY <1>1, <1>2, KeepsPlanInv DEF KeepsPlan
<1>4. KeepsSteps
  BY <1>1 DEF KeepsSteps, KeepsPlan, At, AtStep, RunFine
<1> QED
  BY <1>3, <1>4 DEF Does

\* A step that does not touch the plan.
LEMMA PlanUntouched ==
  ASSUME PlanInv, plan # NoPlan, plan' = plan, file' \in {file, plan}, Stored, stale' \in BOOLEAN,
         dirty' = dirty, done' = done,
         clash' = clash, replans' = replans, verified \subseteq verified'
  PROVE  KeepsPlan /\ plan'.lifecycle = plan.lifecycle
  BY RunHasPlan DEF KeepsPlan

\* A step that does not touch the file either.
LEMMA StoreUntouched ==
  ASSUME PlanInv, UNCHANGED storeVars
  PROVE  file' = file /\ stale' = stale /\ stale' \in BOOLEAN /\ Stored
  BY DEF PlanInv, Controls, storeVars, Stored

\* A step that pauses the plan.
LEMMA PlanPaused ==
  ASSUME PlanInv, plan # NoPlan, Save(PausePlan(plan)), UNCHANGED ghostVars, replans' = replans
  PROVE  KeepsPlan /\ plan'.lifecycle \in {plan.lifecycle, "paused"}
<1>1. plan \in PlanType
  BY RunHasPlan
<1>2. plan' = PausePlan(plan) /\ file' \in {file, plan'} /\ Stored /\ stale' \in BOOLEAN
  BY SaveStores
<1>3. /\ plan' \in PlanType /\ plan'.steps = plan.steps /\ plan'.ledger = plan.ledger
      /\ plan'.status = "paused" /\ plan'.lifecycle \in {plan.lifecycle, "paused"}
  BY <1>1, <1>2, PausePlanEffect
<1> QED
  BY <1>2, <1>3 DEF KeepsPlan, ghostVars

\* A run has a plan.
LEMMA Running ==
  ASSUME PlanInv, run.pc # "idle"
  PROVE  plan # NoPlan /\ run \in RunType /\ RunFine(plan, run)
  BY DEF PlanInv, RunFine

\* When no step is ready none is pending.
LEMMA NoneReady ==
  ASSUME NEW p \in PlanType, NextReadySteps(p) = {}
  PROVE  StatusIs(p, {"pending"}) = {}
<1>1. StatusIs(p, {"pending"}) \in SUBSET Nat
  BY StepFields DEF StatusIs
<1>2. SUFFICES ASSUME StatusIs(p, {"pending"}) # {}
               PROVE  FALSE
  OBVIOUS
<1>3. PICK i \in StatusIs(p, {"pending"}) : \A j \in StatusIs(p, {"pending"}) : i <= j
  BY <1>1, <1>2, LeastNumber
<1> QED
  BY <1>3 DEF NextReadySteps

\* The orchestrator's steps that leave the plan alone and go on.
LEMMA OnwardDoes ==
  ASSUME PlanInv,
         \/ Boundary \/ ContextReplaced \/ AttemptSucceeds \/ TransientRetry \/ ReplanFails
         \/ VerificationPasses \/ LoopEnds
  PROVE  PlanInv' /\ Does
<1>0. plan' = plan /\ file' \in {file, plan} /\ Stored /\ stale' \in BOOLEAN
  <2>1. CASE Boundary \/ VerificationPasses
    <3>1. Save(plan)
      BY <2>1 DEF Boundary, VerificationPasses, Save
    <3> QED
      BY <3>1, SaveStores
  <2>2. CASE ContextReplaced \/ AttemptSucceeds \/ TransientRetry \/ ReplanFails \/ LoopEnds
    <3>1. plan' = plan /\ UNCHANGED storeVars
      BY <2>2 DEF ContextReplaced, AttemptSucceeds, TransientRetry, ReplanFails, LoopEnds, managerVars
    <3> QED
      BY <3>1, StoreUntouched
  <2> QED
    BY <2>1, <2>2
<1>1. /\ run.pc # "idle"
      /\ dirty' = dirty /\ done' = done /\ clash' = clash /\ replans' = replans
      /\ verified \subseteq verified'
      /\ UNCHANGED <<handoff, mode, stepID, cancelled, watchdog>>
  BY DEF Boundary, ContextReplaced, AttemptSucceeds, TransientRetry, ReplanFails, VerificationPasses,
         LoopEnds, NothingReady, InLimit, At, managerVars, ghostVars, boundVars
<1>2. plan # NoPlan
  BY <1>1, Running
<1>3. KeepsPlan /\ plan'.lifecycle = plan.lifecycle /\ plan \in PlanType
  BY <1>0, <1>1, <1>2, PlanUntouched, RunHasPlan
<1>4. \E x \in PCs \ {"idle", "boundary", "replan", "exec"} :
        /\ run' = [run EXCEPT !.pc = x]
        /\ x \in {"exec", "backoff", "verify", "finish"} => AtStep(run)
        /\ x = "context" => run.pc = "boundary"
        /\ x = "gate" => StatusIs(plan, {"pending"}) = {}
        /\ x = "backoff" => run.attempt < maxRetries /\ run.pc = "exec" /\ ~AtRisk(plan, run.id)
        /\ x = "finish" => run.tag \in verified'
  <2>1. CASE Boundary \/ ContextReplaced \/ AttemptSucceeds \/ ReplanFails
    BY <2>1 DEF Boundary, ContextReplaced, AttemptSucceeds, ReplanFails, At, Goto, PCs, AtStep
  <2>2. CASE TransientRetry
    BY <2>2 DEF TransientRetry, RetryBlocked, At, Goto, PCs, AtStep
  <2>3. CASE VerificationPasses
    BY <2>3 DEF VerificationPasses, At, Goto, PCs, AtStep
  <2>4. CASE LoopEnds
    <3>1. StatusIs(plan, {"pending"}) = {}
      BY <1>3, <2>4, NoneReady DEF LoopEnds, NothingReady
    <3> QED
      BY <2>4, <3>1 DEF LoopEnds, Goto, PCs
  <2> QED
    BY <2>1, <2>2, <2>3, <2>4
<1> QED
  BY <1>1, <1>3, <1>4, GoesOn

\* Between two steps the orchestrator goes on or, if it looks at the context, returns.
LEMMA ProceedDoes ==
  ASSUME PlanInv, Proceed
  PROVE  PlanInv' /\ Does
<1>1. /\ run.pc # "idle" /\ plan' = plan /\ UNCHANGED storeVars /\ handoff' = handoff
      /\ dirty' = dirty /\ done' = done /\ clash' = clash /\ replans' = replans /\ verified' = verified
  BY DEF Proceed, At, ghostVars, boundVars
<1>2. plan # NoPlan
  BY <1>1, Running
<1>3. KeepsPlan /\ plan'.lifecycle = plan.lifecycle
  BY <1>1, <1>2, PlanUntouched, StoreUntouched
<1>4. \/ run' = [run EXCEPT !.pc = "loop"] /\ UNCHANGED <<handoff, mode, stepID, cancelled, watchdog>>
      \/ Return
  BY <1>1 DEF Proceed, Goto
<1>5. CASE Return
  <2>1. handoff' \in BOOLEAN
    BY <1>1 DEF PlanInv, Controls
  <2> QED
    BY <1>3, <1>5, <2>1, Returns
<1>6. CASE ~Return
  <2>1. "loop" \in PCs \ {"idle", "boundary", "replan", "exec"}
    BY DEF PCs
  <2> QED
    BY <1>1, <1>3, <1>4, <1>6, <2>1, GoesOn
<1> QED
  BY <1>5, <1>6

\* The exits of the orchestrator that leave the plan alone.
LEMMA ExitDoes ==
  ASSUME PlanInv, LoopCancelled \/ CooldownCancelled \/ GateBlocks
  PROVE  PlanInv' /\ Does
<1>1. /\ run.pc # "idle" /\ plan' = plan /\ UNCHANGED storeVars /\ handoff' = handoff /\ Return
      /\ dirty' = dirty /\ done' = done /\ clash' = clash /\ replans' = replans /\ verified' = verified
  BY DEF LoopCancelled, CooldownCancelled, GateBlocks, InLimit, At, ghostVars, boundVars
<1>2. plan # NoPlan
  BY <1>1, Running
<1>3. KeepsPlan /\ plan'.lifecycle = plan.lifecycle
  BY <1>1, <1>2, PlanUntouched, StoreUntouched
<1>4. handoff' \in BOOLEAN
  BY <1>1 DEF PlanInv, Controls
<1> QED
  BY <1>1, <1>3, <1>4, Returns

\* The exits of the orchestrator that pause the plan.
LEMMA PausingExitDoes ==
  ASSUME PlanInv, BoundaryFails \/ LimitReached \/ AutoResumeExhausted \/ HookStopped
  PROVE  PlanInv' /\ Does
<1>1. /\ run.pc # "idle" /\ Save(PausePlan(plan)) /\ handoff' = handoff /\ Return
      /\ UNCHANGED ghostVars /\ replans' = replans
  BY DEF BoundaryFails, LimitReached, AutoResumeExhausted, HookStopped, NothingReady, InLimit, At,
         boundVars
<1>2. plan # NoPlan
  BY <1>1, Running
<1>3. KeepsPlan /\ plan'.lifecycle \in {plan.lifecycle, "paused"}
  BY <1>1, <1>2, PlanPaused
<1>4. handoff' \in BOOLEAN
  BY <1>1 DEF PlanInv, Controls
<1> QED
  BY <1>1, <1>3, <1>4, Returns

\* A run that Esc overtook at its boundary.
LEMMA OvertakenDoes ==
  ASSUME PlanInv, BoundaryOvertaken
  PROVE  PlanInv' /\ Does
<1>1. /\ run.pc = "context" /\ plan' = plan /\ UNCHANGED storeVars /\ handoff' = handoff
      /\ run' = NoRun /\ cancelled' = FALSE /\ watchdog' = "gone" /\ mode' = mode /\ stepID' = stepID
      /\ dirty' = dirty /\ done' = done /\ clash' = clash /\ replans' = replans /\ verified' = verified
  BY DEF BoundaryOvertaken, At, managerVars, ghostVars, boundVars
<1>2. plan # NoPlan /\ run.id = 0
  BY <1>1, Running DEF PlanInv, RunFine
<1>3. KeepsPlan /\ plan'.lifecycle = plan.lifecycle
  BY <1>1, <1>2, PlanUntouched, StoreUntouched
<1>4. RunFine(plan, run') /\ run'.pc = "idle" /\ run'.id = 0 /\ run'.tag = 0 /\ ~AtStep(run')
  BY <1>1, NoRunFine
<1>5. Controls'
  BY <1>1, <1>2, <1>3, <1>4 DEF PlanInv, Controls, KeepsPlan
<1>6. PlanInv'
  BY <1>3, <1>4, <1>5, KeepsPlanInv DEF KeepsPlan
<1>7. KeepsSteps
  BY <1>3, <1>4 DEF KeepsSteps, KeepsPlan, At
<1> QED
  BY <1>6, <1>7 DEF Does

\* Esc and the watchdog.
LEMMA CancelDoes ==
  ASSUME PlanInv, Esc \/ WatchdogPauses \/ WatchdogCancels
  PROVE  PlanInv' /\ Does
<1>1. /\ run' = run /\ UNCHANGED <<handoff, mode, stepID>> /\ UNCHANGED ghostVars /\ replans' = replans
  BY DEF Esc, WatchdogPauses, WatchdogCancels, Upset, managerVars, boundVars
<1>2. run.pc # "idle"
  BY DEF Esc, WatchdogPauses, WatchdogCancels, At, PlanInv, Controls
<1>3. plan # NoPlan
  BY <1>2, Running
<1>4. KeepsPlan /\ plan'.lifecycle \in {plan.lifecycle, "paused"}
  <2>1. CASE WatchdogPauses
    BY <1>1, <1>3, <2>1, PlanPaused DEF WatchdogPauses
  <2>2. CASE Esc \/ WatchdogCancels
    <3>1. /\ plan' = plan /\ UNCHANGED storeVars /\ dirty' = dirty /\ done' = done /\ clash' = clash
          /\ verified' = verified
      BY <1>1, <2>2 DEF Esc, WatchdogCancels, managerVars, ghostVars
    <3> QED
      BY <1>1, <1>3, <3>1, PlanUntouched, StoreUntouched
  <2> QED
    BY <2>1, <2>2
<1>5. cancelled' \in BOOLEAN /\ watchdog' \in {"paused", "gone", watchdog}
  BY DEF Esc, WatchdogPauses, WatchdogCancels, PlanInv, Controls
<1> QED
  BY <1>1, <1>2, <1>4, <1>5, StaysPut

\* The next attempt, and the wait before an auto-resume.
LEMMA CountDoes ==
  ASSUME PlanInv, BackoffOver \/ Cooldown
  PROVE  PlanInv' /\ Does
<1>1. /\ run.pc # "idle" /\ plan' = plan /\ UNCHANGED storeVars
      /\ dirty' = dirty /\ done' = done /\ clash' = clash /\ replans' = replans /\ verified' = verified
      /\ UNCHANGED <<handoff, mode, stepID, cancelled, watchdog>>
  BY DEF BackoffOver, Cooldown, NothingReady, InLimit, At, managerVars, ghostVars, boundVars
<1>2. plan # NoPlan /\ run \in RunType /\ RunFine(plan, run)
  BY <1>1, Running
<1>3. KeepsPlan /\ plan'.lifecycle = plan.lifecycle
  BY <1>1, <1>2, PlanUntouched, StoreUntouched
<1>4. /\ run' \in RunType /\ run'.id = run.id /\ run'.tag = run.tag /\ run'.rounds <= run'.limit
      /\ \/ run.pc = "backoff" /\ run'.pc = "exec"
         \/ run'.pc = "cooldown"
  <2>1. CASE BackoffOver
    <3>1. run.pc = "backoff" /\ run.attempt < maxRetries
      BY <1>2, <2>1 DEF BackoffOver, At, RunFine
    <3>2. run.attempt + 1 \in 0 .. maxRetries /\ "exec" \in PCs
      BY <1>2, <3>1, PlanBounds DEF RunType, PCs
    <3>3. run' = [run EXCEPT !.pc = "exec", !.attempt = run.attempt + 1]
      BY <2>1 DEF BackoffOver
    <3> QED
      BY <1>2, <3>1, <3>2, <3>3 DEF RunType, RunFine
  <2>2. CASE Cooldown
    <3>1. run.rounds + 1 <= run.limit /\ run.auto < maxAutoResumeRounds
      BY <1>2, <2>2 DEF Cooldown, NothingReady, InLimit, StartRound, AutoResumeLeft, RunType
    <3>2. run.auto + 1 \in 0 .. maxAutoResumeRounds /\ run.rounds + 1 \in Nat /\ "cooldown" \in PCs
      BY <1>2, <3>1, PlanBounds DEF RunType, PCs
    <3>3. run' = [run EXCEPT !.rounds = run.rounds + 1, !.pc = "cooldown", !.auto = run.auto + 1]
      BY <1>2, <2>2 DEF Cooldown, StartRound, RunType
    <3> QED
      BY <1>2, <3>1, <3>2, <3>3 DEF RunType
  <2> QED
    BY <2>1, <2>2
<1>5. StepOf(plan, run') = StepOf(plan, run)
  BY <1>4 DEF StepOf
<1>6. RunFine(plan, run')
  BY <1>2, <1>4, <1>5 DEF RunFine, AtStep
<1>7. Controls'
  BY <1>1, <1>3, <1>4 DEF PlanInv, Controls, KeepsPlan
<1>8. PlanInv'
  BY <1>2, <1>3, <1>4, <1>6, <1>7, KeepsPlanInv DEF KeepsPlan
<1>9. KeepsSteps
  BY <1>1, <1>2, <1>3, <1>4 DEF KeepsSteps, KeepsPlan, At, AtStep, RunFine
<1> QED
  BY <1>8, <1>9 DEF Does

\* A run has a limit on its rounds.
LEMMA LimitIs ==
  ASSUME NEW n \in Nat
  PROVE  maxPlanExecutionRounds(n) \in Nat
<1>1. minRounds \in Nat /\ maxRounds \in Nat /\ roundsPerStep \in Nat
  BY PlanRunAssumption
<1>2. n * roundsPerStep \in Nat
  BY <1>1
<1> QED
  BY <1>1, <1>2 DEF maxPlanExecutionRounds, Clamp

\* The plan's execution begins.
LEMMA ConsumeDoes ==
  ASSUME PlanInv, Consume
  PROVE  PlanInv' /\ Does
<1>1. /\ plan # NoPlan /\ plan.lifecycle = "approved" /\ plan' = TransitionLifecycle(plan, "executing")
      /\ UNCHANGED storeVars /\ handoff' = FALSE /\ mode' = TRUE /\ stepID' = stepID
      /\ cancelled' = FALSE /\ watchdog' = "armed" /\ run.pc = "idle"
      /\ run' = [NoRun EXCEPT !.pc = "boundary", !.limit = maxPlanExecutionRounds(Len(plan.steps))]
      /\ dirty' = dirty /\ done' = done /\ clash' = clash /\ replans' = replans /\ verified' = verified
  BY DEF Consume, At, ghostVars, boundVars
<1>2. plan \in PlanType /\ Len(plan.steps) \in Nat
  BY <1>1, RunHasPlan, StepFields
<1>3. /\ plan' \in PlanType /\ plan'.steps = plan.steps /\ plan'.ledger = plan.ledger
      /\ plan'.status = plan.status /\ plan'.lifecycle = "executing"
  <2>1. CanTransitionTo("approved", "executing")
    BY DEF CanTransitionTo, allowedLifecycleTransitions
  <2>2. "executing" \in Lifecycles
    BY DEF Lifecycles
  <2> QED
    BY <1>1, <1>2, <2>1, <2>2, TransitionEffect
<1>4. NoRun \in RunType /\ maxPlanExecutionRounds(Len(plan.steps)) \in Nat /\ "boundary" \in PCs
  BY <1>2, NoRunFine, LimitIs DEF RunFine, PCs
<1>5. /\ run' \in RunType /\ run'.pc = "boundary" /\ run'.id = 0 /\ run'.tag = 0
      /\ run'.rounds <= run'.limit
  <2> DEFINE m == maxPlanExecutionRounds(Len(plan.steps))
  <2> HIDE DEF m
  <2>1. m \in Nat /\ run' = [NoRun EXCEPT !.pc = "boundary", !.limit = m]
    BY <1>1, <1>4 DEF m
  <2>2. NoRun.rounds = 0 /\ NoRun.id = 0 /\ NoRun.tag = 0
    BY DEF NoRun
  <2>3. \A k \in Nat : 0 <= k
    OBVIOUS
  <2> QED
    BY <1>4, <2>1, <2>2, <2>3 DEF RunType
<1>6. RunFine(plan, run')
  BY <1>1, <1>5 DEF RunFine, AtStep
<1>s. file' = file /\ stale' \in BOOLEAN /\ Stored
  BY <1>1, StoreUntouched
<1>7. Controls'
  BY <1>1, <1>5, <1>s DEF PlanInv, Controls, RunFine
<1>8. PlanInv'
  BY <1>1, <1>3, <1>5, <1>6, <1>7, <1>s, KeepsPlanInv
<1>9. KeepsSteps
  BY <1>1, <1>3, <1>5, <1>s DEF KeepsSteps, At, AtStep
<1> QED
  BY <1>8, <1>9 DEF Does

\* A plan that is gone, or taken from memory or file, while nothing runs.
LEMMA SwapsPlanInv ==
  ASSUME PlanInv, run' \in {run, NoRun}, run'.pc = "idle", Controls', SwapsPlan
  PROVE  PlanInv' /\ Does
<1>1. RunFine(plan', run') /\ run'.id = 0
  BY NoRunFine DEF PlanInv, RunFine, AtStep
<1>2. run'.tag <= Used(replans) /\ replans \in 0 .. MaxReplans
  BY NoRunFine, UsedTags DEF PlanInv
<1>3. PlanInv'
  BY <1>1, <1>2 DEF PlanInv, SwapsPlan
<1>4. Swaps
  BY <1>1 DEF Swaps
<1> QED
  BY <1>3, <1>4 DEF Does

\* The plan ends.
LEMMA FinalizeDoes ==
  ASSUME PlanInv, Finalize
  PROVE  PlanInv' /\ Does
<1>1. /\ run.pc # "idle" /\ Return /\ UNCHANGED storeVars
      /\ plan' = IF IsComplete(plan) THEN NoPlan ELSE TransitionLifecycle(plan, FinalLifecycle(plan))
      /\ handoff' = (handoff /\ ~IsComplete(plan))
      /\ dirty' = dirty /\ done' = done /\ clash' = clash /\ replans' = replans /\ verified' = verified
  BY DEF Finalize, At, Unsaved, ghostVars, boundVars
<1>2. plan # NoPlan /\ plan \in PlanType
  BY <1>1, Running, RunHasPlan
<1>3. handoff' \in BOOLEAN /\ file' = file /\ stale' = stale /\ stale' \in BOOLEAN /\ Stored
  BY <1>1, StoreUntouched DEF PlanInv, Controls
<1>4. CASE IsComplete(plan)
  <2>1. run' = NoRun /\ mode' = FALSE /\ stepID' = 0 /\ cancelled' = FALSE /\ watchdog' = "gone"
    BY <1>1 DEF Return, LeaveMode
  <2>2. Controls'
    BY <1>1, <1>3, <2>1 DEF Controls, PlanInv, NoRun
  <2>3. SwapsPlan
    BY <1>1, <1>3, <1>4 DEF SwapsPlan
  <2> QED
    BY <2>1, <2>2, <2>3, SwapsPlanInv, NoRunFine
<1>5. CASE ~IsComplete(plan)
  <2> DEFINE l == FinalLifecycle(plan)
  <2>0. plan.status \in Statuses /\ plan.status # "skipped"
    BY <1>2, StepFields, RunHasPlan DEF PlanFine
  <2>1. /\ l \in {"paused", "failed", "completed"}
        /\ l = "completed" => AllCompleted(plan) /\ plan.status \in {"pending", "in_progress"}
    BY <1>5, <2>0 DEF FinalLifecycle, IsComplete, Statuses
  <2>2. l \in Lifecycles /\ plan' = TransitionLifecycle(plan, l)
    BY <1>1, <1>5, <2>1 DEF Lifecycles
  <2> HIDE DEF l
  <2>3. /\ plan' \in PlanType /\ plan'.steps = plan.steps /\ plan'.ledger = plan.ledger
        /\ plan'.status = plan.status /\ plan'.lifecycle \in {l, plan.lifecycle}
    BY <1>2, <2>2, TransitionEffect
  <2>4. KeepsPlan
    BY <1>1, <1>2, <1>3, <2>3 DEF KeepsPlan
  <2> QED
    BY <1>1, <1>3, <2>1, <2>3, <2>4, Returns
<1> QED
  BY <1>4, <1>5

\* A step that gives one step of the plan a new status.
LEMMA MarksPlanInv ==
  ASSUME PlanInv, NEW id, NEW st, NEW t, MarksStep(id, st, t),
         plan'.status # "skipped", plan'.status = "completed" => AllDone(plan'),
         RunFine(plan', run'), run'.tag <= Used(replans), Controls'
  PROVE  PlanInv'
<1>1. PlanFine(plan, replans) /\ plan \in PlanType
  BY RunHasPlan DEF MarksStep
<1>2. Alike(plan, plan') /\ replans' = replans /\ file' \in {file, plan'}
  BY DEF MarksStep, Marked
<1>3. PlanFine(plan', replans)
  BY <1>1, <1>2, AlikeFine
<1>4. \A p \in {plan', file'} : p = NoPlan \/ PlanFine(p, replans')
  BY <1>2, <1>3 DEF PlanInv
<1> QED
  BY <1>2, <1>4 DEF PlanInv

\* Where a step got its new status.
LEMMA MarkedAt ==
  ASSUME NEW p \in PlanType, NEW id, Has(p, id), NEW st, NEW q, Marked(p, q, Find(p, id), st)
  PROVE  /\ q \in PlanType /\ q # NoPlan /\ Has(q, id) /\ Find(q, id) = Find(p, id)
         /\ q.steps[Find(q, id)].status = st
<1>1. Alike(p, q) /\ Find(p, id) \in Indices(p)
  BY FindIs DEF Marked
<1>2. q \in PlanType /\ Has(q, id) /\ Find(q, id) = Find(p, id)
  BY <1>1, AlikeFind
<1> QED
  BY <1>1, <1>2, PlanIsNotNone DEF Marked

\* The orchestrator's own step.
LEMMA CurrentStep ==
  ASSUME PlanInv, AtStep(run)
  PROVE  /\ plan # NoPlan /\ plan \in PlanType /\ run \in RunType /\ run.id \in Tags
         /\ Has(plan, run.id) /\ plan.status \notin {"completed", "skipped"}
<1>1. run.pc # "idle"
  BY DEF AtStep
<1>2. plan # NoPlan /\ run \in RunType /\ RunFine(plan, run)
  BY <1>1, Running
<1>3. plan \in PlanType /\ PlanFine(plan, replans)
  BY <1>2, RunHasPlan
<1>4. run.id # 0 /\ Has(plan, run.id) /\ StepOf(plan, run).status = "in_progress"
  BY <1>2 DEF RunFine
<1>5. run.id \in Tags
  BY <1>2, <1>4, PlanBounds DEF RunType, Tags
<1>6. Find(plan, run.id) \in Indices(plan)
  BY <1>3, <1>4, FindIs
<1>7. ~AllDone(plan)
  BY <1>3, <1>4, <1>6, StillToDo DEF StepOf
<1> QED
  BY <1>2, <1>3, <1>4, <1>5, <1>7 DEF PlanFine

\* The orchestrator's own step ends.
LEMMA CurrentEnds ==
  ASSUME PlanInv, AtStep(run), NEW st \in {"paused", "failed", "completed"},
         MarksStep(run.id, st, run.tag), stale' \in BOOLEAN,
         plan'.status \in {plan.status, "failed"} \/ (plan'.status = "completed" /\ AllDone(plan')),
         \E x \in {"between", "replan", "stopping"} :
           run' = [run EXCEPT !.pc = x] /\ (x = "replan" => st \in {"failed", "completed"}),
         UNCHANGED <<handoff, mode, stepID, cancelled, watchdog>>
  PROVE  PlanInv' /\ Does
<1>1. /\ plan # NoPlan /\ plan \in PlanType /\ run \in RunType /\ run.id \in Tags
      /\ Has(plan, run.id) /\ plan.status \notin {"completed", "skipped"}
  BY CurrentStep
<1>2. Marked(plan, plan', Find(plan, run.id), st) /\ clash' = clash
  BY DEF MarksStep
<1>3. /\ plan' # NoPlan /\ Has(plan', run.id) /\ plan'.steps[Find(plan', run.id)].status = st
  BY <1>1, <1>2, MarkedAt
<1>4. plan'.status # "skipped" /\ (plan'.status = "completed" => AllDone(plan'))
  BY <1>1
<1>5. run.tag <= Used(replans) /\ Used(replans) \in Nat
  BY <1>1, RunHasPlan DEF PlanInv
<1>6. PICK x \in {"between", "replan", "stopping"} :
        run' = [run EXCEPT !.pc = x] /\ (x = "replan" => st \in {"failed", "completed"})
  OBVIOUS
<1>7. /\ run' \in RunType /\ run'.pc = x /\ run'.id = run.id /\ run'.tag = run.tag
      /\ run'.rounds = run.rounds /\ run'.limit = run.limit
  BY <1>1, <1>6, GotoFields DEF PCs
<1>8. StepOf(plan', run').status = st
  BY <1>3, <1>7 DEF StepOf
<1>9. run.rounds <= run.limit /\ run.id # 0
  BY DEF PlanInv, RunFine
<1>10. RunFine(plan', run')
  BY <1>3, <1>6, <1>7, <1>8, <1>9 DEF RunFine, AtStep
<1>11. Controls'
  BY <1>2, <1>7 DEF Controls, PlanInv
<1>12. PlanInv'
  BY <1>4, <1>5, <1>7, <1>10, <1>11, MarksPlanInv
<1>13. MarksCurrent
  BY <1>7 DEF MarksCurrent, AtStep
<1> QED
  BY <1>12, <1>13 DEF Does

\* The orchestrator's step is paused.
LEMMA PauseCurrentDoes ==
  ASSUME PlanInv, PauseCurrentStep \/ HookStops
  PROVE  PlanInv' /\ Does
<1>1. /\ AtStep(run) /\ Save(PauseStep(plan, run.id, "other"))
      /\ dirty' = dirty /\ done' = done /\ verified' = verified /\ clash' = clash /\ replans' = replans
      /\ \E x \in {"between", "stopping"} : run' = [run EXCEPT !.pc = x]
      /\ UNCHANGED <<handoff, mode, stepID, cancelled, watchdog>>
  BY DEF PauseCurrentStep, HookStops, AtStep, At, Goto, ghostVars, boundVars
<1>2. plan # NoPlan /\ plan \in PlanType /\ run.id \in Tags /\ Has(plan, run.id)
  BY <1>1, CurrentStep
<1>3. /\ plan' = PauseStep(plan, run.id, "other") /\ file' \in {file, plan'} /\ Stored
      /\ (file' = plan' \/ stale') /\ stale' \in BOOLEAN
  BY <1>1, SaveStores
<1>r. "other" \in Reasons
  BY DEF Reasons
<1>p. plan' = PauseStep(plan, run.id, "other")
  BY <1>3
<1>4. /\ Marked(plan, plan', Find(plan, run.id), "paused") /\ plan'.ledger = plan.ledger
      /\ plan'.lifecycle = plan.lifecycle /\ plan'.status = plan.status
  BY <1>2, <1>p, <1>r, PauseEffect
<1>5. MarksStep(run.id, "paused", run.tag)
  BY <1>1, <1>2, <1>3, <1>4 DEF MarksStep
<1> QED
  BY <1>1, <1>3, <1>4, <1>5, CurrentEnds

\* The orchestrator's step fails.
LEMMA FailCurrentDoes ==
  ASSUME PlanInv, NEW fatal \in BOOLEAN, FailCurrentStep(fatal)
  PROVE  PlanInv' /\ Does
<1>1. /\ AtStep(run) /\ Save(FailStep(plan, run.id))
      /\ dirty' = dirty /\ done' = done /\ verified' = verified /\ clash' = clash /\ replans' = replans
      /\ \E x \in {"between", "replan"} : run' = [run EXCEPT !.pc = x]
      /\ UNCHANGED <<handoff, mode, stepID, cancelled, watchdog>>
  BY DEF FailCurrentStep, AtStep, At, Goto, ghostVars, boundVars
<1>2. plan # NoPlan /\ plan \in PlanType /\ run.id \in Tags /\ Has(plan, run.id)
  BY <1>1, CurrentStep
<1>3. /\ plan' = FailStep(plan, run.id) /\ file' \in {file, plan'} /\ Stored
      /\ (file' = plan' \/ stale') /\ stale' \in BOOLEAN
  BY <1>1, SaveStores
<1>4. /\ Marked(plan, plan', Find(plan, run.id), "failed") /\ plan'.ledger = plan.ledger
      /\ plan'.lifecycle = plan.lifecycle /\ plan'.status = "failed"
  BY <1>2, <1>3, FailEffect
<1>5. MarksStep(run.id, "failed", run.tag)
  BY <1>1, <1>2, <1>3, <1>4 DEF MarksStep
<1> QED
  BY <1>1, <1>3, <1>4, <1>5, CurrentEnds

\* The orchestrator's step is completed, verified or for its agent's output.
LEMMA CompleteCurrentDoes ==
  ASSUME PlanInv, FinishStep \/ \E fatal \in BOOLEAN : KeepPartialOutput(fatal)
  PROVE  PlanInv' /\ Does
<1>1. /\ AtStep(run) /\ Save(CompleteStep(plan, run.id))
      /\ dirty' = dirty \ {run.tag} /\ done' = done \cup {run.tag}
      /\ verified \subseteq verified' /\ run.tag \in verified'
      /\ clash' = clash /\ replans' = replans
      /\ \E x \in {"between", "replan"} : run' = [run EXCEPT !.pc = x]
      /\ UNCHANGED <<handoff, mode, stepID, cancelled, watchdog>>
  BY DEF FinishStep, KeepPartialOutput, AtStep, At, Goto, boundVars, PlanInv, Controls
<1>2. plan # NoPlan /\ plan \in PlanType /\ run.id \in Tags /\ Has(plan, run.id)
  BY <1>1, CurrentStep
<1>3. /\ plan' = CompleteStep(plan, run.id) /\ file' \in {file, plan'} /\ Stored
      /\ (file' = plan' \/ stale') /\ stale' \in BOOLEAN
  BY <1>1, SaveStores
<1>4. /\ Marked(plan, plan', Find(plan, run.id), "completed") /\ Closes(plan, plan', run.id)
      /\ plan'.lifecycle = plan.lifecycle
      /\ plan'.status = plan.status \/ (plan'.status = "completed" /\ AllDone(plan'))
      /\ AllDone(plan') => plan'.status = "completed"
  BY <1>2, <1>3, CompleteEffect
<1>5. MarksStep(run.id, "completed", run.tag)
  BY <1>1, <1>2, <1>3, <1>4 DEF MarksStep
<1> QED
  BY <1>1, <1>3, <1>4, <1>5, CurrentEnds

\* The next ready step.
LEMMA ReadyStep ==
  ASSUME PlanInv, NEW i \in Indices(plan), Ready(i)
  PROVE  /\ run.pc = "loop" /\ run \in RunType /\ run.rounds + 1 <= run.limit
         /\ plan # NoPlan /\ plan \in PlanType /\ i \in StatusIs(plan, {"pending"})
         /\ plan.steps[i].id \in Tags /\ Has(plan, plan.steps[i].id)
         /\ plan.steps[i].tag \in 1 .. MaxSteps /\ plan.steps[i].tag <= Used(replans)
         /\ plan.status \notin {"completed", "skipped"}
<1>1. run.pc = "loop" /\ i \in StatusIs(plan, {"pending"})
  BY DEF Ready, InLimit, At, NextReadySteps
<1>2. plan # NoPlan /\ run \in RunType
  BY <1>1, Running
<1>3. plan \in PlanType /\ PlanFine(plan, replans)
  BY <1>2, RunHasPlan
<1>4. run.rounds + 1 <= run.limit
  BY <1>2 DEF Ready, InLimit, StartRound, RunType
<1>5. plan.steps[i].id \in Tags /\ plan.steps[i].tag \in Tags /\ plan.steps[i].status = "pending"
  BY <1>1, <1>3, StepFields DEF StatusIs
<1>6. ~AllDone(plan)
  BY <1>3, <1>5, StillToDo
<1> QED
  BY <1>1, <1>2, <1>3, <1>4, <1>5, <1>6 DEF PlanFine, Has, Tags

\* The next ready step is paused for its effects or for its checkpoint.
LEMMA PauseReadyDoes ==
  ASSUME PlanInv, PauseForSafety \/ PauseForCheckpoint
  PROVE  PlanInv' /\ Does
<1>1. \E i \in Indices(plan), reason \in Reasons :
        Ready(i) /\ Save(PauseStep(plan, plan.steps[i].id, reason))
  BY DEF PauseForSafety, PauseForCheckpoint, Reasons
<1>2. PICK i \in Indices(plan), reason \in Reasons :
        Ready(i) /\ Save(PauseStep(plan, plan.steps[i].id, reason))
  BY <1>1
<1>3. /\ run' = [StartRound(run) EXCEPT !.pc = "between"]
      /\ dirty' = dirty /\ done' = done /\ verified' = verified /\ clash' = clash /\ replans' = replans
      /\ UNCHANGED <<handoff, mode, stepID, cancelled, watchdog>>
  BY DEF PauseForSafety, PauseForCheckpoint, ghostVars, boundVars
<1> DEFINE s == plan.steps[i]
<1>4. /\ run.pc = "loop" /\ run \in RunType /\ run.rounds + 1 <= run.limit
      /\ plan # NoPlan /\ plan \in PlanType /\ i \in StatusIs(plan, {"pending"})
      /\ s.id \in Tags /\ Has(plan, s.id) /\ plan.status \notin {"completed", "skipped"}
  BY <1>2, ReadyStep
<1>5. /\ plan' = PauseStep(plan, s.id, reason) /\ file' \in {file, plan'} /\ Stored
      /\ (file' = plan' \/ stale') /\ stale' \in BOOLEAN
  BY <1>2, SaveStores
<1> HIDE DEF s
<1>6. /\ Marked(plan, plan', Find(plan, s.id), "paused") /\ plan'.ledger = plan.ledger
      /\ plan'.lifecycle = plan.lifecycle /\ plan'.status = plan.status
  BY <1>4, <1>5, PauseEffect
<1>7. MarksStep(s.id, "paused", s.tag)
  BY <1>3, <1>4, <1>5, <1>6 DEF MarksStep
<1>8. /\ run' \in RunType /\ run'.pc = "between" /\ run'.id = run.id /\ run'.tag = run.tag
      /\ run'.rounds <= run'.limit
  <2>1. run' = [run EXCEPT !.rounds = run.rounds + 1, !.pc = "between"]
    BY <1>3, <1>4 DEF StartRound, RunType
  <2>2. "between" \in PCs /\ run.rounds + 1 \in Nat
    BY <1>4 DEF PCs, RunType
  <2> QED
    BY <1>4, <2>1, <2>2 DEF RunType
<1>9. plan' # NoPlan /\ (Has(plan, run.id) => Has(plan', run.id))
  <2>1. Alike(plan, plan')
    BY <1>6 DEF Marked
  <2> QED
    BY <1>4, <2>1, AlikeFind, PlanIsNotNone
<1>10. RunFine(plan', run')
  <2>1. run.id # 0 => Has(plan, run.id)
    BY DEF PlanInv, RunFine
  <2> QED
    BY <1>8, <1>9, <2>1 DEF RunFine, AtStep
<1>11. Controls'
  BY <1>3, <1>5, <1>8 DEF Controls, PlanInv
<1>12. PlanInv'
  <2>1. run'.tag <= Used(replans)
    BY <1>8 DEF PlanInv
  <2> QED
    BY <1>4, <1>6, <1>7, <1>10, <1>11, <2>1, MarksPlanInv
<1>13. MarksReady
  BY <1>4, <1>7, <1>8 DEF MarksReady, s
<1> QED
  BY <1>12, <1>13 DEF Does

\* The next ready step begins.
LEMMA BeginDoes ==
  ASSUME PlanInv, BeginStep
  PROVE  PlanInv' /\ Does
<1>1. PICK i \in Indices(plan) :
        /\ Ready(i) /\ Save(StartStep(plan, plan.steps[i].id))
        /\ stepID' = plan.steps[i].id
        /\ run' = [StartRound(run) EXCEPT !.pc = "exec", !.id = plan.steps[i].id,
                                          !.tag = plan.steps[i].tag, !.attempt = 1]
  BY DEF BeginStep
<1>2. /\ dirty' = dirty /\ done' = done /\ verified' = verified /\ clash' = clash /\ replans' = replans
      /\ UNCHANGED <<handoff, mode, cancelled, watchdog>>
  BY DEF BeginStep, ghostVars, boundVars
<1> DEFINE s == plan.steps[i]
<1>3. /\ run.pc = "loop" /\ run \in RunType /\ run.rounds + 1 <= run.limit
      /\ plan # NoPlan /\ plan \in PlanType /\ i \in StatusIs(plan, {"pending"})
      /\ s.id \in Tags /\ Has(plan, s.id) /\ s.tag \in 1 .. MaxSteps /\ s.tag <= Used(replans)
  BY <1>1, ReadyStep
<1>4. /\ plan' = StartStep(plan, s.id) /\ stepID' = s.id
      /\ run' = [StartRound(run) EXCEPT !.pc = "exec", !.id = s.id, !.tag = s.tag, !.attempt = 1]
      /\ file' \in {file, plan'} /\ Stored /\ (file' = plan' \/ stale') /\ stale' \in BOOLEAN
  BY <1>1, SaveStores
<1> HIDE DEF s
<1>5. /\ Marked(plan, plan', Find(plan, s.id), "in_progress") /\ plan'.ledger = plan.ledger
      /\ plan'.lifecycle = plan.lifecycle /\ plan'.status = "in_progress"
  BY <1>3, <1>4, StartEffect
<1>6. MarksStep(s.id, "in_progress", s.tag)
  BY <1>2, <1>3, <1>4, <1>5 DEF MarksStep
<1>7. /\ run' \in RunType /\ run'.pc = "exec" /\ run'.id = s.id /\ run'.tag = s.tag
      /\ run'.rounds <= run'.limit /\ run'.id # 0
  <2>1. run' = [run EXCEPT !.rounds = run.rounds + 1, !.pc = "exec", !.id = s.id, !.tag = s.tag,
                           !.attempt = 1]
    BY <1>3, <1>4 DEF StartRound, RunType
  <2>2. /\ s.id \in 0 .. MaxSteps /\ s.id # 0 /\ s.tag \in 0 .. MaxSteps /\ 1 \in 0 .. maxRetries
        /\ "exec" \in PCs /\ run.rounds + 1 \in Nat
    BY <1>3, PlanBounds DEF Tags, PCs, RunType
  <2> QED
    BY <1>3, <2>1, <2>2 DEF RunType
<1>8. /\ plan' # NoPlan /\ Has(plan', s.id) /\ plan'.steps[Find(plan', s.id)].status = "in_progress"
  BY <1>3, <1>5, MarkedAt
<1>9. StepOf(plan', run').status = "in_progress"
  BY <1>7, <1>8 DEF StepOf
<1>10. RunFine(plan', run')
  BY <1>7, <1>8, <1>9 DEF RunFine, AtStep
<1>11. Controls'
  BY <1>2, <1>3, <1>4, <1>7 DEF Controls, PlanInv
<1>12. PlanInv'
  <2>1. run'.tag <= Used(replans)
    BY <1>3, <1>7
  <2> QED
    BY <1>5, <1>6, <1>10, <1>11, <2>1, MarksPlanInv
<1>13. MarksReady
  BY <1>3, <1>6, <1>7 DEF MarksReady, s
<1> QED
  BY <1>12, <1>13 DEF Does

\* update_plan_progress.
LEMMA ProgressDoes ==
  ASSUME PlanInv, NEW i \in Indices(plan), NEW action \in ManualActions, UpdatePlanProgress(action, i)
  PROVE  PlanInv' /\ Does
<1> DEFINE s == plan.steps[i]
<1>1. /\ run.pc = "idle" /\ plan # NoPlan /\ ~IsComplete(plan)
      /\ handoff' = handoff /\ mode' = mode /\ stepID' = stepID /\ run' = run
      /\ cancelled' = cancelled /\ watchdog' = watchdog /\ clash' = clash /\ replans' = replans
  BY DEF UpdatePlanProgress, At, runVars
<1>2. /\ \/ action = "start" /\ plan' = StartStep(plan, s.id)
         \/ action = "complete" /\ plan' = CompleteStep(plan, s.id)
         \/ action = "fail" /\ plan' = FailStep(plan, s.id)
         \/ action = "skip" /\ plan' = SkipStep(plan, s.id)
      /\ file' \in {file, plan'} /\ Stored /\ stale' \in BOOLEAN
      /\ action # "skip" => file' = plan' \/ stale'
  <2>1. CASE action = "start"
    <3>1. Save(StartStep(plan, s.id))
      BY <2>1 DEF UpdatePlanProgress
    <3> QED
      BY <2>1, <3>1, SaveStores
  <2>2. CASE action = "complete"
    <3>1. Save(CompleteStep(plan, s.id))
      BY <2>2 DEF UpdatePlanProgress
    <3> QED
      BY <2>2, <3>1, SaveStores
  <2>3. CASE action = "fail"
    <3>1. Save(FailStep(plan, s.id))
      BY <2>3 DEF UpdatePlanProgress
    <3> QED
      BY <2>3, <3>1, SaveStores
  <2>4. CASE action = "skip"
    <3>1. plan' = SkipStep(plan, s.id) /\ UNCHANGED storeVars
      BY <2>4 DEF UpdatePlanProgress, Unsaved
    <3> QED
      BY <2>4, <3>1, StoreUntouched
  <2> QED
    BY <2>1, <2>2, <2>3, <2>4 DEF UpdatePlanProgress
<1>3. \/ /\ action = "complete" /\ verified' = verified \cup {s.tag} /\ done' = done \cup {s.tag}
         /\ dirty' = dirty \ {s.tag}
      \/ /\ action # "complete" /\ verified' = verified /\ dirty' = dirty
         /\ done' = IF action = "fail" THEN done \ {s.tag} ELSE done
  BY DEF UpdatePlanProgress
<1>4. plan \in PlanType /\ PlanFine(plan, replans)
  BY <1>1, RunHasPlan
<1>5. s.id \in Tags /\ Has(plan, s.id)
  BY <1>4, StepFields DEF Has
<1> HIDE DEF s
<1>6. \E st \in {"in_progress", "completed", "failed", "skipped"} :
        /\ MarksStep(s.id, st, s.tag) /\ (st = "failed" => s.tag \notin done')
        /\ \/ plan'.status \in {plan.status, "in_progress", "failed"}
           \/ plan'.status = "completed" /\ AllDone(plan')
  <2>1. CASE action = "start"
    <3>1. /\ plan' = StartStep(plan, s.id) /\ file' \in {file, plan'} /\ Stored
          /\ file' = plan' \/ stale'
      BY <1>2, <2>1
    <3>2. /\ Marked(plan, plan', Find(plan, s.id), "in_progress") /\ plan'.ledger = plan.ledger
          /\ plan'.lifecycle = plan.lifecycle /\ plan'.status = "in_progress"
      BY <1>4, <1>5, <3>1, StartEffect
    <3>3. MarksStep(s.id, "in_progress", s.tag)
      BY <1>1, <1>3, <1>5, <2>1, <3>1, <3>2 DEF MarksStep
    <3> QED
      BY <3>2, <3>3
  <2>2. CASE action = "complete"
    <3>1. /\ plan' = CompleteStep(plan, s.id) /\ file' \in {file, plan'} /\ Stored
          /\ file' = plan' \/ stale'
      BY <1>2, <2>2
    <3>2. /\ Marked(plan, plan', Find(plan, s.id), "completed") /\ Closes(plan, plan', s.id)
          /\ plan'.lifecycle = plan.lifecycle
          /\ plan'.status = plan.status \/ (plan'.status = "completed" /\ AllDone(plan'))
          /\ AllDone(plan') => plan'.status = "completed"
      BY <1>4, <1>5, <3>1, CompleteEffect
    <3>3. MarksStep(s.id, "completed", s.tag)
      BY <1>1, <1>3, <1>5, <2>2, <3>1, <3>2 DEF MarksStep
    <3> QED
      BY <3>2, <3>3
  <2>3. CASE action = "fail"
    <3>1. /\ plan' = FailStep(plan, s.id) /\ file' \in {file, plan'} /\ Stored
          /\ file' = plan' \/ stale'
      BY <1>2, <2>3
    <3>2. /\ Marked(plan, plan', Find(plan, s.id), "failed") /\ plan'.ledger = plan.ledger
          /\ plan'.lifecycle = plan.lifecycle /\ plan'.status = "failed"
      BY <1>4, <1>5, <3>1, FailEffect
    <3>3. MarksStep(s.id, "failed", s.tag)
      BY <1>1, <1>3, <1>5, <2>3, <3>1, <3>2 DEF MarksStep
    <3> QED
      BY <1>3, <2>3, <3>2, <3>3
  <2>4. CASE action = "skip"
    <3>1. plan' = SkipStep(plan, s.id) /\ file' \in {file, plan'} /\ Stored
      BY <1>2, <2>4
    <3>2. /\ Marked(plan, plan', Find(plan, s.id), "skipped") /\ plan'.ledger = plan.ledger
          /\ plan'.lifecycle = plan.lifecycle /\ plan'.status = plan.status
      BY <1>4, <1>5, <3>1, SkipEffect
    <3>3. MarksStep(s.id, "skipped", s.tag)
      BY <1>1, <1>3, <1>5, <2>4, <3>1, <3>2 DEF MarksStep
    <3> QED
      BY <3>2, <3>3
  <2> QED
    BY <1>2, <2>1, <2>2, <2>3, <2>4
<1>7. PICK st \in {"in_progress", "completed", "failed", "skipped"} :
        /\ MarksStep(s.id, st, s.tag) /\ (st = "failed" => s.tag \notin done')
        /\ \/ plan'.status \in {plan.status, "in_progress", "failed"}
           \/ plan'.status = "completed" /\ AllDone(plan')
  BY <1>6
<1>8. plan'.status # "skipped" /\ (plan'.status = "completed" => AllDone(plan'))
  BY <1>1, <1>4, <1>7 DEF IsComplete, PlanFine
<1>9. RunFine(plan', run') /\ run'.tag <= Used(replans)
  BY <1>1 DEF PlanInv, RunFine, AtStep
<1>10. Controls'
  BY <1>1, <1>2 DEF PlanInv, Controls
<1>11. PlanInv'
  BY <1>7, <1>8, <1>9, <1>10, MarksPlanInv
<1>12. MarksByHand
  BY <1>1, <1>7 DEF MarksByHand, At, s
<1> QED
  BY <1>11, <1>12 DEF Does

\* A tool with side effects starts.
LEMMA ToolStartDoes ==
  ASSUME PlanInv, NEW repeat \in BOOLEAN, ToolStart(repeat)
  PROVE  PlanInv' /\ Does
<1>0. /\ run.pc \in {"exec", "verify", "gate"} /\ stepID > 0 /\ stepID = run.id
      /\ Save(RecordStepEffect(plan, stepID, repeat))
      /\ dirty' = dirty \cup {run.tag} /\ run' = run
      /\ UNCHANGED <<handoff, mode, stepID, cancelled, watchdog, verified, done, clash, replans>>
  BY DEF ToolStart, Attributable, runVars, boundVars, PlanInv, Controls
<1>1. /\ run.pc \in {"exec", "verify", "gate"} /\ stepID > 0 /\ stepID = run.id
      /\ plan' = RecordStepEffect(plan, stepID, repeat)
      /\ file' \in {file, plan'} /\ (file' = plan' \/ stale') /\ stale' \in BOOLEAN
      /\ dirty' = dirty \cup {run.tag} /\ run' = run
      /\ UNCHANGED <<handoff, mode, stepID, cancelled, watchdog, verified, done, clash, replans>>
  BY <1>0, SaveStores
<1>2. plan # NoPlan /\ run \in RunType /\ RunFine(plan, run)
  BY <1>1, Running
<1>3. plan \in PlanType
  BY <1>2, RunHasPlan
<1>4. run.id \in Tags
  BY <1>1, <1>2, PlanBounds DEF RunType, Tags
<1>5. plan' \in PlanType /\ plan'.steps = plan.steps /\ plan'.status = plan.status
  BY <1>1, <1>3, <1>4, RecordEffect
<1>6. Controls'
  BY <1>1 DEF PlanInv, Controls
<1>7. PlanInv'
  BY <1>1, <1>2, <1>5, <1>6, KeepsPlanInv
<1>8. Records
  BY <1>1, <1>4 DEF Records
<1> QED
  BY <1>7, <1>8 DEF Does

\* Steps are resumed, while nothing runs or by the run itself.
LEMMA ResumesPlanInv ==
  ASSUME PlanInv, NEW p \in {plan, file}, p # NoPlan, NEW S \in {{"paused"}, {"paused", "failed"}},
         Resumed(p, plan', StatusIs(p, S)), plan'.status \in {p.status, "in_progress"},
         file' \in {file, plan'}, replans' = replans, run' \in RunType, run'.rounds <= run'.limit,
         run'.id = run.id, run'.tag = run.tag, run'.pc \in {"idle", "loop"}, Controls',
         run'.pc = "idle" => run.pc = "idle", run'.pc = "loop" => p = plan
  PROVE  PlanInv'
<1> DEFINE I == StatusIs(p, S)
<1>1. p \in PlanType /\ PlanFine(p, replans)
  BY DEF PlanInv, PlanFine
<1>2. /\ Alike(p, plan')
      /\ \A i \in Indices(p) : plan'.steps[i].status = IF i \in I THEN "pending" ELSE p.steps[i].status
  BY DEF Resumed
<1>3. AllDone(p) => I = {}
  BY DEF AllDone, StatusIs
<1>4. /\ plan' \in PlanType /\ Indices(plan') = Indices(p) /\ plan' # NoPlan
      /\ \A id : Has(plan', id) <=> Has(p, id)
  BY <1>1, <1>2, AlikeFind, PlanIsNotNone
<1>5. AllDone(p) => AllDone(plan')
  BY <1>2, <1>3, <1>4 DEF AllDone, StatusIs
<1>6. PlanFine(plan', replans)
  <2>1. plan'.status # "skipped" /\ (plan'.status = "completed" => AllDone(plan'))
    BY <1>1, <1>5 DEF PlanFine
  <2> QED
    BY <1>1, <1>2, <2>1, AlikeFine
<1>7. RunFine(plan', run')
  BY <1>4 DEF RunFine, AtStep, PlanInv
<1>8. \A x \in {plan', file'} : x = NoPlan \/ PlanFine(x, replans')
  BY <1>6 DEF PlanInv
<1> QED
  BY <1>7, <1>8 DEF PlanInv

\* The cooldown is over.
LEMMA CooldownOverDoes ==
  ASSUME PlanInv, CooldownOver
  PROVE  PlanInv' /\ Does
<1>0. /\ run.pc = "cooldown" /\ Save(ResumePausedSteps(plan))
      /\ run' = [run EXCEPT !.pc = "loop"]
      /\ dirty' = dirty \ {plan.steps[i].tag : i \in StatusIs(plan, {"paused"})}
      /\ UNCHANGED <<handoff, mode, stepID, cancelled, watchdog, verified, done, clash, replans>>
  BY DEF CooldownOver, At, Goto, boundVars
<1>1. /\ run.pc = "cooldown" /\ plan' = ResumePausedSteps(plan)
      /\ file' \in {file, plan'} /\ Stored /\ stale' \in BOOLEAN
      /\ run' = [run EXCEPT !.pc = "loop"]
      /\ dirty' = dirty \ {plan.steps[i].tag : i \in StatusIs(plan, {"paused"})}
      /\ UNCHANGED <<handoff, mode, stepID, cancelled, watchdog, verified, done, clash, replans>>
  BY <1>0, SaveStores
<1>2. plan # NoPlan /\ run \in RunType /\ RunFine(plan, run)
  BY <1>1, Running
<1>3. plan \in PlanType
  BY <1>2, RunHasPlan
<1>4. /\ Resumed(plan, plan', StatusIs(plan, {"paused"})) /\ plan'.status = plan.status
      /\ plan'.lifecycle = plan.lifecycle
  BY <1>1, <1>3, ResumeEffect DEF ResumePausedSteps, StatusIs
<1>5. /\ run' \in RunType /\ run'.pc = "loop" /\ run'.id = run.id /\ run'.tag = run.tag
      /\ run'.rounds <= run'.limit
  BY <1>1, <1>2, GotoFields DEF PCs, RunFine
<1>6. Controls'
  BY <1>1, <1>5 DEF Controls, PlanInv
<1>7. PlanInv'
  BY <1>1, <1>2, <1>4, <1>5, <1>6, ResumesPlanInv
<1>8. Resumes
  BY <1>1, <1>2, <1>4, <1>5 DEF Resumes, AtStep, At
<1> QED
  BY <1>7, <1>8 DEF Does

\* A plan with steps that count as left has one.
LEMMA SomeLeft ==
  ASSUME NEW p, PendingCount(p) > 0
  PROVE  StatusIs(p, Open) # {}
<1>1. Cardinality({}) = 0
  BY FS_EmptySet
<1> QED
  BY <1>1 DEF PendingCount

\* /resume-plan.
LEMMA ResumeCommandDoes ==
  ASSUME PlanInv, ResumeCommand
  PROVE  PlanInv' /\ Does
<1> DEFINE current == plan # NoPlan /\ PendingCount(plan) > 0
           p == IF current THEN plan ELSE file
           resumes == PendingCount(p) > 0 /\ CanTransitionTo(p.lifecycle, "approved")
           I == StatusIs(p, {"paused", "failed"})
           steps == IF resumes THEN I ELSE {}
           resumed == {p.steps[i].tag : i \in steps}
<1>1. /\ run.pc = "idle" /\ file' = file /\ plan' = IF resumes THEN ResumePlan(p) ELSE p
      /\ current \/ isResumable(file) \/ (plan = NoPlan /\ file # NoPlan)
      /\ handoff' = (resumes \/ (current /\ handoff)) /\ mode' = (mode /\ current)
      /\ stale' = (stale /\ current)
      /\ stepID' = IF current THEN stepID ELSE 0
      /\ run' = run /\ cancelled' = cancelled /\ watchdog' = watchdog
      /\ verified' = verified /\ clash' = clash /\ replans' = replans
  BY DEF ResumeCommand, At, runVars
<1>d. /\ dirty' = (IF current THEN dirty ELSE EffectsLeft(dirty)) \ resumed
      /\ done' = IF current THEN done ELSE DoneLeft(done)
  BY DEF ResumeCommand
<1>2. p \in {plan, file} /\ p # NoPlan
  BY <1>1 DEF isResumable
<1>3. p \in PlanType
  BY <1>2 DEF PlanInv, PlanFine
<1>4. handoff' \in BOOLEAN /\ mode' \in BOOLEAN /\ stale' \in BOOLEAN
  BY <1>1 DEF PlanInv, Controls
<1>5. run.id = 0 /\ run \in RunType /\ run.rounds <= run.limit
  BY <1>1 DEF PlanInv, RunFine
<1>6. Controls'
  BY <1>1, <1>4, <1>5 DEF PlanInv, Controls
<1>7. resumes => CanTransitionTo(p.lifecycle, "approved") /\ StatusIs(p, Open) # {}
  BY SomeLeft
<1>8. \/ current /\ p = plan /\ dirty' = dirty \ resumed /\ done' = done /\ (stale => stale')
      \/ ~current /\ p = file /\ dirty' = EffectsLeft(dirty) \ resumed /\ Loaded
  BY <1>1, <1>d DEF Loaded
<1>9. resumes => steps = I
  OBVIOUS
<1>10. ~resumes => resumed = {}
  OBVIOUS
<1>11. \A i \in steps : p.steps[i].tag \in resumed
  OBVIOUS
<1> HIDE DEF p, current, resumes, steps, resumed
<1>12. CASE resumes
  <2>1. plan' = ResumePlan(p) /\ \A i \in I : p.steps[i].tag \notin dirty'
    BY <1>1, <1>8, <1>9, <1>11, <1>12
  <2>2. /\ Resumed(p, plan', I) /\ plan'.status = "in_progress" /\ plan'.lifecycle = "approved"
    BY <1>3, <1>7, <1>12, <2>1, ResumePlanEffect
  <2>3. PlanInv'
    BY <1>1, <1>2, <1>5, <1>6, <2>2, ResumesPlanInv
  <2>4. \/ p = plan /\ Stored /\ dirty' \subseteq dirty /\ done' = done
        \/ p = file /\ Loaded
    BY <1>1, <1>8 DEF Stored
  <2>5. Resumes
    BY <1>1, <1>2, <1>7, <1>12, <2>1, <2>2, <2>4 DEF Resumes, AtStep, At
  <2> QED
    BY <2>3, <2>5 DEF Does
<1>13. CASE ~resumes
  <2>1. plan' = p /\ resumed = {}
    BY <1>1, <1>10, <1>13
  <2>2. SwapsPlan
    BY <1>1, <1>2, <1>8, <2>1 DEF SwapsPlan
  <2> QED
    BY <1>1, <1>6, <2>2, SwapsPlanInv
<1> QED
  BY <1>12, <1>13

\* The process ends and the next one loads the plan.
LEMMA RestartDoes ==
  ASSUME PlanInv, NEW graceful \in BOOLEAN, Restart(graceful)
  PROVE  PlanInv' /\ Does
<1>1. /\ Return /\ handoff' = FALSE /\ stale' = FALSE
      /\ verified' = verified /\ clash' = clash /\ replans' = replans
  BY DEF Restart
<1> DEFINE saves == graceful /\ plan # NoPlan /\ ~IsComplete(plan)
<1>2. \/ plan # NoPlan /\ file' = plan /\ plan' \in {NoPlan, plan} /\ dirty' = dirty /\ done' = done
      \/ file' = file /\ plan' \in {NoPlan, file} /\ Loaded
  <2>1. CASE saves
    BY <2>1 DEF Restart
  <2>2. CASE ~saves
    <3>1. /\ file' = file /\ plan' \in {NoPlan, file}
          /\ dirty' = EffectsLeft(dirty) /\ done' = DoneLeft(done)
      BY <2>2 DEF Restart
    <3> QED
      BY <3>1 DEF Loaded
  <2> QED
    BY <2>1, <2>2
<1>3. run' = NoRun /\ mode' = FALSE /\ stepID' = 0 /\ cancelled' = FALSE /\ watchdog' = "gone"
  BY <1>1 DEF Return, LeaveMode
<1>4. run'.pc = "idle" /\ run'.id = 0
  BY <1>3, NoRunFine
<1>5. Controls'
  BY <1>1, <1>3, <1>4 DEF Controls, PlanInv
<1>6. SwapsPlan
  BY <1>1, <1>2 DEF SwapsPlan
<1> QED
  BY <1>3, <1>4, <1>5, <1>6, SwapsPlanInv

\* exit_plan_mode.
LEMMA ExitPlanModeDoes ==
  ASSUME PlanInv, NEW reason, ExitPlanMode(reason)
  PROVE  PlanInv' /\ Does
<1>1. /\ run.pc = "idle" /\ plan' = NoPlan /\ UNCHANGED storeVars /\ handoff' = FALSE /\ mode' = FALSE
      /\ stepID' = 0 /\ run' = run /\ cancelled' = cancelled /\ watchdog' = watchdog
      /\ dirty' = dirty /\ done' = done /\ verified' = verified /\ clash' = clash /\ replans' = replans
  BY DEF ExitPlanMode, At, Unsaved, LeaveMode, runVars, ghostVars
<1>2. run.id = 0 /\ file' = file /\ stale' = stale /\ stale' \in BOOLEAN
  BY <1>1, StoreUntouched DEF PlanInv, RunFine
<1>3. Controls'
  BY <1>1, <1>2 DEF Controls, PlanInv
<1>4. SwapsPlan
  BY <1>1, <1>2 DEF SwapsPlan
<1> QED
  BY <1>1, <1>3, <1>4, SwapsPlanInv

\* Manager.RequestReplan: of the old steps those that were not pending are kept, in
\* their order, and the new ones have tags that no step had before.
Replanned(p, q, r) ==
  /\ q \in PlanType /\ q.ledger = p.ledger /\ q.status = "in_progress" /\ q.lifecycle = p.lifecycle
  /\ Len(q.steps) <= Used(r + 1)
  /\ \A i \in Indices(q) :
       \/ \E j \in Indices(p) : p.steps[j].status # "pending" /\ q.steps[i] = p.steps[j]
       \/ q.steps[i].status = "pending" /\ q.steps[i].tag > Used(r) /\ q.steps[i].tag <= Used(r + 1)
  /\ \A j \in Indices(p) : p.steps[j].status # "pending" => \E i \in Indices(q) : q.steps[i] = p.steps[j]
  /\ \A i, j \in Indices(q) : q.steps[i].tag = q.steps[j].tag => i = j
  /\ \E i \in Indices(q) : q.steps[i].status = "pending"

\* RequestReplan keeps every step that is not pending and adds new ones.
LEMMA ReplanEffect ==
  ASSUME PlanFine(plan, replans), replans \in 0 .. MaxReplans, replans < MaxReplans,
         NEW n \in 1 .. MaxNew, NEW q, q = RequestReplan(plan, n)
  PROVE  Replanned(plan, q, replans)
<1> DEFINE at == Indices(plan) \ StatusIs(plan, {"pending"})
           kept == Kept(plan)
           u == Used(replans)
           new == [k \in 1 .. n |-> NewStep(Len(kept) + 1 + k - 1, u + k)]
           s == kept \o new
<1>1. /\ plan \in PlanType /\ plan.steps \in Seq(StepType) /\ at \in SUBSET DOMAIN plan.steps
      /\ Len(plan.steps) <= u /\ Indices(plan) = DOMAIN plan.steps
  BY DEF PlanFine, PlanType, Indices
<1>2. kept \in Seq(StepType) /\ Selects(kept, plan.steps, at)
  BY <1>1, EntriesSelect DEF Kept
<1>3. /\ Len(kept) \in Nat /\ Len(kept) <= u
      /\ n \in Nat /\ n > 0 /\ n <= MaxNew /\ MaxNew \in Nat /\ replans + 1 \in 0 .. MaxReplans
  <2>1. Len(kept) \in Nat /\ Len(kept) <= Len(plan.steps) /\ Len(plan.steps) \in Nat
    <3> HIDE DEF kept, at
    <3>1. Len(kept) \in Nat
      BY <1>2
    <3>2. Len(kept) <= Len(plan.steps)
      BY <1>2, Zenon DEF Selects
    <3> QED
      BY <1>1, <3>1, <3>2
  <2>2. MaxNew \in Nat /\ MaxReplans \in Nat
    BY PlanBounds
  <2>3. u \in Nat
    BY UsedTags
  <2> HIDE DEF kept, u
  <2> QED
    BY <1>1, <2>1, <2>2, <2>3
<1>4. u \in Nat /\ Used(replans + 1) = u + MaxNew /\ u + MaxNew <= MaxSteps /\ MaxSteps \in Nat
  <2>1. Used(replans + 1) <= MaxSteps
    BY <1>3, UsedTags
  <2> QED
    BY <2>1, UsedTags, PlanBounds
<1>5. q = With(plan, s, plan.ledger, "in_progress", plan.lifecycle)
  BY <1>1 DEF RequestReplan, FirstNewID, With, PlanType, Used
<1> HIDE DEF kept, u
<1>6. \A k \in 1 .. n : /\ new[k] \in StepType /\ new[k].status = "pending" /\ new[k].tag = u + k
  <2> TAKE k \in 1 .. n
  <2>1. new[k] = NewStep(Len(kept) + 1 + k - 1, u + k)
    OBVIOUS
  <2>2. Len(kept) + 1 + k - 1 \in Tags /\ u + k \in Tags
    BY <1>3, <1>4 DEF Tags
  <2> QED
    BY <2>1, <2>2 DEF NewStep, StepType, Statuses
<1>7. new \in Seq(StepType) /\ Len(new) = n
  BY <1>3, <1>6
<1> HIDE DEF new
<1>8. /\ s \in Seq(StepType) /\ Len(s) = Len(kept) + n
      /\ \A i \in 1 .. Len(s) : s[i] = IF i <= Len(kept) THEN kept[i] ELSE new[i - Len(kept)]
  BY <1>2, <1>3, <1>7
<1> HIDE DEF s
<1>9. /\ q \in PlanType /\ q.steps = s /\ q.ledger = plan.ledger /\ q.status = "in_progress"
      /\ q.lifecycle = plan.lifecycle
  <2>1. "in_progress" \in Statuses /\ plan.ledger \in [Tags -> EntryType] /\ plan.lifecycle \in Lifecycles
    BY <1>1, StepFields DEF Statuses
  <2> QED
    BY <1>1, <1>5, <1>8, <2>1, WithIs
<1>10. Indices(q) = 1 .. Len(s)
  BY <1>8, <1>9 DEF Indices
<1>11. PICK f \in [DOMAIN kept -> at] :
         /\ \A m \in DOMAIN kept : kept[m] = plan.steps[f[m]]
         /\ \A m, k \in DOMAIN kept : f[m] = f[k] => m = k
         /\ \A i \in at : \E m \in DOMAIN kept : f[m] = i
  BY <1>2 DEF Selects
<1>12. DOMAIN kept = 1 .. Len(kept)
  BY <1>2
<1>13. \A j \in Indices(plan) : j \in at <=> plan.steps[j].status # "pending"
  BY DEF StatusIs
<1>14. ASSUME NEW i \in Indices(q), i <= Len(kept)
       PROVE  f[i] \in Indices(plan) /\ q.steps[i] = plan.steps[f[i]]
              /\ plan.steps[f[i]].status # "pending" /\ q.steps[i].tag \in Nat /\ q.steps[i].tag <= u
  <2>1. i \in DOMAIN kept
    BY <1>8, <1>10, <1>12, <1>14
  <2>2. f[i] \in at /\ q.steps[i] = plan.steps[f[i]] /\ f[i] \in Indices(plan)
    BY <1>8, <1>9, <1>10, <1>11, <1>14, <2>1
  <2> QED
    BY <1>1, <1>13, <2>2, StepFields DEF PlanFine, Tags, u
<1>15. ASSUME NEW i \in Indices(q), ~(i <= Len(kept))
       PROVE  /\ i - Len(kept) \in 1 .. n /\ q.steps[i].status = "pending"
              /\ q.steps[i].tag = u + (i - Len(kept))
  <2>1. i - Len(kept) \in 1 .. n
    BY <1>3, <1>8, <1>10, <1>15
  <2> QED
    BY <1>6, <1>8, <1>9, <1>10, <1>15, <2>1
<1>16. \A i \in Indices(q) :
       \/ \E j \in Indices(plan) : plan.steps[j].status # "pending" /\ q.steps[i] = plan.steps[j]
       \/ q.steps[i].status = "pending" /\ q.steps[i].tag > u /\ q.steps[i].tag <= Used(replans + 1)
  BY <1>3, <1>4, <1>14, <1>15
<1>17. ASSUME NEW j \in Indices(plan), plan.steps[j].status # "pending"
       PROVE  \E i \in Indices(q) : q.steps[i] = plan.steps[j]
  <2>1. PICK m \in DOMAIN kept : f[m] = j
    BY <1>11, <1>13, <1>17
  <2>2. m \in Indices(q) /\ m <= Len(kept)
    BY <1>3, <1>8, <1>10, <1>12
  <2> QED
    BY <1>14, <2>1, <2>2
<1>18. ASSUME NEW i \in Indices(q), NEW j \in Indices(q), q.steps[i].tag = q.steps[j].tag
       PROVE  i = j
  <2>1. i \in Nat /\ j \in Nat
    BY <1>8, <1>10
  <2>2. CASE i <= Len(kept) /\ j <= Len(kept)
    <3>1. f[i] = f[j]
      BY <1>14, <1>18, <2>2 DEF PlanFine
    <3>2. i \in DOMAIN kept /\ j \in DOMAIN kept
      BY <1>10, <1>12, <2>2, <1>8
    <3> QED
      BY <1>11, <3>1, <3>2
  <2>3. CASE i <= Len(kept) /\ ~(j <= Len(kept))
    BY <1>3, <1>4, <1>14, <1>15, <1>18, <2>3
  <2>4. CASE ~(i <= Len(kept)) /\ j <= Len(kept)
    BY <1>3, <1>4, <1>14, <1>15, <1>18, <2>4
  <2>5. CASE ~(i <= Len(kept)) /\ ~(j <= Len(kept))
    BY <1>3, <1>4, <1>15, <1>18, <2>1, <2>5
  <2> QED
    BY <2>2, <2>3, <2>4, <2>5
<1>19. Len(q.steps) <= Used(replans + 1)
  BY <1>3, <1>4, <1>8, <1>9
<1>20. \E i \in Indices(q) : q.steps[i].status = "pending"
  <2>1. Len(kept) + 1 \in Indices(q) /\ ~(Len(kept) + 1 <= Len(kept))
    BY <1>3, <1>8, <1>10
  <2> QED
    BY <1>15, <2>1
<1> QED
  BY <1>9, <1>16, <1>17, <1>18, <1>19, <1>20 DEF Replanned, u

\* A replan; the orchestrator's step is one of those that are kept.
LEMMA ReplanDoes ==
  ASSUME PlanInv, NEW n \in 1 .. MaxNew, Replan(n)
  PROVE  PlanInv' /\ Does
<1>1. /\ run.pc = "replan" /\ replans < MaxReplans /\ replans' = replans + 1
      /\ plan' = RequestReplan(plan, n) /\ file' = file /\ run' = [run EXCEPT !.pc = "between"]
      /\ clash' = (clash \/ ~DistinctIDs(plan')) /\ stale' = stale
      /\ UNCHANGED <<handoff, mode, stepID, cancelled, watchdog, dirty, verified, done>>
  BY DEF Replan, At, Unsaved, Goto, storeVars
<1>2. plan # NoPlan /\ run \in RunType /\ RunFine(plan, run)
  BY <1>1, Running
<1>3. plan \in PlanType /\ PlanFine(plan, replans) /\ replans \in 0 .. MaxReplans
  BY <1>2, RunHasPlan DEF PlanInv
<1>4. Replanned(plan, plan', replans)
  BY <1>1, <1>3, ReplanEffect
<1>5. /\ Used(replans) \in Nat /\ MaxNew \in Nat /\ Used(replans + 1) = Used(replans) + MaxNew
      /\ replans + 1 \in 0 .. MaxReplans
  BY <1>1, <1>3, UsedTags, PlanBounds
<1>6. PlanFine(plan', replans + 1)
  <2>1. \A i \in Indices(plan') : plan'.steps[i].tag <= Used(replans + 1)
    <3> TAKE i \in Indices(plan')
    <3>1. CASE \E j \in Indices(plan) : plan'.steps[i] = plan.steps[j]
      <4>1. PICK j \in Indices(plan) : plan'.steps[i] = plan.steps[j]
        BY <3>1
      <4>2. plan.steps[j].tag <= Used(replans) /\ plan.steps[j].tag \in Nat
        BY <1>3, StepFields, PlanBounds DEF PlanFine, Tags
      <4> QED
        BY <1>5, <4>1, <4>2
    <3> QED
      BY <1>4, <3>1 DEF Replanned
  <2> QED
    BY <1>4, <2>1 DEF PlanFine, Replanned
<1>7. \A p \in {plan', file'} : p = NoPlan \/ PlanFine(p, replans')
  <2>1. file = NoPlan \/ PlanFine(file, replans + 1)
    <3>1. SUFFICES ASSUME file # NoPlan
                   PROVE  PlanFine(file, replans + 1)
      OBVIOUS
    <3>2. PlanFine(file, replans)
      BY <3>1 DEF PlanInv
    <3>3. Len(file.steps) \in Nat /\ \A i \in Indices(file) : file.steps[i].tag \in Nat
      BY <3>2, StepFields, PlanBounds DEF PlanFine, Tags
    <3> QED
      BY <1>5, <3>2, <3>3 DEF PlanFine
  <2> QED
    BY <1>1, <1>6, <2>1
<1>8. /\ run' \in RunType /\ run'.pc = "between" /\ run'.id = run.id /\ run'.tag = run.tag
      /\ run'.rounds <= run'.limit
  BY <1>1, <1>2, GotoFields DEF PCs, RunFine
<1>9. Has(plan', run.id)
  <2>1. Has(plan, run.id) /\ StepOf(plan, run).status # "pending"
    BY <1>1, <1>2 DEF RunFine
  <2>2. Find(plan, run.id) \in Indices(plan) /\ plan.steps[Find(plan, run.id)].id = run.id
    BY <1>3, <2>1, FindIs
  <2>3. \E i \in Indices(plan') : plan'.steps[i] = plan.steps[Find(plan, run.id)]
    BY <1>4, <2>1, <2>2 DEF Replanned, StepOf
  <2> QED
    BY <2>2, <2>3 DEF Has
<1>10. plan' # NoPlan
  BY <1>4, PlanIsNotNone DEF Replanned
<1>11. RunFine(plan', run')
  BY <1>8, <1>9, <1>10 DEF RunFine, AtStep
<1>12. Controls'
  <2>1. clash' \in BOOLEAN
    BY <1>1, Zenon
  <2> QED
    BY <1>1, <1>8, <2>1 DEF Controls, PlanInv
<1>13. run'.tag <= Used(replans')
  <2>1. run.tag <= Used(replans) /\ run.tag \in Nat
    BY <1>2, PlanBounds DEF PlanInv, RunType
  <2> QED
    BY <1>1, <1>5, <1>8, <2>1
<1>14. PlanInv'
  BY <1>1, <1>5, <1>7, <1>11, <1>12, <1>13 DEF PlanInv
<1>15. Replans
  BY <1>1, <1>8 DEF Replans
<1> QED
  BY <1>14, <1>15 DEF Does

\* Every step keeps the invariant and is of one of the kinds.
LEMMA NextDoes ==
  ASSUME PlanInv, Next
  PROVE  PlanInv' /\ Does
<1>1. CASE Consume
  BY <1>1, ConsumeDoes
<1>2. CASE Orchestrator
  <2>1. CASE \/ Boundary \/ ContextReplaced \/ AttemptSucceeds \/ TransientRetry \/ ReplanFails
             \/ VerificationPasses \/ LoopEnds
    BY <2>1, OnwardDoes
  <2>2. CASE BoundaryOvertaken
    BY <2>2, OvertakenDoes
  <2>3. CASE LimitReached \/ AutoResumeExhausted \/ HookStopped
    BY <2>3, PausingExitDoes
  <2>4. CASE LoopCancelled \/ CooldownCancelled \/ GateBlocks
    BY <2>4, ExitDoes
  <2>5. CASE PauseForSafety \/ PauseForCheckpoint
    BY <2>5, PauseReadyDoes
  <2>6. CASE BeginStep
    BY <2>6, BeginDoes
  <2>7. CASE BackoffOver \/ Cooldown
    BY <2>7, CountDoes
  <2>8. CASE PauseCurrentStep \/ HookStops
    BY <2>8, PauseCurrentDoes
  <2>9. CASE \E fatal \in BOOLEAN : FailCurrentStep(fatal)
    BY <2>9, FailCurrentDoes
  <2>10. CASE FinishStep \/ \E fatal \in BOOLEAN : KeepPartialOutput(fatal)
    BY <2>10, CompleteCurrentDoes
  <2>11. CASE \E n \in 1 .. MaxNew : Replan(n)
    BY <2>11, ReplanDoes
  <2>12. CASE Proceed
    BY <2>12, ProceedDoes
  <2>13. CASE CooldownOver
    BY <2>13, CooldownOverDoes
  <2>14. CASE Finalize
    BY <2>14, FinalizeDoes
  <2> QED
    BY <1>2, <2>1, <2>2, <2>3, <2>4, <2>5, <2>6, <2>7, <2>8, <2>9, <2>10, <2>11, <2>12, <2>13, <2>14
       DEF Orchestrator
<1>3. CASE \E repeat \in BOOLEAN : ToolStart(repeat)
  BY <1>3, ToolStartDoes
<1>4. CASE BoundaryFails
  BY <1>4, PausingExitDoes
<1>5. CASE Esc \/ WatchdogPauses \/ WatchdogCancels
  BY <1>5, CancelDoes
<1>6. CASE \E graceful \in BOOLEAN : Restart(graceful)
  BY <1>6, RestartDoes
<1>7. CASE ResumeCommand
  BY <1>7, ResumeCommandDoes
<1>8. CASE \E i \in Indices(plan), action \in ManualActions : UpdatePlanProgress(action, i)
  BY <1>8, ProgressDoes
<1>9. CASE \E reason \in {"completed", "abandoned"} : ExitPlanMode(reason)
  BY <1>9, ExitPlanModeDoes
<1> QED
  BY <1>1, <1>2, <1>3, <1>4, <1>5, <1>6, <1>7, <1>8, <1>9 DEF Next

\* A plan as it is approved.
LEMMA NewPlanFine ==
  /\ PlanFine(NewPlan, 0) /\ DistinctIDs(NewPlan) /\ NewPlan # NoPlan
  /\ NewPlan.lifecycle = "approved" /\ NewPlan.status = "pending"
  /\ \A i \in Indices(NewPlan) : NewPlan.steps[i].status = "pending"
  /\ \A id \in Tags : ~NewPlan.ledger[id].completed
<1>1. Used(0) = NumSteps /\ NumSteps \in Nat /\ NumSteps <= MaxSteps /\ MaxSteps \in Nat
  <2>1. 0 \in 0 .. MaxReplans /\ NumSteps \in Nat /\ MaxNew \in Nat /\ MaxSteps \in Nat
    BY PlanBounds
  <2>2. NumSteps <= Used(0) /\ Used(0) <= MaxSteps /\ Used(0) = NumSteps
    BY <2>1, UsedTags DEF Used
  <2> QED
    BY <2>1, <2>2
<1> DEFINE s == [i \in 1 .. NumSteps |-> NewStep(i, i)]
           l == [id \in Tags |-> NoEntry]
<1>2. \A i \in 1 .. NumSteps : /\ s[i] \in StepType /\ s[i].id = i /\ s[i].tag = i
                               /\ s[i].status = "pending"
  BY <1>1 DEF NewStep, StepType, Statuses, Tags
<1>3. s \in Seq(StepType) /\ Len(s) = NumSteps /\ DOMAIN s = 1 .. NumSteps
  BY <1>1, <1>2
<1>4. NoEntry \in EntryType /\ ~NoEntry.completed
  <2>1. 0 \in 0 .. 2
    OBVIOUS
  <2> QED
    BY <2>1 DEF NoEntry, EntryType
<1>5. l \in [Tags -> EntryType] /\ \A id \in Tags : ~l[id].completed
  BY <1>4
<1>6. NewPlan = [steps |-> s, ledger |-> l, status |-> "pending", lifecycle |-> "approved"]
  BY DEF NewPlan
<1> HIDE DEF s, l
<1>7. NewPlan \in PlanType /\ NewPlan.steps = s /\ NewPlan.ledger = l /\ NewPlan.status = "pending"
      /\ NewPlan.lifecycle = "approved"
  BY <1>3, <1>5, <1>6 DEF PlanType, Statuses, Lifecycles
<1>8. Indices(NewPlan) = 1 .. NumSteps
  BY <1>3, <1>7 DEF Indices
<1>9. PlanFine(NewPlan, 0) /\ DistinctIDs(NewPlan)
  BY <1>1, <1>2, <1>3, <1>7, <1>8 DEF PlanFine, DistinctIDs
<1> QED
  BY <1>2, <1>5, <1>7, <1>8, <1>9, PlanIsNotNone

\* The inductive invariant holds in every state.
LEMMA PlanInvHolds == Spec => []PlanInv
<1>1. Init => PlanInv
  <2> SUFFICES ASSUME Init
               PROVE  PlanInv
    OBVIOUS
  <2>1. /\ plan = NewPlan /\ file = NoPlan /\ run = NoRun /\ replans = 0
        /\ handoff = TRUE /\ mode = FALSE /\ stepID = 0 /\ cancelled = FALSE /\ watchdog = "gone"
        /\ clash = FALSE /\ stale = FALSE
    BY DEF Init
  <2>2. RunFine(plan, run) /\ run.pc = "idle" /\ run.id = 0 /\ run.tag = 0
    BY <2>1, NoRunFine
  <2>3. 0 \in 0 .. MaxReplans
    BY PlanBounds
  <2>4. Used(0) \in Nat
    BY <2>3, UsedTags
  <2>5. Controls
    BY <2>1, <2>2 DEF Controls
  <2>6. \A p \in {plan, file} : p = NoPlan \/ PlanFine(p, replans)
    BY <2>1, NewPlanFine
  <2> QED
    BY <2>1, <2>2, <2>3, <2>4, <2>5, <2>6 DEF PlanInv
<1>2. PlanInv /\ [Next]_vars => PlanInv'
  <2> SUFFICES ASSUME PlanInv, [Next]_vars
               PROVE  PlanInv'
    OBVIOUS
  <2>1. CASE Next
    BY <2>1, NextDoes
  <2>2. CASE UNCHANGED vars
    BY <2>2 DEF PlanInv, Controls, vars, managerVars, storeVars, runVars, ghostVars, boundVars
  <2> QED
    BY <2>1, <2>2
<1> QED
  BY <1>1, <1>2, PTL DEF Spec

\* The types of the plan in memory and on file and of the orchestrator, and the step
\* a run is at is one of its plan: plan.go never looks for a step in vain.
THEOREM PlanRunTypeCorrect == Spec => []PlanRunTypeOK
<1>1. PlanInv => PlanRunTypeOK
  <2> SUFFICES ASSUME PlanInv
               PROVE  PlanRunTypeOK
    OBVIOUS
  <2>1. run \in RunType /\ run.rounds <= run.limit /\ RunFine(plan, run)
    BY DEF PlanInv, RunFine
  <2>2. /\ run.attempt \in 0 .. maxRetries /\ run.auto \in 0 .. maxAutoResumeRounds
        /\ run.rounds \in 0 .. run.limit
    BY <2>1 DEF RunType
  <2>3. (plan = NoPlan \/ plan \in PlanType) /\ (file = NoPlan \/ file \in PlanType)
    BY DEF PlanInv, PlanFine
  <2> QED
    BY <2>1, <2>2, <2>3 DEF PlanRunTypeOK, PlanInv, Controls, RunFine, At
<1> QED
  BY <1>1, PlanInvHolds, PTL

-----------------------------------------------------------------------------
(* The lifecycle                                                            *)

\* All steps are completed only if each is, and then there is one.
LEMMA AllCompletedSteps ==
  ASSUME NEW p \in PlanType
  PROVE  /\ AllCompleted(p) => \A i \in Indices(p) : p.steps[i].status = "completed"
         /\ AllCompleted(p) => AllDone(p)
  BY DEF AllCompleted, AllDone, StatusIs

\* A plan with the same steps, and the same status or paused, has as good a lifecycle.
LEMMA LifeKept ==
  ASSUME NEW p \in PlanType, LifeFine(p), NEW q \in PlanType, q.steps = p.steps,
         q.status \in {p.status, "paused"},
         q.lifecycle \in {p.lifecycle, "paused", "executing", "failed"}
  PROVE  LifeFine(q)
<1>1. AllCompleted(q) <=> AllCompleted(p)
  BY DEF AllCompleted, StatusIs, Indices
<1> QED
  BY <1>1 DEF LifeFine

\* A step of the system keeps the lifecycle invariant.
LEMMA LifecycleStep ==
  ASSUME PlanInv, LifecycleInv, Does
  PROVE  LifecycleInv'
<1>1. plan # NoPlan => plan \in PlanType /\ LifeFine(plan)
  BY RunHasPlan DEF LifecycleInv
<1>2. file # NoPlan => file \in PlanType /\ LifeFine(file)
  BY DEF LifecycleInv, PlanInv, PlanFine
<1>3. run.pc # "idle" => plan # NoPlan /\ plan.lifecycle \in {"executing", "paused"}
  BY Running DEF LifecycleInv, At
<1>4. SUFFICES /\ plan' # NoPlan => LifeFine(plan')
               /\ file' # NoPlan => LifeFine(file')
               /\ run'.pc # "idle" => plan'.lifecycle \in {"executing", "paused"}
  BY DEF LifecycleInv, At
<1>5. CASE KeepsSteps
  <2>1. /\ plan # NoPlan /\ plan' \in PlanType /\ plan'.steps = plan.steps /\ file' \in {file, plan'}
        /\ plan'.status \in {plan.status, "paused"}
        /\ \/ plan'.lifecycle \in {plan.lifecycle, "paused"} /\ (run.pc = "idle" => run'.pc = "idle")
           \/ plan'.lifecycle = "executing"
           \/ run'.pc = "idle" /\ plan'.lifecycle = "failed"
           \/ AllCompleted(plan) /\ plan.status \in {"pending", "in_progress"}
    BY <1>5 DEF KeepsSteps, At
  <2>2. /\ \/ plan'.lifecycle \in {plan.lifecycle, "paused"} /\ (run.pc = "idle" => run'.pc = "idle")
           \/ plan'.lifecycle = "executing"
           \/ run'.pc = "idle" /\ plan'.lifecycle = "failed"
    BY <1>1, <2>1 DEF LifeFine
  <2>3. LifeFine(plan')
    BY <1>1, <2>1, <2>2, LifeKept
  <2> QED
    BY <1>2, <1>3, <2>1, <2>2, <2>3
<1>6. CASE MarksCurrent \/ MarksReady \/ MarksByHand
  <2>1. PICK id, st, t : /\ MarksStep(id, st, t)
                         /\ st \in {"paused", "failed", "completed", "in_progress", "skipped"}
    BY <1>6 DEF MarksCurrent, MarksReady, MarksByHand
  <2>2. /\ plan # NoPlan /\ Has(plan, id) /\ Marked(plan, plan', Find(plan, id), st)
        /\ plan'.lifecycle = plan.lifecycle /\ file' \in {file, plan'}
        /\ st = "completed" /\ AllDone(plan') => plan'.status = "completed"
    BY <2>1 DEF MarksStep
  <2>3. plan' \in PlanType /\ Has(plan', id) /\ plan'.steps[Find(plan', id)].status = st
    BY <1>1, <2>2, MarkedAt
  <2>4. Find(plan', id) \in Indices(plan')
    BY <2>3, FindIs
  <2>5. plan'.status \in {"pending", "in_progress"} => ~AllCompleted(plan')
    BY <2>2, <2>3, <2>4, AllCompletedSteps
  <2>6. LifeFine(plan')
    BY <1>1, <2>2, <2>5 DEF LifeFine
  <2>7. run'.pc # "idle" => run.pc # "idle"
    BY <1>6 DEF MarksCurrent, MarksReady, MarksByHand, AtStep, At
  <2> QED
    BY <1>2, <1>3, <2>2, <2>6, <2>7
<1>8. CASE Records
  <2>1. /\ run.pc # "idle" /\ run.id \in Tags /\ file' \in {file, plan'}
        /\ \E repeat \in BOOLEAN : plan' = RecordStepEffect(plan, run.id, repeat)
    BY <1>8 DEF Records
  <2>2. /\ plan' \in PlanType /\ plan'.steps = plan.steps /\ plan'.lifecycle = plan.lifecycle
        /\ plan'.status = plan.status
    BY <1>1, <1>3, <2>1, RecordEffect
  <2>3. LifeFine(plan')
    BY <1>1, <1>3, <2>1, <2>2, LifeKept
  <2> QED
    BY <1>2, <1>3, <2>1, <2>2, <2>3
<1>9. CASE Resumes
  <2>1. /\ file' \in {file, plan'}
        /\ \/ run.pc # "idle" /\ plan'.lifecycle = plan.lifecycle
           \/ run'.pc = "idle" /\ plan'.lifecycle = "approved"
    BY <1>9 DEF Resumes, At
  <2>2. PICK p \in {plan, file}, S \in {{"paused"}, {"paused", "failed"}} :
          /\ p # NoPlan /\ Resumed(p, plan', StatusIs(p, S))
          /\ plan'.status = p.status \/ StatusIs(p, Open) # {}
    BY <1>9 DEF Resumes
  <2>3. p \in PlanType /\ LifeFine(p) /\ Alike(p, plan')
    BY <1>1, <1>2, <2>2 DEF Resumed
  <2>4. plan' \in PlanType /\ Indices(plan') = Indices(p)
    BY <2>3, AlikeFind
  <2>5. AllCompleted(plan') => AllCompleted(p) /\ StatusIs(p, Open) = {}
    <3>1. SUFFICES ASSUME AllCompleted(plan')
                   PROVE  AllCompleted(p) /\ StatusIs(p, Open) = {}
      OBVIOUS
    <3>2. \A i \in Indices(p) : p.steps[i].status = "completed"
      BY <2>2, <2>4, <3>1, AllCompletedSteps DEF Resumed
    <3>3. p.steps # << >>
      <4>1. plan'.steps # << >> /\ Len(plan'.steps) = Len(p.steps) /\ plan'.steps \in Seq(StepType)
        BY <2>3, <3>1 DEF AllCompleted, Alike, PlanType
      <4> QED
        BY <4>1
    <3> QED
      BY <3>2, <3>3 DEF AllCompleted, StatusIs, Open
  <2>6. LifeFine(plan')
    BY <1>3, <2>1, <2>2, <2>3, <2>5 DEF LifeFine
  <2> QED
    BY <1>2, <1>3, <2>1, <2>6
<1>10. CASE Replans
  <2>1. /\ run.pc # "idle" /\ file' = file /\ replans < MaxReplans
        /\ \E n \in 1 .. MaxNew : plan' = RequestReplan(plan, n)
    BY <1>10 DEF Replans
  <2>2. PlanFine(plan, replans) /\ replans \in 0 .. MaxReplans
    BY <1>3, <2>1, RunHasPlan DEF PlanInv
  <2>3. Replanned(plan, plan', replans)
    BY <2>1, <2>2, ReplanEffect
  <2>4. plan'.lifecycle = plan.lifecycle /\ plan' \in PlanType
    BY <2>3 DEF Replanned
  <2>5. ~AllCompleted(plan')
    BY <2>3, <2>4, AllCompletedSteps DEF Replanned
  <2>6. LifeFine(plan')
    BY <1>3, <2>1, <2>4, <2>5 DEF LifeFine
  <2> QED
    BY <1>2, <1>3, <2>1, <2>4, <2>6
<1>11. CASE Swaps
  BY <1>1, <1>2, <1>11 DEF Swaps, SwapsPlan
<1> QED
  BY <1>5, <1>6, <1>8, <1>9, <1>10, <1>11 DEF Does

\* The lifecycle follows the steps.
LEMMA LifecycleHolds == Spec => []LifecycleInv
<1>1. Init => LifecycleInv
  <2> SUFFICES ASSUME Init
               PROVE  LifecycleInv
    OBVIOUS
  <2>1. plan = NewPlan /\ file = NoPlan /\ run.pc = "idle"
    BY NoRunFine DEF Init
  <2>2. plan \in PlanType /\ 1 \in Indices(plan) /\ plan.steps[1].status = "pending"
    <3>1. plan \in PlanType /\ plan.steps = [i \in 1 .. NumSteps |-> NewStep(i, i)]
      BY <2>1, NewPlanFine DEF PlanFine, NewPlan
    <3>2. 1 \in Indices(plan)
      BY <3>1, PlanBounds DEF Indices
    <3> QED
      BY <2>1, <3>1, <3>2, NewPlanFine
  <2>3. LifeFine(plan)
    BY <2>1, <2>2, NewPlanFine, AllCompletedSteps DEF LifeFine
  <2> QED
    BY <2>1, <2>3 DEF LifecycleInv, At
<1>2. PlanInv /\ LifecycleInv /\ [Next]_vars => LifecycleInv'
  <2> SUFFICES ASSUME PlanInv, LifecycleInv, [Next]_vars
               PROVE  LifecycleInv'
    OBVIOUS
  <2>1. CASE Next
    BY <2>1, NextDoes, LifecycleStep
  <2>2. CASE UNCHANGED vars
    BY <2>2 DEF LifecycleInv, At, vars, managerVars, storeVars, runVars
  <2> QED
    BY <2>1, <2>2
<1> QED
  BY <1>1, <1>2, PlanInvHolds, PTL DEF Spec

\* A plan with steps left can be resumed, the current one whenever nothing runs and
\* the one on file after a crash (lifecycle.go, store.go, resume_plan.go), through
\* any steps completed, failed and skipped by hand and any saves that fail.
THEOREM LeftoversCanBeResumed == Spec => []CanResume
<1>1. PlanInv /\ LifecycleInv => CanResume
  <2> SUFFICES ASSUME PlanInv, LifecycleInv
               PROVE  CanResume
    OBVIOUS
  <2>1. ASSUME NEW p \in {plan, file}, p # NoPlan
        PROVE  CanTransitionTo(p.lifecycle, "approved")
    <3>1. p.lifecycle \in {"approved", "executing", "paused", "failed"}
      BY <2>1 DEF LifecycleInv, LifeFine
    <3> QED
      BY <3>1 DEF CanTransitionTo, allowedLifecycleTransitions
  <2>2. ASSUME file # NoPlan, Started(file), StatusIs(file, {"pending", "paused"}) # {}
        PROVE  isResumable(file) /\ CanTransitionTo(file.lifecycle, "approved")
    <3>1. PlanFine(file, replans) /\ file \in PlanType
      BY <2>2 DEF PlanInv, PlanFine
    <3>2. /\ StatusIs(file, Open) # {} /\ ~AllDone(file)
      BY <2>2 DEF StatusIs, AllDone, Open
    <3>3. file.status \in {"in_progress", "failed", "paused"}
      BY <2>2, <3>1, <3>2, StepFields DEF PlanFine, Started, Statuses
    <3>4. CanTransitionTo(file.lifecycle, "approved")
      BY <2>1, <2>2
    <3> QED
      BY <2>2, <3>2, <3>3, <3>4 DEF isResumable
  <2> QED
    BY <2>1, <2>2 DEF CanResume
<1> QED
  BY <1>1, PlanInvHolds, LifecycleHolds, PTL

-----------------------------------------------------------------------------
(* As long as the steps have different IDs                                  *)

\* A clash stays.
LEMMA ClashStays ==
  ASSUME Does, ~clash'
  PROVE  ~clash
<1>1. clash' = clash \/ (clash' <=> (clash \/ ~DistinctIDs(plan')))
  BY DEF Does, KeepsSteps, MarksCurrent, MarksReady, MarksByHand, MarksStep, Records, Resumes, Replans, Swaps,
         SwapsPlan
<1> QED
  BY <1>1

\* In a plan with different IDs an ID finds its step.
LEMMA FindOwn ==
  ASSUME NEW p \in PlanType, DistinctIDs(p), NEW i \in Indices(p)
  PROVE  Has(p, p.steps[i].id) /\ Find(p, p.steps[i].id) = i
<1>1. Has(p, p.steps[i].id)
  BY DEF Has
<1> QED
  BY <1>1, FindIs DEF DistinctIDs

\* The orchestrator is at the same step of a plan that is alike.
LEMMA SameStepOf ==
  ASSUME NEW p \in PlanType, NEW q, Alike(p, q), NEW o, Has(p, o.id)
  PROVE  StepOf(q, o).tag = StepOf(p, o).tag /\ StepOf(q, o).id = StepOf(p, o).id
<1>1. Find(q, o.id) = Find(p, o.id) /\ Find(p, o.id) \in Indices(p)
  BY AlikeFind, FindIs
<1> QED
  BY <1>1 DEF StepOf, Alike

\* What the kinds of steps other than a replan make of the plan: it is alike to the
\* plan or, when it was taken from the file, to the file, or it is gone.
LEMMA PlanAlike ==
  ASSUME PlanInv, Does, ~Replans
  PROVE  /\ \/ plan' = NoPlan
            \/ plan # NoPlan /\ Alike(plan, plan')
            \/ file # NoPlan /\ Alike(file, plan') /\ run'.id = 0
         /\ file' \in {file, plan'} \/ (plan # NoPlan /\ file' = plan)
<1>1. /\ plan # NoPlan => plan \in PlanType /\ Alike(plan, plan)
      /\ file # NoPlan => file \in PlanType /\ Alike(file, file)
  BY DEF PlanInv, PlanFine, Alike
<1>2. CASE KeepsSteps
  BY <1>1, <1>2, SameSteps DEF KeepsSteps
<1>3. CASE MarksCurrent \/ MarksReady \/ MarksByHand
  BY <1>3 DEF MarksCurrent, MarksReady, MarksByHand, MarksStep, Marked
<1>4. CASE Records
  <2>1. /\ run.pc # "idle" /\ run.id \in Tags /\ file' \in {file, plan'}
        /\ \E repeat \in BOOLEAN : plan' = RecordStepEffect(plan, run.id, repeat)
    BY <1>4 DEF Records
  <2>2. plan # NoPlan
    BY <2>1, Running
  <2>3. plan' \in PlanType /\ plan'.steps = plan.steps
    BY <1>1, <2>1, <2>2, RecordEffect
  <2> QED
    BY <1>1, <2>1, <2>2, <2>3, SameSteps
<1>5. CASE Resumes
  <2>1. /\ file' \in {file, plan'} /\ run'.id = run.id
        /\ \E p \in {plan, file} : p # NoPlan /\ Alike(p, plan') /\ (p = plan \/ run.pc = "idle")
    BY <1>5 DEF Resumes, Resumed, At
  <2>2. run.pc = "idle" => run.id = 0
    BY DEF PlanInv, RunFine
  <2> QED
    BY <2>1, <2>2
<1>6. CASE Swaps
  BY <1>1, <1>6 DEF Swaps, SwapsPlan
<1> QED
  BY <1>2, <1>3, <1>4, <1>5, <1>6 DEF Does

\* Without a clash the IDs stay clear.
LEMMA ClearStep ==
  ASSUME PlanInv, PlanInv', ClearIDs, Does, ~clash'
  PROVE  ClearIDs'
<1>1. /\ plan # NoPlan => plan \in PlanType /\ DistinctIDs(plan)
      /\ file # NoPlan => file \in PlanType /\ DistinctIDs(file)
  BY DEF PlanInv, PlanFine, ClearIDs
<1>2. run.id # 0 => plan # NoPlan /\ Has(plan, run.id) /\ StepOf(plan, run).tag = run.tag
  BY DEF PlanInv, RunFine, ClearIDs
<1>3. CASE Replans
  <2>1. /\ run.pc = "replan" /\ replans < MaxReplans /\ run'.id = run.id /\ run'.tag = run.tag
        /\ \E n \in 1 .. MaxNew : plan' = RequestReplan(plan, n)
        /\ file' = file /\ (clash' <=> (clash \/ ~DistinctIDs(plan')))
    BY <1>3 DEF Replans
  <2>2. plan # NoPlan /\ RunFine(plan, run)
    BY <2>1, Running
  <2>3. PlanFine(plan, replans) /\ replans \in 0 .. MaxReplans
    BY <2>2, RunHasPlan DEF PlanInv
  <2>4. Replanned(plan, plan', replans)
    BY <2>1, <2>3, ReplanEffect
  <2>5. DistinctIDs(plan') /\ plan' \in PlanType
    BY <2>1, <2>4 DEF Replanned
  <2>6. run.id # 0 /\ Has(plan, run.id) /\ StepOf(plan, run).status # "pending"
    BY <2>1, <2>2 DEF RunFine
  <2>7. Find(plan, run.id) \in Indices(plan) /\ StepOf(plan, run).id = run.id
    BY <1>1, <2>2, <2>6, FindIs DEF StepOf
  <2>8. PICK i \in Indices(plan') : plan'.steps[i] = StepOf(plan, run)
    BY <2>4, <2>6, <2>7 DEF Replanned, StepOf
  <2>9. StepOf(plan', run') = StepOf(plan, run)
    BY <2>1, <2>5, <2>7, <2>8, FindOwn DEF StepOf
  <2> QED
    BY <1>1, <1>2, <2>1, <2>5, <2>6, <2>9 DEF ClearIDs
<1>4. CASE ~Replans
  <2>1. /\ \/ plan' = NoPlan
           \/ plan # NoPlan /\ Alike(plan, plan')
           \/ file # NoPlan /\ Alike(file, plan') /\ run'.id = 0
        /\ file' \in {file, plan'} \/ (plan # NoPlan /\ file' = plan)
    BY <1>4, PlanAlike
  <2>2. plan' # NoPlan => DistinctIDs(plan')
    BY <1>1, <2>1, AlikeFind
  <2>3. file' # NoPlan => DistinctIDs(file')
    BY <1>1, <2>1, <2>2
  <2>4. ASSUME run'.id # 0
        PROVE  StepOf(plan', run').tag = run'.tag
    <3>1. plan' # NoPlan
      <4>1. Has(plan', run'.id)
        BY <2>4 DEF PlanInv, RunFine
      <4> QED
        BY <4>1 DEF Has, Indices, NoPlan
    <3>2. plan # NoPlan /\ Alike(plan, plan') /\ plan \in PlanType /\ DistinctIDs(plan)
      BY <1>1, <2>1, <2>4, <3>1
    <3>3. CASE run'.id = run.id /\ run'.tag = run.tag
      <4>1. StepOf(plan', run') = StepOf(plan', run)
        BY <3>3 DEF StepOf
      <4>2. StepOf(plan', run).tag = StepOf(plan, run).tag
        BY <1>2, <2>4, <3>2, <3>3, SameStepOf
      <4> QED
        BY <1>2, <2>4, <3>3, <4>1, <4>2
    <3>4. CASE MarksReady /\ ~(run'.id = run.id /\ run'.tag = run.tag)
      <4>1. PICK i \in StatusIs(plan, {"pending"}) :
              run'.id = plan.steps[i].id /\ run'.tag = plan.steps[i].tag
        BY <3>4 DEF MarksReady
      <4>2. i \in Indices(plan)
        BY DEF StatusIs
      <4>3. Has(plan, run'.id) /\ Find(plan, run'.id) = i
        BY <3>2, <4>1, <4>2, FindOwn
      <4>4. StepOf(plan', run').tag = StepOf(plan, run').tag
        BY <3>2, <4>3, SameStepOf
      <4> QED
        BY <4>1, <4>3, <4>4 DEF StepOf
    <3> QED
      BY <1>4, <2>4, <3>3, <3>4
         DEF Does, KeepsSteps, MarksCurrent, MarksByHand, Records, Resumes, Swaps
  <2> QED
    BY <2>2, <2>3, <2>4 DEF ClearIDs
<1> QED
  BY <1>3, <1>4

\* A mark is on the orchestrator's step or on the step it was meant for.
LEMMA MarksOwn ==
  ASSUME PlanInv, ClearIDs, MarksCurrent \/ MarksReady \/ MarksByHand
  PROVE  \E id, st, t : /\ MarksStep(id, st, t)
                        /\ plan.steps[Find(plan, id)].tag = t
                        /\ st \in Statuses \ {"pending"}
<1>1. CASE MarksCurrent
  <2>1. run.id # 0
    BY <1>1, CurrentStep DEF MarksCurrent, Tags
  <2>2. plan.steps[Find(plan, run.id)].tag = run.tag
    BY <2>1 DEF ClearIDs, StepOf
  <2> QED
    BY <1>1, <2>2 DEF MarksCurrent, Statuses
<1>2. CASE MarksReady \/ MarksByHand
  <2>1. PICK i \in Indices(plan), st \in {"paused", "in_progress", "completed", "failed", "skipped"} :
          MarksStep(plan.steps[i].id, st, plan.steps[i].tag)
    BY <1>2 DEF MarksReady, MarksByHand, StatusIs
  <2>2. plan # NoPlan
    BY <2>1 DEF MarksStep
  <2>3. plan \in PlanType /\ DistinctIDs(plan)
    BY <2>2, RunHasPlan DEF ClearIDs
  <2>4. Find(plan, plan.steps[i].id) = i
    BY <2>3, FindOwn
  <2> QED
    BY <2>1, <2>4 DEF Statuses
<1> QED
  BY <1>1, <1>2

\* What shows the effects of a step still does if its status and its ledger entry do.
LEMMA ShowsKept ==
  ASSUME NEW p \in PlanType, NEW q, Alike(p, q), NEW t, NEW i \in Indices(p), p.steps[i].tag = t,
         q.ledger[p.steps[i].id].partial, q.steps[i].status # "pending"
  PROVE  Shows(q, t)
<1>1. i \in Indices(q) /\ q.steps[i].tag = t /\ q.steps[i].id = p.steps[i].id
  BY AlikeFind DEF Alike
<1> QED
  BY <1>1 DEF Shows

\* Without a clash the effects stay on record: in the ledger of the plan and on file,
\* unless the last save failed.
LEMMA EffectsStep ==
  ASSUME PlanInv, ClearIDs, EffectsInv, Does
  PROVE  EffectsInv'
<1>1. /\ plan # NoPlan => plan \in PlanType /\ DistinctIDs(plan)
      /\ file # NoPlan => file \in PlanType /\ DistinctIDs(file)
  BY DEF PlanInv, PlanFine, ClearIDs
<1>2. \A t \in dirty : /\ stale \/ (file # NoPlan /\ Shows(file, t))
                       /\ plan # NoPlan => Shows(plan, t)
  BY DEF EffectsInv
<1>f. ASSUME Stored, dirty' \subseteq dirty, plan' # NoPlan, \A t \in dirty' : Shows(plan', t)
      PROVE  EffectsInv'
  BY <1>2, <1>f DEF EffectsInv, Stored
<1>g. ASSUME Loaded, NEW t \in dirty'
      PROVE  t \in dirty /\ file # NoPlan /\ Shows(file, t)
  <2>1. t \in EffectsLeft(dirty)
    BY <1>g DEF Loaded
  <2>2. CASE stale
    BY <2>1, <2>2 DEF EffectsLeft, ShowsEffect, Shows
  <2>3. CASE ~stale
    BY <1>2, <2>1, <2>3 DEF EffectsLeft
  <2> QED
    BY <2>2, <2>3
<1>3. CASE KeepsSteps
  <2>1. /\ plan # NoPlan /\ plan' \in PlanType /\ plan'.steps = plan.steps /\ plan'.ledger = plan.ledger
        /\ Stored /\ dirty' = dirty
    BY <1>3 DEF KeepsSteps
  <2>2. \A t : Shows(plan, t) => Shows(plan', t)
    BY <2>1 DEF Shows, Indices
  <2>3. plan' # NoPlan
    BY <2>1, PlanIsNotNone
  <2> QED
    BY <1>2, <1>f, <2>1, <2>2, <2>3
<1>4. CASE MarksCurrent \/ MarksReady \/ MarksByHand
  <2>1. PICK id, st, u : /\ MarksStep(id, st, u) /\ plan.steps[Find(plan, id)].tag = u
                         /\ st \in Statuses \ {"pending"}
    BY <1>4, MarksOwn
  <2>2. /\ plan # NoPlan /\ plan \in PlanType /\ Has(plan, id) /\ Marked(plan, plan', Find(plan, id), st)
        /\ Alike(plan, plan') /\ Stored
        /\ \/ Closes(plan, plan', id) /\ dirty' = dirty \ {u}
           \/ plan'.ledger = plan.ledger /\ dirty' = dirty
    BY <1>1, <2>1 DEF MarksStep, Marked
  <2>3. ASSUME NEW t \in dirty'
        PROVE  Shows(plan', t)
    <3>1. Shows(plan, t) /\ t \in dirty
      BY <1>2, <2>2
    <3>2. PICK i \in Indices(plan) : /\ plan.steps[i].tag = t /\ plan.ledger[plan.steps[i].id].partial
                                     /\ plan.steps[i].status # "pending"
      BY <3>1 DEF Shows
    <3>3. plan'.steps[i].status # "pending"
      BY <2>1, <2>2, <3>2 DEF Marked
    <3>4. plan'.ledger[plan.steps[i].id].partial
      <4>1. CASE plan'.ledger = plan.ledger
        BY <3>2, <4>1
      <4>2. CASE Closes(plan, plan', id) /\ dirty' = dirty \ {u}
        <5>1. plan.steps[i].id # id
          <6>1. Find(plan, plan.steps[i].id) = i
            BY <1>1, <2>2, FindOwn
          <6> QED
            BY <2>1, <2>3, <3>2, <4>2, <6>1
        <5>2. plan.steps[i].id \in Tags
          BY <2>2, StepFields
        <5> QED
          BY <3>2, <4>2, <5>1, <5>2 DEF Closes
      <4> QED
        BY <2>2, <4>1, <4>2
    <3> QED
      BY <2>2, <3>2, <3>3, <3>4, ShowsKept
  <2>4. plan' # NoPlan /\ dirty' \subseteq dirty
    BY <2>2, PlanIsNotNone DEF Alike
  <2> QED
    BY <1>f, <2>2, <2>3, <2>4
<1>5. CASE Records
  <2>1. /\ run.pc \in {"exec", "verify", "gate"} /\ run.id \in Tags /\ (file' = plan' \/ stale')
        /\ dirty' = dirty \cup {run.tag}
        /\ \E repeat \in BOOLEAN : plan' = RecordStepEffect(plan, run.id, repeat)
    BY <1>5 DEF Records
  <2>2. plan # NoPlan /\ RunFine(plan, run)
    BY <2>1, Running
  <2>3. /\ plan' \in PlanType /\ plan'.steps = plan.steps /\ plan'.ledger[run.id].partial
        /\ \A x \in Tags : x # run.id => plan'.ledger[x] = plan.ledger[x]
    BY <1>1, <2>1, <2>2, RecordEffect
  <2>4. Alike(plan, plan') /\ plan' # NoPlan
    BY <1>1, <2>2, <2>3, SameSteps, PlanIsNotNone
  <2>5. ASSUME NEW t \in dirty
        PROVE  Shows(plan', t)
    <3>1. PICK i \in Indices(plan) : /\ plan.steps[i].tag = t /\ plan.ledger[plan.steps[i].id].partial
                                     /\ plan.steps[i].status # "pending"
      BY <1>2, <2>2, <2>5 DEF Shows
    <3>2. plan.steps[i].id \in Tags
      BY <1>1, <2>2, StepFields
    <3>3. plan'.ledger[plan.steps[i].id].partial
      BY <2>3, <3>1, <3>2
    <3> QED
      BY <1>1, <2>2, <2>3, <2>4, <3>1, <3>3, ShowsKept
  <2>6. Shows(plan', run.tag)
    <3> DEFINE f == Find(plan, run.id)
    <3>1. run.id # 0 /\ Has(plan, run.id)
      BY <2>1, <2>2 DEF RunFine, Tags
    <3>2. f \in Indices(plan) /\ plan.steps[f].id = run.id
      BY <1>1, <2>2, <3>1, FindIs
    <3>3. plan.steps[f].tag = run.tag
      BY <3>1 DEF ClearIDs, StepOf
    <3>4. plan.steps[f].status # "pending"
      <4>1. CASE run.pc = "gate"
        BY <2>2, <3>2, <4>1 DEF RunFine, StatusIs
      <4>2. CASE run.pc # "gate"
        BY <2>1, <2>2, <4>2 DEF RunFine, AtStep, StepOf
      <4> QED
        BY <4>1, <4>2
    <3> HIDE DEF f
    <3> QED
      BY <1>1, <2>2, <2>3, <2>4, <3>2, <3>3, <3>4, ShowsKept
  <2> QED
    BY <2>1, <2>4, <2>5, <2>6 DEF EffectsInv
<1>6. CASE Resumes
  <2>1. PICK p \in {plan, file}, S \in {{"paused"}, {"paused", "failed"}} :
          /\ p # NoPlan /\ Resumed(p, plan', StatusIs(p, S))
          /\ \/ p = plan /\ Stored /\ dirty' \subseteq dirty
             \/ p = file /\ Loaded
          /\ \A i \in StatusIs(p, S) : p.steps[i].tag \notin dirty'
    BY <1>6 DEF Resumes
  <2>2. p \in PlanType /\ DistinctIDs(p) /\ Alike(p, plan') /\ plan' # NoPlan
    BY <1>1, <2>1, PlanIsNotNone DEF Resumed, Alike
  <2>3. \A t \in dirty' : Shows(p, t)
    BY <1>2, <1>g, <2>1
  <2>4. ASSUME NEW t \in dirty'
        PROVE  Shows(plan', t)
    <3>1. Shows(p, t)
      BY <2>3
    <3>2. PICK i \in Indices(p) : /\ p.steps[i].tag = t /\ p.ledger[p.steps[i].id].partial
                                  /\ p.steps[i].status # "pending"
      BY <3>1 DEF Shows
    <3>3. i \notin StatusIs(p, S)
      BY <2>1, <2>4, <3>2
    <3>4. ~(\E j \in StatusIs(p, S) : p.steps[j].id = p.steps[i].id)
      BY <2>2, <3>3 DEF StatusIs, DistinctIDs
    <3>5. p.steps[i].id \in Tags
      BY <2>2, StepFields
    <3>6. plan'.ledger[p.steps[i].id].partial /\ plan'.steps[i].status # "pending"
      BY <2>1, <3>2, <3>3, <3>4, <3>5 DEF Resumed
    <3> QED
      BY <2>2, <3>2, <3>6, ShowsKept
  <2>5. CASE Stored /\ dirty' \subseteq dirty
    BY <1>f, <2>2, <2>4, <2>5
  <2>6. CASE Loaded
    <3>1. file' = file /\ \A t \in dirty' : file # NoPlan /\ Shows(file, t)
      BY <1>g, <2>6 DEF Loaded
    <3> QED
      BY <2>4, <3>1 DEF EffectsInv
  <2> QED
    BY <2>1, <2>5, <2>6
<1>7. CASE Replans
  <2>1. /\ run.pc = "replan" /\ replans < MaxReplans /\ file' = file /\ stale' = stale
        /\ dirty' = dirty
        /\ \E n \in 1 .. MaxNew : plan' = RequestReplan(plan, n)
    BY <1>7 DEF Replans
  <2>2. plan # NoPlan
    BY <2>1, Running
  <2>3. PlanFine(plan, replans) /\ replans \in 0 .. MaxReplans
    BY <2>2, RunHasPlan DEF PlanInv
  <2>4. Replanned(plan, plan', replans)
    BY <2>1, <2>3, ReplanEffect
  <2>5. \A t : Shows(plan, t) => Shows(plan', t)
    BY <2>4 DEF Shows, Replanned
  <2> QED
    BY <1>2, <2>1, <2>2, <2>5 DEF EffectsInv
<1>8. CASE Swaps
  <2>1. CASE Loaded /\ plan' \in {NoPlan, file}
    <3>1. file' = file /\ \A t \in dirty' : file # NoPlan /\ Shows(file, t)
      BY <1>g, <2>1 DEF Loaded
    <3> QED
      BY <2>1, <3>1 DEF EffectsInv
  <2>2. CASE ~(Loaded /\ plan' \in {NoPlan, file})
    BY <1>2, <1>8, <2>2 DEF EffectsInv, Swaps, SwapsPlan
  <2> QED
    BY <2>1, <2>2
<1> QED
  BY <1>3, <1>4, <1>5, <1>6, <1>7, <1>8 DEF Does

\* Without a clash only verified steps are completed.
LEMMA VerifiedStep ==
  ASSUME PlanInv, ClearIDs, VerifiedInv, Does
  PROVE  VerifiedInv'
<1>1. /\ plan # NoPlan => plan \in PlanType /\ AllVerified(plan, verified)
      /\ file # NoPlan => file \in PlanType /\ AllVerified(file, verified)
  BY DEF PlanInv, PlanFine, VerifiedInv
<1>2. \A p : AllVerified(p, verified) /\ verified \subseteq verified' => AllVerified(p, verified')
  BY DEF AllVerified
<1>3. CASE KeepsSteps
  <2>1. /\ plan # NoPlan /\ plan' \in PlanType /\ plan'.steps = plan.steps /\ file' \in {file, plan'}
        /\ verified \subseteq verified'
    BY <1>3 DEF KeepsSteps
  <2>2. AllVerified(plan', verified')
    BY <1>1, <1>2, <2>1 DEF AllVerified, StatusIs, Indices
  <2> QED
    BY <1>1, <1>2, <2>1, <2>2 DEF VerifiedInv
<1>4. CASE MarksCurrent \/ MarksReady \/ MarksByHand
  <2>1. PICK id, st, u : MarksStep(id, st, u) /\ plan.steps[Find(plan, id)].tag = u
    BY <1>4, MarksOwn
  <2>2. /\ plan # NoPlan /\ plan \in PlanType /\ Marked(plan, plan', Find(plan, id), st)
        /\ Alike(plan, plan') /\ file' \in {file, plan'} /\ verified \subseteq verified'
        /\ st = "completed" => u \in verified'
    BY <1>1, <2>1 DEF MarksStep, Marked
  <2>3. Indices(plan') = Indices(plan)
    BY <2>2, AlikeFind
  <2>4. AllVerified(plan', verified')
    BY <1>1, <2>1, <2>2, <2>3 DEF AllVerified, StatusIs, Marked, Alike
  <2> QED
    BY <1>1, <1>2, <2>2, <2>4 DEF VerifiedInv
<1>5. CASE Records
  <2>1. /\ run.pc # "idle" /\ run.id \in Tags /\ file' \in {file, plan'} /\ verified' = verified
        /\ \E repeat \in BOOLEAN : plan' = RecordStepEffect(plan, run.id, repeat)
    BY <1>5 DEF Records
  <2>2. plan # NoPlan
    BY <2>1, Running
  <2>3. plan' \in PlanType /\ plan'.steps = plan.steps
    BY <1>1, <2>1, <2>2, RecordEffect
  <2>4. AllVerified(plan', verified')
    BY <1>1, <2>1, <2>2, <2>3 DEF AllVerified, StatusIs, Indices
  <2> QED
    BY <1>1, <2>1, <2>4 DEF VerifiedInv
<1>6. CASE Resumes
  <2>1. PICK p \in {plan, file}, S \in {{"paused"}, {"paused", "failed"}} :
          p # NoPlan /\ Resumed(p, plan', StatusIs(p, S))
    BY <1>6 DEF Resumes
  <2>2. file' \in {file, plan'} /\ verified' = verified
    BY <1>6 DEF Resumes
  <2>3. p \in PlanType /\ AllVerified(p, verified) /\ Alike(p, plan')
    BY <1>1, <2>1 DEF Resumed
  <2>4. Indices(plan') = Indices(p)
    BY <2>3, AlikeFind
  <2>5. AllVerified(plan', verified')
    BY <2>1, <2>2, <2>3, <2>4 DEF AllVerified, StatusIs, Resumed, Alike
  <2> QED
    BY <1>1, <2>2, <2>5 DEF VerifiedInv
<1>7. CASE Replans
  <2>1. /\ run.pc = "replan" /\ replans < MaxReplans /\ file' = file /\ verified' = verified
        /\ \E n \in 1 .. MaxNew : plan' = RequestReplan(plan, n)
    BY <1>7 DEF Replans
  <2>2. plan # NoPlan
    BY <2>1, Running
  <2>3. PlanFine(plan, replans) /\ replans \in 0 .. MaxReplans
    BY <2>2, RunHasPlan DEF PlanInv
  <2>4. Replanned(plan, plan', replans)
    BY <2>1, <2>3, ReplanEffect
  <2>5. AllVerified(plan', verified')
    BY <1>1, <2>1, <2>2, <2>4 DEF AllVerified, StatusIs, Replanned
  <2> QED
    BY <1>1, <2>1, <2>5 DEF VerifiedInv
<1>8. CASE Swaps
  BY <1>1, <1>8 DEF VerifiedInv, Swaps, SwapsPlan
<1> QED
  BY <1>3, <1>4, <1>5, <1>6, <1>7, <1>8 DEF Does

\* A mark does not unsettle a step that is done.
LEMMA MarksUnsettled ==
  ASSUME PlanInv, ClearIDs, DoneInv, MarksCurrent \/ MarksReady \/ MarksByHand
  PROVE  \E id, st, t : /\ MarksStep(id, st, t)
                        /\ plan.steps[Find(plan, id)].tag = t
                        /\ st \notin Settled => t \notin done'
<1>0. \A id, st, t : MarksStep(id, st, t) /\ st \notin Settled => done' \subseteq done
  BY DEF MarksStep, Settled
<1>1. CASE MarksCurrent
  <2>1. run.id # 0 /\ AtStep(run)
    BY <1>1, CurrentStep DEF MarksCurrent, Tags
  <2>2. plan.steps[Find(plan, run.id)].tag = run.tag
    BY <2>1 DEF ClearIDs, StepOf
  <2>3. run.tag \notin done
    BY <2>1 DEF DoneInv
  <2> QED
    BY <1>0, <1>1, <2>2, <2>3 DEF MarksCurrent
<1>2. CASE MarksReady \/ MarksByHand
  <2>1. PICK i \in Indices(plan), st \in {"paused", "in_progress", "completed", "failed", "skipped"} :
          /\ MarksStep(plan.steps[i].id, st, plan.steps[i].tag)
          /\ st \notin Settled =>
               plan.steps[i].status = "pending" \/ plan.steps[i].tag \notin done'
    BY <1>2 DEF MarksReady, MarksByHand, StatusIs, Settled
  <2>2. plan # NoPlan
    BY <2>1 DEF MarksStep
  <2>3. plan \in PlanType /\ DistinctIDs(plan) /\ DoneFine(plan, done)
    BY <2>2, RunHasPlan DEF ClearIDs, DoneInv
  <2>4. Find(plan, plan.steps[i].id) = i
    BY <2>3, FindOwn
  <2>5. "pending" \notin Settled
    BY DEF Settled
  <2>6. st \notin Settled => plan.steps[i].tag \notin done'
    BY <1>0, <2>1, <2>3, <2>5 DEF DoneFine
  <2> QED
    BY <2>1, <2>4, <2>6
<1> QED
  BY <1>1, <1>2

\* What is left of the completed steps is settled in the file that is loaded.
LEMMA LoadedFine ==
  ASSUME PlanInv, DoneInv, Loaded, file # NoPlan
  PROVE  DoneFine(file, done') /\ done' \subseteq done
<1>1. file \in PlanType
  BY DEF PlanInv, PlanFine
<1>2. CASE stale
  <2>1. done' = done \ {file.steps[i].tag : i \in StatusIs(file, Open)}
    BY <1>2 DEF Loaded, DoneLeft
  <2>2. \A i \in Indices(file) : file.steps[i].status \in Settled \/ i \in StatusIs(file, Open)
    BY <1>1, StepFields DEF StatusIs, Settled, Open, Statuses
  <2> QED
    BY <2>1, <2>2 DEF DoneFine
<1>3. CASE ~stale
  BY <1>3 DEF Loaded, DoneLeft, DoneInv
<1> QED
  BY <1>2, <1>3

\* What a load leaves of the completed steps is part of them.
LEMMA LoadedDone ==
  ASSUME Loaded
  PROVE  done' \subseteq done
  BY DEF Loaded, DoneLeft

\* A step of the system keeps what is done settled.
LEMMA DoneFineStep ==
  ASSUME PlanInv, ClearIDs, DoneInv, Does
  PROVE  /\ \A t \in done' : t \in Nat /\ t <= Used(replans')
         /\ plan' # NoPlan => DoneFine(plan', done')
         /\ file' # NoPlan /\ ~stale' => DoneFine(file', done')
<1>1. /\ plan # NoPlan => PlanFine(plan, replans) /\ plan \in PlanType /\ DistinctIDs(plan) /\ DoneFine(plan, done)
      /\ file # NoPlan => file \in PlanType /\ DistinctIDs(file)
      /\ file # NoPlan /\ ~stale => DoneFine(file, done)
  BY DEF PlanInv, PlanFine, ClearIDs, DoneInv
<1>2. \A t \in done : t \in Nat /\ t <= Used(replans)
  BY DEF DoneInv
<1>m. \A p, D, E : DoneFine(p, D) /\ E \subseteq D => DoneFine(p, E)
  BY DEF DoneFine
<1>f. ASSUME Stored, done' \subseteq done, replans' = replans, DoneFine(plan', done')
      PROVE  /\ \A t \in done' : t \in Nat /\ t <= Used(replans')
             /\ plan' # NoPlan => DoneFine(plan', done')
             /\ file' # NoPlan /\ ~stale' => DoneFine(file', done')
  BY <1>1, <1>2, <1>m, <1>f DEF Stored
<1>3. CASE KeepsSteps
  <2>1. /\ plan # NoPlan /\ plan' \in PlanType /\ plan'.steps = plan.steps
        /\ Stored /\ done' = done /\ replans' = replans
    BY <1>3 DEF KeepsSteps
  <2>2. DoneFine(plan', done')
    BY <1>1, <2>1 DEF DoneFine, Indices
  <2> QED
    BY <1>f, <2>1, <2>2
<1>4. CASE MarksCurrent \/ MarksReady \/ MarksByHand
  <2>1. PICK id, st, u : /\ MarksStep(id, st, u) /\ plan.steps[Find(plan, id)].tag = u
                         /\ st \notin Settled => u \notin done'
    BY <1>4, MarksUnsettled
  <2> DEFINE f == Find(plan, id)
  <2>2. /\ plan # NoPlan /\ plan \in PlanType /\ Has(plan, id) /\ Marked(plan, plan', f, st)
        /\ Alike(plan, plan') /\ replans' = replans /\ Stored
        /\ done' \subseteq done \cup {u}
        /\ done' \subseteq done \/ file' = plan' \/ stale'
    BY <1>1, <2>1 DEF MarksStep, Marked
  <2>3. f \in Indices(plan) /\ plan.steps[f].id = id /\ plan.steps[f].tag = u
    BY <2>1, <2>2, FindIs
  <2> HIDE DEF f
  <2>4. u \in Nat /\ u <= Used(replans)
    <3>1. u \in Tags
      BY <2>2, <2>3, StepFields
    <3> QED
      BY <1>1, <2>2, <2>3, <3>1, PlanBounds DEF PlanFine, Tags
  <2>5. Indices(plan') = Indices(plan)
    BY <2>2, AlikeFind
  <2>6. ASSUME NEW i \in Indices(plan), plan'.steps[i].tag \in done'
        PROVE  plan'.steps[i].status \in Settled
    <3>1. CASE i = f
      BY <2>1, <2>2, <2>3, <2>6, <3>1 DEF Marked, Alike
    <3>2. CASE i # f
      <4>1. plan.steps[i].tag # u
        BY <1>1, <2>2, <2>3, <3>2 DEF PlanFine
      <4>2. plan.steps[i].tag \in done
        BY <2>2, <2>6, <4>1 DEF Alike
      <4>3. plan.steps[i].status \in Settled
        BY <1>1, <2>2, <4>2 DEF DoneFine
      <4> QED
        BY <2>2, <3>2, <4>3 DEF Marked
    <3> QED
      BY <3>1, <3>2
  <2>7. DoneFine(plan', done')
    BY <2>5, <2>6 DEF DoneFine
  <2>8. CASE done' \subseteq done
    BY <1>f, <2>2, <2>7, <2>8
  <2>9. CASE file' = plan' \/ stale'
    BY <1>2, <2>2, <2>4, <2>7, <2>9
  <2> QED
    BY <2>2, <2>8, <2>9
<1>5. CASE Records
  <2>1. /\ run.pc # "idle" /\ run.id \in Tags /\ done' = done /\ replans' = replans
        /\ file' = plan' \/ stale'
        /\ \E repeat \in BOOLEAN : plan' = RecordStepEffect(plan, run.id, repeat)
    BY <1>5 DEF Records
  <2>2. plan # NoPlan
    BY <2>1, Running
  <2>3. plan' \in PlanType /\ plan'.steps = plan.steps
    BY <1>1, <2>1, <2>2, RecordEffect
  <2>4. DoneFine(plan', done')
    BY <1>1, <2>1, <2>2, <2>3 DEF DoneFine, Indices
  <2> QED
    BY <1>2, <2>1, <2>4
<1>6. CASE Resumes
  <2>1. PICK p \in {plan, file}, S \in {{"paused"}, {"paused", "failed"}} :
          /\ p # NoPlan /\ Resumed(p, plan', StatusIs(p, S))
          /\ (p = plan /\ Stored /\ done' = done) \/ (p = file /\ Loaded)
    BY <1>6 DEF Resumes
  <2>2. replans' = replans
    BY <1>6 DEF Resumes
  <2>3. p \in PlanType /\ DoneFine(p, done') /\ Alike(p, plan') /\ done' \subseteq done
    BY <1>1, <2>1, LoadedFine DEF Resumed
  <2>4. Indices(plan') = Indices(p)
    BY <2>3, AlikeFind
  <2>5. \A i \in Indices(p) : p.steps[i].status \in Settled => i \notin StatusIs(p, S)
    BY DEF StatusIs, Settled
  <2>6. DoneFine(plan', done')
    BY <2>1, <2>3, <2>4, <2>5 DEF DoneFine, Resumed, Alike
  <2>7. CASE Stored
    BY <1>f, <2>2, <2>3, <2>6, <2>7
  <2>8. CASE p = file /\ Loaded
    <3>1. file' = file /\ DoneFine(file, done')
      BY <2>3, <2>8 DEF Loaded
    <3> QED
      BY <1>2, <2>2, <2>3, <2>6, <3>1
  <2> QED
    BY <2>1, <2>7, <2>8
<1>7. CASE Replans
  <2>1. /\ run.pc = "replan" /\ replans < MaxReplans /\ file' = file /\ stale' = stale /\ done' = done
        /\ replans' = replans + 1
        /\ \E n \in 1 .. MaxNew : plan' = RequestReplan(plan, n)
    BY <1>7 DEF Replans
  <2>2. plan # NoPlan
    BY <2>1, Running
  <2>3. PlanFine(plan, replans) /\ replans \in 0 .. MaxReplans
    BY <2>2, RunHasPlan DEF PlanInv
  <2>4. Replanned(plan, plan', replans)
    BY <2>1, <2>3, ReplanEffect
  <2>5. Used(replans) \in Nat /\ MaxNew \in Nat /\ Used(replans + 1) = Used(replans) + MaxNew
    BY <2>3, UsedTags, PlanBounds
  <2>6. plan' \in PlanType
    BY <2>4 DEF Replanned
  <2>7. ASSUME NEW i \in Indices(plan'), plan'.steps[i].tag \in done
        PROVE  plan'.steps[i].status \in Settled
    <3>1. ~(plan'.steps[i].tag > Used(replans))
      <4>1. plan'.steps[i].tag \in Nat
        BY <2>6, StepFields, PlanBounds DEF Tags
      <4> QED
        BY <1>2, <2>5, <2>7, <4>1
    <3>2. PICK j \in Indices(plan) : plan'.steps[i] = plan.steps[j]
      BY <2>4, <3>1 DEF Replanned
    <3> QED
      BY <1>1, <2>2, <2>7, <3>2 DEF DoneFine
  <2>8. DoneFine(plan', done)
    BY <2>7 DEF DoneFine
  <2>9. \A t \in done : t \in Nat /\ t <= Used(replans + 1)
    BY <1>2, <2>5
  <2> QED
    BY <1>1, <2>1, <2>8, <2>9
<1>8. CASE Swaps
  <2>1. CASE Loaded /\ plan' \in {NoPlan, file}
    <3>1. done' \subseteq done /\ file' = file /\ replans' = replans
      BY <1>8, <2>1, LoadedDone DEF Loaded, Swaps, SwapsPlan
    <3>2. file # NoPlan => DoneFine(file, done')
      BY <2>1, LoadedFine
    <3> QED
      BY <1>2, <2>1, <3>1, <3>2
  <2>2. CASE ~(Loaded /\ plan' \in {NoPlan, file})
    BY <1>1, <1>2, <1>8, <2>2 DEF Swaps, SwapsPlan
  <2> QED
    BY <2>1, <2>2
<1> QED
  BY <1>3, <1>4, <1>5, <1>6, <1>7, <1>8 DEF Does

\* A step of the system takes the orchestrator to no step that is done.
LEMMA UndoneStep ==
  ASSUME PlanInv, ClearIDs, DoneInv, Does, AtStep(run')
  PROVE  run'.tag \notin done'
<1>1. \/ AtStep(run) /\ run'.tag = run.tag /\ done' = done
      \/ MarksReady
  <2>1. CASE KeepsSteps
    BY <2>1 DEF KeepsSteps
  <2>2. CASE Records
    BY <2>2 DEF Records
  <2>3. ~MarksCurrent /\ ~MarksByHand /\ ~Resumes /\ ~Replans /\ ~Swaps
    BY DEF MarksCurrent, MarksByHand, Resumes, Replans, Swaps, At, AtStep
  <2> QED
    BY <2>1, <2>2, <2>3 DEF Does
<1>2. CASE AtStep(run) /\ run'.tag = run.tag /\ done' = done
  BY <1>2 DEF DoneInv
<1>3. CASE MarksReady
  <2>1. PICK i \in StatusIs(plan, {"pending"}) :
          /\ MarksStep(plan.steps[i].id, "in_progress", plan.steps[i].tag)
          /\ run'.id = plan.steps[i].id /\ run'.tag = plan.steps[i].tag
    BY <1>3 DEF MarksReady, AtStep
  <2>2. plan # NoPlan /\ done' = done
    BY <2>1 DEF MarksStep
  <2>3. i \in Indices(plan) /\ plan.steps[i].status \notin Settled
    BY DEF StatusIs, Settled
  <2>4. plan.steps[i].tag \notin done
    BY <2>2, <2>3 DEF DoneInv, DoneFine
  <2> QED
    BY <2>1, <2>2, <2>4
<1> QED
  BY <1>1, <1>2, <1>3

\* A step that the ledger does not hold back has no effects, or its entry is closed.
LEMMA NoRiskNoEffects ==
  ASSUME PlanInv, ClearIDs, EffectsInv, run.pc = "exec", ~AtRisk(plan, run.id)
  PROVE  run.tag \notin dirty \/ plan.ledger[run.id].completed
<1>1. SUFFICES ASSUME run.tag \in dirty
               PROVE  plan.ledger[run.id].completed
  OBVIOUS
<1>2. plan # NoPlan /\ RunFine(plan, run)
  BY Running
<1>3. plan \in PlanType /\ PlanFine(plan, replans)
  BY <1>2, RunHasPlan
<1>4. PICK i \in Indices(plan) : plan.steps[i].tag = run.tag /\ plan.ledger[plan.steps[i].id].partial
  BY <1>1, <1>2 DEF EffectsInv, Shows
<1>5. AtStep(run) /\ run.id # 0 /\ Has(plan, run.id)
  BY <1>2 DEF RunFine, AtStep
<1> DEFINE f == Find(plan, run.id)
<1>6. f \in Indices(plan) /\ plan.steps[f].id = run.id /\ plan.steps[f].tag = run.tag
  BY <1>3, <1>5, FindIs DEF ClearIDs, StepOf
<1> HIDE DEF f
<1>7. i = f
  BY <1>3, <1>4, <1>6 DEF PlanFine
<1> QED
  BY <1>4, <1>6, <1>7 DEF AtRisk, HasPartialEffects

\* The wait before another attempt is for such a step.
LEMMA CleanBackoff ==
  ASSUME PlanInv, ClearIDs, EffectsInv, DoneInv, Does, run'.pc = "backoff"
  PROVE  run'.tag \notin dirty' \/ plan'.ledger[run'.id].completed
<1>1. KeepsSteps
  <2>1. ~MarksCurrent /\ ~MarksReady /\ ~MarksByHand /\ ~Records /\ ~Resumes /\ ~Replans /\ ~Swaps
    BY DEF MarksCurrent, MarksReady, MarksByHand, Records, Resumes, Replans, Swaps, At, AtStep
  <2> QED
    BY <2>1 DEF Does
<1>2. /\ dirty' = dirty /\ run'.tag = run.tag /\ run'.id = run.id /\ plan'.ledger = plan.ledger
      /\ run.pc = "backoff" \/ (run.pc = "exec" /\ ~AtRisk(plan, run.id))
  BY <1>1 DEF KeepsSteps, At, AtStep
<1>3. run.tag \notin dirty \/ plan.ledger[run.id].completed
  BY <1>2, NoRiskNoEffects DEF DoneInv, At
<1> QED
  BY <1>2, <1>3

\* A step of the system keeps what is done done.
LEMMA DoneStep ==
  ASSUME PlanInv, ClearIDs, EffectsInv, DoneInv, Does
  PROVE  DoneInv'
<1>1. /\ \A t \in done' : t \in Nat /\ t <= Used(replans')
      /\ plan' # NoPlan => DoneFine(plan', done')
      /\ file' # NoPlan /\ ~stale' => DoneFine(file', done')
  BY DoneFineStep
<1>2. AtStep(run') => run'.tag \notin done'
  BY UndoneStep
<1>3. run'.pc = "backoff" => run'.tag \notin dirty' \/ plan'.ledger[run'.id].completed
  BY CleanBackoff
<1> QED
  BY <1>1, <1>2, <1>3 DEF DoneInv, At

\* An attempt begins at a step that is not done, and has no effects or a closed entry.
LEMMA AttemptFresh ==
  ASSUME PlanInv, ClearIDs, EffectsInv, DoneInv, Does, AttemptBegins
  PROVE  /\ run'.tag \notin done
         /\ run'.tag \notin dirty \/ plan.ledger[run'.id].completed
<1>1. run.pc # "exec" /\ run'.pc = "exec"
  BY DEF AttemptBegins
<1>2. CASE KeepsSteps
  <2>1. run.pc = "backoff" /\ run'.tag = run.tag /\ run'.id = run.id
    BY <1>1, <1>2 DEF KeepsSteps, At, AtStep
  <2>2. run.tag \notin done /\ (run.tag \notin dirty \/ plan.ledger[run.id].completed)
    BY <2>1 DEF DoneInv, At, AtStep
  <2> QED
    BY <2>1, <2>2
<1>3. CASE MarksReady
  <2>1. PICK i \in StatusIs(plan, {"pending"}) :
          /\ MarksStep(plan.steps[i].id, "in_progress", plan.steps[i].tag)
          /\ run'.tag = plan.steps[i].tag
    BY <1>1, <1>3 DEF MarksReady
  <2>2. plan # NoPlan
    BY <2>1 DEF MarksStep
  <2>3. DoneFine(plan, done) /\ PlanFine(plan, replans)
    BY <2>2, RunHasPlan DEF DoneInv
  <2>4. i \in Indices(plan) /\ plan.steps[i].status = "pending" /\ "pending" \notin Settled
    BY DEF StatusIs, Settled
  <2>5. plan.steps[i].tag \notin done
    BY <2>3, <2>4 DEF DoneFine
  <2>6. plan.steps[i].tag \notin dirty
    <3>1. SUFFICES ASSUME plan.steps[i].tag \in dirty
                   PROVE  FALSE
      OBVIOUS
    <3>2. PICK j \in Indices(plan) :
            plan.steps[j].tag = plan.steps[i].tag /\ plan.steps[j].status # "pending"
      BY <2>2, <3>1 DEF EffectsInv, Shows
    <3>3. i = j
      BY <2>3, <2>4, <3>2 DEF PlanFine
    <3> QED
      BY <2>4, <3>2, <3>3
  <2> QED
    BY <2>1, <2>5, <2>6
<1>4. ~MarksCurrent /\ ~MarksByHand /\ ~Records /\ ~Resumes /\ ~Replans /\ ~Swaps
  BY <1>1 DEF MarksCurrent, MarksByHand, Records, Resumes, Replans, Swaps, At, AtStep
<1> QED
  BY <1>2, <1>3, <1>4 DEF Does

-----------------------------------------------------------------------------
(* What holds until two steps share an ID                                   *)

\* The invariants of the effects, of the verification and of what is done.
UntilClash == clash \/ (ClearIDs /\ EffectsInv /\ VerifiedInv /\ DoneInv)

\* They hold of the plan as approved.
LEMMA NewPlanClear ==
  ASSUME Init
  PROVE  ClearIDs /\ EffectsInv /\ VerifiedInv /\ DoneInv
<1>1. plan = NewPlan /\ file = NoPlan /\ run = NoRun /\ dirty = {} /\ verified = {} /\ done = {}
  BY DEF Init
<1>2. run.pc = "idle" /\ run.id = 0 /\ ~AtStep(run)
  BY <1>1, NoRunFine
<1>3. StatusIs(plan, {"completed"}) = {}
  BY <1>1, NewPlanFine DEF StatusIs
<1>4. DoneFine(plan, done)
  BY <1>1, NewPlanFine DEF DoneFine
<1>5. ClearIDs
  BY <1>1, <1>2, NewPlanFine DEF ClearIDs
<1>6. EffectsInv
  BY <1>1 DEF EffectsInv
<1>7. VerifiedInv
  BY <1>1, <1>3 DEF VerifiedInv, AllVerified
<1>8. DoneInv
  BY <1>1, <1>2, <1>4 DEF DoneInv, At
<1> QED
  BY <1>5, <1>6, <1>7, <1>8

\* A step of the system keeps them.
LEMMA UntilClashStep ==
  ASSUME PlanInv, UntilClash, [Next]_vars
  PROVE  UntilClash'
<1>1. CASE Next
  <2>1. PlanInv' /\ Does
    BY <1>1, NextDoes
  <2>2. ASSUME ~clash'
        PROVE  ClearIDs' /\ EffectsInv' /\ VerifiedInv' /\ DoneInv'
    <3>1. ClearIDs /\ EffectsInv /\ VerifiedInv /\ DoneInv
      BY <2>1, <2>2, ClashStays DEF UntilClash
    <3> QED
      BY <2>1, <2>2, <3>1, ClearStep, EffectsStep, VerifiedStep, DoneStep
  <2> QED
    BY <2>2 DEF UntilClash
<1>2. CASE UNCHANGED vars
  BY <1>2 DEF UntilClash, ClearIDs, EffectsInv, VerifiedInv, DoneInv, At, vars, managerVars,
             storeVars, runVars, ghostVars, boundVars
<1> QED
  BY <1>1, <1>2

\* They hold in every state.
LEMMA UntilClashHolds == Spec => []UntilClash
<1>1. Init => UntilClash
  BY NewPlanClear DEF UntilClash
<1>2. PlanInv /\ UntilClash /\ [Next]_vars => UntilClash'
  BY UntilClashStep
<1> QED
  BY <1>1, <1>2, PlanInvHolds, PTL DEF Spec

\* A crash at any time leaves a file that shows every effect since the step was last
\* resumed, unless the last save failed (agent_events.go saves the ledger before the
\* tool runs, and lets it run when the save fails).
THEOREM EffectsAlwaysOnFile == Spec => []EffectsOnFile
<1>1. UntilClash => EffectsOnFile
  BY DEF UntilClash, EffectsInv, Shows, ShowsEffect, EffectsOnFile
<1> QED
  BY <1>1, UntilClashHolds, PTL

\* No step counts as completed, in memory or on file, that was not verified, and a
\* completed plan has nothing left to do (message_processor.go, plan.go).
THEOREM CompletedMeansVerified == Spec => []CompletedIsVerified
<1>1. PlanInv /\ UntilClash => CompletedIsVerified
  <2> SUFFICES ASSUME PlanInv, UntilClash, NEW p \in {plan, file}, p # NoPlan
               PROVE  /\ clash \/ \A i \in StatusIs(p, {"completed"}) : p.steps[i].tag \in verified
                      /\ p.status = "completed" => AllDone(p)
    BY DEF CompletedIsVerified
  <2>1. PlanFine(p, replans)
    BY DEF PlanInv
  <2>2. clash \/ AllVerified(p, verified)
    BY DEF UntilClash, VerifiedInv
  <2> QED
    BY <2>1, <2>2 DEF PlanFine, AllVerified
<1> QED
  BY <1>1, PlanInvHolds, UntilClashHolds, PTL

\* An attempt that begins while the IDs are clear begins at a fresh step.
LEMMA AttemptStep ==
  ASSUME PlanInv, UntilClash, [Next]_vars, AttemptBegins, ~clash
  PROVE  /\ run'.tag \notin done
         /\ run'.tag \notin dirty \/ plan.ledger[run'.id].completed
<1>1. CASE Next
  BY <1>1, NextDoes, AttemptFresh DEF UntilClash
<1>2. CASE UNCHANGED vars
  BY <1>2 DEF AttemptBegins, vars, runVars
<1> QED
  BY <1>1, <1>2

\* No step with side effects is attempted again before it was resumed
\* (message_processor.go, the idempotency guard and the retry loop), through any
\* crashes, failed saves, commands and replans: only a resume clears the effects.
THEOREM EffectsAreNotRepeated == Spec => NoBlindRetry
<1>1. PlanInv /\ UntilClash /\ [Next]_vars
        => [AttemptBegins /\ ~clash /\ ~plan.ledger[run'.id].completed => run'.tag \notin dirty]_vars
  BY AttemptStep
<1> QED
  BY <1>1, PlanInvHolds, UntilClashHolds, PTL DEF Spec, NoBlindRetry

\* A completed step is never attempted again, unless it was failed by hand, its
\* completion was lost with a save that failed (plan.go, executor.go), or a replan
\* gave its ID to another step.
THEOREM CompletedStepsRunOnce == Spec => DoneOnce
<1>1. PlanInv /\ UntilClash /\ [Next]_vars
        => [AttemptBegins /\ ~clash => run'.tag \notin done]_vars
  BY AttemptStep
<1> QED
  BY <1>1, PlanInvHolds, UntilClashHolds, PTL DEF Spec, DoneOnce

-----------------------------------------------------------------------------
(* A run ends                                                              *)

\* The steps that are left in a round, place by place.
LEMMA StepsLeftAt ==
  ASSUME NEW r \in RunType
  PROVE  /\ r.attempt \in 0 .. maxRetries /\ maxRetries \in Nat
         /\ r.pc = "exec" => StepsLeft(r) = 6 + 2 * (maxRetries - r.attempt)
         /\ r.pc = "backoff" => StepsLeft(r) = 5 + 2 * (maxRetries - r.attempt)
         /\ r.pc = "verify" => StepsLeft(r) = 5
         /\ r.pc \in {"boundary", "finish", "replan"} => StepsLeft(r) = 4
         /\ r.pc \in {"context", "between", "stopping", "cooldown"} => StepsLeft(r) = 3
         /\ r.pc = "loop" => StepsLeft(r) = 2
         /\ r.pc = "gate" => StepsLeft(r) = 1
<1>1. r.attempt \in 0 .. maxRetries /\ maxRetries \in Nat
  BY PlanRunAssumption DEF RunType
<1> QED BY <1>1 DEF StepsLeft

\* What a step of the orchestrator makes of its run.
Advances(r, s) ==
  \/ s = NoRun
  \/ s.limit = r.limit /\ s.rounds = r.rounds + 1 /\ s.rounds <= r.limit
  \/ s.limit = r.limit /\ s.rounds = r.rounds /\ StepsLeft(s) < StepsLeft(r)

\* A step that only changes its place goes to one with fewer steps left.
LEMMA GotoAdvances ==
  ASSUME NEW r \in RunType, NEW x \in PCs,
         <<r.pc, x>> \in {<<"boundary", "context">>, <<"context", "loop">>,
                          <<"verify", "stopping">>, <<"exec", "verify">>, <<"exec", "backoff">>,
                          <<"exec", "between">>, <<"backoff", "between">>, <<"verify", "between">>,
                          <<"exec", "replan">>, <<"replan", "between">>, <<"verify", "finish">>,
                          <<"finish", "between">>, <<"between", "loop">>, <<"cooldown", "loop">>,
                          <<"loop", "gate">>}
  PROVE  Advances(r, [r EXCEPT !.pc = x])
<1> DEFINE s == [r EXCEPT !.pc = x]
<1>1. /\ s \in RunType /\ s.pc = x /\ s.attempt = r.attempt
      /\ s.rounds = r.rounds /\ s.limit = r.limit
  BY DEF RunType
<1> HIDE DEF s
<1>2. StepsLeft(s) < StepsLeft(r)
  BY <1>1, StepsLeftAt
<1> QED BY <1>1, <1>2 DEF Advances, s

\* A round that begins is one of the limited number.
LEMMA RoundAdvances ==
  ASSUME NEW r \in RunType, NEW s, StartRound(r).rounds <= r.limit,
         s.rounds = StartRound(r).rounds, s.limit = r.limit
  PROVE  Advances(r, s)
<1>1. StartRound(r).rounds = r.rounds + 1
  BY DEF StartRound, RunType
<1> QED BY <1>1 DEF Advances

\* Every step of the orchestrator, one by one.
LEMMA OrchestratorAdvances ==
  ASSUME RunFine(plan, run), Orchestrator
  PROVE  Advances(run, run')
<1>0. run \in RunType
  BY DEF RunFine
<1>1. ASSUME NEW from, NEW x \in PCs, At(from), Goto(x),
             <<from, x>> \in {<<"boundary", "context">>, <<"context", "loop">>,
                          <<"verify", "stopping">>, <<"exec", "verify">>, <<"exec", "backoff">>,
                          <<"exec", "between">>, <<"backoff", "between">>, <<"verify", "between">>,
                          <<"exec", "replan">>, <<"replan", "between">>, <<"verify", "finish">>,
                          <<"finish", "between">>, <<"between", "loop">>, <<"cooldown", "loop">>,
                          <<"loop", "gate">>}
      PROVE  Advances(run, run')
  BY <1>0, <1>1, GotoAdvances DEF At, Goto
<1>2. ASSUME Return PROVE Advances(run, run')
  BY <1>2 DEF Return, Advances
<1>3. ASSUME NEW x, \/ run' = [StartRound(run) EXCEPT !.pc = x]
                    \/ run' = [StartRound(run) EXCEPT !.pc = x, !.auto = @ + 1],
             InLimit
      PROVE  Advances(run, run')
  <2>1. run'.rounds = StartRound(run).rounds /\ run'.limit = run.limit
    BY <1>0, <1>3 DEF StartRound, RunType
  <2> QED BY <1>0, <1>3, <2>1, RoundAdvances DEF InLimit
<1>4. CASE Boundary \/ ContextReplaced \/ HookStops
  BY <1>1, <1>4 DEF Boundary, ContextReplaced, HookStops, PCs
<1>5. CASE BoundaryOvertaken
  BY <1>5 DEF BoundaryOvertaken, Advances
<1>6. CASE LimitReached \/ LoopCancelled \/ HookStopped \/ CooldownCancelled \/ AutoResumeExhausted
           \/ GateBlocks \/ Finalize
  BY <1>2, <1>6 DEF LimitReached, LoopCancelled, HookStopped, CooldownCancelled, AutoResumeExhausted,
                    GateBlocks, Finalize
<1>7. CASE PauseForSafety \/ PauseForCheckpoint
  <2>1. run' = [StartRound(run) EXCEPT !.pc = "between"] /\ InLimit
    BY <1>7 DEF PauseForSafety, PauseForCheckpoint, Ready
  <2> QED BY <1>3, <2>1
<1>8. CASE BeginStep
  <2>1. PICK i \in Indices(plan) :
          /\ InLimit
          /\ run' = [StartRound(run) EXCEPT !.pc = "exec", !.id = plan.steps[i].id,
                                            !.tag = plan.steps[i].tag, !.attempt = 1]
    BY <1>8 DEF BeginStep, Ready
  <2>2. run'.rounds = StartRound(run).rounds /\ run'.limit = run.limit
    BY <1>0, <2>1 DEF StartRound, RunType
  <2> QED BY <1>0, <2>1, <2>2, RoundAdvances DEF InLimit
<1>9. CASE AttemptSucceeds \/ TransientRetry
  BY <1>1, <1>9 DEF AttemptSucceeds, TransientRetry, PCs
<1>10. CASE BackoffOver
  <2> DEFINE s == [run EXCEPT !.pc = "exec", !.attempt = @ + 1]
  <2>1. run.pc = "backoff" /\ run' = s
    BY <1>10 DEF BackoffOver, At
  <2>2. run.attempt < maxRetries /\ run.attempt \in 0 .. maxRetries /\ maxRetries \in Nat
    BY <1>0, <2>1, StepsLeftAt DEF RunFine
  <2> DEFINE a == run.attempt + 1
  <2>3. /\ s \in RunType /\ s.pc = "exec" /\ s.attempt = run.attempt + 1
        /\ s.rounds = run.rounds /\ s.limit = run.limit
    <3>1. s = [run EXCEPT !.pc = "exec", !.attempt = a]
      BY <1>0 DEF RunType
    <3>2. a \in 0 .. maxRetries
      BY <2>2
    <3> HIDE DEF a
    <3>3. /\ [run EXCEPT !.pc = "exec", !.attempt = a] \in RunType
          /\ [run EXCEPT !.pc = "exec", !.attempt = a].pc = "exec"
          /\ [run EXCEPT !.pc = "exec", !.attempt = a].attempt = a
          /\ [run EXCEPT !.pc = "exec", !.attempt = a].rounds = run.rounds
          /\ [run EXCEPT !.pc = "exec", !.attempt = a].limit = run.limit
      BY <1>0, <3>2 DEF RunType, PCs
    <3> QED BY <3>1, <3>3 DEF a
  <2> HIDE DEF s
  <2>4. StepsLeft(s) < StepsLeft(run)
    BY <1>0, <2>1, <2>2, <2>3, StepsLeftAt
  <2> QED BY <2>1, <2>3, <2>4 DEF Advances
<1>11. CASE PauseCurrentStep
  <2>1. At("exec") \/ At("backoff") \/ At("verify")
    BY <1>11 DEF PauseCurrentStep
  <2>2. Goto("between")
    BY <1>11 DEF PauseCurrentStep
  <2> QED BY <1>1, <2>1, <2>2 DEF PCs
<1>12. ASSUME NEW fatal \in BOOLEAN, FailCurrentStep(fatal) \/ KeepPartialOutput(fatal)
       PROVE  Advances(run, run')
  <2>1. At("exec") /\ (Goto("replan") \/ Goto("between"))
    BY <1>12 DEF FailCurrentStep, KeepPartialOutput, Goto
  <2> QED BY <1>1, <2>1 DEF PCs
<1>13. ASSUME NEW n, Replan(n) PROVE Advances(run, run')
  <2>1. At("replan") /\ Goto("between")
    BY <1>13 DEF Replan
  <2> QED BY <1>1, <2>1 DEF PCs
<1>14. CASE ReplanFails
  BY <1>1, <1>14 DEF ReplanFails, PCs
<1>15. CASE VerificationPasses
  BY <1>1, <1>15 DEF VerificationPasses, PCs
<1>16. CASE FinishStep
  BY <1>1, <1>16 DEF FinishStep, PCs
<1>17. CASE Proceed
  BY <1>1, <1>2, <1>17 DEF Proceed, PCs
<1>18. CASE Cooldown
  <2>1. run' = [StartRound(run) EXCEPT !.pc = "cooldown", !.auto = @ + 1] /\ InLimit
    BY <1>18 DEF Cooldown, NothingReady
  <2> QED BY <1>3, <2>1
<1>19. CASE CooldownOver
  BY <1>1, <1>19 DEF CooldownOver, PCs
<1>20. CASE LoopEnds
  <2>1. At("loop") /\ Goto("gate")
    BY <1>20 DEF LoopEnds, NothingReady, InLimit
  <2> QED BY <1>1, <2>1 DEF PCs
<1> HIDE DEF Advances, RunFine
<1> QED
  BY <1>4, <1>5, <1>6, <1>7, <1>8, <1>9, <1>10, <1>11, <1>12, <1>13, <1>14, <1>15, <1>16, <1>17,
     <1>18, <1>19, <1>20 DEF Orchestrator

\* What is not a step of the orchestrator leaves a run as it is or ends it.
LEMMA OthersLeaveRun ==
  ASSUME Next, ~Orchestrator, ~At("idle")
  PROVE  run' \in {run, NoRun}
<1>1. CASE \E repeat \in BOOLEAN : ToolStart(repeat)
  BY <1>1 DEF ToolStart, Attributable, runVars
<1>2. CASE BoundaryFails \/ \E graceful \in BOOLEAN : Restart(graceful)
  BY <1>2 DEF BoundaryFails, Restart, Return
<1>3. CASE Esc \/ WatchdogPauses \/ WatchdogCancels
  BY <1>3 DEF Esc, WatchdogPauses, WatchdogCancels
<1>4. CASE \/ Consume \/ ResumeCommand
           \/ \E i \in Indices(plan), action \in ManualActions : UpdatePlanProgress(action, i)
           \/ \E reason \in {"completed", "abandoned"} : ExitPlanMode(reason)
  BY <1>4 DEF Consume, ResumeCommand, UpdatePlanProgress, ExitPlanMode
<1> QED BY <1>1, <1>2, <1>3, <1>4 DEF Next

\* The measure behind RunEnds, for any number of steps, retries, replans and rounds:
\* each step of the orchestrator lowers it, and nothing else raises it.
THEOREM RunsAdvance == Spec => RunAdvances
<1>1. PlanInv /\ Next =>
        /\ Orchestrator => Advances(run, run')
        /\ ~Orchestrator /\ ~At("idle") => run' \in {run, NoRun}
  BY OrchestratorAdvances, OthersLeaveRun DEF PlanInv
<1>2. PlanInv /\ [Next]_vars =>
        [/\ Orchestrator =>
              \/ run' = NoRun
              \/ run'.limit = run.limit /\ run'.rounds = run.rounds + 1 /\ run'.rounds <= run.limit
              \/ run'.limit = run.limit /\ run'.rounds = run.rounds /\ StepsLeft(run') < StepsLeft(run)
         /\ ~Orchestrator /\ ~At("idle") => run' \in {run, NoRun}]_vars
  BY <1>1 DEF Advances
<1> QED BY <1>2, PlanInvHolds, PTL DEF Spec, RunAdvances
=============================================================================
