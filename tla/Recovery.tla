------------------------------- MODULE Recovery -------------------------------
(***************************************************************************)
(* Safe automatic retries of an interactive session: the pending           *)
(* recoveries of app/pending_recovery.go, the type-ahead FIFO of           *)
(* app/pending_queue.go, and the foreground slot that app.go and           *)
(* message_processor.go hand from one turn to the next.                    *)
(*                                                                         *)
(* A turn that fails with a rate limit or a timeout is written to the      *)
(* session file as a scheduled recovery: the request with the checkpoints  *)
(* of the side effects it already had (a generation).  A timer claims it,  *)
(* which is saved before anything runs, and hands it to the foreground.    *)
(* A claim found in the file after a crash may have run in part and is     *)
(* left to the user.                                                       *)
(*                                                                         *)
(* A section under sessionLeaseMu is one step.  An epoch is only compared  *)
(* with the current one, so the holder of an epoch is a "fresh" flag that  *)
(* every boundary (Esc, a cleared conversation) lowers.  One session; the  *)
(* headless mode, goals, plans and switching sessions are left out, and so *)
(* is the auto-resume of a request that had progress, which becomes a      *)
(* request of its own, and the refund of an attempt that is then skipped.  *)
(***************************************************************************)
EXTENDS Integers, Sequences, FiniteSets, Selection

CONSTANTS Prompts,            \* requests a user may type
          MaxIds,             \* bound: generations written in a behaviour
          MaxUpsets,          \* bound: presses of Esc, exits, crashes and panics, saves
                              \* that fail or may not be durable
          MaxTyped,           \* bound: prompts and commands the user types
          maxPendingQueue, maxPendingRecoveries,
          maxAttempts,        \* per kind: maxAutoRateLimitRetries, maxAutoResumeAttempts
          SaveOutcomes,       \* of ApplyAndSave, for a claim, a release or a removal
          PersistOutcomes     \* of ApplyAndSave, for a new generation

Ids == 1 .. MaxIds
Kinds == {"rate_limit", "auto_resume"}
ClearCommand == "/clear"
NoPrompt == "none"

ASSUME RecoveryAssumption ==
  /\ {MaxIds, MaxUpsets, MaxTyped} \subseteq Nat
  /\ {maxPendingQueue, maxPendingRecoveries} \subseteq Nat \ {0}
  /\ maxAttempts \in [Kinds -> Nat]
  /\ SaveOutcomes \subseteq {"saved", "uncertain", "failed"}
  /\ PersistOutcomes \subseteq {"saved", "uncertain", "failed"}
  /\ {ClearCommand, NoPrompt} \intersect Prompts = {}

VARIABLES
  mem,        \* state of every generation in the live session
  disk,       \* what a restart may load: the contents the file may turn out to have
  gen,        \* per generation, its prompt and the attempts it has recorded
  lastId,     \* the last generation written
  timers,     \* recoveryTimers: generations with a sleeping timer
  woken,      \* timers that have fired and are about to claim
  handoff,    \* retries about to enter handleRecoveryResubmit
  awaiting,   \* recoveryAwaitingDispatch
  local,      \* in-process retries whose generation could not be saved
  queue,      \* pendingQueue
  turn,       \* the foreground; its pc is not "idle" while processing is set
  gate,       \* dropSteerLeftovers
  submit,     \* the prompt between the two halves of handleSubmitWithIntent
  shut,       \* shuttingDown
  attempts,   \* rateLimitRetryCount and autoResumeCount
  started,    \* history: generations whose checkpoints a turn was started with
  unsaved,    \* history: generations that could not be written, and those they replace
  told,       \* history: generations a warning has left to the user
  paused,     \* history: Esc was pressed in this process
  retries,    \* history: retries of a prompt since it was started as a new request,
              \* without the one that was pending then
  stranded,   \* history: a panic has freed the slot, and no turn has ended since
  upsets, typed

fileVars == <<mem, disk, gen, lastId>>
timerVars == <<timers, woken, handoff, awaiting, local>>
frontVars == <<queue, turn, gate, submit, shut>>
ghostVars == <<started, unsaved, told, paused, retries, stranded>>
boundVars == <<upsets, typed>>
vars == <<fileVars, timerVars, frontVars, attempts, ghostVars, boundVars>>

NoAttempts == [k \in Kinds |-> 0]

\* A request: rid is the generation it belongs to (0 = none); own says that it
\* carries the checkpoints of the turn that failed, not those of the generation.
Request(kind, p, rid, own) == [kind |-> kind, prompt |-> p, rid |-> rid, own |-> own, fresh |-> TRUE]
Turn(pc, r) == [pc |-> pc, req |-> r, cancelled |-> FALSE]
NoRequest == Request("user", NoPrompt, 0, FALSE)
Idle == Turn("idle", NoRequest)

\* The places of a turn that has a context of its own to cancel.
Owned == {"claiming", "accepted", "running"}

Stale(S) == {[r EXCEPT !.fresh = FALSE] : r \in S}
StaleTurn == [turn EXCEPT !.req.fresh = FALSE]

Init ==
  /\ mem = [i \in Ids |-> "none"]
  /\ disk = {mem}
  /\ gen = [i \in Ids |-> [prompt |-> NoPrompt, attempts |-> NoAttempts]]
  /\ lastId = 0
  /\ timers = {} /\ woken = {} /\ handoff = {} /\ awaiting = {} /\ local = {}
  /\ queue = <<>> /\ turn = Idle /\ gate = FALSE /\ submit = NoPrompt /\ shut = FALSE
  /\ attempts = [p \in Prompts |-> NoAttempts]
  /\ started = {} /\ unsaved = {} /\ told = {} /\ paused = FALSE /\ retries = [p \in Prompts |-> 0]
  /\ stranded = FALSE
  /\ upsets = 0 /\ typed = 0

-----------------------------------------------------------------------------
(* The session file                                                        *)

InState(m, s) == {i \in Ids : m[i] = s}
Pending(m) == InState(m, "scheduled") \union InState(m, "claimed")

\* A failed write leaves the file alone; one that is only not known to be durable
\* may be undone by a power failure.
Contents(new, o) ==
  CASE o = "saved" -> {new}
    [] o = "uncertain" -> disk \union {new}
    [] o = "failed" -> disk

\* The bound on upsets: n of the step itself, one more for a save that does not
\* simply succeed.
Upsets(n, o) ==
  /\ upsets' = upsets + n + (IF o = "saved" THEN 0 ELSE 1)
  /\ upsets' <= MaxUpsets

\* ApplyAndSave: only a definite failure is rolled back in memory.
ApplyAndSave(new, o) ==
  /\ mem' = IF o = "failed" THEN mem ELSE new
  /\ disk' = Contents(new, o)
  /\ UNCHANGED <<gen, lastId>>

\* Any later save of the session.
Autosave ==
  /\ disk # {mem}
  /\ disk' = {mem}
  /\ UNCHANGED <<mem, gen, lastId, timerVars, frontVars, attempts, ghostVars, boundVars>>

\* validatePendingRecoveryBatch: two generations of one request.
Malformed(m, g) == \E i, j \in Pending(m) : i # j /\ g[i].prompt = g[j].prompt

\* resumePersistedRecoveries arms nothing while a claim is open.
Blocked(m, g) == Malformed(m, g) \/ InState(m, "claimed") # {}

\* (variant: only the generations that had a timer keep one)
ArmedKept(m, g, t) == IF Blocked(m, g) THEN {} ELSE t

Armed(m, g, t) == IF Blocked(m, g) THEN {} ELSE t \union InState(m, "scheduled")

\* resumePersistedRecoveries of the session m, g, with the registry t and the
\* marks a it finds.
Resume(m, g, t, a) ==
  /\ timers' = Armed(m, g, t)
  /\ awaiting' = IF Blocked(m, g) THEN {} ELSE a
  /\ told' = told \ Armed(m, g, t)

-----------------------------------------------------------------------------
(* Claiming and releasing                                                  *)

\* (variant: a claim of another generation does not stand in the way)
ClaimableBeside(i, fresh) == fresh /\ mem[i] = "scheduled"

\* claimPendingRecovery: the lineage is current, the generation is still
\* scheduled and no other one is claimed.
Claimable(i, fresh) == fresh /\ mem[i] = "scheduled" /\ InState(mem, "claimed") = {}

\* seedPendingRecoveryBudget
Seeded(i) ==
  [attempts EXCEPT ![gen[i].prompt] =
     [k \in Kinds |-> IF @[k] < gen[i].attempts[k] THEN gen[i].attempts[k] ELSE @[k]]]

\* A claim stops every timer of the session, also when it may not be durable.
Claim(i, o) ==
  /\ ApplyAndSave([mem EXCEPT ![i] = "claimed"], o)
  /\ timers' = IF o = "failed" THEN timers ELSE {}
  /\ awaiting' = CASE o = "saved" -> {i} [] o = "uncertain" -> {} [] o = "failed" -> awaiting
  /\ attempts' = IF o = "saved" THEN Seeded(i) ELSE attempts
  /\ told' = IF o = "saved" THEN told ELSE told \union {i}

Generation(i) == Request("recovery", gen[i].prompt, i, FALSE)

\* releaseClaimedRecoveriesLocked
Released(ids) == [i \in Ids |-> IF i \in ids /\ mem[i] = "claimed" THEN "scheduled" ELSE mem[i]]
Release(ids, o) ==
  \/ Released(ids) = mem /\ o = "saved" /\ UNCHANGED fileVars
  \/ Released(ids) # mem /\ ApplyAndSave(Released(ids), o)

-----------------------------------------------------------------------------
(* Timers                                                                  *)

\* The entries of the FIFO of some kinds, in their order.
OfKinds(q, kinds) == Entries(q, {n \in DOMAIN q : q[n].kind \in kinds})

QueueFull == Len(queue) >= maxPendingQueue

\* The timer of a generation fires, and gives up its registration.
TimerWakes(i) ==
  /\ i \in timers
  /\ turn.pc = "idle" \/ ~QueueFull
  /\ timers' = timers \ {i}
  /\ woken' = woken \union {[rid |-> i, fresh |-> TRUE]}
  /\ UNCHANGED <<handoff, awaiting, local, fileVars, frontVars, attempts, ghostVars, boundVars>>

TimerClaims(w, o) ==
  /\ w \in woken
  /\ woken' = woken \ {w}
  /\ \/ /\ Claimable(w.rid, w.fresh)
        /\ Claim(w.rid, o)
        /\ handoff' = IF o = "saved" THEN handoff \union {Generation(w.rid)} ELSE handoff
     \/ /\ ~Claimable(w.rid, w.fresh) /\ o = "saved"
        /\ told' = IF w.fresh /\ InState(mem, "claimed") \ {w.rid} # {}
                   THEN told \union {w.rid} ELSE told
        /\ UNCHANGED <<fileVars, timers, awaiting, attempts, handoff>>
  /\ UNCHANGED <<local, frontVars, started, unsaved, paused, retries, stranded, typed>>
  /\ Upsets(0, o)

\* The timer of a retry that could not be saved.
LocalFires(r) ==
  /\ r \in local
  /\ local' = local \ {r}
  /\ handoff' = handoff \union {r}
  /\ UNCHANGED <<timers, woken, awaiting, fileVars, frontVars, attempts, ghostVars, boundVars>>

\* (variant: a retry always takes its place in the queue)
EntersQueue(r) == ~QueueFull /\ queue' = Append(queue, r) /\ UNCHANGED turn

\* handleRecoveryResubmit: the free foreground, else the queue.
Enters(r) ==
  \/ turn.pc = "idle" /\ turn' = Turn("accepted", r) /\ UNCHANGED queue
  \/ turn.pc # "idle" /\ ~QueueFull /\ queue' = Append(queue, r) /\ UNCHANGED turn

\* A dispatched retry is stale, or starts, or is queued,
Dispatch(r) ==
  /\ r \in handoff
  /\ handoff' = handoff \ {r}
  /\ \/ ~r.fresh /\ UNCHANGED <<turn, queue, awaiting>>
     \/ /\ r.fresh /\ ~gate
        /\ awaiting' = awaiting \ {r.rid}
        /\ Enters(r)
  /\ UNCHANGED <<timers, woken, local, gate, submit, shut, fileVars, attempts, ghostVars, boundVars>>

\* or meets the gate of an Esc, or a full queue, and gives up its claim.  Only
\* the full queue arms the timers again.
DispatchRefused(r, o) ==
  /\ r \in handoff /\ r.fresh
  /\ gate \/ (turn.pc # "idle" /\ QueueFull)
  /\ handoff' = handoff \ {r}
  /\ \/ r.rid = 0 /\ o = "saved" /\ UNCHANGED <<fileVars, timers, awaiting, told>>
     \/ /\ r.rid # 0 /\ Release({r.rid}, o)
        /\ \/ o = "failed" /\ UNCHANGED <<timers, awaiting, told>>
           \/ /\ o # "failed"
              /\ IF gate
                 THEN timers' = timers \ {r.rid} /\ awaiting' = awaiting \ {r.rid}
                      /\ told' = told \union {r.rid}
                 ELSE Resume(mem', gen, timers \ {r.rid}, awaiting \ {r.rid})
  /\ UNCHANGED <<woken, local, frontVars, attempts, started, unsaved, paused, retries, stranded, typed>>
  /\ Upsets(0, o)

-----------------------------------------------------------------------------
(* The user                                                                *)

\* The generations of a prompt, the one a repetition of it may claim, and whether
\* the repetition is blocked instead.
Match(p) == {i \in Pending(mem) : gen[i].prompt = p}
Repeatable(p, fresh) == {i \in Match(p) : Claimable(i, fresh) /\ ~Malformed(mem, gen)}
Refused(p, fresh) ==
  p # ClearCommand /\ (Malformed(mem, gen) \/ (Match(p) # {} /\ Repeatable(p, fresh) = {}))

\* The first half of handleSubmitWithIntent: behind a cancelled turn the prompt
\* waits; else tryResumeScheduledRecovery turns the repetition of a request that
\* has a generation into the claim of it.
Submit(p, o) ==
  /\ submit = NoPrompt /\ ~shut
  /\ typed < MaxTyped
  /\ typed' = typed + 1
  /\ \/ /\ turn.pc # "idle" /\ gate /\ o = "saved"
        /\ queue' = IF QueueFull THEN queue ELSE Append(queue, Request("explicit", p, 0, FALSE))
        /\ UNCHANGED <<fileVars, timers, awaiting, handoff, gate, submit, attempts, told>>
     \/ /\ turn.pc = "idle" \/ ~gate
        /\ gate' = IF turn.pc = "idle" THEN FALSE ELSE gate
        /\ UNCHANGED queue
        /\ \/ /\ p = ClearCommand \/ (Match(p) = {} /\ ~Malformed(mem, gen))
              /\ o = "saved" /\ submit' = p
              /\ UNCHANGED <<fileVars, timers, awaiting, handoff, attempts, told>>
           \/ \E i \in Repeatable(p, TRUE) :
                /\ Claim(i, o)
                /\ handoff' = IF o = "saved" THEN handoff \union {Generation(i)} ELSE handoff
                /\ UNCHANGED submit
           \/ /\ Refused(p, TRUE) /\ o = "saved"
              /\ UNCHANGED <<submit, fileVars, timers, awaiting, handoff, attempts, told>>
  /\ UNCHANGED <<woken, local, turn, shut, started, unsaved, paused, retries, stranded>>
  /\ Upsets(0, o)

\* The second half: the prompt waits behind a cancelled turn, is steered into the
\* running one, is queued when that does not take it, or becomes the next turn.
Accept ==
  /\ submit # NoPrompt
  /\ submit' = NoPrompt
  /\ \/ shut /\ UNCHANGED <<queue, turn, gate>>
     \/ /\ ~shut /\ turn.pc # "idle"
        /\ \/ ~gate /\ submit # ClearCommand /\ UNCHANGED queue
           \/ QueueFull /\ UNCHANGED queue
           \/ /\ ~QueueFull
              /\ queue' = Append(queue, Request(IF gate THEN "explicit" ELSE "user", submit, 0, FALSE))
        /\ UNCHANGED <<turn, gate>>
     \/ /\ ~shut /\ turn.pc = "idle"
        /\ turn' = Turn("accepted", Request("user", submit, 0, FALSE))
        /\ gate' = FALSE
        /\ UNCHANGED queue
  /\ UNCHANGED <<shut, timerVars, fileVars, attempts, ghostVars, boundVars>>

\* The claims an Esc can prove not to have started.
Unstarted == ({queue[k].rid : k \in DOMAIN queue} \ {0}) \union awaiting

\* (variant: what was accepted before the boundary keeps its lineage)
BoundaryLowersNothing ==
  UNCHANGED <<woken, handoff, local>>

\* advanceConversationEpoch
BoundaryStales ==
  /\ woken' = Stale(woken)
  /\ handoff' = Stale(handoff)
  /\ local' = Stale(local)

\* cancelProcessing (Esc, Ctrl+C)
Esc(o) ==
  /\ ~shut
  /\ gate' = TRUE
  /\ turn' = [StaleTurn EXCEPT !.cancelled = turn.pc \in Owned]
  /\ queue' = <<>>
  /\ Release(Unstarted, o)
  /\ BoundaryStales
  /\ timers' = {} /\ awaiting' = {}
  /\ told' = IF o = "failed" THEN told \union Unstarted ELSE told
  /\ paused' = TRUE
  /\ UNCHANGED <<submit, shut, attempts, started, unsaved, retries, stranded, typed>>
  /\ Upsets(1, o)

\* beginShutdown; the sleeping timers go with the context of the application.
Shutdown ==
  /\ ~shut /\ upsets < MaxUpsets
  /\ shut' = TRUE /\ gate' = TRUE
  /\ turn' = [turn EXCEPT !.cancelled = turn.pc \in Owned]
  /\ timers' = {} /\ local' = {}
  /\ UNCHANGED <<woken, handoff, awaiting, queue, submit, fileVars, attempts, ghostVars, boundVars>>

\* The process ends, at any point; the next one loads the session and resumes.
Restart ==
  /\ Upsets(1, "saved")
  /\ \E m \in disk : mem' = m
  /\ disk' = {mem'}
  /\ Resume(mem', gen, {}, {})
  /\ woken' = {} /\ handoff' = {} /\ local' = {}
  /\ queue' = <<>> /\ turn' = Idle /\ gate' = FALSE /\ submit' = NoPrompt /\ shut' = FALSE
  /\ attempts' = [p \in Prompts |-> NoAttempts]
  /\ paused' = FALSE /\ stranded' = FALSE
  /\ UNCHANGED <<gen, lastId, started, unsaved, retries, typed>>

-----------------------------------------------------------------------------
(* The foreground                                                          *)

Finishing == turn' = Turn("finishing", NoRequest)

\* Its lineage still holds; a command does not ask.
Current(r) == r.fresh \/ (r.rid = 0 /\ r.prompt = ClearCommand)

\* startAcceptedSubmit and runAcceptedSubmit before the pipeline: after Shutdown
\* the slot is given up, a cancelled or stale turn goes to its finalizer, and a
\* recovery that cannot start is released if its lineage still holds.
GiveUp(o) ==
  /\ turn.pc = "accepted"
  /\ shut \/ turn.cancelled \/ ~Current(turn.req)
  /\ turn' = IF shut THEN Idle ELSE Turn("finishing", NoRequest)
  /\ gate' = (gate \/ shut)
  /\ \/ /\ turn.req.rid # 0 /\ turn.req.fresh /\ (shut \/ turn.cancelled)
        /\ Release({turn.req.rid}, o)
        /\ timers' = IF o = "failed" THEN timers ELSE timers \ {turn.req.rid}
        /\ awaiting' = IF o = "failed" THEN awaiting ELSE awaiting \ {turn.req.rid}
     \/ /\ turn.req.rid = 0 \/ ~turn.req.fresh
        /\ o = "saved" /\ UNCHANGED <<fileVars, timers, awaiting>>
  /\ UNCHANGED <<woken, handoff, local, queue, submit, shut, attempts, ghostVars, typed>>
  /\ Upsets(0, o)

\* The setup before the pipeline panics: the recovery has not started, so it is
\* scheduled again, with a timer.
SetupPanics(o) ==
  LET rid == turn.req.rid
  IN /\ turn.pc = "accepted"
     /\ Finishing
     /\ \/ /\ rid # 0 /\ turn.req.fresh /\ Release({rid}, o)
           /\ IF o = "failed" THEN UNCHANGED <<timers, awaiting, told>>
              ELSE Resume(mem', gen, timers \ {rid}, awaiting \ {rid})
        \/ /\ rid = 0 \/ ~turn.req.fresh
           /\ o = "saved" /\ UNCHANGED <<fileVars, timers, awaiting, told>>
     /\ UNCHANGED <<woken, handoff, local, queue, gate, submit, shut, attempts, started, unsaved, paused,
                    retries, stranded, typed>>
     /\ Upsets(1, o)

\* The pipeline begins.
Start ==
  LET r == turn.req
  IN /\ turn.pc = "accepted" /\ ~shut /\ ~turn.cancelled /\ Current(r)
     /\ turn' = [turn EXCEPT !.pc = "running"]
     /\ started' = IF r.rid = 0 \/ r.own THEN started ELSE started \union {r.rid}
     /\ retries' = IF r.prompt \notin Prompts THEN retries
                   ELSE [retries EXCEPT ![r.prompt] =
                           IF r.kind = "recovery" THEN @ + 1 ELSE -Cardinality(Match(r.prompt))]
     /\ UNCHANGED <<unsaved, told, paused, stranded, queue, gate, submit, shut, timerVars, fileVars, attempts,
                    boundVars>>

Running(p) == turn.pc = "running" /\ turn.req.prompt = p
Forgotten(p, K) == [attempts EXCEPT ![p] = [k \in Kinds |-> IF k \in K THEN 0 ELSE @[k]]]

\* Success: clearPendingRecovery removes the generation and resumes the others.
Succeed(p, o) ==
  LET rid == turn.req.rid
  IN /\ Running(p)
     /\ attempts' = Forgotten(p, Kinds)
     /\ \/ /\ rid # 0 /\ mem[rid] # "none"
           /\ ApplyAndSave([mem EXCEPT ![rid] = "none"], o)
           /\ IF o = "failed" THEN UNCHANGED <<timers, awaiting, told>>
              ELSE Resume(mem', gen, timers \ {rid}, awaiting \ {rid})
        \/ /\ rid = 0 \/ (rid # 0 /\ mem[rid] = "none")
           /\ o = "saved"
           /\ UNCHANGED <<fileVars, timers, awaiting, told>>
     /\ Finishing
     /\ UNCHANGED <<woken, handoff, local, queue, gate, submit, shut, started, unsaved, paused, retries,
                    stranded, typed>>
     /\ Upsets(0, o)

\* (variant: a turn that will not be repeated gives its claim back)
FailForGoodReleases(p) ==
  /\ Running(p)
  /\ attempts' = Forgotten(p, Kinds)
  /\ Finishing
  /\ Release({turn.req.rid} \ {0}, "saved")
  /\ UNCHANGED <<queue, gate, submit, shut, timerVars, ghostVars, boundVars>>

\* Cancelled, stopped by a hook, unsafe to repeat, or out of attempts: a claimed
\* generation stays claimed.
FailForGood(p) ==
  /\ Running(p)
  /\ attempts' = Forgotten(p, Kinds)
  /\ Finishing
  /\ UNCHANGED <<queue, gate, submit, shut, timerVars, fileVars, ghostVars, boundVars>>

\* scheduleRateLimitAutoRetry, scheduleAutoResume: one attempt of the budget;
\* an auto-resume forgets the rate limit first.
Counted(p, kind) ==
  LET base == IF kind = "rate_limit" THEN attempts ELSE Forgotten(p, {"rate_limit"})
  IN [base EXCEPT ![p][kind] = @ + 1]

\* (variant: the attempts of the generation that is replaced are forgotten)
CarriedAlone(spent, rid) == spent

\* persistPendingRecovery carries the attempts of the generation it replaces.
Carried(spent, rid) ==
  IF rid = 0 THEN spent
  ELSE [k \in Kinds |-> IF spent[k] < gen[rid].attempts[k] THEN gen[rid].attempts[k] ELSE spent[k]]

\* A new generation needs room, a replacement the one it replaces.
Room(rid) ==
  IF rid = 0 THEN Cardinality(Pending(mem)) < maxPendingRecoveries ELSE mem[rid] # "none"

\* A failure worth a retry is persisted: as a new generation, or in the place of
\* the one that ran.  Nothing is armed when the commit is uncertain, the
\* user is sent to /recovery, which lists them all; a definite failure leaves a
\* retry of this process only.
FailWithRetry(p, kind, o) ==
  LET r == turn.req
      id == lastId + 1
      spent == Counted(p, kind)
      kept == IF r.rid = 0 THEN mem ELSE [mem EXCEPT ![r.rid] = "none"]
      new == [kept EXCEPT ![id] = "scheduled"]
  IN /\ Running(p)
     /\ lastId < MaxIds
     /\ attempts[p][kind] < maxAttempts[kind]
     /\ attempts' = spent
     /\ Finishing
     /\ \/ /\ r.fresh
           /\ Room(r.rid)
           /\ lastId' = id
           /\ gen' = [gen EXCEPT ![id] = [prompt |-> p, attempts |-> Carried(spent[p], r.rid)]]
           /\ mem' = IF o = "failed" THEN mem ELSE new
           /\ disk' = Contents(new, o)
           /\ \/ /\ o = "saved"
                 /\ Resume(new, gen', timers \union {id}, awaiting)
                 /\ UNCHANGED <<local, unsaved>>
              \/ /\ o = "uncertain" /\ told' = told \union InState(new, "scheduled")
                 /\ UNCHANGED <<timers, awaiting, local, unsaved>>
              \/ /\ o = "failed"
                 /\ local' = local \union {Request("recovery", p, r.rid, TRUE)}
                 /\ unsaved' = unsaved \union ({id, r.rid} \ {0})
                 /\ UNCHANGED <<timers, awaiting, told>>
        \/ /\ ~r.fresh \/ ~Room(r.rid)
           /\ o = "saved"
           /\ UNCHANGED <<fileVars, timers, awaiting, told, local, unsaved>>
     /\ UNCHANGED <<woken, handoff, queue, gate, submit, shut, started, paused, retries, stranded, typed>>
     /\ Upsets(0, o)

\* /clear: replaceConversationRoot.
Clear(o) ==
  /\ Running(ClearCommand)
  /\ Finishing
  /\ ApplyAndSave([i \in Ids |-> "none"], o)
  /\ \/ o = "failed" /\ UNCHANGED <<timerVars, queue>>
     \/ /\ o # "failed"
        /\ timers' = {} /\ awaiting' = {} /\ BoundaryStales
        /\ queue' = OfKinds(queue, {"user", "explicit"})
  /\ UNCHANGED <<gate, submit, shut, attempts, ghostVars, typed>>
  /\ Upsets(0, o)

\* finishForegroundProcessing hands the slot to the head of the queue: behind the
\* gate only to what the user has typed since Esc; the rest is discarded.
NextWaiting == IF gate THEN OfKinds(queue, {"explicit"}) ELSE queue

\* First the lineage is captured that the next turn will belong to.
Capture ==
  /\ turn.pc = "finishing"
  /\ turn' = IF shut THEN Idle ELSE Turn("handing", NoRequest)
  /\ gate' = (gate \/ shut)
  /\ UNCHANGED <<queue, submit, shut, timerVars, fileVars, attempts, ghostVars, boundVars>>

\* The last messages of a turn to the screen panic: the slot is freed, and what is
\* queued stays where it is until the next turn has ended.
PublishPanics ==
  /\ turn.pc = "finishing" /\ ~shut
  /\ Upsets(1, "saved")
  /\ turn' = Idle
  /\ stranded' = TRUE
  /\ UNCHANGED <<queue, gate, submit, shut, timerVars, fileVars, attempts, started, unsaved, told,
                 paused, retries, typed>>

\* Then, under a.mu, the head is taken from the queue.  The slot stays taken when
\* it is handed on.
HandOver ==
  /\ turn.pc = "handing"
  /\ \/ shut /\ turn' = Idle /\ gate' = TRUE /\ UNCHANGED queue
     \/ /\ ~shut /\ NextWaiting = <<>>
        /\ turn' = Idle /\ queue' = <<>> /\ UNCHANGED gate
     \/ /\ ~shut /\ NextWaiting # <<>>
        /\ LET r == Head(NextWaiting)
           IN turn' = Turn("claiming", [r EXCEPT !.fresh = @ /\ turn.req.fresh])
        /\ queue' = Tail(NextWaiting) /\ gate' = FALSE
  /\ stranded' = FALSE
  /\ UNCHANGED <<submit, shut, timerVars, fileVars, attempts, started, unsaved, told, paused, retries,
                 boundVars>>

\* At last a prompt that has a generation is promoted to it
\* (claimQueuedRecoveryForPrompt), or dropped when that one cannot be claimed.
\* Everything else, and what was promoted, goes on as it is.
Promote(o) ==
  LET r == turn.req
  IN /\ turn.pc = "claiming"
     /\ \/ /\ r.kind = "recovery" \/ r.prompt = ClearCommand
              \/ (Match(r.prompt) = {} /\ ~Malformed(mem, gen))
           /\ o = "saved"
           /\ turn' = [turn EXCEPT !.pc = "accepted"]
           /\ awaiting' = awaiting \ {r.rid}
           /\ UNCHANGED <<fileVars, timers, attempts, told>>
        \/ \E i \in IF r.kind = "recovery" THEN {} ELSE Repeatable(r.prompt, r.fresh) :
             /\ Claim(i, o)
             /\ turn' = IF o = "saved" THEN [turn EXCEPT !.req = Generation(i)]
                        ELSE Turn("finishing", NoRequest)
        \/ /\ r.kind # "recovery" /\ Refused(r.prompt, r.fresh) /\ o = "saved"
           /\ Finishing
           /\ UNCHANGED <<fileVars, timers, awaiting, attempts, told>>
     /\ UNCHANGED <<woken, handoff, local, queue, gate, submit, shut, started, unsaved, paused, retries,
                    stranded, typed>>
     /\ Upsets(0, o)

Foreground(o) ==
  \/ GiveUp(o)
  \/ \E p \in Prompts : Succeed(p, o)
  \/ Clear(o)
  \/ SetupPanics(o)
  \/ Promote(o)

Next ==
  \/ Autosave \/ Accept \/ Shutdown \/ Restart \/ Start
  \/ Capture \/ PublishPanics \/ HandOver
  \/ \E i \in Ids : TimerWakes(i)
  \/ \E r \in local : LocalFires(r)
  \/ \E r \in handoff : Dispatch(r)
  \/ \E p \in Prompts : FailForGood(p)
  \/ \E p \in Prompts, k \in Kinds, o \in PersistOutcomes : FailWithRetry(p, k, o)
  \/ \E o \in SaveOutcomes :
       \/ \E w \in woken : TimerClaims(w, o)
       \/ \E r \in handoff : DispatchRefused(r, o)
       \/ \E p \in Prompts \union {ClearCommand} : Submit(p, o)
       \/ Esc(o)
       \/ Foreground(o)

Spec == Init /\ [][Next]_vars

-----------------------------------------------------------------------------
(* Properties                                                              *)

RequestType ==
  [kind : {"user", "explicit", "recovery"}, prompt : Prompts \union {NoPrompt, ClearCommand},
   rid : 0 .. MaxIds, own : BOOLEAN, fresh : BOOLEAN]

RecoveryTypeOK ==
  /\ mem \in [Ids -> {"none", "scheduled", "claimed"}]
  /\ mem \in disk /\ disk \subseteq [Ids -> {"none", "scheduled", "claimed"}]
  /\ gen \in [Ids -> [prompt : Prompts \union {NoPrompt}, attempts : [Kinds -> Nat]]]
  /\ lastId \in 0 .. MaxIds
  /\ timers \subseteq Ids /\ awaiting \subseteq Ids
  /\ woken \subseteq [rid : Ids, fresh : BOOLEAN]
  /\ handoff \subseteq RequestType /\ local \subseteq RequestType
  /\ queue \in Seq(RequestType) /\ Len(queue) <= maxPendingQueue
  /\ turn \in [pc : {"idle", "claiming", "accepted", "running", "finishing", "handing"},
               req : RequestType, cancelled : BOOLEAN]
  /\ gate \in BOOLEAN /\ shut \in BOOLEAN /\ paused \in BOOLEAN /\ stranded \in BOOLEAN
  /\ submit \in Prompts \union {NoPrompt, ClearCommand}
  /\ attempts \in [Prompts -> [Kinds -> Nat]]
  /\ \A p \in Prompts, k \in Kinds : attempts[p][k] <= maxAttempts[k]
  /\ started \subseteq Ids /\ unsaved \subseteq Ids /\ told \subseteq Ids
  /\ retries \in [Prompts -> Int] /\ upsets \in 0 .. MaxUpsets /\ typed \in 0 .. MaxTyped

\* While the side effects of a recovery are under way, whatever a crash leaves of
\* the session file says that it was claimed.
ClaimCoversRun ==
  turn.pc = "running" /\ turn.req.rid # 0 => \A d \in disk : d[turn.req.rid] = "claimed"

\* At most one generation is claimed, in memory and in the file.
OneClaim == \A d \in disk : Cardinality(InState(d, "claimed")) <= 1

\* The checkpoints of a generation start a turn at most once, also over crashes:
\* they do not know the side effects of that turn.  The exception is a generation
\* whose turn failed and whose successor could not be written: its retry waits in
\* the FIFO under its ID, and Esc schedules it again as one that has not started.
StartsOnce ==
  [][turn.pc = "accepted" /\ turn'.pc = "running" /\ turn.req.rid # 0 /\ ~turn.req.own =>
       turn.req.rid \notin started \ unsaved]_vars

\* A scheduled recovery is not lost: it has a timer, or someone is about to claim
\* it, or a claim of another (or an inconsistent batch) holds it back, or the user
\* was told or has paused automation with Esc.
NoneStranded ==
  shut \/ paused \/ Blocked(mem, gen)
    \/ \A i \in InState(mem, "scheduled") :
          i \in timers \union told \/ [rid |-> i, fresh |-> TRUE] \in woken

\* Nobody waits for a foreground that is free, but after a panic while the end of a
\* turn was being shown, and then only until the next turn has ended.
IdleMeansDrained == turn.pc = "idle" /\ ~shut /\ ~stranded => queue = <<>>

\* An automatic retry is started no more often than the budgets allow, however
\* the failures alternate and whatever a crash forgets, as long as its generations
\* could be written: the process alone has only the counters, and a retry after a
\* timeout starts that of the rate limits afresh.  The counters and the FIFO stay
\* within their limits in any case.
WithinBudget ==
  /\ RecoveryTypeOK
  /\ \A p \in Prompts :
       \/ \E i \in unsaved : gen[i].prompt = p
       \/ retries[p] <= maxAttempts["rate_limit"] + maxAttempts["auto_resume"]

=============================================================================
