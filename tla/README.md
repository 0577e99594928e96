# A verification project for gokin

gokin is a coding agent for the terminal. Around one conversation with a language
model it runs a good deal of machinery that works on its own: sub-agents on a
dependency graph, sessions detached from the terminal, tasks that recur for days
without anybody watching, plans executed step by step, requests retried after a
failure, shell commands in the background. This directory holds TLA+ models of that machinery,
the TLC configurations that check them on small instances, and TLAPS proofs of
the results that matter most. `PROJECT.json` is the index: components, runs,
mutants, the map from definitions to source lines, findings, hazards, theorems.

    tlasany Coordinator.tla                      parse a module
    tlc -workers 2 -config Loops.cfg MCLoops     model-check a run
    tlapm CoordinatorProofs.tla                  check the proofs of a module

One module per subsystem: `Coordinator` (with `TaskGraph`, its abstract
specification, and `CoordinateTool`, which composes the tool with it),
`BackgroundJob`, `Loops` (with `LoopTiming`, and `LoopSchedule`, which joins the
two), `Recovery`, `PlanRun`, `ShellTasks`.
`Recovery` and `PlanRun` share `Selection`, the entries of a list at some of its
positions. A `MC...` module gives TLC small sets, a `...Proofs` module holds the
theorems of the module it is named after (`LoopsProofs` those of `LoopTiming` and
`LoopSchedule` too).

## 1. Inventory of the system

### Modelled

**Agent coordinator** (`internal/agent/coordinator.go`, `priority_queue.go`).
State: the task table with statuses, dependencies and results; a priority queue
of the ready tasks; `running`, the agents that occupy a slot; two buffered
channels (`taskReadyCh`, `agentDoneCh`); the events `sealed`, `completionCh`,
`allComplete`; `pendingCallbacks`. Operations: `AddTask`, `Start`,
`SetMaxParallel`, `CancelTask`, `CancelRunning`, `CancelRunningAndWait`, `Wait*`,
`Stop`; the goroutine `processLoop` with its four events; one monitor goroutine
per agent. Hard: three places commit the result of an agent (the channel, the
ticker's `checkCompletedAgents`, `CancelTask`); signals are dropped when the
channel is full; callbacks run outside the lock and may call back; the result of
an agent may be evicted before its monitor looks. Correct means: dependencies
are respected, a failure takes exactly its dependents with it, no task is
forgotten, no verdict is replaced, `Wait` is released by a terminal graph and
by nothing else, `onAllComplete` comes last and once.

**Agent runner, as far as the coordinator depends on it** (`runner_spawn.go`,
`runner_result.go`, `runner.go`). State: per agent working, asked to cancel, or
published; results subject to eviction; registered waiters pin a snapshot.

**The coordinate tool** (`internal/tools/coordinate.go`). One `Execute` call owns
a coordinator: it adds a validated graph, starts, waits with a deadline, and
tears down. Hard: the deadline and the last completion race; teardown captures
the running agents once. Correct means: "complete" leaves nothing at work, and what
an interrupted call leaves behind is bounded.

**Background jobs** (`internal/background`, `cmd/gokin/background.go`). State:
one durable record per job, an inbox of at most twenty messages, two file locks
(the metadata lease for each critical section, the worker lease for the life of
a worker). Processes: the launcher, the detached worker, and any number of
management commands (`agents`, `send`, `stop`, the sweep). They share only
files. Hard: every process may die between any two steps; commands decide from
copies; a lock is probed by taking it. Correct means: input reaches the model in
order and at most once, none is left behind by a job that ends well, a dead
worker is noticed, a finished job stays finished, the sweep spares the living.

**Loops** (`internal/loops`, `commands/loop_cmd.go`, `app/loop_runner_adapter.go`,
`fileutil/atomic.go`). State: one file per loop, shared by every gokin process
of the user; in each process a Manager with a copy of all of them, loaded at
startup; a Runner with a ticker, a rotation index and at most one iteration in
progress. Operations: the `/loop` commands, the tick, the iteration with its
accounting (`AppendIteration`) and four automatic breakers. Hard: saves fail,
before or after the file was replaced, commands arrive at every point of an
iteration, several breakers hold at once, processes overwrite each other's copies.
Correct means: breakers hold and tell the truth, an ended loop stays ended and a
loop keeps its workspace as far as its processes know of it, no due loop is starved.

**Pending recoveries and the foreground** (`app/pending_recovery.go`,
`pending_queue.go`, `rate_limit_retry.go`, `auto_resume.go`, `app.go`,
`message_processor.go`, `session_manager.go`, `signals.go`). State: in the session
file, per interrupted request a generation, scheduled or claimed, with the
checkpoints of the side effects the request already had; in memory the timers,
the type-ahead FIFO, the foreground slot, the counters of automatic retries, the
epochs that Esc and `/clear` advance. Operations: submit, Esc, `/clear`, a turn that
succeeds, fails for good or fails with a retry, the timer and its claim, the
dispatch of a retry, the handover of the foreground, shutdown, startup. Hard: a
timer fires while the user types the same prompt; saves fail or are not known to
be durable; a process dies between the claim and the turn; the boundary of an
Esc has to reach everything that is on its way. Correct means: what may have run
is never run again by itself, one recovery at a time, none is lost in silence,
retries are bounded over crashes, nobody waits for a foreground that is free.

**Plan execution** (`internal/plan`, the orchestrator in `app/message_processor.go`,
`app/plan_watchdog.go`, `commands/resume_plan.go`, the plan tools). State: the
plan with the status of its steps, its lifecycle and the ledger of side effects;
its file; the manager's execution mode and current step; the orchestrator's
rounds, retries and auto-resumes; the watchdog. Operations: the rounds of the
orchestrator, direct or delegated, from the choice of a step to its verification;
replanning; the pauses; `/resume-plan`, `update_plan_progress`, `exit_plan_mode`;
Esc, crash and restart. Hard: the manager finds a step by its ID while replans
renumber; the watchdog pauses a plan the orchestrator is working on; a crash
between an effect and its record; a save that fails and is only reported. Correct means: no step with effects is repeated
by itself, a completed step is verified and stays completed, a plan with steps
left can be resumed, every run ends.

**Background shell commands** (`internal/tasks`, `tools/kill_shell.go`,
`app/signals.go`). State: per task its status, its process group, a transcript
bounded in memory and on disk, `Done`. Operations: register, start, write, exit,
cancel, clean up, the shutdown with its deadline. Hard: a cancel finds the
command not yet started, just started, or just ended; a descendant keeps the
pipe; the log cannot be opened, is full, or fails. Correct means: a verdict is
never replaced, `Done` is the last thing, the note in a shortened output is true,
a cancelled group dies.

How they interact: the coordinate tool creates and drives a coordinator, which
spawns agents on the runner; a loop iteration is one synchronous spawn on the
same runner (`newLoopSpawner`); a background worker runs whole headless turns in
which tools, the coordinate tool among them, are called; loops and background
jobs persist through `fileutil.AtomicWrite`. A plan and a recovery both occupy the
foreground slot (`Recovery` models the slot, `PlanRun` what one occupant does); a
step of a plan and a turn start background commands, which the shutdown cancels
before the agents.

### Not modelled

| part | why, or when |
|---|---|
| of recovery: switching sessions, headless mode, the serialisation of a session | switching replaces the whole state; headless has no queue; the rest is a format |
| of plan mode: the approval dialogue, linting, rollback of a paused step's files | a dialogue and text; the rollback restores files by their content |
| of plan mode: dependencies, conditions, parallel steps | neither `enter_plan_mode` nor a replan can produce them |
| of tasks: environment, sandbox preparation, listings, the sweep of old logs | I/O and presentation |
| undo and rewind | planned: snapshots and their journal |
| goals, `internal/goals` | small record driven by the conversation, candidate |
| LLM client, rate limit, circuit breaker, fallback | planned: breaker, token bucket, provider fallback; transport and decoding are I/O |
| tool executor, permissions, security | I/O and policy tables; the queue of permission prompts is a candidate |
| MCP, LSP, hooks, plugins | supervision of processes whose state is outside the repository |
| application, UI, commands | rendering, input handling, routing and wiring, except the handlers named above; by far the largest part of the source |
| context, memory, code intelligence, done-gate | text processing and heuristics |
| configuration, setup, update, evaluation | formats, downloads, harnesses; update rollback is a candidate |

## 2. The modules and the code

### Coordinator

Tasks are numbered in the order `AddTask` admits them, so a dependency is a
smaller number, and `Missing` stands for an ID that is not in the table. A task
spawns at most one agent, so agents carry the number of their task.

| variables | code |
|---|---|
| `status`, `deps`, `prio`, `result` | `c.tasks` |
| `qseq`, `nextSequence` | `c.queue`: the sequence number of a queued task |
| `running`, `maxParallel` | the slots |
| `taskReadyCh`, `agentDoneCh` | the channels, as a token count and as a set of results |
| `sealed`, `completionClosed`, `allCompleteFired`, `pendingCallbacks` | the completion events |
| `stopped` | `c.ctx` is cancelled |
| `loopPc`, `reaping`, `spawning` | where `processLoop` stands |
| `stage`, `batch` | per goroutine, where it stands in `deliverTaskCompletions` |
| `agent`, `evicted`, `monitor` | the runner and the monitor goroutines |
| `delivered` | how often `onTaskComplete` ran (history) |

A critical section of `c.mu` is one step. The two that loop over tasks
(`startReadyTasksLocked`, `checkCompletedAgents`) take one step per task with the
lock held in between, because the runner and the monitors do not take that lock
and really interleave. A spawn is two steps: `SpawnAsync` looks at the context, and
only later is the agent registered (`StartTask`), so a `Stop` may come in between.
`Settle` is what every committed result does: the status,
the worklist of `resolveDependentsLocked` (stated as the least set closed under
propagation, not as the worklist), the newly ready tasks and their signals.
Delivery is four steps (publish, invoke, drain, notify) of whichever goroutine
registered the completions; a callback that calls back into the coordinator is
another caller acting between them.

`TaskGraph` is the promise to users, without queue, channels, lock or loop. The
refinement (`Graph` in `Coordinator`) maps blocked and ready to "waiting" and
forgets the rest; `ImplementsTaskGraph` says every coordinator behaviour is a
behaviour of it.

### CoordinateTool

Extends `Coordinator` with the position of `Execute`. `Prepared` is what
`prepareCoordinateTasks` guarantees of a dependency list. The wait returns on
completion or at any time (deadline or cancelled turn). The teardown is
`CancelCaptured`, `AwaitCaptured` (which its own deadline may cut short) and
`ToolStop`, interleaved with everything the coordinator does.

### BackgroundJob

One job; jobs share no state. Every critical section of the metadata lease is one
step, everything between two of them interleaves. `lease` is "free", "worker" or
the client in the middle of a probe: `WorkerLeaseHeld` takes the lock to find out
whether it is taken, so a probe looks like a worker to another probe. A client
keeps `seenState` and `seenPid`, its copy of the record, from `Reads` on, and
decides from the copy exactly where the code does. The worker keeps the three
places a claimed message can be (`claimedForTurn`, `steered`, `deferred`).
`Crash` kills launcher or worker at any point, `Aborts` a command; a lock goes
with its process. `handed` is history: how often the model was given a message.

Limits: an error of the store is one that left the file alone; contents,
sessions, timing and logs are left out; `attach` is `send` plus reading.

### Loops

Several processes (`Procs`), each with `mem` (the Manager's copy), `due` (whose
NextRunAt has passed), `rotation` and `flight` (the iteration in progress); `disk`
is the directory of loop files. A Manager method is one step including its save,
whose outcome `o` is "saved", "failed" (the file is untouched) or "uncertain" (the
rename happened, the sync of the directory failed, an error is returned): these
are the three outcomes of `atomicWrite`. `Tick` is the whole scan: unowned loops
met on the way are adopted and saved, the first due loop of this workspace
behind the rotation index is launched. `fireOne` is split where something can
come in between: the second look, the spawn, the end of the agent, the record,
the stop after a done marker. `Counted`, `Exhausted`, `Breaker`, `Appended` are
`AppendIteration`.

A save that fails puts the Manager's copy back (`Remembered`), also after the rename,
where the file keeps the change: memory and file may differ, and processes may hold
different copies, so the properties say what survives that.

Limits: time is only whether NextRunAt has passed (the arithmetic that computes it
is in `LoopTiming`); the counters stop at the limit they are compared with;
`/loop stop` with its cancel is one step, and so is the scan of a tick; a removal
that fails changes nothing.

### LoopTiming and LoopSchedule

`LoopTiming` is the arithmetic of `AppendIteration` that `Loops` abstracts away: the
transient backoff, the hint of the model, the floor and the cap, in integers that
wrap. `AsDuration` is the conversion of seconds to a `time.Duration`, which wraps too;
nothing bounds the floor or the interval on file, so the bounds are stated for those
that a `time.Duration` can hold (`Fits`, 292 years). The shift of the backoff is `ShiftedLeft`, bit by bit, each of which may
overflow. `LoopSchedule` states what the delays have to be (`TimingSound`), of all hints,
floors and streaks and of the streak each loop of `Loops` has come to.
`IntMax` is the largest integer and `Second` is `time.Second`; a run scales both down so
that the products which overflow, and floors on both sides of `Fits`, can be
enumerated; the proofs hold for any. `Counts`, `Floors` and `Streaks` are the numbers it is checked for; any
sets will do for the proof. The words of a hint are abstracted to the count and the unit they are
parsed to.

### Recovery

| variables | code |
|---|---|
| `mem`, `gen`, `lastId` | the recoveries of the live session: state, prompt, recorded attempts |
| `disk` | the *set* of contents a restart may find: a write that is not known to be durable adds one, a certain write leaves one |
| `timers`, `woken`, `handoff`, `awaiting`, `local` | a retry on its way: asleep, fired, between claim and dispatch, in the queue, not saved at all |
| `queue`, `turn`, `gate`, `submit`, `shut` | the foreground: FIFO, the turn, `dropSteerLeftovers`, a prompt between the halves of the submit handler |
| `attempts` | `rateLimitRetryCount`, `autoResumeCount` |
| `started`, `unsaved`, `told`, `paused`, `retries`, `stranded` | history |

A section under `sessionLeaseMu` is one step. An epoch is only ever compared with
the current one, so whoever holds an epoch carries a flag `fresh` which every
boundary lowers. The end of a turn is three steps, because Esc and the shutdown may
come in between: `Capture` publishes the end and captures the lineage, `HandOver`
takes the next request from the FIFO, `Promote` claims the recovery it repeats.
`PublishPanics` and `SetupPanics` are the two panics the code recovers from around it.
`Restart` is the crash (or the exit) and the load of the next
start, from any member of `disk`.

Limits: one session; headless mode, goals, plans and switching sessions are left
out, and so are the auto-resume of a request that had progress, which becomes a
request of its own, and the refund of an attempt that is then skipped.

### PlanRun

`plan` and `file` are the same record in memory and in the store; `run.pc` is where
the orchestrator stands. Its steps are named for what the code does there
(`BeginStep`, `TransientRetry`, `Replan`, `FinishStep`, `Cooldown`); a critical section of the plan's or the manager's mutex
is one step, and so is what follows it up to the next point where another actor
can matter: the model at work, a tool starting, a wait. `dirty`, `verified`,
`confirmed`, `done` are history. A step has the ID the code gives it and a tag, the
order of its creation, which the code does not have: the properties speak of tags.
`clash` is history too: a replan has made two steps of the plan share an ID (section
5). From then on the manager may mark one step and mean another, so `NoBlindRetry`,
`DoneOnce`, `EffectsOnFile` and `CompletedIsVerified` are stated up to that point;
the run `plan_replan` shows what comes after it.

A save may succeed or fail (`Save`); the code reports a failure and goes on with the
plan in memory, except at the boundary before a run. `stale` says that the last save
failed and the file is behind; what only that save would have kept is lost when the
file is loaded (`EffectsLeft`, `DoneLeft`). `dirty` holds the steps with effects since
they were last resumed by anybody, `unreviewed` those since the *operator* resumed
them: the auto-resume of the orchestrator clears the first only.

Limits: one plan from its approval on; a write that succeeded but was reported as
failed is one that succeeded, because the caller ignores the report; steps run one at
a time, as `enter_plan_mode` and the replan handler make them.

### ShellTasks

A section under `t.mu` or `m.mu` is one step; starting the command, cancelling its
context, killing the group and waiting are steps between them. `leader` and `child`
are the process group, one descendant standing for all; a descendant is "piped"
while it holds the output and "quiet" when it has redirected it. `os/exec` is
external: a context that is cancelled prevents the start or kills the leader, and
`Wait` returns when the leader is dead and the pipe is closed. The transcript is the
record of `safeBuffer` with numbers of bytes for its contents.

`Cleanup` looks at the status and the end time only, as the code does, and removes the
log with the task.

Limits: bytes, so a rune cut in half is not seen; PIDs are not reused.

## 3. What is checked

Every property has a mutant in `PROJECT.json`: a change of one definition, of the
kind a plausible bug would make, that TLC must find to violate the property. The
mutated forms stand beside the definitions as "(variant: ...)".

| run | instance | what it shows |
|---|---|---|
| `coordinator` | two tasks with any dependencies (an unknown one included) under every public operation at any time, and three tasks (chains, forks, joins) added before `Start`, with failures and cancellations; one caller, channels of capacity 1, up to two slots; 1.7 million states | `BooksAgree`: queue = ready tasks, slots = running tasks; results follow the agents (`OutcomeFaithful`); `CompletionIsLast`: `Wait` is released only by a sealed, terminal graph, every `onTaskComplete` once and before `onAllComplete`; verdicts are never replaced (`TerminalIsFinal`); `GraphSound`: dependencies respected, no blocked task stranded; the refinement `ImplementsTaskGraph` |
| `coordinator_live` | two tasks, one slot, channels of capacity 1, `Stop` at any time; 84,000 states | `RunCompletes`: every wait is released, `onAllComplete` follows |
| `coordinate_tool` | one `Execute` over two tasks; 1.1 million states | `CompleteMeansQuiet`; `StragglersBounded`: what a call leaves at work never exceeds the slots, has no verdict, and was asked to cancel if teardown found it |
| `background_job` | worker, two clients, three messages, inbox of two, crashes everywhere; 1 million states | `FinishedMeansDrained`, `InputOnceInOrder`, `NoSpuriousExit`, `SweepSparesWorker`; `TerminalStays`: a finished job stays finished, and the worker's verdict is not replaced by a `Reconcile` with an old copy |
| `background_live` | the same with one message; 380,000 states | `JobSettles`: a stop and a death are settled |
| `loops` | three loops, two processes in different workspaces, limits of 2, saves of all three outcomes, restarts, in three uses: one loop under every command, two schedulers over the same files, two processes that find a loop without an owner; 74,000 states | `BreakersHonest`: a running loop is within its limits and a pause names its true reason; `EndStays`; `OwnerRespected`; `NoStarvation`; `TimingSound`: the delay of the next run keeps its bounds whatever the numbers |
| `recovery` | two prompts, four generations, a FIFO of one, at most two recoveries, one attempt of each kind, three upsets (Esc, exit, crash, panic, a save that fails or is not durable), two inputs of the user; 2.4 million states | `ClaimCoversRun`: every content of the file a crash may leave says "claimed" while a recovery runs; `OneClaim`; `StartsOnce`: the checkpoints of a generation start one turn; `NoneStranded`; `IdleMeansDrained`; `WithinBudget` |
| `plan_run` | two steps of which the last is high-risk, one upset, one command, two tries per step, one auto-resume, four rounds, in two uses: with a replan, or with one failing save and every manual action; 954,000 states | `NoBlindRetry`, `DoneOnce`, `EffectsOnFile`, `CompletedIsVerified`, `CanResume`, and under fairness `RunEnds` |
| `shell_tasks` | one command with a descendant, one user and the shutdown, two bytes of memory, four of disk, six written; 91,000 states | `DoneMeansOver`, `NoticeHonest`, `VerdictStays`, and under fairness `CancelTakes` |
| `plan_checkpoint` | one high-risk step | `HumanCheckpoint` is violated: see section 5 |
| `plan_replan` | three steps, one replan | `CompletedStaysDone` is violated: see section 5 |
| `plan_explicit_resume` | one step | `ExplicitResume` is violated: see section 5 |

Why the bounds are enough to be interesting. Two tasks with any dependencies
reach every status, a cascade, a cancellation of each kind and two deliveries in
progress at once; the join of three is the smallest graph in which a dependency
may complete while another is still to fail. Channels of capacity 1 overflow
with two tasks. Two slots and three tasks leave one waiting. Two clients are
what it takes for one probe to meet another; three messages through an inbox of
two meet the limit, a barrier and a message behind it. Breaker limits of 2 give
each streak a value below, at and reset from its limit; two loops make the
rotation matter. Priorities are one value in these runs: which of the ready
tasks goes first is not what any property is about (the order is in `Less`).
Four generations over two prompts let a request fail, be retried, fail again and
be replaced while the other waits; a FIFO of one is full as soon as one prompt
waits; three upsets are a failing save, an Esc and a crash in any order. (Three
inputs with three generations and two upsets, 3.3 million states, were checked
once.) A plan of two steps and a replan of one renumber a kept step (it takes three for the
IDs to meet: `plan_replan`); one failing save is what an effect needs to be missing on
file; four rounds are fewer than two steps with their resumes need, so the limit is met.
Memory of two, disk of four and six bytes reach every combination of cut, full
and failed logs; two tasks share only the list of the manager and the shutdown's
snapshot.

Where a run asks more than one question of a module, `use` (or the action chosen) says
which one a behaviour belongs to, so that the costly parts of the instances do not
multiply: `MCCoordinator!UseSpec` is two tasks under everything or three tasks added
before `Start`, as the tool does it, with nothing evicted; `SmallGraphFairSpec`
restricts the callers in the same way; `MCLoops!UseSpec` and `MCPlanRun!UseSpec` have
the uses named in the table. The theorems hold of all uses at once.

### Fairness

*Coordinator.* A goroutine that can run does run (`WF` of `processLoop`'s steps).
Where one waits for `c.mu`, for room in a channel, or to be picked by a `select`,
strong fairness: Go's mutex hands over to a starving waiter and `select` picks
uniformly. An agent's run ends because the runner gives it a deadline. No
fairness is assumed of callers, of `Stop`, of eviction, or of the ready channel.

*Background.* Worker and commands run; a turn whose context was cancelled by the
signal ends; the grace of ten seconds passes; `stop` waits two seconds for a PID
and gives up; the user keeps listing the jobs (that is what settles a dead worker,
nothing in the code does it by itself). `QuietStop` restricts the environment
while a stop is pending or a dead worker is to be noticed: commands that
probed the lease in lockstep for ever could hide a dead worker from one another,
and a `stop` that dies between `MarkStopping` and the signal is not repeated by
anybody. Both are real; the property is about the rest.

*Loops.* The ticker fires for ever and finds the foreground idle now and then
(`SF` of a tick that launches something); an iteration ends at the latest with
its thirty-minute timeout and its goroutine goes on (`WF`).

*PlanRun.* The orchestrator goes on (`WF`): a model call or a tool ends, if only by
the timeout of its step, and the timer of an auto-resume fires. Nothing is
assumed of the user, of crashes or of the watchdog.

*ShellTasks.* The goroutine of `run()`, the one in `os/exec` that watches the
context, and a `Cancel` in progress go on (`WF`). A command may run for ever,
nobody has to kill anything, and the shutdown need not come.

## 4. What is proved

All theorems hold for every value of the constants that satisfies the module's
ASSUME (at least one task, positive capacities and limits, `Loop` is not a
caller, the caller of the tool's coordinator is the tool, client names differ from
"free" and "worker", an integer holds what the backoff computes and a day in nanoseconds, the limit of memory
is not above that of the disk, no prompt is the text of `/clear`). TLC evaluates the
assumptions in every run. No theorem about the specifications has further hypotheses;
what a property leaves out is in its own statement.

**`CoordinatorProofs`.** `TypeCorrect`, `GraphAlwaysSound`, `BooksAlwaysAgree`,
`VerdictsFinal`, `ResultsFollowAgents`, `CompletionComesLast`,
`CoordinatorRefinesTaskGraph`, `CoordinatorNeverStuck`. None of the
invariants is inductive alone. The inductive invariant `GraphInv` adds: what
`checkCompletedAgents` collected is published and still in `running`; the
dependencies of an added task are added tasks (`DepsKnown`), so that settling one
cannot be missed; a ready task has all its dependencies (`ReadyHasDeps`), which is
what makes popping it safe; a task that has not started has no agent
(`UnstartedHasNoAgent`). The argument turns on `SettleGraph`: whatever commits a
result, for whatever reason, keeps `GraphInv`, because the failed tasks are the
*least closed* set (`CascadeComplete`: that set is itself closed, so no blocked
task with a failed dependency is left) and completed dependencies stay completed
(`DependenciesMetMonotone`). Every action is then either a `Settle`, an `AddTask`,
a `StartTask`, or leaves the graph alone (`QuietGraph`). `VerdictsFinal` is an
action property from the same invariant.

`ResultsFollowAgents` needs that a result on its way, in the channel, in a monitor or
in the collection of `checkCompletedAgents`, is the agent's own or the failure that
stands for an evicted one (`OutcomeInv`). `CompletionComesLast` needs the bookkeeping of
the callbacks: a terminal task is in exactly one batch under delivery or has been
told once, and `pendingCallbacks` counts exactly those in a batch (`DeliveryInv`); with
that, zero callbacks and an ended graph mean that all have been told
(`NothingPending`), and an ended graph that is sealed never begins again
(`EndedGraphStays`). The refinement goes step by step: `AddTask` is `GAdd`, `Start` is
`GSeal`, `StartTask` is `GLaunch`, every `Settle` is `GSucceed` or `GFail` with exactly the
dependents (`CascadeDepends`, `SuccessAlone`), a callback is `GTell`, the two
completion events are `GRelease` and `GFinish`; everything else is a stutter.

`CoordinatorNeverStuck` is the safety half of `RunCompletes`. `NeverStuck`: until the
coordinator is stopped, the result of every running task is on its way; with nothing
running and nothing queued the whole graph is terminal; `processLoop` does not leave
before `onAllComplete` has run; once `completionCh` is closed and `onAllComplete` has not
run, somebody stands before it. Three facts are needed beside `GraphInv`. A task depends on
earlier ones only (`EarlierDeps`), so the *least* blocked task waits for something
that is not blocked (`WorkRemains`): there is no circle. A running task has a monitor
that lives or its result in the channel, although signals are dropped and results
evicted (`MonitorInv`). And a goroutine about to look at the completion events does so
because the run is over, and it stays over (`NotifyInv`).

**`CoordinateToolProofs`.** `ToolDrivesCoordinator`: the steps of `Execute` are steps a
caller may take, so `ToolSpec` implies the coordinator's `Spec` and its theorems hold
under the tool. From them and `ToolInv` (a wait that reported completion found
`completionCh` closed by the whole graph) follow `CompleteLeavesNothing`, and with the
agents of running tasks counted against the slots (`BooksAgree`, and a slot held for the
agent that is being spawned) `StragglersAlwaysBounded`. A spawn may be completed after
`Stop`, so nothing is claimed of the moment it comes.

**`BackgroundJobProofs`.** `JobTypeCorrect`, `InputIsFaithful`,
`NothingLeftBehind`, `WorkerNeverConfused`, `SweepIsSafe`, `FinishedForGood`,
`BusyMeansAlive`, `StopReachesWorker`. The inductive invariant `JobInv` needs: who
holds the worker lease follows from where everybody stands (`LeaseExclusive`); a
sweeping client past its probe knows that no worker has the job, and none can
begin on a terminal record (`SweepKnows`); what is claimed on disk is exactly what
the worker has in its hands, and that is at most one message (`OneInHand`); a
worker about to exit well has an empty, closed inbox (`ExitIsClean`); how often a
message was handed over follows from where it is (`HandedOnce`). `NextSplits`,
`SessionFrame` and `ClientFrame` separate what a client can change from what the
worker can; `PollEffect` and `DrainEffect` say what claiming does; `OldestIsNext`
that the oldest unresolved message has only delivered ones before it. Then one
lemma per conjunct. `FinishedForGood` needs that a worker which has reported writes no
more (`ReportedIsOver`). The last two theorems are the safety halves of `JobSettles`.
`LeaseHasOwner`: a lock never outlives its holder, so only a probe in progress can hide
a dead worker. `StopLostOnlyByDeath`: a stop on the record has its signal sent or about
to be sent, and the one step that changes this is the death of the stop command between
`MarkStopping` and the signal, the case `QuietStop` leaves out of the run.

**`LoopsProofs`.** `BreakersAlwaysHonest`, for any number of processes, loops, limits and
saves that fail in any way: every copy of a loop, on disk, in a Manager or
about to be recorded by an iteration, is within its limits or stopped for the reason
it gives (`LoopsInv`; `AppendKeepsFine` is the accounting of an iteration,
`CommandsKeepFine` the rest). `EndedLoopsStay` and `OwnersAlwaysRespected` hold for any
number of processes and any outcome of their saves: whatever a process does to a loop
starts from its own copy, a change that is not taken back is on file in the same step,
and a scan adopts only what its copy shows without an owner (`OwnerInv`: a loop that
began with an owner has the same in every copy).
`DelayBounds` and `IntervalBounds`: whatever the hint and the streak, and for every floor
or interval that a `time.Duration` can hold, the next run is never below it nor beyond
a day (or the floor), the interval or the cap.
`HintsMonotone`: a longer hint never gives an earlier run. Their lemmas say what
wrapping leaves alone (`WrappedFits`), that the backoff is between one minute and
half an hour (`BackoffBounded`), and that the guard in the parser makes it
monotone although the product is not (`ParseMonotone`). `BackoffAlwaysDoubles`: from one
transient failure to the next the delay doubles until it meets its cap, for any
streak. It would be an induction over the bits; `ShiftedLeftUnfolds` and
`ShiftedLeftValues` get it from the least number of bits for which it fails
(`LeastNumber` of `SelectionProofs`). With `LoopsInv`, which gives the streak of a loop its
range, this makes `TimingAlwaysSound`.

`RoundRobin` is the measure behind `NoStarvation`, for any number of loops:
`TurnComesNearer` says that while the same loops run, every launch of another loop brings
the scan strictly nearer to one that waits, so that fewer launches than there are
running loops pass it over. The positions of the running loops tell them
apart (`IndexOrders`); a scan that stopped at one no further away and starts again
behind it is nearer (`AheadShrinks`, the arithmetic modulo the number of running loops,
in which `scanRotation` may be one beyond the last); what `tick` launches is the nearest
(`LaunchIsNearest`), and nothing else moves the scan (`ScanFrame`).

**`RecoveryProofs`.** `RecoveryTypeCorrect`, `AtMostOneClaim`, `RunIsCoveredByAClaim`,
`CheckpointsStartOnce`, `NoRecoveryStranded`, `NobodyWaitsForAFreeForeground`,
`RetriesStayWithinBudget`, for any number of prompts, generations, attempts, crashes and
failing saves. The heart is
`HeldInv`: the retry of a claimed generation is in at most one place (the turn, the FIFO,
between claim and dispatch, asleep in this process only), and while it is anywhere
*every* content a restart may load says "claimed". It follows that a run is covered and,
with `SpentStays` (a generation that started is gone from every content, or claimed
with nobody who could give the claim back), that checkpoints start once.
`ClaimedOnce` says that no two generations are claimed across the contents; `GateInv` relates the gate of an Esc to the
pause. Between `HandOver` and `Promote` the turn holds a request whose recovery may still
be claimed by a timer; that window is part of the invariant (`InTurn`, `StaysInTurn`).

`RetriesStayWithinBudget` needs an account of the retries (`BudgetInv`). The counters of
the process are lost in a crash and an auto-resume clears one of them, so the bound
cannot be read from them; it is in what the generations have recorded. `WaitsPaid`: a
generation that waits alone, in any content a restart may load, has recorded the
retries its request has had and the one it stands for. `MovesPaid`: while somebody may
claim a generation, holds its retry or may give its claim back, every generation of the
request has recorded the retries so far and those the unstarted ones still stand
for (`Owed`). `RunsCounted`: the failure of a retry that is under way is counted on top of
what its generation has recorded, because claiming it has seeded the counters, or there
is one to spare. `NewIsFree`: a new request begins with nothing to its account, also
when it was typed again while the old one was failing. `OldestMoves` is why two
generations of a request do no harm: the batch is malformed, so only the older, which
was armed before there was a second, can still be claimed. `RequestsHonest` says which
retries carry checkpoints of their own: those of a request with a generation that
could not be written, the exception in `WithinBudget`. A request that is live after a
step was live before, was typed, claimed, or could not be saved (`LiveStep`). A step
either leaves the generations as they are (`SteadyStep`) or is a `Start`, a restart, a
removal, a `/clear` or a new generation, and each of these has a lemma of its own.

`EntriesSelect` in `SelectionProofs` says that the entries of a
list at some positions are those entries in their order. It would be an induction over
the list; it is proved from a least counterexample instead.

**`PlanRunProofs`.** `PlanRunTypeCorrect`, `LeftoversCanBeResumed`, `EffectsAlwaysOnFile`,
`CompletedMeansVerified`, `EffectsAreNotRepeated`, `CompletedStepsRunOnce`, for any number
of steps, retries, replans, rounds and upsets. Every step of the specification
is one of eight kinds (`Does`): it leaves the steps of the plan, marks the current or
a ready one, marks one by hand, records an effect, resumes, replans, or puts
another plan in place; then each invariant is shown for the eight kinds, not
for forty actions. What becomes of the file is a matter of its own: a step stores the
plan or leaves the file behind it (`Stored`), a restart or a command loads it (`Loaded`,
`SwapsPlan`). `PlanInv` says where the orchestrator may stand and on which step,
`LifecycleInv` which lifecycle goes with which leftovers (a plan with steps left is
approved, executing, paused or failed; one that is pending or in progress is not all
completed), `ClearIDs` that IDs tell the steps apart while there was no `clash`,
`EffectsInv` that what had effects shows it in memory, and on file unless it is `stale`,
`VerifiedInv` and `DoneInv` that a completed step was verified and stays completed. What a
stale file has lost is taken out of the histories when it is loaded, which is why
they stay invariant.

`RunsAdvance` is the measure behind `RunEnds`: each step of the orchestrator ends the
run, begins one of the limited number of rounds, or leaves fewer steps in the round
(`StepsLeft`, in which an attempt that remains counts twice, for itself and its wait), and
neither Esc nor the watchdog, a tool or a restart takes a run back. It needs of `PlanInv`, beside types, only
that a wait for a retry still has a retry.

**`ShellTasksProofs`.** `DoneIsOver`, `NoticesAreHonest`, `VerdictsStay`,
`CancelIsNeverLost`, for any number of tasks and users and any limits. The
inductive invariant `ShellInv` ties everything to the position of `run()`: who is
alive in the group (`GroupFollowsRun`), which verdicts are possible
(`VerdictFollowsRun`), what has been published (`DoneFollowsRun`), whether the
process counts as started (`StartedFollowsRun`); `Sane` relates the counters and
flags of a transcript, and is kept by a write in whatever way it fails
(`WrittenIsSane`). `CancelReachesGroup` is the heart of it: the group of a
cancelled task is dead, or `run()` will look at the status before it waits, or a
`Cancel` that saw the process started is about to kill it. It is needed because
neither side alone is enough: the canceller may come before there is a process,
and `run()` may be past its look. `CancelIsNeverLost` is the safety half of
`CancelTakes`.

**Only model-checked.** Liveness (`RunCompletes`, `JobSettles`, `NoStarvation`,
`RunEnds`, `CancelTakes`): there is no fairness reasoning in the proofs. Each has a
theorem for its safety half, what is always left to happen or the measure that
always falls: `CoordinatorNeverStuck`, `BusyMeansAlive` and `StopReachesWorker`,
`RoundRobin`, `RunsAdvance`, `CancelIsNeverLost`. The properties these state (`NeverStuck`,
`LeaseHasOwner`, `StopLostOnlyByDeath`, `TurnComesNearer`, `RunAdvances`) hold in the
instances of the runs of their modules as well. Every invariant and action
property of the passing runs is a theorem.

## 5. Findings

`plan_checkpoint`: a high-risk step pauses with "checkpoint required: high-risk step
needs operator confirmation". The auto-resume of the orchestrator, sixty seconds
later, calls the same `ResumePausedSteps` as the command, which marks the
checkpoint as passed. The step runs although nobody confirmed it.

`plan_explicit_resume`: a transient error after tools have had effects is not retried:
"Stop at the attempt boundary and require an explicit resume instead."
(`message_processor.go:2594`). The step is paused, and the same auto-resume clears its
partial effects and attempts it again. `NoBlindRetry` is what the code does keep: no
attempt before a resume, the operator's or its own.

`plan_replan`: `RequestReplan` is to "assign new IDs starting after the last kept step"
(`executor.go:171`), but numbers them by how many are kept; a kept step with a higher
ID shares it with a new one. The end of the new step is booked on the kept one, and the
new one, though completed, is executed again. The same clash lets an effect be repeated
or a step be completed that was not verified.

### Disagreements that are reproduced by changing a configuration

Each of these is a property of the modules with an instance in which TLC finds it
violated; the runs of section 3 check what the code does keep in its place.

- `TeardownCancelsAgents` in `CoordinateTool` (two tasks, two slots). "Teardown ALSO
  cancels any still-running spawned agents" (`coordinate.go:466`), but
  `CancelRunningAndWait` captures the running agents once and `Stop` comes only after
  they have ended. Each of them frees a slot, and `processLoop` fills it with a
  queued task whose agent nobody cancels. `Stop` itself does not help an agent whose
  spawn is past its look at the context. `StragglersBounded` is what remains.
- `StopIsReported` in `BackgroundJob` (two clients, one message, one control).
  `Reconcile` picks the verdict from the copy it was given. A listing that read
  "running" before `stop` marked the job "stopping" records "interrupted" for a job
  that was stopped.
  A verdict that is there already is safe (`TerminalStays`).
- `AdoptNeverSteals` in `Loops` (as in `Loops.cfg`). `AdoptWorkspace` "can never steal
  another project's loop" (`manager.go:238-240`), but looks for an owner in the copy
  loaded at startup. Two processes adopt the same loop; the second save replaces the
  owner the first recorded, and both go on firing it. `OwnerRespected` says that
  nothing else replaces an owner.
- `StartsOnce` in `Recovery` without its exception `unsaved` (same instance). A recovery
  runs, fails again, and its new generation definitely cannot be saved: a retry of
  this process only enters the FIFO under the ID of the old generation. Esc takes
  every entry of the FIFO for "proven-unstarted" (`pending_recovery.go:490-495`) and
  schedules the old generation again, though its turn has run; repeating the
  prompt starts it with checkpoints that do not know the effects of that turn.
- `WithinBudget` in `Recovery` without the same exception. A retry after a timeout
  clears the count of the rate limits; the generation on file keeps the larger
  of both, the retry of this process only does not, so it gets further retries.

### Seen while modelling, not stated as properties

Coordinator, background, loops: the Manager takes every error of a save for a write
that did not happen, so when the rename succeeded and the sync of the directory failed
(`atomic.go:113-117`), memory is rolled back and the file is not; a floor or an interval
above 9,223,372,036 seconds on file, which `Validate` lets pass, overflows when it
becomes a duration (`types.go:456`, 474) and makes the loop due at once or never; the `agentDoneCh` case of `processLoop` frees a slot
without filling it, so a ready task may wait for the five-second ticker; a probe
by another command makes `stop` take a dead worker for a live one; a worker slower
than the starting grace can be recorded as interrupted while it works, and its own
verdict replaces that later; a loop stopped from one process is written back as
running by the process that owns it; while saves fail, the tokens of an iteration
are rolled back with it and the budget does not see them; an iteration cancelled
with Esc leaves its loop due, so it fires again at the next tick.

Recovery: a prompt that is typed again while its turn is failing is looked up
before the recovery is there and runs as a fresh request beside it
(`tryResumeScheduledRecovery`); the comment at `pending_recovery.go:578` says Esc
pauses automation for the rest of the process, but a failure after it arms timers
again; when the commit of a new generation is uncertain, none of the scheduled
recoveries is armed, the older ones included, and the user is sent to `/recovery`;
a panic while the end of a turn is published frees the slot without looking at the FIFO
(`message_processor.go:148-156`), and whoever waits there waits for the end of the next
turn (`stranded`); a prompt typed after an Esc that falls between the capture of the
lineage and the dequeue starts under the old lineage and is discarded as stale.

Plans: `executionMode` stays on when the plan was not adopted
(`message_processor.go:2067`, against the comment at 2194); two duplicate effects
block a step for ever, `/resume-plan` clears only `PartialEffects` (2443); a tool runs
although its effect could not be saved (`agent_events.go:134`, 712); a completed step that
is failed by hand and resumed keeps a ledger entry that says completed, so its new
effects do not count (`plan.go:802-820`); a plan whose steps were completed and skipped by
hand ends as failed (`message_processor.go:3934` counts the completed ones only); a crash in the middle of a step leaves it in progress, and no resume takes it up;
a plan in progress whose remaining steps have failed can be resumed in memory
and not from its file; a crash between the boundary's save and the first step is
not resumable; the cancellation of `exit_plan_mode` is not saved; the handoff of
`/resume-plan` is consumed only at the end of the next successful turn (1477); a
delegated agent that failed with output has its step completed without
verification (3379); two calls of `enter_plan_mode` can both pass the check for an
active plan.

Shell tasks: a task whose start was refused is never done, and a `WaitAll` that has
it in its snapshot waits for its deadline; a command an agent starts between the
cancellation of the tasks (`signals.go:246`) and that of the agents (252) outlives
the process; `kill_shell` says "Killed" of a task that ended meanwhile; a kill after
the leader was reaped may meet a recycled group.

## 6. Plan

1. `BackgroundJob`: writes that fail after the rename, and `respawn`.
2. `prepareCoordinateTasks` (topological order, cycles) and
   `coordinateScheduleUnits` against reference definitions over bounded inputs.
3. Further components, in this order: circuit breaker, rate limiter and provider
   fallback; undo and rewind; goals; update rollback; the queue of permission
   prompts. Abstract specifications worth stating: a plan as a sequence of steps
   executed at most once; a recovery record as a one-place durable queue.
