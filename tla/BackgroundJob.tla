---------------------------- MODULE BackgroundJob ----------------------------
(***************************************************************************)
(* One detached background session: the durable record, inbox and leases   *)
(* of internal/background (store.go, lease.go), the worker process and the *)
(* management commands of cmd/gokin/background.go.                         *)
(*                                                                         *)
(* Several processes share only files.  A critical section of the metadata *)
(* lease (Update, EnqueueControl, ClaimNextControl, BeginFinishing,        *)
(* CompleteControl) is one step; what a process does between two of them   *)
(* interleaves with the others.  The worker lease is a file lock the       *)
(* worker holds while it lives, and WorkerLeaseHeld probes it by taking    *)
(* it, so a probe in progress looks like a worker to another probe.        *)
(*                                                                         *)
(* Messages are numbered in the order in which EnqueueControl creates      *)
(* them, which is the order of CreatedAt.                                  *)
(***************************************************************************)
EXTENDS Integers, FiniteSets

CONSTANTS Clients,       \* processes running gokin agents, send, stop, ...
          MaxMessages,   \* how many messages may be sent
          MaxControls    \* the inbox limit (20 in the code)

ASSUME BackgroundAssumption ==
  /\ MaxMessages \in Nat /\ MaxControls \in Nat \ {0}
  /\ Clients \intersect {"free", "worker"} = {}

Message == 1 .. MaxMessages
NoMessage == 0

VARIABLES
  \* the durable record: State ("absent" before Create, "removed" after Sweep),
  \* whether PID is set, and whether startingGrace has passed since StartedAt
  jobState, pidKnown, graceOver,
  \* the inbox
  control,
  \* the worker lease: "free", "worker", or the client that probes it
  lease,
  \* the worker: position, claimedForTurn, steered, deferred, and why it ends
  workerPc, claimedForTurn, steered, deferred, exitReason,
  \* SIGTERM has reached the worker
  signalled,
  \* how often each message has been given to the model
  handed,
  \* per client: the command, its position and its copy of the record
  op, clientPc, seenState, seenPid

jobVars == <<jobState, pidKnown>>
turnVars == <<claimedForTurn, steered, deferred, exitReason>>
workerVars == <<workerPc, turnVars, signalled, handed>>
clientVars == <<op, clientPc, seenState, seenPid>>
vars == <<jobVars, graceOver, control, lease, workerVars, clientVars>>

Terminal == {"succeeded", "failed", "stopped", "interrupted"}
Live == {"starting", "running", "finishing", "stopping"}
Exists == jobState \in Live \union Terminal

Unresolved == {m \in Message : control[m] \in {"pending", "claimed"}}
Claimed == {m \in Message : control[m] = "claimed"}
Pending == {m \in Message : control[m] = "pending"}

Init ==
  /\ jobState = "absent"
  /\ pidKnown = FALSE
  /\ graceOver = FALSE
  /\ control = [m \in Message |-> "none"]
  /\ lease = "free"
  /\ workerPc = "unborn"
  /\ claimedForTurn = NoMessage
  /\ steered = NoMessage
  /\ deferred = NoMessage
  /\ exitReason = "none"
  /\ signalled = FALSE
  /\ handed = [m \in Message |-> 0]
  /\ op = [c \in Clients |-> "none"]
  /\ clientPc = [c \in Clients |-> "idle"]
  /\ seenState = [c \in Clients |-> "none"]
  /\ seenPid = [c \in Clients |-> FALSE]

-----------------------------------------------------------------------------
(* Mutations of the record                                                 *)

\* FinishWithTiming: the verdict of the worker, or stopped when a stop was
\* requested; it does not look whether the record is terminal already.  A
\* removed record cannot be updated.
Finished(verdict) ==
  IF ~Exists THEN jobState
  ELSE IF jobState = "stopping" THEN "stopped" ELSE verdict

\* MarkRunning refuses a record that is terminal (or gone).
Runnable == jobState \in Live

\* The verdict of Reconcile for a record in state st whose worker is dead.
DeadVerdict(st) == IF st = "stopping" THEN "stopped" ELSE "interrupted"

-----------------------------------------------------------------------------
(* The launcher: startDetachedBackgroundJob                                *)

Create ==
  /\ jobState = "absent"
  /\ jobState' = "starting"
  /\ UNCHANGED <<pidKnown, graceOver, control, lease, workerVars, clientVars>>

StartWorker ==
  /\ jobState # "absent" /\ workerPc = "unborn"
  /\ workerPc' = "launched"
  /\ UNCHANGED <<jobVars, graceOver, control, lease, turnVars, signalled, handed, clientVars>>

\* A log file or the child process cannot be created.
StartFails ==
  /\ jobState # "absent" /\ workerPc = "unborn"
  /\ workerPc' = "gone"
  /\ jobState' = Finished("failed")
  /\ UNCHANGED <<pidKnown, graceOver, control, lease, turnVars, signalled, handed, clientVars>>

\* Ten seconds after StartedAt.
GracePasses ==
  /\ jobState # "absent" /\ ~graceOver
  /\ graceOver' = TRUE
  /\ UNCHANGED <<jobVars, control, lease, workerVars, clientVars>>

-----------------------------------------------------------------------------
(* The worker: beginBackgroundWorker, runBackgroundHeadlessLoop, finish    *)

WorkerAt(pc) == workerPc = pc
\* The worker moves to pc and leaves the record, the lease and the grace alone.
WorkerGoes(pc) ==
  /\ workerPc' = pc
  /\ UNCHANGED <<jobVars, graceOver, lease, signalled, clientVars>>

AcquireLease ==
  /\ WorkerAt("launched") /\ lease = "free"
  /\ lease' = "worker"
  /\ workerPc' = "leased"
  /\ UNCHANGED <<jobVars, graceOver, control, turnVars, signalled, handed, clientVars>>

\* AcquireWorkerLeaseWithin gives up: probes kept the lease busy too long.
LeaseStaysBusy ==
  /\ WorkerAt("launched") /\ lease # "free"
  /\ WorkerGoes("gone")
  /\ UNCHANGED <<control, turnVars, handed>>

MarkRunning ==
  /\ WorkerAt("leased")
  /\ \/ /\ Runnable
        /\ jobState' = "running" /\ pidKnown' = TRUE
        /\ workerPc' = "setup"
        /\ UNCHANGED lease
     \/ /\ ~Runnable
        /\ lease' = "free"
        /\ workerPc' = "gone"
        /\ UNCHANGED jobVars
  /\ UNCHANGED <<graceOver, control, turnVars, signalled, handed, clientVars>>

\* The application is built and the first turn begins, or it cannot be.
Setup ==
  /\ WorkerAt("setup")
  /\ \/ WorkerGoes("turnStart") /\ UNCHANGED exitReason
     \/ WorkerGoes("exit") /\ exitReason' = "error"
  /\ UNCHANGED <<control, claimedForTurn, steered, deferred, handed>>

\* markTurn(true), then RunHeadlessWithOptions with the prompt.
TurnStart ==
  /\ WorkerAt("turnStart")
  /\ WorkerGoes("turn")
  /\ handed' = [m \in Message |-> IF m = claimedForTurn THEN handed[m] + 1 ELSE handed[m]]
  /\ UNCHANGED <<control, turnVars>>

\* (variant: records are taken in any order)
OldestAny(m) == m \in Pending

\* The first record ClaimNextControl does not skip.
Oldest(m) == m \in Unresolved /\ \A k \in Unresolved : m <= k

\* ClaimNextControl: a pending message is claimed and the worker goes on at pc.
\* A claimed one is a barrier: ErrAmbiguousControl ends the worker.
ClaimNextControl(m, pc) ==
  /\ Oldest(m)
  /\ control' = [control EXCEPT ![m] = "claimed"]
  /\ exitReason' = IF control[m] = "claimed" THEN "ambiguous" ELSE "none"
  /\ WorkerGoes(IF control[m] = "claimed" THEN "exit" ELSE pc)

\* (variant: the message that became the prompt of this turn is forgotten)
MayPollOwnClaim == steered = NoMessage /\ deferred = NoMessage

\* The ticker polls the inbox only while no claimed message is in its hands.
MayPoll == steered = NoMessage /\ deferred = NoMessage /\ claimedForTurn = NoMessage

\* A message is steered into the running turn, or kept for the next one.
Poll ==
  /\ WorkerAt("turn") /\ MayPoll
  /\ \E m \in Message :
       /\ ClaimNextControl(m, "turn")
       /\ \/ /\ control[m] = "pending"
             /\ steered' = m
             /\ handed' = [handed EXCEPT ![m] = @ + 1]
             /\ UNCHANGED deferred
          \/ /\ deferred' = IF control[m] = "pending" THEN m ELSE NoMessage
             /\ UNCHANGED <<steered, handed>>
  /\ UNCHANGED claimedForTurn

\* The turn returns, by itself or because of SIGTERM.
TurnEnds ==
  /\ WorkerAt("turn")
  /\ exitReason' \in {"none", "error"}
  /\ WorkerGoes("turnEnd")
  /\ UNCHANGED <<control, claimedForTurn, steered, deferred, handed>>

\* markTurn(false) and CompleteControl of the message this turn consumed (it
\* is the prompt or a steered one, never both).  After an error the worker
\* ends; a deferred message becomes the next prompt.
Commit ==
  /\ WorkerAt("turnEnd")
  /\ control' = [m \in Message |-> IF m \in {claimedForTurn, steered} THEN "delivered"
                                   ELSE control[m]]
  /\ steered' = NoMessage
  /\ \/ /\ exitReason # "none"
        /\ WorkerGoes("exit")
        /\ claimedForTurn' = NoMessage
        /\ UNCHANGED deferred
     \/ /\ exitReason = "none" /\ deferred # NoMessage
        /\ WorkerGoes("turnStart")
        /\ claimedForTurn' = deferred
        /\ deferred' = NoMessage
     \/ /\ exitReason = "none" /\ deferred = NoMessage
        /\ WorkerGoes("drain")
        /\ claimedForTurn' = NoMessage
        /\ UNCHANGED deferred
  /\ UNCHANGED <<exitReason, handed>>

\* One more inbox read decides whether there is a next turn; after the finish
\* race it must not come back empty.
Drain ==
  /\ workerPc \in {"drain", "reclaim"}
  /\ \/ \E m \in Message :
          /\ ClaimNextControl(m, "turnStart")
          /\ claimedForTurn' = IF control[m] = "pending" THEN m ELSE NoMessage
     \/ /\ Unresolved = {}
        /\ WorkerGoes(IF WorkerAt("drain") THEN "closing" ELSE "exit")
        /\ exitReason' = IF WorkerAt("drain") THEN "none" ELSE "inboxChanged"
        /\ UNCHANGED <<claimedForTurn, control>>
  /\ UNCHANGED <<steered, deferred, handed>>

\* (variant: the inbox is not looked at)
InboxOpenIgnored == FALSE

InboxOpen == Unresolved # {}

\* Input admission closes only on an empty inbox, in one critical section.
BeginFinishing ==
  /\ WorkerAt("closing")
  /\ \/ /\ jobState # "running"
        /\ workerPc' = "exit" /\ exitReason' = "error"
        /\ UNCHANGED jobState
     \/ /\ jobState = "running" /\ InboxOpen
        /\ workerPc' = "reclaim"
        /\ UNCHANGED <<jobState, exitReason>>
     \/ /\ jobState = "running" /\ ~InboxOpen
        /\ jobState' = "finishing"
        /\ workerPc' = "exit"
        /\ UNCHANGED exitReason
  /\ UNCHANGED <<pidKnown, graceOver, control, lease, claimedForTurn, steered, deferred, signalled,
                 handed, clientVars>>

\* Publishing the turn, claiming, completing or closing the inbox fails (the
\* metadata lease, a read or a write): the worker ends, a message in its hands
\* stays claimed.
StoreFails ==
  /\ workerPc \in {"turnStart", "turn", "turnEnd", "drain", "closing", "reclaim"}
  /\ WorkerGoes("exit")
  /\ exitReason' = "error"
  /\ UNCHANGED <<control, claimedForTurn, steered, deferred, handed>>

Finish ==
  /\ WorkerAt("exit")
  /\ jobState' = Finished(IF exitReason = "none" THEN "succeeded" ELSE "failed")
  /\ workerPc' = "unlock"
  /\ UNCHANGED <<pidKnown, graceOver, control, lease, turnVars, signalled, handed, clientVars>>

Unlock ==
  /\ WorkerAt("unlock")
  /\ lease' = "free"
  /\ workerPc' = "gone"
  /\ UNCHANGED <<jobVars, graceOver, control, turnVars, signalled, handed, clientVars>>

\* The process (or the launcher before it) is killed: the lock goes with it.
Crash ==
  /\ jobState # "absent" /\ workerPc # "gone"
  /\ workerPc' = "gone"
  /\ lease' = IF lease = "worker" THEN "free" ELSE lease
  /\ UNCHANGED <<jobVars, graceOver, control, turnVars, signalled, handed, clientVars>>

-----------------------------------------------------------------------------
(* The management commands                                                 *)

ClientAt(c, pc) == clientPc[c] = pc
ClientGoes(c, pc) == clientPc' = [clientPc EXCEPT ![c] = pc]
KeepCopy == UNCHANGED <<op, seenState, seenPid>>

\* The command returns.
ClientReturns(c) ==
  /\ ClientGoes(c, "idle")
  /\ op' = [op EXCEPT ![c] = "none"]
  /\ seenState' = [seenState EXCEPT ![c] = "none"]
  /\ seenPid' = [seenPid EXCEPT ![c] = FALSE]

\* Load: the client's copy of the record, from now on possibly stale.
Reads(c) ==
  /\ seenState' = [seenState EXCEPT ![c] = jobState]
  /\ seenPid' = [seenPid EXCEPT ![c] = pidKnown]

\* agents, send and stop start with Reconcile; Sweep looks at terminal jobs.
Begin(c, cmd) ==
  /\ ClientAt(c, "idle") /\ Exists
  /\ cmd = "sweep" => jobState \in Terminal
  /\ op' = [op EXCEPT ![c] = cmd]
  /\ Reads(c)
  /\ ClientGoes(c, IF cmd = "sweep" THEN "probe" ELSE "reconcile")
  /\ UNCHANGED <<jobVars, graceOver, control, lease, workerVars>>

\* WorkerLeaseHeld: a busy lease counts as a live worker,
ProbeBusy(c, pc, next) ==
  /\ ClientAt(c, pc) /\ lease # "free"
  /\ ClientGoes(c, next)
  /\ KeepCopy
  /\ UNCHANGED <<jobVars, graceOver, control, lease, workerVars>>

\* a free one is taken and released again.
ProbeTakes(c, pc, next) ==
  /\ ClientAt(c, pc) /\ lease = "free"
  /\ lease' = c
  /\ ClientGoes(c, next)
  /\ KeepCopy
  /\ UNCHANGED <<jobVars, graceOver, control, workerVars>>

\* Reconcile: nothing to do for a terminal copy or a busy lease; without a
\* worker, wait out the starting grace or settle the record.
ReconcileTerminal(c) ==
  /\ ClientAt(c, "reconcile") /\ seenState[c] \in Terminal
  /\ ClientGoes(c, "reconciled")
  /\ KeepCopy
  /\ UNCHANGED <<jobVars, graceOver, control, lease, workerVars>>

ReconcileProbe(c) ==
  /\ seenState[c] \notin Terminal
  /\ ProbeBusy(c, "reconcile", "reconciled") \/ ProbeTakes(c, "reconcile", "probing")

ReconcileRelease(c) ==
  /\ ClientAt(c, "probing")
  /\ lease' = "free"
  /\ ClientGoes(c, IF seenState[c] = "starting" /\ ~graceOver THEN "reconciled" ELSE "settle")
  /\ KeepCopy
  /\ UNCHANGED <<jobVars, graceOver, control, workerVars>>

\* (variant: the update does not look at the record again)
ReconcileSettleBlind(c) ==
  /\ ClientAt(c, "settle") /\ Exists
  /\ jobState' = DeadVerdict(seenState[c])
  /\ seenState' = [seenState EXCEPT ![c] = jobState']
  /\ seenPid' = [seenPid EXCEPT ![c] = pidKnown]
  /\ ClientGoes(c, "reconciled")
  /\ UNCHANGED <<pidKnown, graceOver, control, lease, workerVars, op>>

\* The verdict was chosen from the copy; a record that is terminal now stays.
ReconcileSettle(c) ==
  /\ ClientAt(c, "settle") /\ Exists
  /\ jobState' = IF jobState \in Terminal THEN jobState ELSE DeadVerdict(seenState[c])
  /\ seenState' = [seenState EXCEPT ![c] = jobState']
  /\ seenPid' = [seenPid EXCEPT ![c] = pidKnown]
  /\ ClientGoes(c, "reconciled")
  /\ UNCHANGED <<pidKnown, graceOver, control, lease, workerVars, op>>

\* Every command that finds the record gone, or has nothing left to do: agents
\* after Reconcile, send unless the copy accepts input, stop on a terminal copy.
GiveUp(c) ==
  /\ \/ ClientAt(c, "settle") /\ ~Exists
     \/ /\ ClientAt(c, "reconciled")
        /\ \/ op[c] = "agents"
           \/ op[c] = "send" /\ seenState[c] \notin {"starting", "running"}
           \/ op[c] = "stop" /\ seenState[c] \in Terminal
  /\ ClientReturns(c)
  /\ UNCHANGED <<jobVars, graceOver, control, lease, workerVars>>

Continue(c) ==
  /\ ClientAt(c, "reconciled")
  /\ \/ op[c] = "send" /\ seenState[c] \in {"starting", "running"}
     \/ op[c] = "stop" /\ seenState[c] \notin Terminal
  /\ ClientGoes(c, "probe")
  /\ KeepCopy
  /\ UNCHANGED <<jobVars, graceOver, control, lease, workerVars>>

\* (variant: the lease is not asked)
ProbeSkipped(c) ==
  /\ ClientAt(c, "probe")
  /\ ClientGoes(c, IF op[c] = "sweep" THEN "remove" ELSE "act")
  /\ KeepCopy
  /\ UNCHANGED <<jobVars, graceOver, control, lease, workerVars>>

\* The second probe: send wants a worker, stop a worker with a PID, Sweep none.
Probe(c) ==
  \/ ProbeBusy(c, "probe", IF op[c] = "sweep" THEN "refused"
                           ELSE IF op[c] = "stop" /\ ~seenPid[c] THEN "waitPid" ELSE "act")
  \/ ProbeTakes(c, "probe", "probing2")

ProbeRelease(c) ==
  /\ ClientAt(c, "probing2")
  /\ lease' = "free"
  /\ ClientGoes(c, CASE op[c] = "sweep" -> "remove"
                     [] op[c] = "stop" -> "waitPid"
                     [] OTHER -> "refused")
  /\ KeepCopy
  /\ UNCHANGED <<jobVars, graceOver, control, workerVars>>

\* stop waits for a starting worker to publish its PID, for two seconds.
StopRetry(c) ==
  /\ ClientAt(c, "waitPid") /\ seenState[c] = "starting" /\ Exists
  /\ Reads(c)
  /\ ClientGoes(c, "reconcile")
  /\ UNCHANGED <<jobVars, graceOver, control, lease, workerVars, op>>

Refused(c) ==
  /\ clientPc[c] \in {"refused", "waitPid"}
  /\ ClientReturns(c)
  /\ UNCHANGED <<jobVars, graceOver, control, lease, workerVars>>

\* (variant: the inbox limit is not enforced)
AdmitsUnbounded == jobState \in {"starting", "running"}

\* EnqueueControl: admission is decided by the record as it is now; a refusal, or
\* a record that cannot be written, leaves the inbox alone.
Admits == jobState \in {"starting", "running"} /\ Cardinality(Unresolved) < MaxControls

SendAct(c) ==
  /\ ClientAt(c, "act") /\ op[c] = "send"
  /\ \/ /\ Admits
        /\ \E m \in Message : /\ control[m] = "none"
                              /\ \A k \in 1 .. m - 1 : control[k] # "none"
                              /\ control' = [control EXCEPT ![m] = "pending"]
     \/ UNCHANGED control
  /\ ClientReturns(c)
  /\ UNCHANGED <<jobVars, graceOver, lease, workerVars>>

\* MarkStopping refuses a terminal record.
StopAct(c) ==
  /\ ClientAt(c, "act") /\ op[c] = "stop"
  /\ \/ /\ jobState \in Live
        /\ jobState' = "stopping"
        /\ ClientGoes(c, "kill")
        /\ KeepCopy
     \/ /\ jobState \notin Live
        /\ ClientReturns(c)
        /\ UNCHANGED jobState
  /\ UNCHANGED <<pidKnown, graceOver, control, lease, workerVars>>

\* (variant: the signal is not sent)
KillNothing(c) ==
  /\ ClientAt(c, "kill")
  /\ ClientReturns(c)
  /\ UNCHANGED <<jobVars, graceOver, control, lease, workerVars>>

\* stopDetachedProcess: SIGTERM to the process group of the PID in the copy.
Kill(c) ==
  /\ ClientAt(c, "kill")
  /\ signalled' = (signalled \/ workerPc # "gone")
  /\ ClientReturns(c)
  /\ UNCHANGED <<jobVars, graceOver, control, lease, workerPc, turnVars, handed>>

\* removeJobArtifacts: record, logs, inbox and locks.
Remove(c) ==
  /\ ClientAt(c, "remove")
  /\ jobState' = "removed"
  /\ control' = [m \in Message |-> IF control[m] = "none" THEN "none" ELSE "deleted"]
  /\ ClientReturns(c)
  /\ UNCHANGED <<pidKnown, graceOver, lease, workerVars>>

\* The command fails half-way (a store error, a signal that cannot be sent) or
\* its process is killed; a probe's lock goes with it.
Aborts(c) ==
  /\ ~ClientAt(c, "idle")
  /\ lease' = IF lease = c THEN "free" ELSE lease
  /\ ClientReturns(c)
  /\ UNCHANGED <<jobVars, graceOver, control, workerVars>>

-----------------------------------------------------------------------------

Launcher == Create \/ StartWorker \/ StartFails

WorkerStep ==
  \/ AcquireLease
  \/ MarkRunning
  \/ Setup
  \/ TurnStart
  \/ Commit
  \/ Drain
  \/ BeginFinishing
  \/ Finish
  \/ Unlock

Commands == {"agents", "send", "stop", "sweep"}

\* A command in progress takes its next step.
ClientStep(c) ==
  \/ ReconcileTerminal(c)
  \/ ReconcileProbe(c)
  \/ ReconcileRelease(c)
  \/ ReconcileSettle(c)
  \/ GiveUp(c)
  \/ Continue(c)
  \/ Probe(c)
  \/ ProbeRelease(c)
  \/ StopRetry(c)
  \/ Refused(c)
  \/ SendAct(c)
  \/ StopAct(c)
  \/ Kill(c)
  \/ Remove(c)

\* Everything but a new command and a command that fails.
Internal ==
  \/ Launcher
  \/ GracePasses
  \/ WorkerStep
  \/ LeaseStaysBusy
  \/ Poll
  \/ TurnEnds
  \/ StoreFails
  \/ Crash
  \/ \E c \in Clients : ClientStep(c)

Next ==
  \/ Internal
  \/ \E c \in Clients : Aborts(c)
  \/ \E c \in Clients, cmd \in Commands : Begin(c, cmd)

Spec == Init /\ [][Next]_vars

\* Processes that can run do run, a signalled turn ends (its context is
\* cancelled), stop gives up waiting for a PID after two seconds, and the user
\* keeps listing the jobs.
Fairness(lister) ==
  /\ WF_vars(WorkerStep)
  /\ WF_vars(signalled /\ TurnEnds)
  /\ WF_vars(GracePasses)
  /\ \A c \in Clients : WF_vars(ClientStep(c)) /\ SF_vars(Refused(c))
  /\ WF_vars(Begin(lister, "agents"))

-----------------------------------------------------------------------------
(* Properties                                                              *)

JobTypes ==
  /\ jobState \in {"absent", "removed"} \union Live \union Terminal
  /\ pidKnown \in BOOLEAN /\ graceOver \in BOOLEAN /\ signalled \in BOOLEAN
  /\ control \in [Message -> {"none", "pending", "claimed", "delivered", "deleted"}]
  /\ lease \in {"free", "worker"} \union Clients
  /\ workerPc \in {"unborn", "launched", "leased", "setup", "turnStart", "turn", "turnEnd", "drain",
                   "closing", "reclaim", "exit", "unlock", "gone"}
  /\ {claimedForTurn, steered, deferred} \subseteq Message \union {NoMessage}
  /\ exitReason \in {"none", "error", "ambiguous", "inboxChanged"}
  /\ handed \in [Message -> Nat]
  /\ op \in [Clients -> Commands \union {"none"}]
  /\ clientPc \in [Clients -> {"idle", "reconcile", "probing", "settle", "reconciled", "probe",
                               "probing2", "waitPid", "refused", "act", "kill", "remove"}]
  /\ seenState \in [Clients -> {"none"} \union Live \union Terminal]
  /\ seenPid \in [Clients -> BOOLEAN]

\* The worker is past beginBackgroundWorker and has not released its lease.
Working ==
  workerPc \in {"setup", "turnStart", "turn", "turnEnd", "drain", "closing", "reclaim", "exit"}

\* The inbox never holds more undelivered messages than its limit, whatever
\* number of senders probed it at the same time.
InboxBounded == Cardinality(Unresolved) <= MaxControls

\* The variables have their types and the inbox its size.
JobTypeOK == JobTypes /\ InboxBounded

\* No accepted message is stranded behind a successful exit (BeginFinishing and
\* EnqueueControl share the metadata lease).
FinishedMeansDrained ==
  jobState \in {"finishing", "succeeded"} => Unresolved = {}

\* Input reaches the model in the order in which it was accepted, one message
\* at a time: a claimed message is a barrier before every later one.
DeliveredInOrder ==
  \A m, k \in Message : k < m /\ control[m] \in {"claimed", "delivered"} =>
                          control[k] = "delivered"

\* A message is given to the model at most once, however the turn, the steering
\* window and a crash fall; a delivered one was given.
NeverReplayed ==
  \A m \in Message : handed[m] <= 1 /\ (control[m] = "delivered" => handed[m] = 1)

\* Together: the model gets every message at most once and in order.
InputOnceInOrder == DeliveredInOrder /\ NeverReplayed

\* The worker never mistakes the message it is working on for one of a crashed
\* worker, and the finish race always leaves it a message to go on with.
NoSpuriousExit == exitReason \notin {"ambiguous", "inboxChanged"}

\* Sweep never takes the record from under a worker that has claimed the job.
SweepSparesWorker == jobState = "removed" => ~Working

\* The verdicts that only the worker, or the launcher that could not start it, gives.
Reported == {"succeeded", "failed"}

\* A finished job never becomes live again, and what its worker reported is never
\* replaced: a Reconcile that copied the record and probed the lease before the
\* worker finished, and writes after it, leaves the worker's verdict alone.
TerminalStays ==
  [][/\ jobState \in Terminal => jobState' \in Terminal \union {"removed"}
     /\ jobState \in Reported => jobState' \in {jobState, "removed"}]_vars

\* A stop request settles: the signal ends the turn and the worker records the
\* end, or it is dead and the next listing does.
StopSettles == (jobState = "stopping") ~> (jobState \in Terminal \union {"removed"})

\* The death of a launcher or worker, at any point, is noticed: the job does not
\* stay live for ever (Reconcile, the starting grace).
DeathSettles ==
  (jobState \in Live /\ workerPc = "gone") ~> (jobState \in Terminal \union {"removed"})

\* Whatever asks for the end of a job, a stop or a death, the record shows it.
JobSettles == StopSettles /\ DeathSettles

\* A busy lease has an owner that lives: the worker from its claim to its release,
\* or a command in the middle of its probe.  A dead worker is never hidden by the
\* lock it left, only by a probe that is about to give the lease back.
LeaseHasOwner ==
  lease # "free" =>
     \/ lease = "worker" /\ workerPc \notin {"unborn", "launched", "gone"}
     \/ \E c \in Clients : lease = c /\ clientPc[c] \in {"probing", "probing2"}

\* A stop that is on the record reaches the worker: the signal is there, a stop
\* command is about to send it, or there is no worker any more.
StopHeard ==
  jobState = "stopping" =>
     signalled \/ workerPc = "gone" \/ \E c \in Clients : ClientAt(c, "kill")

\* Nothing but the death of the stop command itself, between MarkStopping and the
\* signal, keeps a recorded stop from the worker.
StopLostOnlyByDeath ==
  [][StopHeard /\ ~StopHeard' => \E c \in Clients : ClientAt(c, "kill") /\ Aborts(c)]_vars

\* A job that was asked to stop ends as stopped, also when its worker dies.  The code
\* does not keep this: Reconcile writes the verdict it chose from its copy, so a stop
\* recorded between copy and update ends as interrupted.
StopIsReported == [][jobState = "stopping" /\ jobState' \in Terminal => jobState' = "stopped"]_vars

=============================================================================
