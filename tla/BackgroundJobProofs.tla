-------------------------- MODULE BackgroundJobProofs --------------------------
(***************************************************************************)
(* Proofs about BackgroundJob, for any number of clients and messages and  *)
(* any inbox limit.                                                        *)
(***************************************************************************)
EXTENDS BackgroundJob, FiniteSetTheorems, TLAPS

-----------------------------------------------------------------------------
(* The inductive invariant                                                 *)

\* The pcs at which the worker holds the lease.
Leased == {"leased", "setup", "turnStart", "turn", "turnEnd", "drain", "closing", "reclaim", "exit",
           "unlock"}

\* The worker lease is held by the worker from its claim to its release, or by
\* the one client that is between the two halves of its probe.
LeaseExclusive ==
  /\ lease = "worker" <=> workerPc \in Leased
  /\ \A c \in Clients : lease = c <=> clientPc[c] \in {"probing", "probing2"}

\* A sweeping client has seen a terminal record, and past its probe it has seen
\* that no worker holds the job; a terminal record lets no new worker begin.
SweepKnows ==
  /\ \A c \in Clients :
       /\ op[c] = "sweep" => jobState \in Terminal \union {"removed"}
       /\ clientPc[c] = "remove" => op[c] = "sweep" /\ ~Working
  /\ SweepSparesWorker
  /\ \A m \in Message : control[m] = "deleted" => jobState = "removed"

\* Messages are created in order.
CreatedInOrder ==
  \A m, k \in Message : k < m /\ control[m] # "none" => control[k] # "none"

\* What the worker has in its hands is exactly what is claimed, and it is at
\* most one message, at the place its position says.
OneInHand ==
  /\ workerPc \notin {"unlock", "gone"} =>
       Claimed = {claimedForTurn, steered, deferred} \ {NoMessage}
  /\ claimedForTurn # NoMessage => steered = NoMessage /\ deferred = NoMessage
  /\ steered # NoMessage => deferred = NoMessage
  /\ workerPc = "turnStart" => steered = NoMessage /\ deferred = NoMessage
  /\ workerPc \in {"unborn", "launched", "leased", "setup", "drain", "closing", "reclaim"} =>
       {claimedForTurn, steered, deferred} = {NoMessage}

\* Why the worker ends, and what it knows when it ends well.
ExitIsClean ==
  /\ NoSpuriousExit
  /\ exitReason = "error" => workerPc \in {"turnEnd", "exit", "unlock", "gone"}
  /\ workerPc = "exit" /\ exitReason = "none" =>
       Unresolved = {} /\ jobState \notin {"absent", "starting", "running"}
  /\ workerPc = "reclaim" => Unresolved # {}

\* How often a message has been handed over follows from where it is.
HandedOnce ==
  /\ NeverReplayed
  /\ \A m \in Message :
       /\ control[m] \in {"none", "pending"} => handed[m] = 0
       /\ m = claimedForTurn =>
            /\ workerPc = "turnStart" => handed[m] = 0
            /\ workerPc \in {"turn", "turnEnd"} => handed[m] = 1
       /\ m = steered => handed[m] = 1
       /\ m = deferred => handed[m] = 0

JobInv ==
  /\ JobTypes
  /\ InboxBounded
  /\ LeaseExclusive
  /\ SweepKnows
  /\ CreatedInOrder
  /\ DeliveredInOrder
  /\ OneInHand
  /\ ExitIsClean
  /\ FinishedMeansDrained
  /\ HandedOnce

-----------------------------------------------------------------------------
(* Who changes what                                                        *)

\* The launcher, the worker and the clock.
Session ==
  \/ Launcher
  \/ GracePasses
  \/ WorkerStep
  \/ LeaseStaysBusy
  \/ Poll
  \/ TurnEnds
  \/ StoreFails
  \/ Crash

\* Whatever a client does.
ClientMoves(c) == ClientStep(c) \/ Aborts(c) \/ \E cmd \in Commands : Begin(c, cmd)

USE BackgroundAssumption

\* A step is one of the session or one of a client.
LEMMA NextSplits == Next => Session \/ \E c \in Clients : ClientMoves(c)
BY DEF Next, Internal, Session, ClientMoves

\* The session leaves the clients alone, and only three of its steps touch the
\* inbox.
LEMMA SessionFrame ==
  ASSUME Session
  PROVE  /\ UNCHANGED clientVars
         /\ Poll \/ Commit \/ Drain \/ UNCHANGED control
<1> USE DEF clientVars, WorkerGoes
<1>1. CASE Launcher \/ GracePasses
  BY <1>1 DEF Launcher, Create, StartWorker, StartFails, GracePasses
<1>2. CASE Setup \/ TurnStart \/ TurnEnds \/ StoreFails \/ LeaseStaysBusy
  BY <1>2 DEF Setup, TurnStart, TurnEnds, StoreFails, LeaseStaysBusy, turnVars
<1>3. CASE AcquireLease \/ MarkRunning \/ BeginFinishing \/ Finish \/ Unlock \/ Crash
  BY <1>3 DEF AcquireLease, MarkRunning, BeginFinishing, Finish, Unlock, Crash
<1>4. CASE Poll \/ Commit \/ Drain
  <2>1. UNCHANGED clientVars
    BY <1>4 DEF Poll, Commit, Drain, ClaimNextControl
  <2> QED BY <1>4, <2>1
<1> QED BY <1>1, <1>2, <1>3, <1>4 DEF Session, WorkerStep

\* A client leaves the worker alone but for the signal; only send and sweep
\* touch the inbox, only Reconcile, stop and sweep the state of the job.
LEMMA ClientFrame ==
  ASSUME NEW c \in Clients, ClientMoves(c)
  PROVE  /\ UNCHANGED <<workerPc, claimedForTurn, steered, deferred, exitReason, handed>>
         /\ SendAct(c) \/ Remove(c) \/ UNCHANGED control
         /\ ReconcileSettle(c) \/ StopAct(c) \/ Remove(c) \/ UNCHANGED jobState
<1> USE DEF workerVars, turnVars, jobVars
<1>1. CASE SendAct(c) \/ Remove(c) \/ ReconcileSettle(c) \/ StopAct(c) \/ Kill(c)
  BY <1>1 DEF SendAct, Remove, ReconcileSettle, StopAct, Kill
<1>2. CASE ReconcileTerminal(c) \/ ReconcileProbe(c) \/ ReconcileRelease(c) \/ Probe(c)
           \/ ProbeRelease(c)
  BY <1>2 DEF ReconcileTerminal, ReconcileProbe, ReconcileRelease, Probe, ProbeRelease, ProbeBusy,
              ProbeTakes
<1>3. CASE GiveUp(c) \/ Continue(c) \/ StopRetry(c) \/ Refused(c) \/ Aborts(c)
  BY <1>3 DEF GiveUp, Continue, StopRetry, Refused, Aborts
<1>4. ASSUME NEW cmd \in Commands, Begin(c, cmd)
      PROVE  UNCHANGED <<workerPc, claimedForTurn, steered, deferred, exitReason, handed, control,
                         jobState>>
  BY <1>4 DEF Begin
<1> QED BY <1>1, <1>2, <1>3, <1>4 DEF ClientMoves, ClientStep

-----------------------------------------------------------------------------
(* Claiming: with nothing in its hands the worker meets no claimed message *)

\* The ticker, with free hands, claims a pending message and steers or keeps it.
LEMMA PollEffect ==
  ASSUME JobInv, Poll
  PROVE  \E m \in Message :
           /\ control[m] = "pending" /\ Oldest(m)
           /\ control' = [control EXCEPT ![m] = "claimed"]
           /\ Claimed = {} /\ exitReason' = "none"
           /\ workerPc = "turn" /\ workerPc' = "turn"
           /\ {claimedForTurn, steered, deferred, claimedForTurn'} = {NoMessage}
           /\ \/ /\ steered' = m /\ deferred' = NoMessage
                 /\ handed' = [handed EXCEPT ![m] = handed[m] + 1]
              \/ steered' = NoMessage /\ deferred' = m /\ handed' = handed
<1>1. /\ workerPc = "turn"
      /\ claimedForTurn = NoMessage /\ steered = NoMessage /\ deferred = NoMessage
      /\ UNCHANGED claimedForTurn
  BY DEF Poll, MayPoll, WorkerAt
<1>2. Claimed = {}
  BY <1>1 DEF JobInv, OneInHand
<1>3. PICK m \in Message :
        /\ ClaimNextControl(m, "turn")
        /\ \/ /\ control[m] = "pending"
              /\ steered' = m
              /\ handed' = [handed EXCEPT ![m] = handed[m] + 1]
              /\ UNCHANGED deferred
           \/ /\ deferred' = IF control[m] = "pending" THEN m ELSE NoMessage
              /\ UNCHANGED <<steered, handed>>
  BY DEF Poll
<1>4. control[m] = "pending" /\ Oldest(m)
  BY <1>2, <1>3 DEF ClaimNextControl, Oldest, Claimed, Unresolved
<1>5. /\ control' = [control EXCEPT ![m] = "claimed"]
      /\ exitReason' = "none"
      /\ workerPc' = "turn"
  BY <1>3, <1>4 DEF ClaimNextControl, WorkerGoes
<1> QED BY <1>1, <1>2, <1>3, <1>4, <1>5

\* The inbox read after a turn claims a pending message or finds nothing, the
\* latter only before admission is closed.
LEMMA DrainEffect ==
  ASSUME JobInv, Drain
  PROVE  /\ workerPc \in {"drain", "reclaim"} /\ Claimed = {} /\ exitReason' = "none"
         /\ {claimedForTurn, steered, deferred, steered', deferred'} = {NoMessage}
         /\ handed' = handed
         /\ \/ \E m \in Message :
                 /\ control[m] = "pending" /\ Oldest(m)
                 /\ control' = [control EXCEPT ![m] = "claimed"]
                 /\ workerPc' = "turnStart" /\ claimedForTurn' = m
            \/ /\ Unresolved = {} /\ control' = control
               /\ workerPc' = "closing" /\ claimedForTurn' = NoMessage
<1>1. /\ workerPc \in {"drain", "reclaim"}
      /\ UNCHANGED <<steered, deferred, handed>>
  BY DEF Drain
<1>2. /\ claimedForTurn = NoMessage /\ steered = NoMessage /\ deferred = NoMessage
      /\ Claimed = {}
  BY <1>1 DEF JobInv, OneInHand
<1>3. ASSUME NEW m \in Message, ClaimNextControl(m, "turnStart"),
             claimedForTurn' = IF control[m] = "pending" THEN m ELSE NoMessage
      PROVE  /\ control[m] = "pending" /\ Oldest(m)
             /\ control' = [control EXCEPT ![m] = "claimed"]
             /\ exitReason' = "none"
             /\ workerPc' = "turnStart" /\ claimedForTurn' = m
  <2>1. control[m] = "pending" /\ Oldest(m)
    BY <1>2, <1>3 DEF ClaimNextControl, Oldest, Claimed, Unresolved
  <2> QED BY <1>3, <2>1 DEF ClaimNextControl, WorkerGoes
<1>4. ASSUME Unresolved = {}, UNCHANGED <<claimedForTurn, control>>,
             WorkerGoes(IF WorkerAt("drain") THEN "closing" ELSE "exit"),
             exitReason' = IF WorkerAt("drain") THEN "none" ELSE "inboxChanged"
      PROVE  /\ control' = control
             /\ exitReason' = "none"
             /\ workerPc' = "closing" /\ claimedForTurn' = NoMessage
  <2>1. WorkerAt("drain")
    BY <1>1, <1>4 DEF JobInv, ExitIsClean, WorkerAt
  <2> QED BY <1>2, <1>4, <2>1 DEF WorkerGoes
<1> QED BY <1>1, <1>2, <1>3, <1>4 DEF Drain

\* Claiming the oldest message keeps the order: everything before it is
\* delivered, unless the inbox has been deleted.
LEMMA OldestIsNext ==
  ASSUME JobTypes, CreatedInOrder, DeliveredInOrder, NEW m \in Message,
         control[m] = "pending", Oldest(m), \A k \in Message : control[k] # "deleted",
         control' = [control EXCEPT ![m] = "claimed"]
  PROVE  DeliveredInOrder'
<1>1. \A k \in Message : k < m => control[k] = "delivered"
  BY DEF Oldest, Unresolved, CreatedInOrder, JobTypes, Message
<1>2. \A k \in Message : m < k => control[k] \notin {"claimed", "delivered"}
  BY DEF DeliveredInOrder
<1>3. control' \in [Message -> {"none", "pending", "claimed", "delivered", "deleted"}]
  BY DEF JobTypes
<1>4. ASSUME NEW n \in Message, NEW k \in Message, k < n, control'[n] \in {"claimed", "delivered"}
      PROVE  control'[k] = "delivered"
  <2>1. CASE n = m
    BY <1>1, <1>4, <2>1 DEF JobTypes, Message
  <2>2. CASE n # m
    BY <1>2, <1>4, <2>2 DEF JobTypes, DeliveredInOrder
  <2> QED BY <2>1, <2>2
<1> QED BY <1>4 DEF DeliveredInOrder

-----------------------------------------------------------------------------
(* Every step preserves every part                                         *)

\* The variables keep their types.
LEMMA TypeStep ==
  ASSUME JobInv, Next PROVE JobTypes'
<1> USE DEF JobInv, JobTypes, Exists, Live, Terminal, Message, NoMessage, Commands, ClientGoes,
       ClientReturns, KeepCopy, Reads, WorkerGoes, WorkerAt, ClientAt, jobVars, turnVars,
       workerVars, clientVars
<1>1. CASE Create
  BY <1>1 DEF Create
<1>2. CASE StartWorker
  BY <1>2 DEF StartWorker
<1>3. CASE StartFails
  BY <1>3 DEF StartFails, Finished
<1>4. CASE GracePasses
  BY <1>4 DEF GracePasses
<1>5. CASE AcquireLease
  BY <1>5 DEF AcquireLease
<1>6. CASE LeaseStaysBusy
  BY <1>6 DEF LeaseStaysBusy
<1>7. CASE MarkRunning
  BY <1>7 DEF MarkRunning, Runnable
<1>8. CASE Setup
  BY <1>8 DEF Setup
<1>9. CASE TurnStart
  BY <1>9 DEF TurnStart
<1>10. CASE Poll
  <2>1. PICK m \in Message :
          /\ control' = [control EXCEPT ![m] = "claimed"]
          /\ exitReason' = "none" /\ workerPc' = "turn"
          /\ {claimedForTurn', steered', deferred'} \subseteq {m, NoMessage}
          /\ handed' \in {handed, [handed EXCEPT ![m] = handed[m] + 1]}
    BY <1>10, PollEffect
  <2>2. UNCHANGED <<jobVars, graceOver, lease, signalled, clientVars>>
    BY <1>10 DEF Poll, ClaimNextControl
  <2> QED BY <2>1, <2>2
<1>11. CASE TurnEnds
  BY <1>11 DEF TurnEnds
<1>12. CASE StoreFails
  BY <1>12 DEF StoreFails
<1>13. CASE Commit
  BY <1>13 DEF Commit
<1>14. CASE Drain
  BY <1>14 DEF Drain, ClaimNextControl, Oldest
<1>15. CASE BeginFinishing
  BY <1>15 DEF BeginFinishing, InboxOpen
<1>16. CASE Finish
  BY <1>16 DEF Finish, Finished
<1>17. CASE Unlock
  BY <1>17 DEF Unlock
<1>18. CASE Crash
  BY <1>18 DEF Crash
<1>19. ASSUME NEW c \in Clients, ReconcileTerminal(c) PROVE JobTypes'
  BY <1>19 DEF ReconcileTerminal
<1>20. ASSUME NEW c \in Clients, ReconcileProbe(c) PROVE JobTypes'
  BY <1>20 DEF ReconcileProbe, ProbeBusy, ProbeTakes
<1>21. ASSUME NEW c \in Clients, ReconcileRelease(c) PROVE JobTypes'
  BY <1>21 DEF ReconcileRelease
<1>22. ASSUME NEW c \in Clients, ReconcileSettle(c) PROVE JobTypes'
  BY <1>22 DEF ReconcileSettle, DeadVerdict
<1>23. ASSUME NEW c \in Clients, GiveUp(c) PROVE JobTypes'
  BY <1>23 DEF GiveUp
<1>24. ASSUME NEW c \in Clients, Continue(c) PROVE JobTypes'
  BY <1>24 DEF Continue
<1>25. ASSUME NEW c \in Clients, Probe(c) PROVE JobTypes'
  BY <1>25 DEF Probe, ProbeBusy, ProbeTakes
<1>26. ASSUME NEW c \in Clients, ProbeRelease(c) PROVE JobTypes'
  BY <1>26 DEF ProbeRelease
<1>27. ASSUME NEW c \in Clients, StopRetry(c) PROVE JobTypes'
  BY <1>27 DEF StopRetry
<1>28. ASSUME NEW c \in Clients, Refused(c) PROVE JobTypes'
  BY <1>28 DEF Refused
<1>29. ASSUME NEW c \in Clients, SendAct(c) PROVE JobTypes'
  BY <1>29 DEF SendAct, Admits
<1>30. ASSUME NEW c \in Clients, StopAct(c) PROVE JobTypes'
  <2>1. /\ UNCHANGED <<pidKnown, graceOver, control, lease, workerVars>>
        /\ jobState' \in {jobState, "stopping"}
    BY <1>30 DEF StopAct
  <2>2. \/ UNCHANGED <<op, seenState, seenPid>> /\ clientPc' = [clientPc EXCEPT ![c] = "kill"]
        \/ ClientReturns(c)
    BY <1>30 DEF StopAct
  <2>3. /\ op' \in [Clients -> Commands \union {"none"}]
        /\ seenPid' \in [Clients -> BOOLEAN]
    BY <2>2
  <2>4. clientPc' \in [Clients -> {"idle", "reconcile", "probing", "settle", "reconciled", "probe",
                                   "probing2", "waitPid", "refused", "act", "kill", "remove"}]
    BY <2>2
  <2>5. seenState' \in [Clients -> {"none"} \union Live \union Terminal]
    BY <2>2
  <2> QED BY <2>1, <2>3, <2>4, <2>5
<1>31. ASSUME NEW c \in Clients, Kill(c) PROVE JobTypes'
  BY <1>31 DEF Kill
<1>32. ASSUME NEW c \in Clients, Remove(c) PROVE JobTypes'
  BY <1>32 DEF Remove
<1>33. ASSUME NEW c \in Clients, Aborts(c) PROVE JobTypes'
  BY <1>33 DEF Aborts
<1>34. ASSUME NEW c \in Clients, NEW cmd \in Commands, Begin(c, cmd) PROVE JobTypes'
  BY <1>34 DEF Begin
<1> HIDE DEF JobInv, JobTypes
<1> QED BY NextSplits, <1>1, <1>2, <1>3, <1>4, <1>5, <1>6, <1>7, <1>8, <1>9, <1>10, <1>11, <1>12,
       <1>13, <1>14, <1>15, <1>16, <1>17, <1>18, <1>19, <1>20, <1>21, <1>22, <1>23, <1>24, <1>25,
       <1>26, <1>27, <1>28, <1>29, <1>30, <1>31, <1>32, <1>33, <1>34
  DEF Session, ClientMoves, Launcher, WorkerStep, ClientStep

\* Only the worker's own steps and the two halves of a probe move the lease.
LEMMA LeaseStep ==
  ASSUME JobInv, Next PROVE LeaseExclusive'
<1> USE DEF JobInv, JobTypes, LeaseExclusive, Leased, ClientGoes, ClientReturns, KeepCopy, Reads,
       WorkerGoes, WorkerAt, ClientAt, jobVars, turnVars, workerVars, clientVars
<1>1. CASE Create
  BY <1>1 DEF Create
<1>2. CASE StartWorker
  BY <1>2 DEF StartWorker
<1>3. CASE StartFails
  BY <1>3 DEF StartFails, Finished
<1>4. CASE GracePasses
  BY <1>4 DEF GracePasses
<1>5. CASE AcquireLease
  BY <1>5 DEF AcquireLease
<1>6. CASE LeaseStaysBusy
  BY <1>6 DEF LeaseStaysBusy
<1>7. CASE MarkRunning
  BY <1>7 DEF MarkRunning, Runnable
<1>8. CASE Setup
  BY <1>8 DEF Setup
<1>9. CASE TurnStart
  BY <1>9 DEF TurnStart
<1>10. CASE Poll
  BY <1>10 DEF Poll, MayPoll, ClaimNextControl, Oldest
<1>11. CASE TurnEnds
  BY <1>11 DEF TurnEnds
<1>12. CASE StoreFails
  BY <1>12 DEF StoreFails
<1>13. CASE Commit
  BY <1>13 DEF Commit
<1>14. CASE Drain
  BY <1>14 DEF Drain, ClaimNextControl, Oldest
<1>15. CASE BeginFinishing
  BY <1>15 DEF BeginFinishing, InboxOpen
<1>16. CASE Finish
  BY <1>16 DEF Finish, Finished
<1>17. CASE Unlock
  BY <1>17 DEF Unlock
<1>18. CASE Crash
  BY <1>18 DEF Crash
<1>19. ASSUME NEW c \in Clients, ReconcileTerminal(c) PROVE LeaseExclusive'
  BY <1>19 DEF ReconcileTerminal
<1>20. ASSUME NEW c \in Clients, ReconcileProbe(c) PROVE LeaseExclusive'
  BY <1>20 DEF ReconcileProbe, ProbeBusy, ProbeTakes
<1>21. ASSUME NEW c \in Clients, ReconcileRelease(c) PROVE LeaseExclusive'
  BY <1>21 DEF ReconcileRelease
<1>22. ASSUME NEW c \in Clients, ReconcileSettle(c) PROVE LeaseExclusive'
  BY <1>22 DEF ReconcileSettle, DeadVerdict
<1>23. ASSUME NEW c \in Clients, GiveUp(c) PROVE LeaseExclusive'
  BY <1>23 DEF GiveUp
<1>24. ASSUME NEW c \in Clients, Continue(c) PROVE LeaseExclusive'
  BY <1>24 DEF Continue
<1>25. ASSUME NEW c \in Clients, Probe(c) PROVE LeaseExclusive'
  BY <1>25 DEF Probe, ProbeBusy, ProbeTakes
<1>26. ASSUME NEW c \in Clients, ProbeRelease(c) PROVE LeaseExclusive'
  BY <1>26 DEF ProbeRelease
<1>27. ASSUME NEW c \in Clients, StopRetry(c) PROVE LeaseExclusive'
  BY <1>27 DEF StopRetry
<1>28. ASSUME NEW c \in Clients, Refused(c) PROVE LeaseExclusive'
  BY <1>28 DEF Refused
<1>29. ASSUME NEW c \in Clients, SendAct(c) PROVE LeaseExclusive'
  BY <1>29 DEF SendAct, Admits
<1>30. ASSUME NEW c \in Clients, StopAct(c) PROVE LeaseExclusive'
  BY <1>30 DEF StopAct
<1>31. ASSUME NEW c \in Clients, Kill(c) PROVE LeaseExclusive'
  BY <1>31 DEF Kill
<1>32. ASSUME NEW c \in Clients, Remove(c) PROVE LeaseExclusive'
  BY <1>32 DEF Remove
<1>33. ASSUME NEW c \in Clients, Aborts(c) PROVE LeaseExclusive'
  BY <1>33 DEF Aborts
<1>34. ASSUME NEW c \in Clients, NEW cmd \in Commands, Begin(c, cmd) PROVE LeaseExclusive'
  BY <1>34 DEF Begin
<1> HIDE DEF JobInv, LeaseExclusive
<1> QED BY NextSplits, <1>1, <1>2, <1>3, <1>4, <1>5, <1>6, <1>7, <1>8, <1>9, <1>10, <1>11, <1>12,
       <1>13, <1>14, <1>15, <1>16, <1>17, <1>18, <1>19, <1>20, <1>21, <1>22, <1>23, <1>24, <1>25,
       <1>26, <1>27, <1>28, <1>29, <1>30, <1>31, <1>32, <1>33, <1>34
  DEF Session, ClientMoves, Launcher, WorkerStep, ClientStep

\* A worker at work holds the lease, so a sweep's probe finds it; a terminal
\* record lets no worker begin afterwards.
LEMMA SweepStep ==
  ASSUME JobInv, Next PROVE SweepKnows'
<1> USE DEF JobInv, JobTypes, LeaseExclusive, Leased, SweepKnows, SweepSparesWorker, Working,
       Exists, Live, Terminal, ClientGoes, ClientReturns, KeepCopy, Reads, WorkerGoes, WorkerAt,
       ClientAt, jobVars, turnVars, workerVars, clientVars
<1>1. CASE Create
  BY <1>1 DEF Create
<1>2. CASE StartWorker
  BY <1>2 DEF StartWorker
<1>3. CASE StartFails
  BY <1>3 DEF StartFails, Finished
<1>4. CASE GracePasses
  BY <1>4 DEF GracePasses
<1>5. CASE AcquireLease
  BY <1>5 DEF AcquireLease
<1>6. CASE LeaseStaysBusy
  BY <1>6 DEF LeaseStaysBusy
<1>7. CASE MarkRunning
  BY <1>7 DEF MarkRunning, Runnable
<1>8. CASE Setup
  BY <1>8 DEF Setup
<1>9. CASE TurnStart
  BY <1>9 DEF TurnStart
<1>10. CASE Poll
  BY <1>10 DEF Poll, MayPoll, ClaimNextControl, Oldest
<1>11. CASE TurnEnds
  BY <1>11 DEF TurnEnds
<1>12. CASE StoreFails
  BY <1>12 DEF StoreFails
<1>13. CASE Commit
  BY <1>13 DEF Commit
<1>14. CASE Drain
  BY <1>14 DEF Drain, ClaimNextControl, Oldest
<1>15. CASE BeginFinishing
  BY <1>15 DEF BeginFinishing, InboxOpen
<1>16. CASE Finish
  BY <1>16 DEF Finish, Finished
<1>17. CASE Unlock
  BY <1>17 DEF Unlock
<1>18. CASE Crash
  BY <1>18 DEF Crash
<1>19. ASSUME NEW c \in Clients, ReconcileTerminal(c) PROVE SweepKnows'
  BY <1>19 DEF ReconcileTerminal
<1>20. ASSUME NEW c \in Clients, ReconcileProbe(c) PROVE SweepKnows'
  BY <1>20 DEF ReconcileProbe, ProbeBusy, ProbeTakes
<1>21. ASSUME NEW c \in Clients, ReconcileRelease(c) PROVE SweepKnows'
  BY <1>21 DEF ReconcileRelease
<1>22. ASSUME NEW c \in Clients, ReconcileSettle(c) PROVE SweepKnows'
  BY <1>22 DEF ReconcileSettle, DeadVerdict
<1>23. ASSUME NEW c \in Clients, GiveUp(c) PROVE SweepKnows'
  BY <1>23 DEF GiveUp
<1>24. ASSUME NEW c \in Clients, Continue(c) PROVE SweepKnows'
  BY <1>24 DEF Continue
<1>25. ASSUME NEW c \in Clients, Probe(c) PROVE SweepKnows'
  BY <1>25 DEF Probe, ProbeBusy, ProbeTakes
<1>26. ASSUME NEW c \in Clients, ProbeRelease(c) PROVE SweepKnows'
  BY <1>26 DEF ProbeRelease
<1>27. ASSUME NEW c \in Clients, StopRetry(c) PROVE SweepKnows'
  BY <1>27 DEF StopRetry
<1>28. ASSUME NEW c \in Clients, Refused(c) PROVE SweepKnows'
  BY <1>28 DEF Refused
<1>29. ASSUME NEW c \in Clients, SendAct(c) PROVE SweepKnows'
  BY <1>29 DEF SendAct, Admits
<1>30. ASSUME NEW c \in Clients, StopAct(c) PROVE SweepKnows'
  BY <1>30 DEF StopAct
<1>31. ASSUME NEW c \in Clients, Kill(c) PROVE SweepKnows'
  BY <1>31 DEF Kill
<1>32. ASSUME NEW c \in Clients, Remove(c) PROVE SweepKnows'
  BY <1>32 DEF Remove
<1>33. ASSUME NEW c \in Clients, Aborts(c) PROVE SweepKnows'
  BY <1>33 DEF Aborts
<1>34. ASSUME NEW c \in Clients, NEW cmd \in Commands, Begin(c, cmd) PROVE SweepKnows'
  BY <1>34 DEF Begin
<1> HIDE DEF JobInv, SweepKnows
<1> QED BY NextSplits, <1>1, <1>2, <1>3, <1>4, <1>5, <1>6, <1>7, <1>8, <1>9, <1>10, <1>11, <1>12,
       <1>13, <1>14, <1>15, <1>16, <1>17, <1>18, <1>19, <1>20, <1>21, <1>22, <1>23, <1>24, <1>25,
       <1>26, <1>27, <1>28, <1>29, <1>30, <1>31, <1>32, <1>33, <1>34
  DEF Session, ClientMoves, Launcher, WorkerStep, ClientStep

\* Numbers are given out in order and never taken back.
LEMMA CreatedStep ==
  ASSUME JobInv, Next PROVE CreatedInOrder'
<1> USE DEF JobInv, JobTypes, CreatedInOrder, Message
<1>1. CASE Poll
  BY <1>1, PollEffect
<1>2. CASE Commit
  <2>1. \A m \in Message : control'[m] \in {control[m], "delivered"}
    BY <1>2 DEF Commit
  <2>2. control' \in [Message -> {"none", "pending", "claimed", "delivered", "deleted"}]
    BY <1>2 DEF Commit
  <2>3. \A m \in Message : control[m] = "none" => control'[m] = "none"
    BY <1>2 DEF Commit, OneInHand, Claimed, WorkerAt, NoMessage
  <2> QED BY <2>1, <2>3
<1>3. CASE Drain
  BY <1>3, DrainEffect
<1>4. ASSUME NEW c \in Clients, SendAct(c) PROVE CreatedInOrder'
  BY <1>4 DEF SendAct, Admits
<1>5. ASSUME NEW c \in Clients, Remove(c) PROVE CreatedInOrder'
  BY <1>5 DEF Remove
<1>6. CASE UNCHANGED control
  BY <1>6
<1> HIDE DEF JobInv, CreatedInOrder
<1> QED BY NextSplits, SessionFrame, ClientFrame, <1>1, <1>2, <1>3, <1>4, <1>5, <1>6
  DEF Session, ClientMoves, Launcher, WorkerStep

\* A claim takes the oldest message and a commit only what is claimed.
LEMMA DeliveredStep ==
  ASSUME JobInv, Next PROVE DeliveredInOrder'
<1> USE DEF JobInv, JobTypes, CreatedInOrder, DeliveredInOrder, SweepKnows, SweepSparesWorker,
       Working, WorkerAt, OneInHand, Claimed, Message, NoMessage
<1>1. CASE Poll
  <2>1. PICK m \in Message : /\ control[m] = "pending" /\ Oldest(m)
                             /\ control' = [control EXCEPT ![m] = "claimed"]
    BY <1>1, PollEffect
  <2>2. \A k \in Message : control[k] # "deleted"
    BY <1>1 DEF Poll
  <2> QED BY <2>1, <2>2, OldestIsNext
<1>2. CASE Commit
  BY <1>2 DEF Commit
<1>3. CASE Drain
  <2>1. CASE UNCHANGED control
    BY <2>1
  <2>2. CASE \E m \in Message : /\ control[m] = "pending" /\ Oldest(m)
                                /\ control' = [control EXCEPT ![m] = "claimed"]
    <3>1. \A k \in Message : control[k] # "deleted"
      BY <1>3 DEF Drain
    <3> QED BY <2>2, <3>1, OldestIsNext
  <2> QED BY <1>3, <2>1, <2>2, DrainEffect
<1>4. ASSUME NEW c \in Clients, SendAct(c) PROVE DeliveredInOrder'
  BY <1>4 DEF SendAct, Admits
<1>5. ASSUME NEW c \in Clients, Remove(c) PROVE DeliveredInOrder'
  BY <1>5 DEF Remove
<1>6. CASE UNCHANGED control
  BY <1>6
<1> HIDE DEF JobInv, DeliveredInOrder
<1> QED BY NextSplits, SessionFrame, ClientFrame, <1>1, <1>2, <1>3, <1>4, <1>5, <1>6
  DEF Session, ClientMoves, Launcher, WorkerStep

\* Every claim goes into one free hand and every commit empties it.
LEMMA InHandStep ==
  ASSUME JobInv, Next PROVE OneInHand'
<1> USE DEF JobInv, JobTypes, OneInHand, WorkerAt, WorkerGoes, turnVars, workerVars, jobVars
<1>1. UNCHANGED control => Claimed' = Claimed
  BY DEF Claimed
<1>2. CASE Create
  BY <1>1, <1>2 DEF Create
<1>3. CASE StartWorker
  BY <1>1, <1>3 DEF StartWorker
<1>4. CASE StartFails
  BY <1>1, <1>4 DEF StartFails, Finished
<1>5. CASE GracePasses
  BY <1>1, <1>5 DEF GracePasses
<1>6. CASE AcquireLease
  BY <1>1, <1>6 DEF AcquireLease
<1>7. CASE LeaseStaysBusy
  BY <1>1, <1>7 DEF LeaseStaysBusy
<1>8. CASE MarkRunning
  BY <1>1, <1>8 DEF MarkRunning, Runnable
<1>9. CASE Setup
  BY <1>1, <1>9 DEF Setup
<1>10. CASE TurnStart
  BY <1>1, <1>10 DEF TurnStart
<1>11. CASE Poll
  <2>1. PICK m \in Message :
          /\ control' = [control EXCEPT ![m] = "claimed"]
          /\ Claimed = {} /\ workerPc' = "turn" /\ claimedForTurn' = NoMessage
          /\ \/ steered' = m /\ deferred' = NoMessage
             \/ steered' = NoMessage /\ deferred' = m
    BY <1>11, PollEffect
  <2>2. Claimed' = {m}
    BY <2>1 DEF Claimed
  <2>3. m # NoMessage
    BY DEF Message, NoMessage
  <2> QED BY <2>1, <2>2, <2>3
<1>12. CASE TurnEnds
  BY <1>1, <1>12 DEF TurnEnds
<1>13. CASE StoreFails
  BY <1>1, <1>13 DEF StoreFails
<1>14. CASE Commit
  <2>1. workerPc = "turnEnd" /\ steered' = NoMessage
    BY <1>14 DEF Commit
  <2>2. Claimed' = Claimed \ {claimedForTurn, steered}
    BY <1>14 DEF Commit, Claimed
  <2>3. Claimed' = {deferred} \ {NoMessage}
    BY <2>1, <2>2
  <2>4. \/ /\ workerPc' \in {"exit", "drain"} /\ claimedForTurn' = NoMessage
           /\ deferred' = deferred /\ (workerPc' = "drain" => deferred = NoMessage)
        \/ /\ workerPc' = "turnStart" /\ claimedForTurn' = deferred /\ deferred' = NoMessage
    BY <1>14 DEF Commit
  <2> QED BY <2>1, <2>3, <2>4
<1>15. CASE Drain
  <2>1. Claimed = {} /\ {steered', deferred'} = {NoMessage}
    BY <1>15, DrainEffect
  <2>2. ASSUME NEW m \in Message, control' = [control EXCEPT ![m] = "claimed"],
               workerPc' = "turnStart", claimedForTurn' = m
        PROVE  OneInHand'
    <3>1. Claimed' = {m}
      BY <2>1, <2>2 DEF Claimed
    <3>2. m # NoMessage
      BY DEF Message, NoMessage
    <3> QED BY <2>1, <2>2, <3>1, <3>2
  <2>3. ASSUME UNCHANGED control, workerPc' = "closing", claimedForTurn' = NoMessage
        PROVE  OneInHand'
    BY <1>1, <2>1, <2>3
  <2> QED BY <1>15, <2>2, <2>3, DrainEffect
<1>16. CASE BeginFinishing
  BY <1>1, <1>16 DEF BeginFinishing, InboxOpen
<1>17. CASE Finish
  BY <1>1, <1>17 DEF Finish, Finished
<1>18. CASE Unlock
  BY <1>1, <1>18 DEF Unlock
<1>19. CASE Crash
  BY <1>1, <1>19 DEF Crash
<1>20. ASSUME NEW c \in Clients, SendAct(c) PROVE OneInHand'
  <2>1. Claimed' = Claimed
    BY <1>20 DEF SendAct, Claimed
  <2>2. UNCHANGED <<workerPc, claimedForTurn, steered, deferred>>
    BY <1>20 DEF SendAct
  <2> QED BY <2>1, <2>2
<1>21. ASSUME NEW c \in Clients, Remove(c) PROVE OneInHand'
  <2>1. Claimed' = {}
    BY <1>21 DEF Remove, Claimed
  <2>2. UNCHANGED <<workerPc, claimedForTurn, steered, deferred>>
    BY <1>21 DEF Remove
  <2>3. workerPc \in {"unborn", "launched", "leased", "unlock", "gone"}
    BY <1>21 DEF Remove, SweepKnows, Working, ClientAt, JobTypes
  <2> QED BY <2>1, <2>2, <2>3
<1>22. CASE UNCHANGED <<control, workerPc, claimedForTurn, steered, deferred>>
  BY <1>1, <1>22
<1> HIDE DEF JobInv, OneInHand
<1> QED BY NextSplits, SessionFrame, ClientFrame, <1>2, <1>3, <1>4, <1>5, <1>6, <1>7, <1>8, <1>9,
       <1>10, <1>11, <1>12, <1>13, <1>14, <1>15, <1>16, <1>17, <1>18, <1>19, <1>20, <1>21, <1>22
  DEF Session, ClientMoves, Launcher, WorkerStep

\* The worker ends well only through BeginFinishing.
LEMMA ExitStep ==
  ASSUME JobInv, Next PROVE ExitIsClean'
<1> USE DEF JobInv, JobTypes, ExitIsClean, NoSpuriousExit, SweepKnows, SweepSparesWorker,
       Working, Exists, Live, Terminal, WorkerAt, WorkerGoes, turnVars, workerVars, jobVars
<1>1. UNCHANGED control => Unresolved' = Unresolved
  BY DEF Unresolved
<1>2. CASE Create
  BY <1>1, <1>2 DEF Create
<1>3. CASE StartWorker
  BY <1>1, <1>3 DEF StartWorker
<1>4. CASE StartFails
  BY <1>1, <1>4 DEF StartFails, Finished
<1>5. CASE GracePasses
  BY <1>1, <1>5 DEF GracePasses
<1>6. CASE AcquireLease
  BY <1>1, <1>6 DEF AcquireLease
<1>7. CASE LeaseStaysBusy
  BY <1>1, <1>7 DEF LeaseStaysBusy
<1>8. CASE MarkRunning
  BY <1>1, <1>8 DEF MarkRunning, Runnable
<1>9. CASE Setup
  BY <1>1, <1>9 DEF Setup
<1>10. CASE TurnStart
  BY <1>1, <1>10 DEF TurnStart
<1>11. CASE Poll
  BY <1>11, PollEffect
<1>12. CASE TurnEnds
  BY <1>1, <1>12 DEF TurnEnds
<1>13. CASE StoreFails
  BY <1>1, <1>13 DEF StoreFails
<1>14. CASE Commit
  BY <1>1, <1>14 DEF Commit
<1>15. CASE Drain
  BY <1>15, DrainEffect
<1>16. CASE BeginFinishing
  BY <1>1, <1>16 DEF BeginFinishing, InboxOpen
<1>17. CASE Finish
  BY <1>1, <1>17 DEF Finish, Finished
<1>18. CASE Unlock
  BY <1>1, <1>18 DEF Unlock
<1>19. CASE Crash
  BY <1>1, <1>19 DEF Crash
<1>20. ASSUME NEW c \in Clients, SendAct(c) PROVE ExitIsClean'
  <2>1. UNCHANGED <<workerPc, exitReason, jobState>> /\ Unresolved \subseteq Unresolved'
    BY <1>20 DEF SendAct, Unresolved
  <2>2. CASE Admits
    BY <2>1, <2>2 DEF Admits
  <2>3. CASE ~Admits
    BY <1>1, <1>20, <2>1, <2>3 DEF SendAct
  <2> QED BY <2>2, <2>3
<1>21. ASSUME NEW c \in Clients, Remove(c) PROVE ExitIsClean'
  <2>1. UNCHANGED <<workerPc, exitReason>>
    BY <1>21 DEF Remove
  <2>2. workerPc \notin {"exit", "reclaim"}
    BY <1>21 DEF Remove, ClientAt
  <2> QED BY <2>1, <2>2
<1>22. ASSUME NEW c \in Clients, ReconcileSettle(c) PROVE ExitIsClean'
  BY <1>1, <1>22 DEF ReconcileSettle, DeadVerdict, ClientGoes, KeepCopy
<1>23. ASSUME NEW c \in Clients, StopAct(c) PROVE ExitIsClean'
  BY <1>1, <1>23 DEF StopAct, ClientGoes, KeepCopy
<1>24. CASE UNCHANGED <<control, workerPc, exitReason, jobState>>
  BY <1>1, <1>24
<1> HIDE DEF JobInv, ExitIsClean
<1> QED BY NextSplits, SessionFrame, ClientFrame, <1>2, <1>3, <1>4, <1>5, <1>6, <1>7, <1>8, <1>9,
       <1>10, <1>11, <1>12, <1>13, <1>14, <1>15, <1>16, <1>17, <1>18, <1>19, <1>20, <1>21, <1>22,
       <1>23, <1>24
  DEF Session, ClientMoves, Launcher, WorkerStep

\* Admission closes on an empty inbox and stays closed.
LEMMA DrainedStep ==
  ASSUME JobInv, Next PROVE FinishedMeansDrained'
<1> USE DEF JobInv, JobTypes, ExitIsClean, FinishedMeansDrained, Unresolved, Exists, Live,
       Terminal, Message, NoMessage, OneInHand, Claimed, WorkerAt, WorkerGoes, turnVars,
       workerVars, jobVars
<1>1. CASE Create
  BY <1>1 DEF Create
<1>2. CASE StartWorker
  BY <1>2 DEF StartWorker
<1>3. CASE StartFails
  BY <1>3 DEF StartFails, Finished
<1>4. CASE GracePasses
  BY <1>4 DEF GracePasses
<1>5. CASE AcquireLease
  BY <1>5 DEF AcquireLease
<1>6. CASE LeaseStaysBusy
  BY <1>6 DEF LeaseStaysBusy
<1>7. CASE MarkRunning
  BY <1>7 DEF MarkRunning, Runnable
<1>8. CASE Setup
  BY <1>8 DEF Setup
<1>9. CASE TurnStart
  BY <1>9 DEF TurnStart
<1>10. CASE Poll
  BY <1>10 DEF Poll, MayPoll, ClaimNextControl, Oldest
<1>11. CASE TurnEnds
  BY <1>11 DEF TurnEnds
<1>12. CASE StoreFails
  BY <1>12 DEF StoreFails
<1>13. CASE Commit
  BY <1>13 DEF Commit
<1>14. CASE Drain
  BY <1>14 DEF Drain, ClaimNextControl, Oldest
<1>15. CASE BeginFinishing
  BY <1>15 DEF BeginFinishing, InboxOpen
<1>16. CASE Finish
  BY <1>16 DEF Finish, Finished
<1>17. CASE Unlock
  BY <1>17 DEF Unlock
<1>18. CASE Crash
  BY <1>18 DEF Crash
<1>19. ASSUME NEW c \in Clients, SendAct(c) PROVE FinishedMeansDrained'
  BY <1>19 DEF SendAct, Admits
<1>20. ASSUME NEW c \in Clients, Remove(c) PROVE FinishedMeansDrained'
  BY <1>20 DEF Remove
<1>21. ASSUME NEW c \in Clients, ReconcileSettle(c) PROVE FinishedMeansDrained'
  BY <1>21 DEF ReconcileSettle, DeadVerdict, ClientGoes, KeepCopy
<1>22. ASSUME NEW c \in Clients, StopAct(c) PROVE FinishedMeansDrained'
  BY <1>22 DEF StopAct, ClientGoes, KeepCopy
<1>23. CASE UNCHANGED <<control, jobState>>
  BY <1>23
<1> HIDE DEF JobInv, FinishedMeansDrained
<1> QED BY NextSplits, SessionFrame, ClientFrame, <1>1, <1>2, <1>3, <1>4, <1>5, <1>6, <1>7, <1>8,
       <1>9, <1>10, <1>11, <1>12, <1>13, <1>14, <1>15, <1>16, <1>17, <1>18, <1>19, <1>20, <1>21,
       <1>22, <1>23
  DEF Session, ClientMoves, Launcher, WorkerStep

\* A message is handed over when it is steered or its turn starts, once.
LEMMA HandedStep ==
  ASSUME JobInv, Next PROVE HandedOnce'
<1> USE DEF JobInv, JobTypes, OneInHand, HandedOnce, NeverReplayed, WorkerAt, WorkerGoes,
       turnVars, workerVars, jobVars
<1>1. NoMessage \notin Message
  BY DEF Message, NoMessage
<1>2. CASE Create
  BY <1>1, <1>2 DEF Create
<1>3. CASE StartWorker
  BY <1>1, <1>3 DEF StartWorker
<1>4. CASE StartFails
  BY <1>1, <1>4 DEF StartFails, Finished
<1>5. CASE GracePasses
  BY <1>1, <1>5 DEF GracePasses
<1>6. CASE AcquireLease
  BY <1>1, <1>6 DEF AcquireLease
<1>7. CASE LeaseStaysBusy
  BY <1>1, <1>7 DEF LeaseStaysBusy
<1>8. CASE MarkRunning
  BY <1>1, <1>8 DEF MarkRunning, Runnable
<1>9. CASE Setup
  <2>1. /\ workerPc' \in {"turnStart", "exit"} /\ claimedForTurn = NoMessage
        /\ UNCHANGED <<control, claimedForTurn, steered, deferred, handed>>
    BY <1>9 DEF Setup
  <2> QED BY <1>1, <2>1
<1>10. CASE TurnStart
  <2>1. /\ workerPc = "turnStart" /\ workerPc' = "turn"
        /\ UNCHANGED <<control, claimedForTurn, steered, deferred>>
        /\ steered = NoMessage /\ deferred = NoMessage
    BY <1>10 DEF TurnStart
  <2>2. ASSUME NEW m \in Message
        PROVE  handed'[m] = IF m = claimedForTurn THEN handed[m] + 1 ELSE handed[m]
    BY <1>10 DEF TurnStart
  <2>3. ASSUME NEW m \in Message, m = claimedForTurn
        PROVE  handed[m] = 0 /\ handed'[m] = 1 /\ control[m] = "claimed"
    <3>1. handed[m] = 0
      BY <2>1, <2>3
    <3>2. m \in Claimed
      BY <1>1, <2>1, <2>3
    <3> QED BY <2>2, <2>3, <3>1, <3>2 DEF Claimed
  <2> QED BY <1>1, <2>1, <2>2, <2>3
<1>11. CASE Poll
  <2>1. PICK m \in Message :
          /\ control[m] = "pending" /\ Oldest(m)
          /\ control' = [control EXCEPT ![m] = "claimed"]
          /\ Claimed = {} /\ exitReason' = "none"
          /\ workerPc = "turn" /\ workerPc' = "turn"
          /\ {claimedForTurn, steered, deferred, claimedForTurn'} = {NoMessage}
          /\ \/ /\ steered' = m /\ deferred' = NoMessage
                /\ handed' = [handed EXCEPT ![m] = handed[m] + 1]
             \/ steered' = NoMessage /\ deferred' = m /\ handed' = handed
    BY <1>11, PollEffect
  <2>2. handed[m] = 0
    BY <2>1
  <2>3. m # NoMessage
    BY DEF Message, NoMessage
  <2>4. ASSUME NEW k \in Message
        PROVE  /\ control'[k] = IF k = m THEN "claimed" ELSE control[k]
               /\ handed'[k] = IF k = m /\ steered' = m THEN 1 ELSE handed[k]
    BY <2>1, <2>2, <2>3
  <2>5. \A k \in Message : k # claimedForTurn'
    BY <2>1
  <2> QED BY <2>1, <2>2, <2>4, <2>5
<1>12. CASE TurnEnds
  BY <1>1, <1>12 DEF TurnEnds
<1>13. CASE StoreFails
  BY <1>1, <1>13 DEF StoreFails
<1>14. CASE Commit
  BY <1>1, <1>14 DEF Commit
<1>15. CASE Drain
  <2>1. handed' = handed /\ {steered', deferred'} = {NoMessage}
    BY <1>15, DrainEffect
  <2>2. ASSUME NEW m \in Message, control[m] = "pending",
               control' = [control EXCEPT ![m] = "claimed"],
               workerPc' = "turnStart", claimedForTurn' = m
        PROVE  HandedOnce'
    BY <1>1, <2>1, <2>2
  <2>3. ASSUME UNCHANGED control, workerPc' = "closing", claimedForTurn' = NoMessage
        PROVE  HandedOnce'
    BY <1>1, <2>1, <2>3
  <2> QED BY <1>15, <2>2, <2>3, DrainEffect
<1>16. CASE BeginFinishing
  BY <1>1, <1>16 DEF BeginFinishing, InboxOpen
<1>17. CASE Finish
  BY <1>1, <1>17 DEF Finish, Finished
<1>18. CASE Unlock
  BY <1>1, <1>18 DEF Unlock
<1>19. CASE Crash
  BY <1>1, <1>19 DEF Crash
<1>20. ASSUME NEW c \in Clients, SendAct(c) PROVE HandedOnce'
  BY <1>1, <1>20 DEF SendAct, Admits
<1>21. ASSUME NEW c \in Clients, Remove(c) PROVE HandedOnce'
  BY <1>1, <1>21 DEF Remove
<1>22. CASE UNCHANGED <<control, workerPc, claimedForTurn, steered, deferred, handed>>
  BY <1>1, <1>22
<1> HIDE DEF JobInv, HandedOnce
<1> QED BY NextSplits, SessionFrame, ClientFrame, <1>2, <1>3, <1>4, <1>5, <1>6, <1>7, <1>8, <1>9,
       <1>10, <1>11, <1>12, <1>13, <1>14, <1>15, <1>16, <1>17, <1>18, <1>19, <1>20, <1>21, <1>22
  DEF Session, ClientMoves, Launcher, WorkerStep

\* Only EnqueueControl adds to the inbox, after it has counted.
LEMMA BoundStep ==
  ASSUME JobInv, Next PROVE InboxBounded'
<1>1. IsFiniteSet(Message)
  BY FS_Interval DEF Message
<1>2. IsFiniteSet(Unresolved) /\ Cardinality(Unresolved) \in Nat
  BY <1>1, FS_Subset, FS_CardinalityType DEF Unresolved
<1>3. ASSUME Unresolved' \subseteq Unresolved PROVE InboxBounded'
  <2>1. IsFiniteSet(Unresolved') /\ Cardinality(Unresolved') <= Cardinality(Unresolved)
    BY <1>2, <1>3, FS_Subset
  <2>2. Cardinality(Unresolved') \in Nat
    BY <2>1, FS_CardinalityType
  <2> QED BY <1>2, <2>1, <2>2 DEF JobInv, InboxBounded
<1>4. CASE UNCHANGED control
  BY <1>3, <1>4 DEF Unresolved
<1>5. CASE Poll
  <2>1. \E m \in Message : control[m] = "pending" /\ control' = [control EXCEPT ![m] = "claimed"]
    BY <1>5, PollEffect
  <2> QED BY <1>3, <2>1 DEF Unresolved, JobInv, JobTypes
<1>6. CASE Drain
  <2>1. \/ UNCHANGED control
        \/ \E m \in Message : control[m] = "pending" /\ control' = [control EXCEPT ![m] = "claimed"]
    BY <1>6, DrainEffect
  <2> QED BY <1>3, <2>1 DEF Unresolved, JobInv, JobTypes
<1>7. CASE Commit
  BY <1>3, <1>7 DEF Commit, Unresolved
<1>8. ASSUME NEW c \in Clients, SendAct(c) PROVE InboxBounded'
  <2>1. ASSUME Cardinality(Unresolved) < MaxControls, NEW m \in Message,
               control' = [control EXCEPT ![m] = "pending"]
        PROVE  InboxBounded'
    <3>1. Unresolved' = Unresolved \union {m}
      BY <2>1 DEF Unresolved, JobInv, JobTypes
    <3>2. Cardinality(Unresolved \union {m}) \in {Cardinality(Unresolved), Cardinality(Unresolved) + 1}
      BY <1>2, FS_AddElement
    <3>3. Cardinality(Unresolved \union {m}) \in Nat
      BY <1>2, FS_AddElement, FS_CardinalityType
    <3> QED BY <1>2, <2>1, <3>1, <3>2, <3>3 DEF InboxBounded
  <2> QED BY <1>4, <1>8, <2>1 DEF SendAct, Admits
<1>9. ASSUME NEW c \in Clients, Remove(c) PROVE InboxBounded'
  BY <1>3, <1>9 DEF Remove, Unresolved
<1> QED BY NextSplits, SessionFrame, ClientFrame, <1>4, <1>5, <1>6, <1>7, <1>8, <1>9

\* The invariant holds before the job exists,
LEMMA JobStart == Init => JobInv
<1> SUFFICES ASSUME Init PROVE JobInv
  OBVIOUS
<1>1. JobTypes
  BY DEF Init, JobTypes, NoMessage, Live, Terminal
<1>2. Unresolved = {} /\ Claimed = {}
  BY DEF Init, Unresolved, Claimed
<1>3. InboxBounded
  BY <1>2, FS_EmptySet DEF InboxBounded
<1>4. LeaseExclusive /\ SweepKnows
  BY DEF Init, LeaseExclusive, Leased, SweepKnows, SweepSparesWorker
<1>5. CreatedInOrder /\ DeliveredInOrder
  BY DEF Init, CreatedInOrder, DeliveredInOrder
<1>6. OneInHand
  BY <1>2 DEF Init, OneInHand
<1>7. ExitIsClean /\ FinishedMeansDrained
  BY <1>2 DEF Init, ExitIsClean, NoSpuriousExit, FinishedMeansDrained
<1>8. HandedOnce
  BY DEF Init, HandedOnce, NeverReplayed, Message, NoMessage
<1> QED BY <1>1, <1>3, <1>4, <1>5, <1>6, <1>7, <1>8 DEF JobInv

\* of a step that changes nothing,
LEMMA JobStutter == ASSUME JobInv, UNCHANGED vars PROVE JobInv'
<1> USE DEF vars, jobVars, workerVars, turnVars, clientVars
<1>1. UNCHANGED <<Unresolved, Claimed>>
  BY DEF Unresolved, Claimed
<1>2. JobTypes' /\ InboxBounded' /\ LeaseExclusive'
  BY <1>1 DEF JobInv, JobTypes, InboxBounded, LeaseExclusive
<1>3. SweepKnows' /\ CreatedInOrder' /\ DeliveredInOrder'
  BY DEF JobInv, SweepKnows, SweepSparesWorker, Working, CreatedInOrder, DeliveredInOrder
<1>4. OneInHand' /\ ExitIsClean' /\ FinishedMeansDrained'
  BY <1>1 DEF JobInv, OneInHand, ExitIsClean, NoSpuriousExit, FinishedMeansDrained
<1>5. HandedOnce'
  BY DEF JobInv, HandedOnce, NeverReplayed
<1> QED BY <1>2, <1>3, <1>4, <1>5 DEF JobInv

\* and after every step.
LEMMA JobStep == JobInv /\ [Next]_vars => JobInv'
<1>1. ASSUME JobInv, Next PROVE JobInv'
  BY <1>1, TypeStep, BoundStep, LeaseStep, SweepStep, CreatedStep, DeliveredStep, InHandStep,
     ExitStep, DrainedStep, HandedStep DEF JobInv
<1> QED BY <1>1, JobStutter

-----------------------------------------------------------------------------
(* The theorems                                                            *)

\* The inductive invariant holds throughout.
THEOREM JobInvariant == Spec => []JobInv
BY JobStart, JobStep, PTL DEF Spec

\* The variables keep their types whatever the clients, the worker and the
\* crashes do, and the inbox its limit for any number of concurrent senders.
THEOREM JobTypeCorrect == Spec => []JobTypeOK
<1>1. JobInv => JobTypeOK
  BY DEF JobInv, JobTypeOK
<1> QED BY <1>1, JobInvariant, PTL

\* BeginFinishing: no message accepted by EnqueueControl is left behind a job
\* that finishes or has succeeded.
THEOREM NothingLeftBehind == Spec => []FinishedMeansDrained
<1>1. JobInv => FinishedMeansDrained
  BY DEF JobInv
<1> QED BY <1>1, JobInvariant, PTL

\* ClaimNextControl: messages are claimed and delivered in the order in which
\* they were accepted; none is given to the model twice, and a delivered one was
\* given.
THEOREM InputIsFaithful == Spec => []InputOnceInOrder
<1>1. JobInv => InputOnceInOrder
  BY DEF JobInv, HandedOnce, InputOnceInOrder
<1> QED BY <1>1, JobInvariant, PTL

\* The worker meets neither its own claim nor an empty inbox after the finish
\* race.
THEOREM WorkerNeverConfused == Spec => []NoSpuriousExit
<1>1. JobInv => NoSpuriousExit
  BY DEF JobInv, ExitIsClean
<1> QED BY <1>1, JobInvariant, PTL

\* Sweep never removes the record of a worker at work.
THEOREM SweepIsSafe == Spec => []SweepSparesWorker
<1>1. JobInv => SweepSparesWorker
  BY DEF JobInv, SweepKnows
<1> QED BY <1>1, JobInvariant, PTL

\* Where a worker stands once it, or the launcher in its place, has reported.
ReportedIsOver == jobState \in Reported => workerPc \in {"unlock", "gone"}

\* A step of the worker's side leaves a report alone, and reports once: Finish is
\* the last thing the worker writes, StartFails the last of the launcher.
LEMMA SessionKeepsReport ==
  ASSUME ReportedIsOver, Session
  PROVE  /\ ReportedIsOver'
         /\ jobState \in Terminal => jobState' \in Terminal
         /\ jobState \in Reported => jobState' = jobState
<1> USE DEF Terminal, Live, Reported, ReportedIsOver, jobVars, workerVars, WorkerGoes, WorkerAt
<1>1. CASE Launcher \/ GracePasses
  BY <1>1 DEF Launcher, Create, StartWorker, StartFails, GracePasses, Finished, Exists
<1>2. CASE AcquireLease \/ MarkRunning \/ LeaseStaysBusy \/ Unlock \/ Crash
  BY <1>2 DEF AcquireLease, MarkRunning, Runnable, LeaseStaysBusy, Unlock, Crash
<1>3. CASE Setup \/ TurnStart \/ TurnEnds \/ StoreFails
  BY <1>3 DEF Setup, TurnStart, TurnEnds, StoreFails
<1>4. CASE Poll \/ Commit \/ Drain
  BY <1>4 DEF Poll, Commit, Drain, ClaimNextControl
<1>5. CASE BeginFinishing \/ Finish
  BY <1>5 DEF BeginFinishing, Finish, Finished, Exists
<1> QED BY <1>1, <1>2, <1>3, <1>4, <1>5 DEF Session, WorkerStep

\* A step of a command leaves a report alone too, unless it removes the record, and
\* gives none of its own: Reconcile looks at the record again before it writes.
LEMMA ClientKeepsReport ==
  ASSUME ReportedIsOver, NEW c \in Clients, ClientMoves(c)
  PROVE  /\ ReportedIsOver'
         /\ jobState \in Terminal => jobState' \in Terminal \union {"removed"}
         /\ jobState \in Reported => jobState' \in {jobState, "removed"}
<1> USE DEF Terminal, Live, Reported, ReportedIsOver
<1>1. CASE ReconcileSettle(c) \/ StopAct(c) \/ Remove(c)
  BY <1>1 DEF ReconcileSettle, DeadVerdict, StopAct, Remove, workerVars
<1> QED BY <1>1, ClientFrame DEF workerVars

\* A terminal record stays terminal until it is removed (MarkRunning, MarkStopping,
\* BeginFinishing and Reconcile all refuse it), and the worker's own verdict is the
\* one that stays, however late the update of a Reconcile comes.
THEOREM FinishedForGood == Spec => TerminalStays
<1>1. Init => ReportedIsOver
  BY DEF Init, ReportedIsOver, Reported
<1>2. ReportedIsOver /\ [Next]_vars => ReportedIsOver'
  <2>1. ASSUME ReportedIsOver, UNCHANGED vars PROVE ReportedIsOver'
    BY <2>1 DEF ReportedIsOver, vars, jobVars, workerVars
  <2> QED BY <2>1, SessionKeepsReport, ClientKeepsReport, NextSplits
<1>3. ReportedIsOver /\ [Next]_vars =>
        [/\ jobState \in Terminal => jobState' \in Terminal \union {"removed"}
         /\ jobState \in Reported => jobState' \in {jobState, "removed"}]_vars
  BY SessionKeepsReport, ClientKeepsReport, NextSplits
<1> QED BY <1>1, <1>2, <1>3, PTL DEF Spec, TerminalStays

\* The lease never outlives its holder: Unlock and Crash give the worker's back, the
\* release of a probe and the death of a command the client's.  So a dead worker is
\* seen by the first probe that finds no other probe in progress, the fact on which
\* Reconcile's verdict rests.
THEOREM BusyMeansAlive == Spec => []LeaseHasOwner
<1>1. JobInv => LeaseHasOwner
  <2> SUFFICES ASSUME JobInv, lease # "free" PROVE LeaseHasOwner
    BY DEF LeaseHasOwner
  <2>1. CASE lease = "worker"
    BY <2>1 DEF JobInv, LeaseExclusive, Leased, LeaseHasOwner
  <2>2. CASE lease \in Clients
    BY <2>2 DEF JobInv, LeaseExclusive, LeaseHasOwner
  <2> QED BY <2>1, <2>2 DEF JobInv, JobTypes
<1> QED BY <1>1, JobInvariant, PTL

\* A session step neither takes the signal back nor revives a dead worker, and
\* none of them writes "stopping".
LEMMA SessionKeepsStop ==
  ASSUME Session PROVE /\ jobState' = "stopping" => jobState = "stopping"
                       /\ UNCHANGED signalled
                       /\ workerPc = "gone" => workerPc' = "gone"
<1> USE DEF Terminal, Live, jobVars, WorkerGoes, WorkerAt
<1>1. CASE Launcher \/ GracePasses
  BY <1>1 DEF Launcher, Create, StartWorker, StartFails, GracePasses, Finished, workerVars
<1>2. CASE AcquireLease \/ MarkRunning \/ LeaseStaysBusy \/ Unlock \/ Crash
  BY <1>2 DEF AcquireLease, MarkRunning, Runnable, LeaseStaysBusy, Unlock, Crash
<1>3. CASE Setup \/ TurnStart \/ TurnEnds \/ StoreFails
  BY <1>3 DEF Setup, TurnStart, TurnEnds, StoreFails
<1>4. CASE Poll \/ Commit \/ Drain
  BY <1>4 DEF Poll, Commit, Drain, ClaimNextControl
<1>5. CASE BeginFinishing \/ Finish
  BY <1>5 DEF BeginFinishing, Finish, Finished
<1> QED BY <1>1, <1>2, <1>3, <1>4, <1>5 DEF Session, WorkerStep

\* A client step keeps a stop on its way: MarkStopping leaves its own command about
\* to send the signal, Kill sends it to whatever worker there is, and no other step
\* of a command that stays alive leaves the point before the signal.
LEMMA ClientKeepsStop ==
  ASSUME JobTypes, StopHeard, NEW c \in Clients, ClientMoves(c),
         ~(ClientAt(c, "kill") /\ Aborts(c))
  PROVE  StopHeard'
<1> USE DEF ClientAt, JobTypes
<1>1. UNCHANGED workerPc
  BY ClientFrame
<1>2. CASE StopAct(c)
  <2>1. CASE jobState \in Live
    <3>1. clientPc'[c] = "kill"
      BY <1>2, <2>1 DEF StopAct, ClientGoes
    <3> QED BY <3>1 DEF StopHeard
  <2>2. CASE jobState \notin Live
    <3>1. jobState' # "stopping"
      BY <1>2, <2>2 DEF StopAct, Live
    <3> QED BY <3>1 DEF StopHeard
  <2> QED BY <2>1, <2>2
<1>3. CASE Kill(c)
  BY <1>3, <1>1 DEF Kill, StopHeard
<1>4. CASE ReconcileSettle(c) \/ Remove(c)
  <2>1. jobState' # "stopping"
    BY <1>4 DEF ReconcileSettle, Remove, DeadVerdict, Terminal
  <2> QED BY <2>1 DEF StopHeard
<1>5. CASE ~(StopAct(c) \/ Kill(c) \/ ReconcileSettle(c) \/ Remove(c))
  <2>1. UNCHANGED jobState
    BY <1>5, ClientFrame
  <2>2. UNCHANGED signalled
    <3> USE DEF workerVars
    <3>1. CASE SendAct(c) \/ Aborts(c) \/ \E cmd \in Commands : Begin(c, cmd)
      BY <3>1 DEF SendAct, Aborts, Begin
    <3>2. CASE ReconcileTerminal(c) \/ ReconcileProbe(c) \/ ReconcileRelease(c) \/ Probe(c)
               \/ ProbeRelease(c)
      BY <3>2 DEF ReconcileTerminal, ReconcileProbe, ReconcileRelease, Probe, ProbeRelease,
                  ProbeBusy, ProbeTakes
    <3>3. CASE GiveUp(c) \/ Continue(c) \/ StopRetry(c) \/ Refused(c)
      BY <3>3 DEF GiveUp, Continue, StopRetry, Refused
    <3> QED BY <1>5, <3>1, <3>2, <3>3 DEF ClientMoves, ClientStep
  <2>3. clientPc[c] # "kill" /\ \A d \in Clients \ {c} : clientPc'[d] = clientPc[d]
    <3> USE DEF ClientGoes, ClientReturns
    <3>1. CASE SendAct(c) \/ Aborts(c) \/ \E cmd \in Commands : Begin(c, cmd)
      BY <3>1 DEF SendAct, Aborts, Begin
    <3>2. CASE ReconcileTerminal(c) \/ ReconcileProbe(c) \/ ReconcileRelease(c) \/ Probe(c)
               \/ ProbeRelease(c)
      BY <3>2 DEF ReconcileTerminal, ReconcileProbe, ReconcileRelease, Probe, ProbeRelease,
                  ProbeBusy, ProbeTakes
    <3>3. CASE GiveUp(c) \/ Continue(c) \/ StopRetry(c) \/ Refused(c)
      BY <3>3 DEF GiveUp, Continue, StopRetry, Refused
    <3> QED BY <1>5, <3>1, <3>2, <3>3 DEF ClientMoves, ClientStep
  <2> QED BY <1>1, <2>1, <2>2, <2>3 DEF StopHeard
<1> QED BY <1>2, <1>3, <1>4, <1>5

\* A stop on the record is lost in one way only, the death of the command between
\* MarkStopping and the signal: neither a second stop nor a concurrent Reconcile nor
\* a worker that is about to finish takes it back.
THEOREM StopReachesWorker == Spec => StopLostOnlyByDeath
<1>1. ASSUME JobInv, Next, StopHeard, ~StopHeard'
      PROVE  \E c \in Clients : ClientAt(c, "kill") /\ Aborts(c)
  <2>1. ~Session
    <3>1. SUFFICES ASSUME Session PROVE StopHeard'
      BY <1>1
    <3> QED BY <1>1, <3>1, SessionKeepsStop, SessionFrame DEF StopHeard, ClientAt, clientVars
  <2>2. PICK c \in Clients : ClientMoves(c)
    BY <1>1, <2>1, NextSplits
  <2> QED BY <1>1, <2>2, ClientKeepsStop DEF JobInv
<1>2. JobInv /\ [Next]_vars =>
        [StopHeard /\ ~StopHeard' => \E c \in Clients : ClientAt(c, "kill") /\ Aborts(c)]_vars
  BY <1>1
<1> QED BY <1>2, JobInvariant, PTL DEF Spec, StopLostOnlyByDeath
================================================================================
