-------------------------- MODULE ShellTasksProofs --------------------------
(***************************************************************************)
(* The safety properties of ShellTasks for any number of tasks and of      *)
(* concurrent users, and any limits of the transcript.                     *)
(*                                                                         *)
(* The inductive invariant ties the state of a process group, of the       *)
(* verdict and of the transcript to the place where run() is: nobody       *)
(* writes once Wait has returned, so a log that is closed without an error *)
(* and was not cut holds every byte.                                       *)
(***************************************************************************)
EXTENDS ShellTasks, TLAPS

Unstarted == {"none", "registered", "refused", "starting", "startFailed"}
InRun == {"starting", "started", "startFailed", "killing", "waiting", "waited"}
WaitOver == {"waited", "closing", "observing", "publishing", "over"}
Closed == {"refused", "observing", "publishing", "over"}

Blank == [mem |-> 0, disk |-> 0, total |-> 0, file |-> FALSE, path |-> FALSE,
          log |-> FALSE, truncated |-> FALSE, diskCut |-> FALSE, fileFailed |-> FALSE]

\* Processes exist only between cmd.Start and cmd.Wait.
GroupFollowsRun(t) ==
  /\ runPc[t] \in Unstarted => leader[t] = "none" /\ child[t] = "none"
  /\ runPc[t] \in WaitOver => leader[t] # "alive" /\ child[t] # "piped"

\* The verdict is open while run() is at work, and final when it closes.
VerdictFollowsRun(t) ==
  /\ runPc[t] = "none" <=> status[t] = "none"
  /\ runPc[t] = "registered" => status[t] = "pending"
  /\ runPc[t] \in InRun => status[t] \in {"running", "cancelled"}
  /\ runPc[t] \in {"closing", "observing", "publishing"} \/ t \in done =>
       status[t] \in Ended /\ (status[t] = "completed" => leader[t] = "ok")

\* Done comes last, the report after it.
DoneFollowsRun(t) ==
  /\ t \in done => runPc[t] = "over"
  /\ runPc[t] = "publishing" \/ t \in done => t \notin Observed \ writeDelta
  /\ told[t] # "none" => t \in done /\ told[t] = status[t]

RunInv ==
  /\ \A t \in Tasks : GroupFollowsRun(t)
  /\ \A t \in Tasks : VerdictFollowsRun(t)
  /\ \A t \in Tasks : DoneFollowsRun(t)

\* What the fields of a transcript say about each other,
Sane(b) ==
  /\ b.mem <= b.total
  /\ ~b.truncated => b.mem = b.total
  /\ b.file => b.path
  /\ b.path /\ ~b.fileFailed /\ ~b.diskCut => b.disk = b.total
  /\ b.path /\ ~b.fileFailed /\ b.diskCut => b.disk = DiskCap /\ b.disk < b.total

\* and about the place where run() is.
OutputFollowsRun(t) ==
  /\ Sane(output[t])
  /\ runPc[t] \in {"none", "registered"} => output[t] = Blank
  /\ runPc[t] \in Closed => ~output[t].file
  /\ output[t].path /\ ~output[t].fileFailed => output[t].file \/ runPc[t] \in Closed
  /\ output[t].path /\ t \in tasks => output[t].log

OutputInv == \A t \in Tasks : OutputFollowsRun(t)

\* Somebody is still going to kill the group of t.
KillComes(t) ==
  \/ runPc[t] \in {"started", "killing"}
  \/ \E c \in Cancellers : cancel[c].task = t /\ cancel[c].pc # "idle" /\ cancel[c].started

\* A cancelled group is dead or about to be killed: Cancel and run() agree under
\* the lock which of them has to do it.
CancelReachesGroup == \A t \in Tasks : status[t] = "cancelled" => Gone(t) \/ KillComes(t)

\* processStarted is known from Publish on.
StartedFollowsRun ==
  \A t \in Tasks :
     /\ runPc[t] \in {"none", "registered"} => ~processStarted[t]
     /\ status[t] = "running" =>
          /\ runPc[t] \in InRun
          /\ processStarted[t] <=> runPc[t] \notin Unstarted \union {"started"}

ShellInv == ShellTypeOK /\ RunInv /\ OutputInv /\ CancelReachesGroup /\ StartedFollowsRun

-----------------------------------------------------------------------------
(* Transcripts                                                             *)

\* Written keeps a transcript well-formed, counts the bytes, and loses none of
\* them without a trace as long as the log is open or known to be incomplete.
LEMMA WrittenIsSane ==
  ASSUME NEW b \in Transcript, NEW n \in 1 .. 2, NEW ok \in BOOLEAN, NEW part \in 0 .. 1
  PROVE  LET w == Written(b, n, ok, part)
         IN /\ w \in Transcript
            /\ w.path <=> b.path
            /\ w.log <=> b.log
            /\ w.file => b.file
            /\ b.file /\ ~w.fileFailed => w.file
            /\ ~b.file => (w.fileFailed <=> b.fileFailed)
            /\ Sane(b) /\ (b.path /\ ~b.fileFailed => b.file) => Sane(w)
<1> DEFINE d == OnDisk(b, n, ok, part)
<1>1. /\ d \in Transcript
      /\ d.mem = b.mem /\ d.total = b.total /\ d.truncated = b.truncated /\ d.path = b.path /\ d.log = b.log
      /\ d.file => b.file
      /\ b.file /\ ~d.fileFailed => d.file
      /\ ~d.fileFailed => ~b.fileFailed
      /\ b.file /\ ~b.diskCut /\ ~d.fileFailed => d.disk = IF n > DiskCap - b.disk THEN DiskCap ELSE b.disk + n
      /\ b.file /\ ~b.diskCut /\ ~d.fileFailed => (d.diskCut <=> n > DiskCap - b.disk)
      /\ ~b.file \/ b.diskCut => d = b
  <2> DEFINE room == DiskCap - b.disk
             fits == IF n > room THEN room ELSE n
  <2>1. room \in Nat /\ fits \in Nat /\ fits <= room /\ fits <= n
    BY ShellAssumption DEF Transcript
  <2>2. CASE ~b.file \/ b.diskCut
    <3>1. d = b
      BY <2>2 DEF OnDisk
    <3> QED BY <2>2, <3>1 DEF Transcript
  <2>3. CASE b.file /\ ~b.diskCut /\ ~ok
    <3> DEFINE k == b.disk + (IF part < fits THEN part ELSE fits)
    <3>1. d = [b EXCEPT !.disk = k, !.file = FALSE, !.fileFailed = TRUE, !.diskCut = TRUE]
      BY <2>3 DEF OnDisk, FileFailed, Transcript
    <3>2. k \in 0 .. DiskCap
      BY <2>1, ShellAssumption DEF Transcript
    <3> HIDE DEF k
    <3> QED BY <2>3, <3>1, <3>2 DEF Transcript
  <2>4. CASE b.file /\ ~b.diskCut /\ ok
    <3> DEFINE k == b.disk + fits
               cut == n > room
    <3>1. d = [b EXCEPT !.disk = k, !.diskCut = cut]
      BY <2>4 DEF OnDisk, Transcript
    <3>2. k \in 0 .. DiskCap /\ k = IF n > DiskCap - b.disk THEN DiskCap ELSE b.disk + n
      BY <2>1, ShellAssumption DEF Transcript
    <3>3. cut \in BOOLEAN /\ (cut <=> n > DiskCap - b.disk)
      BY <2>1, SMT
    <3> HIDE DEF k, cut
    <3> QED BY <2>4, <3>1, <3>2, <3>3 DEF Transcript
  <2> QED BY <2>2, <2>3, <2>4
<1> DEFINE e == [d EXCEPT !.total = @ + n]
<1> HIDE DEF d
<1>2. /\ e \in Transcript
      /\ e.mem = b.mem /\ e.total = b.total + n /\ e.truncated = b.truncated /\ e.path = b.path /\ e.log = b.log
      /\ e.file = d.file /\ e.disk = d.disk /\ e.diskCut = d.diskCut /\ e.fileFailed = d.fileFailed
  BY <1>1 DEF Transcript
<1> DEFINE w == InMemory(e, n)
<1> HIDE DEF e
<1>3. /\ w \in Transcript
      /\ w.total = e.total /\ w.path = e.path /\ w.log = e.log /\ w.file = e.file /\ w.disk = e.disk
      /\ w.diskCut = e.diskCut /\ w.fileFailed = e.fileFailed
      /\ w.mem <= e.mem + n
      /\ ~w.truncated => ~e.truncated /\ w.mem = e.mem + n
  <2>1. CASE e.truncated
    <3>1. w = e
      BY <2>1 DEF InMemory
    <3> QED BY <1>2, <2>1, <3>1 DEF Transcript
  <2>2. CASE ~e.truncated
    <3> DEFINE room == MemCap - e.mem
               fits == IF n > room THEN room ELSE n
               k == e.mem + fits
               cut == fits < n
    <3>1. w = [e EXCEPT !.mem = k, !.truncated = cut]
      BY <1>2, <2>2 DEF InMemory, Transcript
    <3>2. k \in 0 .. MemCap /\ k <= e.mem + n /\ (~cut => k = e.mem + n)
      BY <1>2, ShellAssumption DEF Transcript
    <3>3. cut \in BOOLEAN
      BY <1>2, SMT DEF Transcript
    <3> HIDE DEF k, cut
    <3> QED BY <1>2, <2>2, <3>1, <3>2, <3>3 DEF Transcript
  <2> QED BY <2>1, <2>2
<1>4. w = Written(b, n, ok, part)
  BY DEF Written, d, e
<1> HIDE DEF w
<1>5. ASSUME Sane(b), b.path /\ ~b.fileFailed => b.file PROVE Sane(w)
  BY <1>1, <1>2, <1>3, <1>5, ShellAssumption DEF Sane, Transcript
<1> QED BY <1>1, <1>2, <1>3, <1>4, <1>5

\* The transcript a task starts with: an empty log, or no log and the warning.
LEMMA OpenedIsSane ==
  ASSUME NEW b \in Transcript, NEW logged \in BOOLEAN, Sane(b),
         ~b.file, ~b.path, ~b.fileFailed, ~b.diskCut, b.disk = b.total
  PROVE  LET o == Opened(b, logged)
         IN o \in Transcript /\ Sane(o) /\ (o.path => o.file /\ o.log) /\ ~o.fileFailed
<1>1. CASE logged
  <2>1. Opened(b, logged) = [b EXCEPT !.file = TRUE, !.path = TRUE, !.log = TRUE]
    BY <1>1 DEF Opened
  <2> QED BY <2>1 DEF Transcript, Sane
<1>2. CASE ~logged
  <2>1. Opened(b, logged) = Written(b, 1, TRUE, 0)
    BY <1>2 DEF Opened
  <2> DEFINE w == Written(b, 1, TRUE, 0)
  <2>2. 1 \in 1 .. 2 /\ 0 \in 0 .. 1
    OBVIOUS
  <2>3. w \in Transcript /\ (w.path <=> b.path) /\ (w.fileFailed <=> b.fileFailed) /\ Sane(w)
    BY <2>2, WrittenIsSane, Zenon
  <2> HIDE DEF w
  <2> QED BY <2>1, <2>3 DEF w
<1> QED BY <1>1, <1>2

\* Closing the log changes nothing else.
LEMMA ClosedIsSane ==
  ASSUME NEW b \in Transcript
  PROVE  LET c == [b EXCEPT !.file = FALSE]
         IN /\ c \in Transcript
            /\ ~c.file /\ c.path = b.path /\ c.log = b.log /\ c.fileFailed = b.fileFailed
            /\ Sane(b) => Sane(c)
BY DEF Transcript, Sane

\* Removing the log from disk does not change what was written to it.
LEMMA UnloggedIsSane ==
  ASSUME NEW b \in Transcript
  PROVE  LET c == [b EXCEPT !.log = FALSE]
         IN /\ c \in Transcript
            /\ c.file = b.file /\ c.path = b.path /\ c.fileFailed = b.fileFailed
            /\ Sane(b) => Sane(c)
BY DEF Transcript, Sane

\* A registered task has not written anything.
LEMMA BlankIsSane ==
  /\ Blank \in Transcript /\ Sane(Blank)
  /\ ~Blank.file /\ ~Blank.path /\ ~Blank.fileFailed /\ ~Blank.diskCut /\ Blank.disk = Blank.total
BY ShellAssumption DEF Blank, Transcript, Sane

\* so Start and StartRefused leave a well-formed one.
LEMMA StartOutput ==
  ASSUME ShellInv, NEW t \in Tasks, NEW logged \in BOOLEAN, runPc[t] = "registered"
  PROVE  LET o == Opened(output[t], logged)
         IN o \in Transcript /\ Sane(o) /\ (o.path => o.file /\ o.log) /\ ~o.fileFailed
<1>1. output[t] = Blank
  BY DEF ShellInv, OutputInv, OutputFollowsRun
<1>2. /\ output[t] \in Transcript /\ Sane(output[t])
      /\ ~output[t].file /\ ~output[t].path /\ ~output[t].fileFailed /\ ~output[t].diskCut
      /\ output[t].disk = output[t].total
  BY <1>1, BlankIsSane, Zenon
<1> QED BY <1>2, OpenedIsSane, Zenon

-----------------------------------------------------------------------------
(* Every step keeps the invariant                                          *)

\* The variables keep their types.
LEMMA TypeStep ==
  ASSUME ShellInv, Next PROVE ShellTypeOK'
<1> USE DEF ShellInv, ShellTypeOK, Cancellers, Ended, taskVars, groupVars, exitVars
<1>1. ASSUME NEW t \in Tasks, Register(t) PROVE ShellTypeOK'
  BY <1>1 DEF Register
<1>2. ASSUME NEW t \in Tasks, NEW logged \in BOOLEAN, Start(t, logged) PROVE ShellTypeOK'
  <2> HIDE DEF ShellInv
  <2>1. Opened(output[t], logged) \in Transcript
    BY <1>2, StartOutput, Zenon DEF Start
  <2>2. output' = [output EXCEPT ![t] = Opened(output[t], logged)]
    BY <1>2 DEF Start
  <2> QED BY <1>2, <2>1, <2>2 DEF Start, ShellInv
<1>3. ASSUME NEW t \in Tasks, NEW logged \in BOOLEAN, StartRefused(t, logged) PROVE ShellTypeOK'
  <2> HIDE DEF ShellInv
  <2> DEFINE o == Opened(output[t], logged)
             p == [o EXCEPT !.file = FALSE]
  <2>1. o \in Transcript
    BY <1>3, StartOutput, Zenon DEF StartRefused
  <2>2. output' = [output EXCEPT ![t] = p]
    BY <1>3 DEF StartRefused
  <2> HIDE DEF o
  <2>3. p \in Transcript
    BY <2>1, ClosedIsSane, Zenon
  <2> HIDE DEF p
  <2>4. output' \in [Tasks -> Transcript]
    BY <2>2, <2>3 DEF ShellInv
  <2> QED BY <1>3, <2>4 DEF StartRefused, ShellInv
<1>4. ASSUME NEW t \in Tasks, Unregister(t) PROVE ShellTypeOK'
  BY <1>4 DEF Unregister
<1>5. ASSUME NEW t \in Tasks, CmdStart(t) PROVE ShellTypeOK'
  BY <1>5 DEF CmdStart, RunGoes
<1>6. ASSUME NEW t \in Tasks, CmdStartFails(t) PROVE ShellTypeOK'
  BY <1>6 DEF CmdStartFails, RunGoes
<1>7. ASSUME NEW t \in Tasks, RecordStartFailure(t) PROVE ShellTypeOK'
  BY <1>7 DEF RecordStartFailure, Settle, Verdict, RunGoes
<1>8. ASSUME NEW t \in Tasks, Publish(t) PROVE ShellTypeOK'
  BY <1>8 DEF Publish, AfterPublish, RunGoes
<1>9. ASSUME NEW t \in Tasks, RunKills(t) PROVE ShellTypeOK'
  BY <1>9 DEF RunKills, KillGroup, RunGoes
<1>10. ASSUME NEW t \in Tasks, CmdWait(t) PROVE ShellTypeOK'
  BY <1>10 DEF CmdWait, RunGoes
<1>11. ASSUME NEW t \in Tasks, RecordEnd(t) PROVE ShellTypeOK'
  BY <1>11 DEF RecordEnd, Settle, Verdict, RunGoes
<1>12. ASSUME NEW t \in Tasks, CloseOutput(t) PROVE ShellTypeOK'
  <2> DEFINE p == [output[t] EXCEPT !.file = FALSE]
  <2>1. p \in Transcript
    BY ClosedIsSane
  <2>2. output' = [output EXCEPT ![t] = p]
    BY <1>12 DEF CloseOutput
  <2> HIDE DEF p
  <2>3. output' \in [Tasks -> Transcript]
    BY <2>1, <2>2
  <2> QED BY <1>12, <2>3 DEF CloseOutput, RunGoes
<1>13. ASSUME NEW t \in Tasks, KeepDelta(t) PROVE ShellTypeOK'
  BY <1>13 DEF KeepDelta, RunGoes
<1>14. ASSUME NEW t \in Tasks, PublishDone(t) PROVE ShellTypeOK'
  BY <1>14 DEF PublishDone, DoneReady
<1>15. ASSUME NEW t \in Tasks, Notify(t) PROVE ShellTypeOK'
  BY <1>15 DEF Notify, ShownStatus
<1>16. ASSUME NEW t \in Tasks, NEW how \in {"ok", "bad"}, LeaderExits(t, how) PROVE ShellTypeOK'
  BY <1>16 DEF LeaderExits, GroupMoves
<1>17. ASSUME NEW t \in Tasks, NEW how \in {"piped", "quiet"}, Forks(t, how) PROVE ShellTypeOK'
  BY <1>17 DEF Forks, GroupMoves
<1>18. ASSUME NEW t \in Tasks, ChildExits(t) PROVE ShellTypeOK'
  BY <1>18 DEF ChildExits, GroupMoves
<1>19. ASSUME NEW t \in Tasks, WatcherKills(t) PROVE ShellTypeOK'
  BY <1>19 DEF WatcherKills, GroupMoves
<1>20. ASSUME NEW t \in Tasks, NEW n \in 1 .. 2, NEW ok \in BOOLEAN, NEW part \in 0 .. 1,
            Write(t, n, ok, part) PROVE ShellTypeOK'
  <2>1. output[t] \in Transcript
    BY DEF ShellInv, ShellTypeOK
  <2>2. Written(output[t], n, ok, part) \in Transcript
    BY <1>20, <2>1, WrittenIsSane, Zenon
  <2>3. output' = [output EXCEPT ![t] = Written(output[t], n, ok, part)]
    BY <1>20 DEF Write
  <2> QED BY <1>20, <2>2, <2>3 DEF Write, GroupMoves
<1>21. ASSUME NEW c \in Cancellers, CancelContext(c) PROVE ShellTypeOK'
  BY <1>21 DEF CancelContext, CancelGoes, NoCancel
<1>22. ASSUME NEW c \in Cancellers, CancelKills(c) PROVE ShellTypeOK'
  BY <1>22 DEF CancelKills, KillGroup, CancelGoes, NoCancel
<1>23. ASSUME NEW u \in Users, NEW t \in Tasks, Kill(u, t) PROVE ShellTypeOK'
  BY <1>23 DEF Kill, MarkCancelled, CancelGoes
<1>24. ASSUME NEW t \in Tasks, Cleanup(t) PROVE ShellTypeOK'
  <2>1. [output[t] EXCEPT !.log = FALSE] \in Transcript
    BY UnloggedIsSane DEF ShellInv, ShellTypeOK
  <2>2. output' = [output EXCEPT ![t] = [output[t] EXCEPT !.log = FALSE]]
    BY <1>24 DEF Cleanup
  <2> QED BY <1>24, <2>1, <2>2 DEF Cleanup
<1>25. ASSUME CancelAll PROVE ShellTypeOK'
  BY <1>25 DEF CancelAll
<1>26. ASSUME NEW t \in Tasks, CancelNext(t) PROVE ShellTypeOK'
  BY <1>26 DEF CancelNext, MarkCancelled, CancelGoes
<1>27. ASSUME NEW t \in Tasks, CancelSkips(t) PROVE ShellTypeOK'
  BY <1>27 DEF CancelSkips
<1>28. ASSUME WaitAll \/ Exit \/ ExitLate PROVE ShellTypeOK'
  BY <1>28 DEF WaitAll, Exit, ExitLate
<1> HIDE DEF ShellInv, ShellTypeOK, Cancellers, Ended, taskVars, groupVars, exitVars
<1> QED
  BY <1>1, <1>2, <1>3, <1>4, <1>5, <1>6, <1>7, <1>8, <1>9, <1>10, <1>11, <1>12, <1>13, <1>14,
     <1>15, <1>16, <1>17, <1>18, <1>19, <1>20, <1>21, <1>22, <1>23, <1>24, <1>25, <1>26, <1>27, <1>28
  DEF Next, RunStep, StartStep, GroupStep, CancelStep, ShutdownStep

\* Every step keeps group, verdict and report in step with run().
LEMMA RunStepKeeps ==
  ASSUME ShellInv, Next PROVE RunInv'
<1> USE DEF ShellInv, ShellTypeOK, RunInv, GroupFollowsRun, VerdictFollowsRun, DoneFollowsRun,
           Unstarted, InRun, WaitOver, Cancellers, Ended, taskVars, groupVars, exitVars
<1>1. ASSUME NEW t \in Tasks, Register(t) PROVE RunInv'
  BY <1>1 DEF Register
<1>2. ASSUME NEW t \in Tasks, NEW logged \in BOOLEAN, Start(t, logged) PROVE RunInv'
  BY <1>2 DEF Start
<1>3. ASSUME NEW t \in Tasks, NEW logged \in BOOLEAN, StartRefused(t, logged) PROVE RunInv'
  BY <1>3 DEF StartRefused
<1>4. ASSUME NEW t \in Tasks, Unregister(t) PROVE RunInv'
  BY <1>4 DEF Unregister
<1>5. ASSUME NEW t \in Tasks, CmdStart(t) PROVE RunInv'
  BY <1>5 DEF CmdStart, RunGoes
<1>6. ASSUME NEW t \in Tasks, CmdStartFails(t) PROVE RunInv'
  BY <1>6 DEF CmdStartFails, RunGoes
<1>7. ASSUME NEW t \in Tasks, RecordStartFailure(t) PROVE RunInv'
  BY <1>7 DEF RecordStartFailure, Settle, Verdict, RunGoes
<1>8. ASSUME NEW t \in Tasks, Publish(t) PROVE RunInv'
  BY <1>8 DEF Publish, AfterPublish, RunGoes
<1>9. ASSUME NEW t \in Tasks, RunKills(t) PROVE RunInv'
  BY <1>9 DEF RunKills, KillGroup, RunGoes
<1>10. ASSUME NEW t \in Tasks, CmdWait(t) PROVE RunInv'
  BY <1>10 DEF CmdWait, RunGoes
<1>11. ASSUME NEW t \in Tasks, RecordEnd(t) PROVE RunInv'
  BY <1>11 DEF RecordEnd, Settle, Verdict, RunGoes
<1>12. ASSUME NEW t \in Tasks, CloseOutput(t) PROVE RunInv'
  BY <1>12 DEF CloseOutput, RunGoes
<1>13. ASSUME NEW t \in Tasks, KeepDelta(t) PROVE RunInv'
  BY <1>13 DEF KeepDelta, RunGoes
<1>14. ASSUME NEW t \in Tasks, PublishDone(t) PROVE RunInv'
  BY <1>14 DEF PublishDone, DoneReady
<1>15. ASSUME NEW t \in Tasks, Notify(t) PROVE RunInv'
  BY <1>15 DEF Notify, ShownStatus
<1>16. ASSUME NEW t \in Tasks, NEW how \in {"ok", "bad"}, LeaderExits(t, how) PROVE RunInv'
  BY <1>16 DEF LeaderExits, GroupMoves
<1>17. ASSUME NEW t \in Tasks, NEW how \in {"piped", "quiet"}, Forks(t, how) PROVE RunInv'
  BY <1>17 DEF Forks, GroupMoves
<1>18. ASSUME NEW t \in Tasks, ChildExits(t) PROVE RunInv'
  BY <1>18 DEF ChildExits, GroupMoves
<1>19. ASSUME NEW t \in Tasks, WatcherKills(t) PROVE RunInv'
  BY <1>19 DEF WatcherKills, GroupMoves
<1>20. ASSUME NEW t \in Tasks, NEW n \in 1 .. 2, NEW ok \in BOOLEAN, NEW part \in 0 .. 1,
            Write(t, n, ok, part) PROVE RunInv'
  BY <1>20 DEF Write, GroupMoves
<1>21. ASSUME NEW c \in Cancellers, CancelContext(c) PROVE RunInv'
  BY <1>21 DEF CancelContext, CancelGoes, NoCancel
<1>22. ASSUME NEW c \in Cancellers, CancelKills(c) PROVE RunInv'
  BY <1>22 DEF CancelKills, KillGroup, CancelGoes, NoCancel
<1>23. ASSUME NEW u \in Users, NEW t \in Tasks, Kill(u, t) PROVE RunInv'
  BY <1>23 DEF Kill, MarkCancelled, CancelGoes
<1>24. ASSUME NEW t \in Tasks, Cleanup(t) PROVE RunInv'
  BY <1>24 DEF Cleanup
<1>25. ASSUME CancelAll PROVE RunInv'
  BY <1>25 DEF CancelAll
<1>26. ASSUME NEW t \in Tasks, CancelNext(t) PROVE RunInv'
  BY <1>26 DEF CancelNext, MarkCancelled, CancelGoes
<1>27. ASSUME NEW t \in Tasks, CancelSkips(t) PROVE RunInv'
  BY <1>27 DEF CancelSkips
<1>28. ASSUME WaitAll \/ Exit \/ ExitLate PROVE RunInv'
  BY <1>28 DEF WaitAll, Exit, ExitLate
<1> HIDE DEF ShellInv, ShellTypeOK, RunInv, GroupFollowsRun, VerdictFollowsRun, DoneFollowsRun,
           Unstarted, InRun, WaitOver, Cancellers, Ended, taskVars, groupVars, exitVars
<1> QED
  BY <1>1, <1>2, <1>3, <1>4, <1>5, <1>6, <1>7, <1>8, <1>9, <1>10, <1>11, <1>12, <1>13, <1>14,
     <1>15, <1>16, <1>17, <1>18, <1>19, <1>20, <1>21, <1>22, <1>23, <1>24, <1>25, <1>26, <1>27, <1>28
  DEF Next, RunStep, StartStep, GroupStep, CancelStep, ShutdownStep

\* A running task is in run(), and its process is published when it says so.
LEMMA StartedStep ==
  ASSUME ShellInv, Next PROVE StartedFollowsRun'
<1> USE DEF ShellInv, ShellTypeOK, RunInv, VerdictFollowsRun, StartedFollowsRun, Unstarted, InRun,
           Cancellers, Ended, taskVars, groupVars, exitVars
<1>1. ASSUME NEW t \in Tasks, Register(t) PROVE StartedFollowsRun'
  BY <1>1 DEF Register
<1>2. ASSUME NEW t \in Tasks, NEW logged \in BOOLEAN, Start(t, logged) PROVE StartedFollowsRun'
  BY <1>2 DEF Start
<1>3. ASSUME NEW t \in Tasks, NEW logged \in BOOLEAN, StartRefused(t, logged) PROVE StartedFollowsRun'
  BY <1>3 DEF StartRefused
<1>4. ASSUME NEW t \in Tasks, Unregister(t) PROVE StartedFollowsRun'
  BY <1>4 DEF Unregister
<1>5. ASSUME NEW t \in Tasks, CmdStart(t) PROVE StartedFollowsRun'
  BY <1>5 DEF CmdStart, RunGoes
<1>6. ASSUME NEW t \in Tasks, CmdStartFails(t) PROVE StartedFollowsRun'
  BY <1>6 DEF CmdStartFails, RunGoes
<1>7. ASSUME NEW t \in Tasks, RecordStartFailure(t) PROVE StartedFollowsRun'
  BY <1>7 DEF RecordStartFailure, Settle, Verdict, RunGoes
<1>8. ASSUME NEW t \in Tasks, Publish(t) PROVE StartedFollowsRun'
  BY <1>8 DEF Publish, AfterPublish, RunGoes
<1>9. ASSUME NEW t \in Tasks, RunKills(t) PROVE StartedFollowsRun'
  BY <1>9 DEF RunKills, KillGroup, RunGoes
<1>10. ASSUME NEW t \in Tasks, CmdWait(t) PROVE StartedFollowsRun'
  BY <1>10 DEF CmdWait, RunGoes
<1>11. ASSUME NEW t \in Tasks, RecordEnd(t) PROVE StartedFollowsRun'
  BY <1>11 DEF RecordEnd, Settle, Verdict, RunGoes
<1>12. ASSUME NEW t \in Tasks, CloseOutput(t) PROVE StartedFollowsRun'
  BY <1>12 DEF CloseOutput, RunGoes
<1>13. ASSUME NEW t \in Tasks, KeepDelta(t) PROVE StartedFollowsRun'
  BY <1>13 DEF KeepDelta, RunGoes
<1>14. ASSUME NEW t \in Tasks, PublishDone(t) PROVE StartedFollowsRun'
  BY <1>14 DEF PublishDone, DoneReady
<1>15. ASSUME NEW t \in Tasks, Notify(t) PROVE StartedFollowsRun'
  BY <1>15 DEF Notify, ShownStatus
<1>16. ASSUME NEW t \in Tasks, NEW how \in {"ok", "bad"}, LeaderExits(t, how) PROVE StartedFollowsRun'
  BY <1>16 DEF LeaderExits, GroupMoves
<1>17. ASSUME NEW t \in Tasks, NEW how \in {"piped", "quiet"}, Forks(t, how) PROVE StartedFollowsRun'
  BY <1>17 DEF Forks, GroupMoves
<1>18. ASSUME NEW t \in Tasks, ChildExits(t) PROVE StartedFollowsRun'
  BY <1>18 DEF ChildExits, GroupMoves
<1>19. ASSUME NEW t \in Tasks, WatcherKills(t) PROVE StartedFollowsRun'
  BY <1>19 DEF WatcherKills, GroupMoves
<1>20. ASSUME NEW t \in Tasks, NEW n \in 1 .. 2, NEW ok \in BOOLEAN, NEW part \in 0 .. 1,
            Write(t, n, ok, part) PROVE StartedFollowsRun'
  BY <1>20 DEF Write, GroupMoves
<1>21. ASSUME NEW c \in Cancellers, CancelContext(c) PROVE StartedFollowsRun'
  BY <1>21 DEF CancelContext, CancelGoes, NoCancel
<1>22. ASSUME NEW c \in Cancellers, CancelKills(c) PROVE StartedFollowsRun'
  BY <1>22 DEF CancelKills, KillGroup, CancelGoes, NoCancel
<1>23. ASSUME NEW u \in Users, NEW t \in Tasks, Kill(u, t) PROVE StartedFollowsRun'
  BY <1>23 DEF Kill, MarkCancelled, CancelGoes
<1>24. ASSUME NEW t \in Tasks, Cleanup(t) PROVE StartedFollowsRun'
  BY <1>24 DEF Cleanup
<1>25. ASSUME CancelAll PROVE StartedFollowsRun'
  BY <1>25 DEF CancelAll
<1>26. ASSUME NEW t \in Tasks, CancelNext(t) PROVE StartedFollowsRun'
  BY <1>26 DEF CancelNext, MarkCancelled, CancelGoes
<1>27. ASSUME NEW t \in Tasks, CancelSkips(t) PROVE StartedFollowsRun'
  BY <1>27 DEF CancelSkips
<1>28. ASSUME WaitAll \/ Exit \/ ExitLate PROVE StartedFollowsRun'
  BY <1>28 DEF WaitAll, Exit, ExitLate
<1> HIDE DEF ShellInv, ShellTypeOK, RunInv, VerdictFollowsRun, StartedFollowsRun, Unstarted, InRun,
           Cancellers, Ended, taskVars, groupVars, exitVars
<1> QED
  BY <1>1, <1>2, <1>3, <1>4, <1>5, <1>6, <1>7, <1>8, <1>9, <1>10, <1>11, <1>12, <1>13, <1>14,
     <1>15, <1>16, <1>17, <1>18, <1>19, <1>20, <1>21, <1>22, <1>23, <1>24, <1>25, <1>26, <1>27, <1>28
  DEF Next, RunStep, StartStep, GroupStep, CancelStep, ShutdownStep

\* No step leaves the group of a cancelled task without somebody who kills it.
LEMMA ReachStep ==
  ASSUME ShellInv, Next PROVE CancelReachesGroup'
<1> USE DEF ShellInv, ShellTypeOK, RunInv, GroupFollowsRun, VerdictFollowsRun, StartedFollowsRun,
           CancelReachesGroup, KillComes, Gone, Unstarted, InRun, WaitOver, Cancellers, Ended,
           taskVars, groupVars, exitVars
<1>1. ASSUME NEW t \in Tasks, Register(t) PROVE CancelReachesGroup'
  BY <1>1 DEF Register
<1>2. ASSUME NEW t \in Tasks, NEW logged \in BOOLEAN, Start(t, logged) PROVE CancelReachesGroup'
  BY <1>2 DEF Start
<1>3. ASSUME NEW t \in Tasks, NEW logged \in BOOLEAN, StartRefused(t, logged) PROVE CancelReachesGroup'
  BY <1>3 DEF StartRefused
<1>4. ASSUME NEW t \in Tasks, Unregister(t) PROVE CancelReachesGroup'
  BY <1>4 DEF Unregister
<1>5. ASSUME NEW t \in Tasks, CmdStart(t) PROVE CancelReachesGroup'
  BY <1>5 DEF CmdStart, RunGoes
<1>6. ASSUME NEW t \in Tasks, CmdStartFails(t) PROVE CancelReachesGroup'
  BY <1>6 DEF CmdStartFails, RunGoes
<1>7. ASSUME NEW t \in Tasks, RecordStartFailure(t) PROVE CancelReachesGroup'
  BY <1>7 DEF RecordStartFailure, Settle, Verdict, RunGoes
<1>8. ASSUME NEW t \in Tasks, Publish(t) PROVE CancelReachesGroup'
  BY <1>8 DEF Publish, AfterPublish, RunGoes
<1>9. ASSUME NEW t \in Tasks, RunKills(t) PROVE CancelReachesGroup'
  BY <1>9 DEF RunKills, KillGroup, RunGoes
<1>10. ASSUME NEW t \in Tasks, CmdWait(t) PROVE CancelReachesGroup'
  BY <1>10 DEF CmdWait, RunGoes
<1>11. ASSUME NEW t \in Tasks, RecordEnd(t) PROVE CancelReachesGroup'
  BY <1>11 DEF RecordEnd, Settle, Verdict, RunGoes
<1>12. ASSUME NEW t \in Tasks, CloseOutput(t) PROVE CancelReachesGroup'
  BY <1>12 DEF CloseOutput, RunGoes
<1>13. ASSUME NEW t \in Tasks, KeepDelta(t) PROVE CancelReachesGroup'
  BY <1>13 DEF KeepDelta, RunGoes
<1>14. ASSUME NEW t \in Tasks, PublishDone(t) PROVE CancelReachesGroup'
  BY <1>14 DEF PublishDone, DoneReady
<1>15. ASSUME NEW t \in Tasks, Notify(t) PROVE CancelReachesGroup'
  BY <1>15 DEF Notify, ShownStatus
<1>16. ASSUME NEW t \in Tasks, NEW how \in {"ok", "bad"}, LeaderExits(t, how) PROVE CancelReachesGroup'
  BY <1>16 DEF LeaderExits, GroupMoves
<1>17. ASSUME NEW t \in Tasks, NEW how \in {"piped", "quiet"}, Forks(t, how) PROVE CancelReachesGroup'
  BY <1>17 DEF Forks, GroupMoves
<1>18. ASSUME NEW t \in Tasks, ChildExits(t) PROVE CancelReachesGroup'
  BY <1>18 DEF ChildExits, GroupMoves
<1>19. ASSUME NEW t \in Tasks, WatcherKills(t) PROVE CancelReachesGroup'
  BY <1>19 DEF WatcherKills, GroupMoves
<1>20. ASSUME NEW t \in Tasks, NEW n \in 1 .. 2, NEW ok \in BOOLEAN, NEW part \in 0 .. 1,
            Write(t, n, ok, part) PROVE CancelReachesGroup'
  BY <1>20 DEF Write, GroupMoves
<1>21. ASSUME NEW c \in Cancellers, CancelContext(c) PROVE CancelReachesGroup'
  BY <1>21 DEF CancelContext, CancelGoes, NoCancel
<1>22. ASSUME NEW c \in Cancellers, CancelKills(c) PROVE CancelReachesGroup'
  BY <1>22 DEF CancelKills, KillGroup, CancelGoes, NoCancel
<1>23. ASSUME NEW u \in Users, NEW t \in Tasks, Kill(u, t) PROVE CancelReachesGroup'
  BY <1>23 DEF Kill, MarkCancelled, CancelGoes
<1>24. ASSUME NEW t \in Tasks, Cleanup(t) PROVE CancelReachesGroup'
  BY <1>24 DEF Cleanup
<1>25. ASSUME CancelAll PROVE CancelReachesGroup'
  BY <1>25 DEF CancelAll
<1>26. ASSUME NEW t \in Tasks, CancelNext(t) PROVE CancelReachesGroup'
  BY <1>26 DEF CancelNext, MarkCancelled, CancelGoes
<1>27. ASSUME NEW t \in Tasks, CancelSkips(t) PROVE CancelReachesGroup'
  BY <1>27 DEF CancelSkips
<1>28. ASSUME WaitAll \/ Exit \/ ExitLate PROVE CancelReachesGroup'
  BY <1>28 DEF WaitAll, Exit, ExitLate
<1> HIDE DEF ShellInv, ShellTypeOK, RunInv, GroupFollowsRun, VerdictFollowsRun, StartedFollowsRun,
           CancelReachesGroup, KillComes, Gone, Unstarted, InRun, WaitOver, Cancellers, Ended,
           taskVars, groupVars, exitVars
<1> QED
  BY <1>1, <1>2, <1>3, <1>4, <1>5, <1>6, <1>7, <1>8, <1>9, <1>10, <1>11, <1>12, <1>13, <1>14,
     <1>15, <1>16, <1>17, <1>18, <1>19, <1>20, <1>21, <1>22, <1>23, <1>24, <1>25, <1>26, <1>27, <1>28
  DEF Next, RunStep, StartStep, GroupStep, CancelStep, ShutdownStep

\* A transcript is open while somebody may write, and stays well-formed.
LEMMA OutputStep ==
  ASSUME ShellInv, Next PROVE OutputInv'
<1> USE DEF ShellInv, ShellTypeOK, OutputInv, OutputFollowsRun, Closed, Cancellers, taskVars, groupVars, exitVars
<1>1. ASSUME NEW t \in Tasks, Register(t) PROVE OutputInv'
  <2>1. output[t] = Blank
    BY <1>1 DEF Register, RunInv, VerdictFollowsRun
  <2>2. ~output[t].path
    BY <2>1, BlankIsSane
  <2> QED BY <1>1, <2>1, <2>2 DEF Register
<1>2. ASSUME NEW t \in Tasks, NEW logged \in BOOLEAN, Start(t, logged) PROVE OutputInv'
  <2> DEFINE o == Opened(output[t], logged)
  <2> HIDE DEF ShellInv
  <2>1. o \in Transcript /\ Sane(o) /\ (o.path => o.file /\ o.log)
    BY <1>2, StartOutput, Zenon DEF Start
  <2> USE DEF ShellInv
  <2>2. output' = [output EXCEPT ![t] = o]
    BY <1>2 DEF Start
  <2> HIDE DEF o
  <2>3. runPc' = [runPc EXCEPT ![t] = "starting"]
    BY <1>2 DEF Start
  <2>4. tasks' = tasks
    BY <1>2 DEF Start
  <2> QED BY <2>1, <2>2, <2>3, <2>4
<1>3. ASSUME NEW t \in Tasks, NEW logged \in BOOLEAN, StartRefused(t, logged) PROVE OutputInv'
  <2> DEFINE o == Opened(output[t], logged)
             p == [o EXCEPT !.file = FALSE]
  <2> HIDE DEF ShellInv
  <2>1. o \in Transcript /\ Sane(o) /\ (o.path => o.log)
    BY <1>3, StartOutput, Zenon DEF StartRefused
  <2> USE DEF ShellInv
  <2>2. output' = [output EXCEPT ![t] = p]
    BY <1>3 DEF StartRefused
  <2> HIDE DEF o
  <2>3. ~p.file /\ Sane(p) /\ (p.path => p.log)
    BY <2>1, ClosedIsSane, Zenon
  <2> HIDE DEF p
  <2>4. runPc' = [runPc EXCEPT ![t] = "refused"] /\ tasks' = tasks
    BY <1>3 DEF StartRefused
  <2> QED BY <2>2, <2>3, <2>4
<1>4. ASSUME NEW t \in Tasks, Unregister(t) PROVE OutputInv'
  BY <1>4 DEF Unregister
<1>5. ASSUME NEW t \in Tasks, CmdStart(t) PROVE OutputInv'
  BY <1>5 DEF CmdStart, RunGoes
<1>6. ASSUME NEW t \in Tasks, CmdStartFails(t) PROVE OutputInv'
  BY <1>6 DEF CmdStartFails, RunGoes
<1>7. ASSUME NEW t \in Tasks, RecordStartFailure(t) PROVE OutputInv'
  BY <1>7 DEF RecordStartFailure, Settle, Verdict, RunGoes
<1>8. ASSUME NEW t \in Tasks, Publish(t) PROVE OutputInv'
  BY <1>8 DEF Publish, AfterPublish, RunGoes
<1>9. ASSUME NEW t \in Tasks, RunKills(t) PROVE OutputInv'
  BY <1>9 DEF RunKills, KillGroup, RunGoes
<1>10. ASSUME NEW t \in Tasks, CmdWait(t) PROVE OutputInv'
  BY <1>10 DEF CmdWait, RunGoes
<1>11. ASSUME NEW t \in Tasks, RecordEnd(t) PROVE OutputInv'
  BY <1>11 DEF RecordEnd, Settle, Verdict, RunGoes
<1>12. ASSUME NEW t \in Tasks, CloseOutput(t) PROVE OutputInv'
  <2> DEFINE p == [output[t] EXCEPT !.file = FALSE]
  <2>1. output[t] \in Transcript /\ Sane(output[t])
    OBVIOUS
  <2>2. output' = [output EXCEPT ![t] = p]
    BY <1>12 DEF CloseOutput
  <2>3. ~p.file /\ Sane(p) /\ p.path = output[t].path /\ p.log = output[t].log
    BY <2>1, ClosedIsSane, Zenon
  <2> HIDE DEF p
  <2>4. PICK to \in {"observing", "publishing"} : runPc' = [runPc EXCEPT ![t] = to]
    BY <1>12 DEF CloseOutput, RunGoes
  <2>5. tasks' = tasks
    BY <1>12 DEF CloseOutput
  <2> QED BY <2>2, <2>3, <2>4, <2>5
<1>13. ASSUME NEW t \in Tasks, KeepDelta(t) PROVE OutputInv'
  BY <1>13 DEF KeepDelta, RunGoes
<1>14. ASSUME NEW t \in Tasks, PublishDone(t) PROVE OutputInv'
  BY <1>14 DEF PublishDone, DoneReady
<1>15. ASSUME NEW t \in Tasks, Notify(t) PROVE OutputInv'
  BY <1>15 DEF Notify, ShownStatus
<1>16. ASSUME NEW t \in Tasks, NEW how \in {"ok", "bad"}, LeaderExits(t, how) PROVE OutputInv'
  BY <1>16 DEF LeaderExits, GroupMoves
<1>17. ASSUME NEW t \in Tasks, NEW how \in {"piped", "quiet"}, Forks(t, how) PROVE OutputInv'
  BY <1>17 DEF Forks, GroupMoves
<1>18. ASSUME NEW t \in Tasks, ChildExits(t) PROVE OutputInv'
  BY <1>18 DEF ChildExits, GroupMoves
<1>19. ASSUME NEW t \in Tasks, WatcherKills(t) PROVE OutputInv'
  BY <1>19 DEF WatcherKills, GroupMoves
<1>20. ASSUME NEW t \in Tasks, NEW n \in 1 .. 2, NEW ok \in BOOLEAN, NEW part \in 0 .. 1,
            Write(t, n, ok, part) PROVE OutputInv'
  <2> DEFINE w == Written(output[t], n, ok, part)
  <2>1. output[t] \in Transcript /\ Sane(output[t])
    OBVIOUS
  <2>2. runPc[t] \notin Closed \union {"none", "registered"}
    BY <1>20 DEF Write, RunInv, GroupFollowsRun, Unstarted, WaitOver
  <2>3. output[t].path /\ ~output[t].fileFailed => output[t].file
    BY <2>2
  <2>4. /\ Sane(w)
        /\ w.path <=> output[t].path
        /\ w.log <=> output[t].log
        /\ output[t].file /\ ~w.fileFailed => w.file
        /\ ~output[t].file => (w.fileFailed <=> output[t].fileFailed)
    BY <1>20, <2>1, <2>3, WrittenIsSane, Zenon
  <2>5. output' = [output EXCEPT ![t] = w]
    BY <1>20 DEF Write
  <2> HIDE DEF w
  <2>6. runPc' = runPc /\ tasks' = tasks
    BY <1>20 DEF Write, GroupMoves
  <2> QED BY <2>2, <2>3, <2>4, <2>5, <2>6
<1>21. ASSUME NEW c \in Cancellers, CancelContext(c) PROVE OutputInv'
  BY <1>21 DEF CancelContext, CancelGoes, NoCancel
<1>22. ASSUME NEW c \in Cancellers, CancelKills(c) PROVE OutputInv'
  BY <1>22 DEF CancelKills, KillGroup, CancelGoes, NoCancel
<1>23. ASSUME NEW u \in Users, NEW t \in Tasks, Kill(u, t) PROVE OutputInv'
  BY <1>23 DEF Kill, MarkCancelled, CancelGoes
<1>24. ASSUME NEW t \in Tasks, Cleanup(t) PROVE OutputInv'
  <2> DEFINE p == [output[t] EXCEPT !.log = FALSE]
  <2>1. output[t] \in Transcript /\ Sane(output[t])
    OBVIOUS
  <2>2. /\ Sane(p) /\ p.path = output[t].path /\ p.file = output[t].file
        /\ p.fileFailed = output[t].fileFailed
    BY <2>1, UnloggedIsSane, Zenon
  <2>3. output' = [output EXCEPT ![t] = p]
    BY <1>24 DEF Cleanup
  <2> HIDE DEF p
  <2>4. runPc' = runPc /\ tasks' = tasks \ {t}
    BY <1>24 DEF Cleanup
  <2>5. runPc[t] \notin {"none", "registered"}
    BY <1>24 DEF Cleanup, RunInv, VerdictFollowsRun, Ended
  <2> QED BY <2>2, <2>3, <2>4, <2>5
<1>25. ASSUME CancelAll PROVE OutputInv'
  BY <1>25 DEF CancelAll
<1>26. ASSUME NEW t \in Tasks, CancelNext(t) PROVE OutputInv'
  BY <1>26 DEF CancelNext, MarkCancelled, CancelGoes
<1>27. ASSUME NEW t \in Tasks, CancelSkips(t) PROVE OutputInv'
  BY <1>27 DEF CancelSkips
<1>28. ASSUME WaitAll \/ Exit \/ ExitLate PROVE OutputInv'
  BY <1>28 DEF WaitAll, Exit, ExitLate
<1> HIDE DEF ShellInv, ShellTypeOK, OutputInv, OutputFollowsRun, Closed, Cancellers, taskVars, groupVars, exitVars
<1> QED
  BY <1>1, <1>2, <1>3, <1>4, <1>5, <1>6, <1>7, <1>8, <1>9, <1>10, <1>11, <1>12, <1>13, <1>14,
     <1>15, <1>16, <1>17, <1>18, <1>19, <1>20, <1>21, <1>22, <1>23, <1>24, <1>25, <1>26, <1>27, <1>28
  DEF Next, RunStep, StartStep, GroupStep, CancelStep, ShutdownStep

\* Nothing has been started yet.
LEMMA ShellInit == Init => ShellInv
<1> SUFFICES ASSUME Init PROVE ShellInv
  OBVIOUS
<1>1. \A t \in Tasks : output[t] = Blank
  BY DEF Init, Blank
<1>2. output \in [Tasks -> Transcript]
  BY BlankIsSane DEF Init, Blank
<1>3. ShellTypeOK
  BY <1>2 DEF Init, ShellTypeOK, Cancellers, Ended
<1>4. RunInv
  BY DEF Init, RunInv, GroupFollowsRun, VerdictFollowsRun, DoneFollowsRun, Unstarted, InRun,
         WaitOver, Ended
<1>5. OutputInv
  <2> SUFFICES ASSUME NEW t \in Tasks PROVE OutputFollowsRun(t)
    BY DEF OutputInv
  <2> QED BY <1>1, BlankIsSane DEF Init, OutputFollowsRun, Closed
<1>6. CancelReachesGroup /\ StartedFollowsRun
  BY DEF Init, CancelReachesGroup, StartedFollowsRun
<1> QED BY <1>3, <1>4, <1>5, <1>6 DEF ShellInv

\* The invariant is about the variables of the specification only.
LEMMA ShellStutter == ShellInv /\ UNCHANGED vars => ShellInv'
<1> SUFFICES ASSUME ShellInv, UNCHANGED vars PROVE ShellInv'
  OBVIOUS
<1> USE DEF ShellInv, vars, taskVars, groupVars, exitVars
<1>1. ShellTypeOK'
  BY DEF ShellTypeOK
<1>2. RunInv'
  BY DEF RunInv, GroupFollowsRun, VerdictFollowsRun, DoneFollowsRun
<1>3. OutputInv'
  BY DEF OutputInv, OutputFollowsRun
<1>4. CancelReachesGroup'
  BY DEF CancelReachesGroup, KillComes, Gone
<1>5. StartedFollowsRun'
  BY DEF StartedFollowsRun
<1> QED BY <1>1, <1>2, <1>3, <1>4, <1>5

\* The five parts together.
LEMMA ShellStep == ShellInv /\ [Next]_vars => ShellInv'
BY TypeStep, RunStepKeeps, OutputStep, ReachStep, StartedStep, ShellStutter DEF ShellInv

\* The invariant holds in every reachable state.
THEOREM ShellInvariant == Spec => []ShellInv
BY ShellInit, ShellStep, PTL DEF Spec

-----------------------------------------------------------------------------
(* The properties                                                          *)

\* Whoever is told that a task is done finds a dead command, a closed
\* transcript and the final verdict: the deferred end of run() publishes Done
\* last.
THEOREM DoneIsOver == Spec => []DoneMeansOver
<1>1. ShellInv => DoneMeansOver
  <2> SUFFICES ASSUME ShellInv, NEW t \in done
               PROVE  /\ leader[t] # "alive" /\ child[t] # "piped" /\ ~output[t].file
                      /\ status[t] \in Ended
                      /\ status[t] = "completed" => leader[t] = "ok"
                      /\ told[t] \in {"none", status[t]}
    BY DEF DoneMeansOver
  <2>1. t \in Tasks /\ runPc[t] = "over"
    BY DEF ShellInv, ShellTypeOK, RunInv, DoneFollowsRun
  <2> QED BY <2>1 DEF ShellInv, RunInv, GroupFollowsRun, VerdictFollowsRun, DoneFollowsRun,
                      OutputInv, OutputFollowsRun, WaitOver, Closed
<1> QED BY <1>1, ShellInvariant, PTL

\* What String() says of a shortened transcript is true for any limits.
THEOREM NoticesAreHonest == Spec => []NoticeHonest
<1>1. ShellInv => NoticeHonest
  <2> SUFFICES ASSUME ShellInv, NEW t \in Tasks
               PROVE  LET b == output[t]
                      IN /\ Notice(b) = "none" => b.mem = b.total
                         /\ Notice(b) = "full" => b.disk = b.total
                         /\ Notice(b) = "prefix" => b.disk = DiskCap /\ b.disk < b.total
                         /\ Notice(b) \in {"full", "prefix"} => b.mem <= b.disk
                         /\ t \in tasks /\ Notice(b) \notin {"none", "notRetained"} => b.log
    BY DEF NoticeHonest
  <2>1. output[t] \in Transcript /\ Sane(output[t]) /\ (output[t].path /\ t \in tasks => output[t].log)
    BY DEF ShellInv, ShellTypeOK, OutputInv, OutputFollowsRun
  <2> QED BY <2>1, ShellAssumption DEF Notice, Sane, Transcript
<1> QED BY <1>1, ShellInvariant, PTL

\* No step replaces a verdict: run() looks for a cancellation before it records
\* the end, and Cancel refuses a task that is not running.
THEOREM VerdictsStay == Spec => VerdictStays
<1>1. ASSUME ShellInv, Next PROVE \A t \in Tasks : status[t] \in Ended => status'[t] = status[t]
  <2> SUFFICES ASSUME NEW v \in Tasks, status[v] \in Ended PROVE status'[v] = status[v]
    OBVIOUS
  <2> USE DEF Ended, taskVars
  <2>1. /\ status \in [Tasks -> {"none", "pending", "running"} \union Ended]
        /\ runPc[v] \in InRun => status[v] = "cancelled"
        /\ runPc[v] # "registered"
    BY <1>1 DEF ShellInv, ShellTypeOK, RunInv, VerdictFollowsRun
  <2>2. ASSUME NEW t \in Tasks, RunStep(t) PROVE status'[v] = status[v]
    BY <2>1, <2>2 DEF RunStep, CmdStart, CmdStartFails, RecordStartFailure, Publish, RunKills,
                      CmdWait, RecordEnd, Settle, Verdict, RunGoes, CloseOutput, KeepDelta,
                      PublishDone, Notify, InRun
  <2>3. ASSUME NEW t \in Tasks, StartStep(t) PROVE status'[v] = status[v]
    BY <2>1, <2>3 DEF StartStep, Register, Unregister, Start, StartRefused
  <2>4. ASSUME NEW t \in Tasks, GroupStep(t) \/ WatcherKills(t) \/ Cleanup(t)
        PROVE  status'[v] = status[v]
    BY <2>4 DEF GroupStep, LeaderExits, Forks, ChildExits, Write, WatcherKills, Cleanup, GroupMoves
  <2>5. ASSUME NEW u \in Users, NEW t \in Tasks, Kill(u, t) PROVE status'[v] = status[v]
    BY <2>1, <2>5 DEF Kill, MarkCancelled
  <2>6. ASSUME NEW c \in Cancellers, CancelStep(c) PROVE status'[v] = status[v]
    BY <2>6 DEF CancelStep, CancelContext, CancelKills
  <2>7. ASSUME ShutdownStep PROVE status'[v] = status[v]
    BY <2>1, <2>7 DEF ShutdownStep, CancelAll, WaitAll, Exit, ExitLate, CancelNext, CancelSkips,
                      MarkCancelled
  <2> QED BY <1>1, <2>2, <2>3, <2>4, <2>5, <2>6, <2>7 DEF Next
<1>2. ASSUME UNCHANGED vars PROVE \A t \in Tasks : status[t] \in Ended => status'[t] = status[t]
  BY <1>2 DEF vars, taskVars
<1>3. ShellInv /\ [Next]_vars => [\A t \in Tasks : status[t] \in Ended => status'[t] = status[t]]_vars
  BY <1>1, <1>2
<1> QED BY <1>3, ShellInvariant, PTL DEF Spec, VerdictStays

\* The safety part of CancelTakes: the group of a cancelled task is dead, or
\* run() or the canceller itself is still on its way to kill it.
THEOREM CancelIsNeverLost == Spec => []CancelReachesGroup
<1>1. ShellInv => CancelReachesGroup
  BY DEF ShellInv
<1> QED BY <1>1, ShellInvariant, PTL

=============================================================================
