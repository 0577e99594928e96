----------------------------- MODULE ShellTasks -----------------------------
(***************************************************************************)
(* Background shell commands: tasks.Task, its transcript (safeBuffer) and  *)
(* tasks.Manager, as bash, kill_shell, task_output and the shutdown use    *)
(* them (internal/tasks, tools/kill_shell.go, app/signals.go).             *)
(*                                                                         *)
(* A section under t.mu or m.mu is one step; what the code does between    *)
(* two of them (starting the command, cancelling its context, killing the  *)
(* process group, waiting) is a step of its own.  The command is the       *)
(* leader of a process group; one descendant stands for the others, it     *)
(* either holds the output pipe or has redirected its output.  os/exec is  *)
(* external: a cancelled context prevents the start or kills the leader,   *)
(* and Wait returns when the leader is dead and nobody holds the pipe.     *)
(*                                                                         *)
(* The transcript counts bytes only.  Left out: environment and sandbox    *)
(* (but not its refusal), the wording of results, the sweep of old logs.   *)
(***************************************************************************)
EXTENDS Integers

CONSTANTS Tasks,       \* the commands started in this process
          Users,       \* callers of kill_shell, task_output and /tasks
          Observed,    \* those whose writes to the workspace are accounted
          Chatty,      \* those that write output
          MemCap,      \* maxMemoryOutputBytes
          DiskCap,     \* maxTaskDiskOutput less its marker
          MaxTotal     \* bound: no more bytes are written

ASSUME ShellAssumption ==
  /\ "none" \notin Tasks /\ "shutdown" \notin Users
  /\ Observed \subseteq Tasks /\ Chatty \subseteq Tasks
  /\ {MemCap, DiskCap, MaxTotal} \subseteq Nat /\ MemCap <= DiskCap

Cancellers == Users \union {"shutdown"}
Ended == {"completed", "failed", "cancelled"}

VARIABLES
  tasks,        \* Manager.tasks
  status,       \* Task.Status
  runPc,        \* where Start and run() are
  ctxDone,      \* the context of the command is cancelled
  processStarted,
  leader,       \* the command itself
  child,        \* its descendants in the process group
  output,       \* Task.Output; log: its file is on disk
  writeDelta,   \* the tasks whose workspace delta is retained
  done,         \* the tasks whose done channel is closed
  told,         \* what the completion handler reported
  cancel,       \* per canceller, the Cancel() in progress
  exit,         \* the shutdown, up to the end of the process
  doomed        \* the snapshot CancelAll or WaitAll works through

taskVars == <<status, runPc, ctxDone, processStarted, writeDelta, done, told>>
groupVars == <<leader, child>>
exitVars == <<cancel, exit, doomed>>
vars == <<tasks, taskVars, groupVars, output, exitVars>>

NoCancel == [pc |-> "idle", task |-> "none", started |-> FALSE]

Init ==
  /\ tasks = {}
  /\ status = [t \in Tasks |-> "none"]
  /\ runPc = [t \in Tasks |-> "none"]
  /\ ctxDone = [t \in Tasks |-> FALSE]
  /\ processStarted = [t \in Tasks |-> FALSE]
  /\ leader = [t \in Tasks |-> "none"]
  /\ child = [t \in Tasks |-> "none"]
  /\ output = [t \in Tasks |-> [mem |-> 0, disk |-> 0, total |-> 0, file |-> FALSE, path |-> FALSE,
                                log |-> FALSE, truncated |-> FALSE, diskCut |-> FALSE, fileFailed |-> FALSE]]
  /\ writeDelta = {} /\ done = {}
  /\ told = [t \in Tasks |-> "none"]
  /\ cancel = [c \in Cancellers |-> NoCancel]
  /\ exit = "no" /\ doomed = {}

-----------------------------------------------------------------------------
(* The transcript                                                          *)

\* (variant: a failed write leaves no trace)
FileFailedQuietly(b) == [b EXCEPT !.file = FALSE]

\* failFileLocked: the log ends here and is known to be incomplete.
FileFailed(b) == [b EXCEPT !.file = FALSE, !.fileFailed = TRUE, !.diskCut = TRUE]

\* writeDiskLocked: up to the limit, then a marker and nothing more.  With ok
\* false the write fails after the bytes in part.
OnDisk(b, n, ok, part) ==
  LET room == DiskCap - b.disk
      fits == IF n > room THEN room ELSE n
  IN IF ~b.file \/ b.diskCut THEN b
     ELSE IF ~ok THEN FileFailed([b EXCEPT !.disk = @ + (IF part < fits THEN part ELSE fits)])
     ELSE [b EXCEPT !.disk = @ + fits, !.diskCut = n > room]

\* In memory up to its own limit; what does not fit sets truncated for good.
InMemory(b, n) ==
  LET room == MemCap - b.mem
      fits == IF n > room THEN room ELSE n
  IN IF b.truncated THEN b
     ELSE [b EXCEPT !.mem = @ + fits, !.truncated = fits < n]

Written(b, n, ok, part) == InMemory([OnDisk(b, n, ok, part) EXCEPT !.total = @ + n], n)

\* What String() says of the rest of a transcript that is cut in memory.
Notice(b) ==
  IF ~b.truncated THEN "none"
  ELSE IF ~b.path THEN "notRetained"
  ELSE IF b.fileFailed THEN "incomplete"
  ELSE IF b.diskCut THEN "prefix" ELSE "full"

-----------------------------------------------------------------------------
(* Starting                                                                *)

\* StartSandboxedInDir, StartWithArgsInDir: the task is in the map before it
\* is started.
Register(t) ==
  /\ status[t] = "none"
  /\ tasks' = tasks \union {t}
  /\ status' = [status EXCEPT ![t] = "pending"]
  /\ runPc' = [runPc EXCEPT ![t] = "registered"]
  /\ UNCHANGED <<ctxDone, processStarted, writeDelta, done, told, groupVars, output, exitVars>>

\* setTaskOutputFile: without a log the task runs all the same, and says so.
Opened(b, logged) ==
  IF logged THEN [b EXCEPT !.file = TRUE, !.path = TRUE, !.log = TRUE] ELSE Written(b, 1, TRUE, 0)

Start(t, logged) ==
  /\ runPc[t] = "registered"
  /\ output' = [output EXCEPT ![t] = Opened(@, logged)]
  /\ status' = [status EXCEPT ![t] = "running"]
  /\ runPc' = [runPc EXCEPT ![t] = "starting"]
  /\ UNCHANGED <<tasks, ctxDone, processStarted, writeDelta, done, told, groupVars, exitVars>>

\* The sandbox cannot be prepared: the task stays pending, run() never runs.
StartRefused(t, logged) ==
  /\ runPc[t] = "registered"
  /\ ctxDone' = [ctxDone EXCEPT ![t] = TRUE]
  /\ output' = [output EXCEPT ![t] = [Opened(@, logged) EXCEPT !.file = FALSE]]
  /\ runPc' = [runPc EXCEPT ![t] = "refused"]
  /\ UNCHANGED <<tasks, status, processStarted, writeDelta, done, told, groupVars, exitVars>>

Unregister(t) ==
  /\ runPc[t] = "refused"
  /\ tasks' = tasks \ {t}
  /\ runPc' = [runPc EXCEPT ![t] = "over"]
  /\ UNCHANGED <<status, ctxDone, processStarted, writeDelta, done, told, groupVars, output,
                 exitVars>>

-----------------------------------------------------------------------------
(* run()                                                                   *)

RunGoes(t, from, to) == runPc[t] = from /\ runPc' = [runPc EXCEPT ![t] = to]

\* cmd.Start, external: refused when the context is already cancelled.
CmdStart(t) ==
  /\ RunGoes(t, "starting", "started")
  /\ ~ctxDone[t]
  /\ leader' = [leader EXCEPT ![t] = "alive"]
  /\ UNCHANGED <<tasks, status, ctxDone, processStarted, writeDelta, done, told, child, output,
                 exitVars>>

\* It may also fail by itself (no such program, no such directory).
CmdStartFails(t) ==
  /\ RunGoes(t, "starting", "startFailed")
  /\ UNCHANGED <<tasks, status, ctxDone, processStarted, writeDelta, done, told, groupVars, output,
                 exitVars>>

\* (variant: the verdict of the process replaces the one of the user)
VerdictAlways(t, ok) == IF ok THEN "completed" ELSE "failed"

\* A cancelled task keeps its verdict, whatever the process has come to.
Verdict(t, ok) == IF status[t] = "cancelled" THEN "cancelled" ELSE IF ok THEN "completed" ELSE "failed"

Settle(t, from, ok) ==
  /\ RunGoes(t, from, "closing")
  /\ ctxDone' = [ctxDone EXCEPT ![t] = TRUE]
  /\ status' = [status EXCEPT ![t] = Verdict(t, ok)]
  /\ UNCHANGED <<tasks, processStarted, writeDelta, done, told, groupVars, output, exitVars>>

RecordStartFailure(t) == Settle(t, "startFailed", FALSE)

\* (variant: a Cancel that came before the process is forgotten)
AfterPublishUnkilled(t) == "waiting"

\* A Cancel that found no process to kill leaves that to run().
AfterPublish(t) == IF status[t] = "cancelled" THEN "killing" ELSE "waiting"

\* processStarted is published and the cancellation looked up under one lock.
Publish(t) ==
  /\ RunGoes(t, "started", AfterPublish(t))
  /\ processStarted' = [processStarted EXCEPT ![t] = TRUE]
  /\ UNCHANGED <<tasks, status, ctxDone, writeDelta, done, told, groupVars, output, exitVars>>

\* killProcessGroup: SIGKILL to the leader and every descendant in the group.
KillGroup(t) ==
  /\ leader' = [leader EXCEPT ![t] = IF @ = "alive" THEN "bad" ELSE @]
  /\ child' = [child EXCEPT ![t] = "none"]

RunKills(t) ==
  /\ RunGoes(t, "killing", "waiting")
  /\ KillGroup(t)
  /\ UNCHANGED <<tasks, status, ctxDone, processStarted, writeDelta, done, told, output, exitVars>>

\* cmd.Wait, external: the copy of the output ends with the last holder of the
\* pipe.
CmdWait(t) ==
  /\ leader[t] # "alive" /\ child[t] # "piped"
  /\ RunGoes(t, "waiting", "waited")
  /\ UNCHANGED <<tasks, status, ctxDone, processStarted, writeDelta, done, told, groupVars, output,
                 exitVars>>

RecordEnd(t) == Settle(t, "waited", leader[t] = "ok")

\* The deferred end of run(): the sandbox is released and the log closed,
CloseOutput(t) ==
  /\ RunGoes(t, "closing", IF t \in Observed THEN "observing" ELSE "publishing")
  /\ output' = [output EXCEPT ![t].file = FALSE]
  /\ UNCHANGED <<tasks, status, ctxDone, processStarted, writeDelta, done, told, groupVars,
                 exitVars>>

\* the writes of the command are accounted,
KeepDelta(t) ==
  /\ RunGoes(t, "observing", "publishing")
  /\ writeDelta' = writeDelta \union {t}
  /\ UNCHANGED <<tasks, status, ctxDone, processStarted, done, told, groupVars, output, exitVars>>

\* (variant: Done is published first)
DoneDue(t) == runPc[t] \in {"closing", "observing", "publishing"}

\* and only then is Done published.
DoneReady(t) == runPc[t] = "publishing"

PublishDone(t) ==
  /\ DoneReady(t) /\ t \notin done
  /\ done' = done \union {t}
  /\ runPc' = [runPc EXCEPT ![t] = IF @ = "publishing" THEN "over" ELSE @]
  /\ UNCHANGED <<tasks, status, ctxDone, processStarted, writeDelta, told, groupVars, output,
                 exitVars>>

\* GetInfo shows a task as running until its writes are accounted.
ShownStatus(t) == IF t \in Observed \ writeDelta THEN "running" ELSE status[t]

\* monitorTask and the completion handler: the model is told of the end.
Notify(t) ==
  /\ t \in done /\ told[t] = "none"
  /\ told' = [told EXCEPT ![t] = ShownStatus(t)]
  /\ UNCHANGED <<tasks, status, runPc, ctxDone, processStarted, writeDelta, done, groupVars, output,
                 exitVars>>

-----------------------------------------------------------------------------
(* The process group                                                       *)

GroupMoves == UNCHANGED <<tasks, taskVars, exitVars>>

LeaderExits(t, how) ==
  /\ leader[t] = "alive"
  /\ leader' = [leader EXCEPT ![t] = how]
  /\ UNCHANGED <<child, output>> /\ GroupMoves

Forks(t, how) ==
  /\ leader[t] = "alive" /\ child[t] = "none"
  /\ child' = [child EXCEPT ![t] = how]
  /\ UNCHANGED <<leader, output>> /\ GroupMoves

ChildExits(t) ==
  /\ child[t] # "none"
  /\ child' = [child EXCEPT ![t] = "none"]
  /\ UNCHANGED <<leader, output>> /\ GroupMoves

\* exec.CommandContext, external: the watcher kills the leader, and only it.
WatcherKills(t) ==
  /\ ctxDone[t] /\ leader[t] = "alive"
  /\ leader' = [leader EXCEPT ![t] = "bad"]
  /\ UNCHANGED <<child, output>> /\ GroupMoves

\* safeBuffer.Write, by the copying goroutine of os/exec.
Write(t, n, ok, part) ==
  /\ t \in Chatty
  /\ leader[t] = "alive" \/ child[t] = "piped"
  /\ output[t].total + n <= MaxTotal
  /\ ok \/ output[t].file
  /\ output' = [output EXCEPT ![t] = Written(@, n, ok, part)]
  /\ UNCHANGED groupVars /\ GroupMoves

-----------------------------------------------------------------------------
(* Cancelling                                                              *)

CancelGoes(c, to) == cancel' = [cancel EXCEPT ![c] = to]

\* Task.Cancel, under the lock: the verdict, and whether there is a process.
MarkCancelled(c, t) ==
  /\ cancel[c].pc = "idle"
  /\ status[t] = "running"
  /\ status' = [status EXCEPT ![t] = "cancelled"]
  /\ CancelGoes(c, [pc |-> "marked", task |-> t, started |-> processStarted[t]])
  /\ UNCHANGED <<runPc, ctxDone, processStarted, writeDelta, done, told, groupVars, output>>

CancelContext(c) ==
  /\ cancel[c].pc = "marked"
  /\ ctxDone' = [ctxDone EXCEPT ![cancel[c].task] = TRUE]
  /\ CancelGoes(c, IF cancel[c].started THEN [cancel[c] EXCEPT !.pc = "killing"] ELSE NoCancel)
  /\ UNCHANGED <<tasks, status, runPc, processStarted, writeDelta, done, told, groupVars, output,
                 exit, doomed>>

CancelKills(c) ==
  /\ cancel[c].pc = "killing"
  /\ KillGroup(cancel[c].task)
  /\ CancelGoes(c, NoCancel)
  /\ UNCHANGED <<tasks, taskVars, output, exit, doomed>>

\* kill_shell, task_output cancel, /tasks: by ID, so only a task in the map.
Kill(u, t) ==
  /\ t \in tasks
  /\ MarkCancelled(u, t)
  /\ UNCHANGED <<tasks, exit, doomed>>

\* Cleanup, of a task whose verdict is half an hour old.  It does not ask for
\* Done: a cancelled command may still be held up in Wait by its descendants.
\* The log goes with the task.
Cleanup(t) ==
  /\ t \in tasks /\ status[t] \in Ended
  /\ tasks' = tasks \ {t}
  /\ output' = [output EXCEPT ![t].log = FALSE]
  /\ UNCHANGED <<taskVars, groupVars, exitVars>>

-----------------------------------------------------------------------------
(* Shutdown                                                                *)

\* CancelAll looks for the running tasks once
CancelAll ==
  /\ exit = "no"
  /\ exit' = "cancelling"
  /\ doomed' = {t \in tasks : status[t] = "running"}
  /\ UNCHANGED <<tasks, taskVars, groupVars, output, cancel>>

\* and cancels one after the other,
CancelNext(t) ==
  /\ exit = "cancelling" /\ t \in doomed
  /\ MarkCancelled("shutdown", t)
  /\ doomed' = doomed \ {t}
  /\ UNCHANGED <<tasks, exit>>

\* without those that have ended meanwhile.
CancelSkips(t) ==
  /\ exit = "cancelling" /\ t \in doomed
  /\ cancel["shutdown"].pc = "idle" /\ status[t] # "running"
  /\ doomed' = doomed \ {t}
  /\ UNCHANGED <<tasks, taskVars, groupVars, output, cancel, exit>>

\* WaitAll waits for every task that is known now
WaitAll ==
  /\ exit = "cancelling" /\ doomed = {} /\ cancel["shutdown"].pc = "idle"
  /\ exit' = "waiting"
  /\ doomed' = tasks
  /\ UNCHANGED <<tasks, taskVars, groupVars, output, cancel>>

\* and the process ends when all are done,
Exit ==
  /\ exit = "waiting" /\ doomed \subseteq done
  /\ exit' = "exited"
  /\ UNCHANGED <<tasks, taskVars, groupVars, output, cancel, doomed>>

\* or when the time for the shutdown is over.
ExitLate ==
  /\ exit = "waiting" /\ ~(doomed \subseteq done)
  /\ exit' = "timedOut"
  /\ UNCHANGED <<tasks, taskVars, groupVars, output, cancel, doomed>>

-----------------------------------------------------------------------------

RunStep(t) ==
  \/ CmdStart(t) \/ CmdStartFails(t) \/ RecordStartFailure(t)
  \/ Publish(t) \/ RunKills(t) \/ CmdWait(t) \/ RecordEnd(t)
  \/ CloseOutput(t) \/ KeepDelta(t) \/ PublishDone(t) \/ Notify(t)

StartStep(t) ==
  \/ Register(t) \/ Unregister(t)
  \/ \E logged \in BOOLEAN : Start(t, logged) \/ StartRefused(t, logged)

GroupStep(t) ==
  \/ \E how \in {"ok", "bad"} : LeaderExits(t, how)
  \/ \E how \in {"piped", "quiet"} : Forks(t, how)
  \/ ChildExits(t)
  \/ \E n \in 1 .. 2, ok \in BOOLEAN, part \in 0 .. 1 : Write(t, n, ok, part)

CancelStep(c) == CancelContext(c) \/ CancelKills(c)

ShutdownStep ==
  \/ CancelAll \/ WaitAll \/ Exit \/ ExitLate
  \/ \E t \in Tasks : CancelNext(t) \/ CancelSkips(t)

\* The end of the process stops its goroutines; the groups live on.
Up == exit \notin {"exited", "timedOut"}

Next ==
  /\ Up
  /\ \/ \E t \in Tasks : RunStep(t) \/ StartStep(t) \/ GroupStep(t) \/ WatcherKills(t) \/ Cleanup(t)
     \/ \E u \in Users, t \in Tasks : Kill(u, t)
     \/ \E c \in Cancellers : CancelStep(c)
     \/ ShutdownStep

\* Goroutines are scheduled and Wait returns; nothing is promised of the
\* commands, the users or the shutdown.
Fairness ==
  /\ \A t \in Tasks : WF_vars(Up /\ RunStep(t)) /\ WF_vars(Up /\ WatcherKills(t))
  /\ \A c \in Cancellers : WF_vars(Up /\ CancelStep(c))

Spec == Init /\ [][Next]_vars /\ Fairness

-----------------------------------------------------------------------------
(* Properties                                                              *)

Gone(t) == leader[t] # "alive" /\ child[t] = "none"

Transcript ==
  [mem : 0 .. MemCap, disk : 0 .. DiskCap, total : Nat, file : BOOLEAN, path : BOOLEAN,
   log : BOOLEAN, truncated : BOOLEAN, diskCut : BOOLEAN, fileFailed : BOOLEAN]

ShellTypeOK ==
  /\ tasks \subseteq Tasks /\ doomed \subseteq Tasks
  /\ status \in [Tasks -> {"none", "pending", "running"} \union Ended]
  /\ runPc \in [Tasks -> {"none", "registered", "refused", "starting", "started", "startFailed",
                          "killing", "waiting", "waited", "closing", "observing", "publishing",
                          "over"}]
  /\ ctxDone \in [Tasks -> BOOLEAN] /\ processStarted \in [Tasks -> BOOLEAN]
  /\ leader \in [Tasks -> {"none", "alive", "ok", "bad"}]
  /\ child \in [Tasks -> {"none", "piped", "quiet"}]
  /\ output \in [Tasks -> Transcript]
  /\ writeDelta \subseteq Tasks /\ done \subseteq Tasks
  /\ told \in [Tasks -> {"none", "pending", "running"} \union Ended]
  /\ cancel \in [Cancellers -> {NoCancel} \union [pc : {"marked", "killing"}, task : Tasks,
                                                  started : BOOLEAN]]
  /\ exit \in {"no", "cancelling", "waiting", "exited", "timedOut"}

\* Done means over: nobody writes to the transcript any more, it is closed, the
\* verdict is in and follows the process, and the report to the model is the
\* final verdict (a report of a running task would be dropped).
DoneMeansOver ==
  \A t \in done :
     /\ leader[t] # "alive" /\ child[t] # "piped" /\ ~output[t].file
     /\ status[t] \in Ended
     /\ status[t] = "completed" => leader[t] = "ok"
     /\ told[t] \in {"none", status[t]}

\* A verdict is never replaced: a cancelled command that ends well stays
\* cancelled, a finished one cannot be cancelled any more.
VerdictStays ==
  [][\A t \in Tasks : status[t] \in Ended => status'[t] = status[t]]_vars

\* What a shortened transcript says of the rest is true at any moment: without
\* a notice nothing is missing, "full output in" names a log with every byte,
\* and a log is called a prefix only when the limit cut it.  As long as the task
\* can be asked for, the log it names is there.
NoticeHonest ==
  \A t \in Tasks :
     LET b == output[t]
     IN /\ Notice(b) = "none" => b.mem = b.total
        /\ Notice(b) = "full" => b.disk = b.total
        /\ Notice(b) = "prefix" => b.disk = DiskCap /\ b.disk < b.total
        /\ Notice(b) \in {"full", "prefix"} => b.mem <= b.disk
        /\ t \in tasks /\ Notice(b) \notin {"none", "notRetained"} => b.log

\* A cancellation takes, wherever it falls: the whole process group dies, also
\* when the command was only just being started, and the model is told that the
\* task was cancelled.
CancelTakes ==
  \A t \in Tasks :
     (status[t] = "cancelled") ~> ((Gone(t) /\ told[t] = "cancelled") \/ ~Up)

=============================================================================
