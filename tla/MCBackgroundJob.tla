---------------------------- MODULE MCBackgroundJob ----------------------------
(* Small instances of BackgroundJob for TLC.                               *)
EXTENDS BackgroundJob, TLC

CONSTANTS c1, c2

OneClient == {c1}
TwoClients == {c1, c2}
Symmetric == Permutations(Clients)

\* While a stop is pending or the worker of a live job is dead only the listing
\* goes on: commands that probed the lease in lockstep for ever could hide a dead
\* worker from one another, and a stop that dies before it has sent its signal
\* leaves the turn to its own end.
Settling == jobState = "stopping" \/ (jobState \in Live /\ workerPc = "gone")
QuietStop ==
  \/ Internal
  \/ Begin(c1, "agents")
  \/ ~Settling /\ \E c \in Clients : Aborts(c)
  \/ ~Settling /\ \E c \in Clients, cmd \in Commands : Begin(c, cmd)
QuietStopSpec == Init /\ [][QuietStop]_vars /\ Fairness(c1)
=============================================================================
