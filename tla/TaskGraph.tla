------------------------------ MODULE TaskGraph ------------------------------
(***************************************************************************)
(* What the coordinator promises its users, without its queue, channels,   *)
(* loop, lock or goroutines: a growing dependency graph is sealed, tasks   *)
(* run after their dependencies, a failure takes exactly its dependents    *)
(* with it, Wait is released by a terminal graph, and onAllComplete comes  *)
(* last.  Coordinator implements it (ImplementsTaskGraph there).          *)
(***************************************************************************)
EXTENDS Naturals

CONSTANTS Tasks,      \* task names
          Unknown     \* a dependency that names no task

VARIABLES phase,      \* "absent", "waiting", "running", "completed" or "failed"
          needs,      \* the dependencies each task was added with
          sealed,     \* Start has been called
          told,       \* tasks whose onTaskComplete has been invoked
          released,   \* Wait returns
          finished    \* onAllComplete has been invoked

gvars == <<phase, needs, sealed, told, released, finished>>

Ended == {t \in Tasks : phase[t] \in {"completed", "failed"}}
Present == {t \in Tasks : phase[t] # "absent"}
Failed(ph) == {Unknown} \union {t \in Tasks : ph[t] = "failed"}
Satisfied(t) == \A d \in needs[t] : d \in Tasks /\ phase[d] = "completed"
AllEnded == \A t \in Present : t \in Ended

GInit ==
  /\ phase = [t \in Tasks |-> "absent"]
  /\ needs = [t \in Tasks |-> {}]
  /\ sealed = FALSE
  /\ told = {}
  /\ released = FALSE
  /\ finished = FALSE

\* A task may only depend on tasks added before it; it fails at once when a
\* dependency is unknown or has failed.
GAdd(t, D) ==
  /\ ~sealed
  /\ phase[t] = "absent"
  /\ D \subseteq Present \union {Unknown}
  /\ needs' = [needs EXCEPT ![t] = D]
  /\ phase' = [phase EXCEPT ![t] = IF D \intersect Failed(phase) = {} THEN "waiting" ELSE "failed"]
  /\ UNCHANGED <<sealed, told, released, finished>>

GSeal ==
  /\ ~sealed
  /\ sealed' = TRUE
  /\ UNCHANGED <<phase, needs, told, released, finished>>

GLaunch(t) ==
  /\ sealed
  /\ phase[t] = "waiting" /\ Satisfied(t)
  /\ phase' = [phase EXCEPT ![t] = "running"]
  /\ UNCHANGED <<needs, sealed, told, released, finished>>

GSucceed(t) ==
  /\ phase[t] = "running"
  /\ phase' = [phase EXCEPT ![t] = "completed"]
  /\ UNCHANGED <<needs, sealed, told, released, finished>>

\* t fails (in its run, before it, or by cancellation) and takes the tasks S
\* with it: waiting tasks that need t or one another, and all of them.
GFail(t, S) ==
  /\ phase[t] \in {"waiting", "running"}
  /\ \A u \in S : phase[u] = "waiting" /\ needs[u] \intersect (S \union {t}) # {}
  /\ phase' = [u \in Tasks |-> IF u = t \/ u \in S THEN "failed" ELSE phase[u]]
  /\ \A u \in Tasks : phase'[u] = "waiting" => needs[u] \intersect Failed(phase') = {}
  /\ UNCHANGED <<needs, sealed, told, released, finished>>

\* onTaskComplete: once per task, after its end.
GTell(S) ==
  /\ S # {} /\ S \subseteq Ended \ told
  /\ told' = told \union S
  /\ UNCHANGED <<phase, needs, sealed, released, finished>>

GRelease ==
  /\ sealed /\ AllEnded /\ ~released
  /\ released' = TRUE
  /\ UNCHANGED <<phase, needs, sealed, told, finished>>

GFinish ==
  /\ sealed /\ AllEnded /\ told = Present /\ ~finished
  /\ finished' = TRUE
  /\ released' = TRUE
  /\ UNCHANGED <<phase, needs, sealed, told>>

GNext ==
  \/ ~sealed /\ \E t \in Tasks, D \in SUBSET (Tasks \union {Unknown}) : GAdd(t, D)
  \/ \E t \in Tasks :
       \/ GLaunch(t)
       \/ GSucceed(t)
       \/ \E S \in SUBSET (Tasks \ {t}) : GFail(t, S)
  \/ \E S \in SUBSET Tasks : GTell(S)
  \/ GSeal
  \/ GRelease
  \/ GFinish

GSpec == GInit /\ [][GNext]_gvars
=============================================================================
