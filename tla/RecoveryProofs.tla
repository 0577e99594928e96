---------------------------- MODULE RecoveryProofs ----------------------------
(***************************************************************************)
(* The safety properties of Recovery for any number of prompts,            *)
(* generations, attempts and places in the FIFO, whatever becomes of every *)
(* save.  The heart of it is that a claim has one holder: the retry of a   *)
(* claimed generation is in one place at a time (about to be dispatched,   *)
(* in the FIFO, in the foreground, or waiting for the timer of a retry     *)
(* that could not be saved), and only the holder gives a claim back.  The  *)
(* last part is the budget: a generation that may be claimed has recorded  *)
(* the retries its request has had and its own.                            *)
(***************************************************************************)
EXTENDS Recovery, SelectionProofs

\* A generation that was not written yet is in no file, and none has recorded more
\* attempts than there may be.
FilesInv ==
  /\ \A d \in disk, i \in Ids : i > lastId => d[i] = "none"
  /\ \A i \in Ids, k \in Kinds : gen[i].attempts[k] <= maxAttempts[k]

\* What waits in the FIFO is of the current lineage; only retries have a generation.
QueueInv ==
  /\ \A n \in DOMAIN queue : queue[n].fresh /\ (queue[n].rid # 0 => queue[n].kind = "recovery")
  /\ \A r \in handoff \union local : r.kind = "recovery"

TypeInv == RecoveryTypeOK /\ FilesInv /\ QueueInv

\* At most one claim, in whatever a restart may load.
ClaimedOnce ==
  \A d \in disk : \A i, j \in Ids : d[i] = "claimed" /\ d[j] = "claimed" => i = j

\* A generation's retry in the FIFO q, or among the retries S of the current lineage,
\* and that there is no second one.
Waits(q, i) == \E n \in DOMAIN q : q[n].rid = i
WaitsOnce(q, i) == \A m, n \in DOMAIN q : q[m].rid = i /\ q[n].rid = i => m = n
Carries(S, i) == \E r \in S : r.fresh /\ r.rid = i
CarriesOnce(S, i) == \A r, s \in S : r.fresh /\ s.fresh /\ r.rid = i /\ s.rid = i => r = s

\* The places where the retry of a claimed generation may be.
InTurn(i) ==
  turn.req.rid = i /\ (turn.pc = "running" \/ (turn.pc \in {"claiming", "accepted"} /\ turn.req.fresh))
InQueue(i) == Waits(queue, i)
InHandoff(i) == Carries(handoff, i)
InLocal(i) == Carries(local, i)
Held(i) == InTurn(i) \/ InQueue(i) \/ InHandoff(i) \/ InLocal(i)

\* A generation that is held is claimed on disk, in one place only, and Esc takes
\* none for unstarted that is elsewhere than in the FIFO, about to be dispatched, or
\* on its way from the one turn to the next.
HeldIsClaimed == \A i \in Ids : Held(i) => \A d \in disk : d[i] = "claimed"
Apart(i) ==
  /\ InTurn(i) => /\ ~InQueue(i) /\ ~InHandoff(i) /\ ~InLocal(i)
                  /\ turn.pc = "claiming" \/ i \notin awaiting
  /\ InQueue(i) => ~InHandoff(i) /\ ~InLocal(i) /\ i \notin awaiting
  /\ InHandoff(i) => ~InLocal(i)
  /\ InLocal(i) => i \notin awaiting
HeldOnce ==
  \A i \in Ids :
     Apart(i) /\ CarriesOnce(handoff, i) /\ CarriesOnce(local, i) /\ WaitsOnce(queue, i)

\* A generation whose checkpoints have been used is never scheduled again, and
\* nobody is about to use them once more.
Spent(i) ==
  /\ i <= lastId
  /\ \A d \in disk : d[i] # "scheduled"
  /\ ~InQueue(i) /\ ~InHandoff(i) /\ ~InLocal(i) /\ i \notin awaiting
  /\ InTurn(i) => turn.pc = "running"
SpentStays == \A i \in started \ unsaved : Spent(i)

\* Only Esc and the shutdown close the gate or cancel a turn.
GateInv == gate \/ turn.cancelled => paused \/ shut
-----------------------------------------------------------------------------
(* The FIFO *)

\* t consists of entries of q of these kinds, each once.
Chosen(t, q, kinds) ==
  /\ Len(t) <= Len(q)
  /\ \E f \in [DOMAIN t -> DOMAIN q] :
       /\ \A n \in DOMAIN t : t[n] = q[f[n]] /\ q[f[n]].kind \in kinds
       /\ \A m, n \in DOMAIN t : f[m] = f[n] => m = n

\* What OfKinds returns (dequeuePostCancelUserPending).
LEMMA OfKindsSelects ==
  ASSUME NEW T, NEW q \in Seq(T), NEW kinds
  PROVE  OfKinds(q, kinds) \in Seq(T) /\ Chosen(OfKinds(q, kinds), q, kinds)
<1> DEFINE at == {n \in DOMAIN q : q[n].kind \in kinds}
           t == OfKinds(q, kinds)
<1>1. at \in SUBSET DOMAIN q /\ t = Entries(q, at)
  BY DEF OfKinds
<1>2. \A n \in at : n \in DOMAIN q /\ q[n].kind \in kinds
  OBVIOUS
<1> HIDE DEF at, t
<1>3. t \in Seq(T) /\ Selects(t, q, at)
  BY <1>1, EntriesSelect
<1>4. PICK f \in [DOMAIN t -> at] :
        /\ \A n \in DOMAIN t : t[n] = q[f[n]]
        /\ \A m, n \in DOMAIN t : f[m] = f[n] => m = n
  BY <1>3 DEF Selects
<1>5. f \in [DOMAIN t -> DOMAIN q]
  BY <1>1, <1>4
<1>6. \A n \in DOMAIN t : f[n] \in at
  BY <1>4
<1> QED
  BY <1>2, <1>3, <1>4, <1>5, <1>6 DEF t, Chosen, Selects

-----------------------------------------------------------------------------
(* Requests and turns *)

\* The constants, one by one.
LEMMA Sizes ==
  /\ MaxIds \in Nat /\ MaxUpsets \in Nat /\ MaxTyped \in Nat
  /\ maxPendingQueue \in Nat \ {0} /\ maxPendingRecoveries \in Nat \ {0}
  /\ \A k \in Kinds : maxAttempts[k] \in Nat
  /\ SaveOutcomes \subseteq {"saved", "uncertain", "failed"}
  /\ PersistOutcomes \subseteq {"saved", "uncertain", "failed"}
  /\ ClearCommand \notin Prompts /\ NoPrompt \notin Prompts /\ NoPrompt # ClearCommand
  BY RecoveryAssumption DEF NoPrompt, ClearCommand

AnyPrompt == Prompts \union {NoPrompt, ClearCommand}
Places == {"idle", "claiming", "accepted", "running", "finishing", "handing"}
TurnType == [pc : Places, req : RequestType, cancelled : BOOLEAN]

\* The fields of a turn,
LEMMA TurnFields ==
  ASSUME NEW pc \in Places, NEW r \in RequestType
  PROVE  /\ Turn(pc, r) \in TurnType
         /\ Turn(pc, r).pc = pc /\ Turn(pc, r).req = r /\ Turn(pc, r).cancelled = FALSE
  BY DEF Turn, TurnType, Places

\* of a turn that has no request,
LEMMA NoTurnFields ==
  /\ NoRequest \in RequestType /\ NoRequest.rid = 0
  /\ Idle \in TurnType /\ Idle.pc = "idle" /\ Idle.cancelled = FALSE
  /\ Turn("finishing", NoRequest) \in TurnType
  /\ Turn("finishing", NoRequest).pc = "finishing" /\ Turn("finishing", NoRequest).cancelled = FALSE
  /\ Turn("handing", NoRequest) \in TurnType
  /\ Turn("handing", NoRequest).pc = "handing" /\ Turn("handing", NoRequest).cancelled = FALSE
<1>1. NoRequest \in RequestType /\ NoRequest.rid = 0
  BY Sizes DEF NoRequest, Request, RequestType
<1> QED
  BY <1>1, TurnFields DEF Idle, Places

\* and of what a boundary leaves of them.
LEMMA StaleFields ==
  ASSUME NEW t \in TurnType, NEW c \in BOOLEAN
  PROVE  LET u == [[t EXCEPT !.req.fresh = FALSE] EXCEPT !.cancelled = c]
         IN /\ u \in TurnType
            /\ u.pc = t.pc /\ u.req.rid = t.req.rid /\ u.req.fresh = FALSE /\ u.cancelled = c
<1>1. t.req \in RequestType
  BY DEF TurnType
<1>2. /\ [t.req EXCEPT !.fresh = FALSE] \in RequestType
      /\ [t.req EXCEPT !.fresh = FALSE].rid = t.req.rid
      /\ [t.req EXCEPT !.fresh = FALSE].fresh = FALSE
  BY <1>1 DEF RequestType
<1> DEFINE s == [t.req EXCEPT !.fresh = FALSE]
<1>3. [t EXCEPT !.req.fresh = FALSE] = [t EXCEPT !.req = s]
  BY DEF TurnType
<1> HIDE DEF s
<1>4. s \in RequestType /\ s.rid = t.req.rid /\ s.fresh = FALSE
  BY <1>2 DEF s
<1> QED
  BY <1>3, <1>4 DEF TurnType

\* A boundary leaves nothing that is fresh.
LEMMA StaleSet ==
  ASSUME NEW S
  PROVE  /\ S \subseteq RequestType =>
              /\ Stale(S) \subseteq RequestType
              /\ \A r \in Stale(S) : ~r.fresh /\ \E s \in S : r.kind = s.kind
         /\ S \subseteq [rid : Ids, fresh : BOOLEAN] => Stale(S) \subseteq [rid : Ids, fresh : BOOLEAN]
<1>1. ASSUME NEW r \in RequestType
      PROVE  /\ [r EXCEPT !.fresh = FALSE] \in RequestType /\ ~[r EXCEPT !.fresh = FALSE].fresh
             /\ [r EXCEPT !.fresh = FALSE].kind = r.kind
  BY DEF RequestType
<1>2. ASSUME NEW r \in [rid : Ids, fresh : BOOLEAN]
      PROVE  [r EXCEPT !.fresh = FALSE] \in [rid : Ids, fresh : BOOLEAN]
  OBVIOUS
<1> QED
  BY <1>1, <1>2 DEF Stale

-----------------------------------------------------------------------------
(* Types *)

States == [Ids -> {"none", "scheduled", "claimed"}]
GenType == [prompt : Prompts \union {NoPrompt}, attempts : [Kinds -> Nat]]

\* RecoveryTypeOK in four parts.
FileTypes ==
  /\ mem \in States /\ mem \in disk /\ disk \subseteq States
  /\ gen \in [Ids -> GenType] /\ lastId \in 0 .. MaxIds
  /\ FilesInv
RequestTypes ==
  /\ handoff \subseteq RequestType /\ local \subseteq RequestType
  /\ queue \in Seq(RequestType) /\ Len(queue) <= maxPendingQueue
  /\ turn \in TurnType
  /\ submit \in AnyPrompt
  /\ QueueInv
CountTypes ==
  /\ attempts \in [Prompts -> [Kinds -> Nat]]
  /\ \A p \in Prompts, k \in Kinds : attempts[p][k] <= maxAttempts[k]
  /\ retries \in [Prompts -> Int] /\ upsets \in 0 .. MaxUpsets /\ typed \in 0 .. MaxTyped
SetTypes ==
  /\ timers \subseteq Ids /\ awaiting \subseteq Ids /\ woken \subseteq [rid : Ids, fresh : BOOLEAN]
  /\ started \subseteq Ids /\ unsaved \subseteq Ids /\ told \subseteq Ids
  /\ gate \in BOOLEAN /\ shut \in BOOLEAN /\ paused \in BOOLEAN /\ stranded \in BOOLEAN

\* Together they are the types and the two invariants.
LEMMA TypeParts == TypeInv <=> FileTypes /\ RequestTypes /\ CountTypes /\ SetTypes
  BY DEF TypeInv, RecoveryTypeOK, FileTypes, RequestTypes, CountTypes, SetTypes, States, GenType,
         TurnType, Places, AnyPrompt

Outcome == {"saved", "uncertain", "failed"}

\* What a save makes of memory and file.
LEMMA ApplyEffect ==
  ASSUME mem \in disk, NEW new, NEW o \in Outcome, ApplyAndSave(new, o)
  PROVE  /\ mem' \in disk' /\ disk' \subseteq disk \union {new}
         /\ gen' = gen /\ lastId' = lastId
         /\ o = "failed" => mem' = mem /\ disk' = disk
         /\ o # "failed" => mem' = new
         /\ o = "saved" => disk' = {new}
  BY DEF ApplyAndSave, Contents, Outcome

\* A save of a session of known generations keeps the types.
LEMMA ApplyTypes ==
  ASSUME FileTypes, NEW new \in States, \A i \in Ids : i > lastId => new[i] = "none",
         NEW o \in Outcome, ApplyAndSave(new, o)
  PROVE  FileTypes'
<1>1. /\ mem' \in disk' /\ disk' \subseteq disk \union {new} /\ gen' = gen /\ lastId' = lastId
  BY ApplyEffect DEF FileTypes
<1> QED
  BY <1>1 DEF FileTypes, FilesInv

\* One generation changed in memory.
LEMMA ChangeTypes ==
  ASSUME FileTypes, NEW i \in Ids, mem[i] # "none" , NEW s \in {"none", "scheduled", "claimed"}
  PROVE  /\ [mem EXCEPT ![i] = s] \in States
         /\ \A j \in Ids : j > lastId => [mem EXCEPT ![i] = s][j] = "none"
  BY DEF FileTypes, FilesInv, States

\* A release gives claims back, and nothing else.
LEMMA ReleaseTypes ==
  ASSUME FileTypes, NEW ids, NEW o \in Outcome, Release(ids, o)
  PROVE  FileTypes'
<1>1. Released(ids) \in States /\ \A j \in Ids : j > lastId => Released(ids)[j] = "none"
  BY DEF FileTypes, FilesInv, States, Released
<1>2. CASE UNCHANGED fileVars
  BY <1>2 DEF fileVars, FileTypes, FilesInv
<1>3. CASE ApplyAndSave(Released(ids), o)
  BY <1>1, <1>3, ApplyTypes
<1> QED
  BY <1>2, <1>3 DEF Release

\* The session file.
LEMMA FileTypesStep ==
  ASSUME FileTypes, RequestTypes, CountTypes, SetTypes, [Next]_vars
  PROVE  FileTypes'
<1>0. ASSUME UNCHANGED fileVars
      PROVE  FileTypes'
  BY <1>0 DEF fileVars, FileTypes, FilesInv
<1>1. CASE UNCHANGED vars \/ Accept \/ Shutdown \/ Start
           \/ (\E i \in Ids : TimerWakes(i)) \/ (\E r \in local : LocalFires(r))
           \/ (\E r \in handoff : Dispatch(r)) \/ (\E p \in Prompts : FailForGood(p))
  BY <1>0, <1>1 DEF vars, Accept, Shutdown, Start, TimerWakes, LocalFires, Dispatch, FailForGood
<1>14. CASE Capture \/ PublishPanics \/ HandOver
  BY <1>0, <1>14 DEF Capture, PublishPanics, HandOver
<1>2. CASE Autosave
  BY <1>2 DEF Autosave, FileTypes, FilesInv
<1>3. CASE Restart
  BY <1>3 DEF Restart, FileTypes, FilesInv
<1>4. ASSUME NEW o \in Outcome, NEW i \in Ids, mem[i] # "none", NEW s \in {"none", "scheduled", "claimed"},
             ApplyAndSave([mem EXCEPT ![i] = s], o)
      PROVE  FileTypes'
  BY <1>4, ChangeTypes, ApplyTypes
<1>5. ASSUME NEW o \in Outcome, NEW w \in woken, TimerClaims(w, o)
      PROVE  FileTypes'
  BY <1>0, <1>4, <1>5 DEF TimerClaims, Claimable, Claim, SetTypes
<1>6. ASSUME NEW o \in Outcome, NEW r \in handoff, DispatchRefused(r, o)
      PROVE  FileTypes'
  BY <1>0, <1>6, ReleaseTypes DEF DispatchRefused
<1>7. ASSUME NEW o \in Outcome, NEW p, Submit(p, o)
      PROVE  FileTypes'
  <2>1. ASSUME NEW i \in Repeatable(p, TRUE), Claim(i, o)
        PROVE  FileTypes'
    BY <1>4, <2>1 DEF Repeatable, Match, Pending, InState, Claim, Claimable
  <2> QED
    BY <1>0, <1>7, <2>1 DEF Submit
<1>8. ASSUME NEW o \in Outcome, Esc(o)
      PROVE  FileTypes'
  BY <1>8, ReleaseTypes DEF Esc
<1>9. ASSUME NEW o \in Outcome, GiveUp(o) \/ SetupPanics(o)
      PROVE  FileTypes'
  BY <1>0, <1>9, ReleaseTypes DEF GiveUp, SetupPanics
<1>10. ASSUME NEW o \in Outcome, NEW p \in Prompts, Succeed(p, o)
      PROVE  FileTypes'
  <2>1. turn.req.rid # 0 => turn.req.rid \in Ids
    BY Sizes DEF RequestTypes, TurnType, RequestType, Ids
  <2> QED
    BY <1>0, <1>4, <1>10, <2>1 DEF Succeed
<1>11. ASSUME NEW o \in Outcome, Clear(o)
      PROVE  FileTypes'
  <2>1. [i \in Ids |-> "none"] \in States
    BY DEF States
  <2> QED
    BY <1>11, <2>1, ApplyTypes DEF Clear
<1>12. ASSUME NEW o \in Outcome, Promote(o)
      PROVE  FileTypes'
  <2>1. ASSUME NEW i, Claim(i, o), NEW p, NEW f, i \in Repeatable(p, f)
        PROVE  FileTypes'
    BY <1>4, <2>1 DEF Repeatable, Match, Pending, InState, Claim, Claimable
  <2> QED
    BY <1>0, <1>12, <2>1 DEF Promote
<1>13. ASSUME NEW o \in Outcome, NEW p \in Prompts, NEW k \in Kinds, FailWithRetry(p, k, o)
      PROVE  FileTypes'
  <2> DEFINE rid == turn.req.rid
             id == lastId + 1
             spent == Counted(p, k)
             kept == IF rid = 0 THEN mem ELSE [mem EXCEPT ![rid] = "none"]
             new == [kept EXCEPT ![id] = "scheduled"]
             g == [prompt |-> p, attempts |-> Carried(spent[p], rid)]
  <2>1. CASE UNCHANGED fileVars
    BY <1>0, <2>1
  <2>2. CASE ~UNCHANGED fileVars
    <3>1. /\ lastId' = id /\ gen' = [gen EXCEPT ![id] = g]
          /\ mem' = IF o = "failed" THEN mem ELSE new
          /\ disk' = Contents(new, o)
          /\ lastId < MaxIds /\ attempts[p][k] < maxAttempts[k]
      BY <1>13, <2>2 DEF FailWithRetry
    <3>2. id \in Ids /\ id \in 0 .. MaxIds /\ rid \in 0 .. MaxIds
      BY <3>1, Sizes DEF FileTypes, RequestTypes, TurnType, RequestType, Ids
    <3>3. spent[p] \in [Kinds -> Nat] /\ \A j \in Kinds : spent[p][j] <= maxAttempts[j]
      BY <3>1, Sizes DEF CountTypes, Counted, Forgotten, Kinds
    <3>4. g.prompt = p /\ g.attempts = Carried(spent[p], rid)
      OBVIOUS
    <3>5. Carried(spent[p], rid) \in [Kinds -> Nat] /\ \A j \in Kinds : Carried(spent[p], rid)[j] <= maxAttempts[j]
      <4> HIDE DEF spent
      <4>1. CASE rid = 0
        BY <3>3, <4>1 DEF Carried
      <4>2. CASE rid # 0
        <5>1. rid \in Ids
          BY <3>2, <4>2 DEF Ids
        <5>2. gen[rid].attempts \in [Kinds -> Nat] /\ \A j \in Kinds : gen[rid].attempts[j] <= maxAttempts[j]
          BY <5>1 DEF FileTypes, FilesInv, GenType
        <5> HIDE DEF rid
        <5> QED
          BY <3>3, <4>2, <5>2 DEF Carried
      <4> QED
        BY <4>1, <4>2
    <3>6. g \in GenType
      BY <3>5 DEF GenType
    <3> HIDE DEF g, spent
    <3>7. gen' \in [Ids -> GenType] /\ \A i \in Ids, j \in Kinds : gen'[i].attempts[j] <= maxAttempts[j]
      BY <3>1, <3>2, <3>4, <3>5, <3>6 DEF FileTypes, FilesInv
    <3>8. new \in States /\ \A i \in Ids : i > id => new[i] = "none"
      <4>1. /\ kept \in States
            /\ \A i \in Ids : kept[i] \in {mem[i], "none"}
        BY DEF FileTypes, States
      <4>2. \A i \in Ids : i > id => mem[i] = "none" /\ i # id
        BY <3>2 DEF FileTypes, FilesInv, Ids
      <4> HIDE DEF kept, id
      <4> QED
        BY <4>1, <4>2 DEF States
    <3> HIDE DEF new
    <3>9. mem' \in disk' /\ disk' \subseteq disk \union {new}
      BY <3>1 DEF Contents, FileTypes, Outcome
    <3>10. \A d \in disk', i \in Ids : i > lastId' => d[i] = "none"
      BY <3>1, <3>2, <3>8, <3>9 DEF FileTypes, FilesInv, Ids
    <3> QED
      BY <3>1, <3>2, <3>7, <3>8, <3>9, <3>10 DEF FileTypes, FilesInv
  <2> QED
    BY <2>1, <2>2
<1> QED
  BY <1>1, <1>2, <1>3, <1>5, <1>6, <1>7, <1>8, <1>9, <1>10, <1>11, <1>12, <1>13, <1>14, Sizes
  DEF Next, Foreground, Outcome

\* The FIFO after an entry was added or taken away.
LEMMA QueueTypes ==
  ASSUME RequestTypes
  PROVE  /\ \A r \in RequestType : ~QueueFull /\ r.fresh /\ (r.rid # 0 => r.kind = "recovery") =>
              /\ Append(queue, r) \in Seq(RequestType) /\ Len(Append(queue, r)) <= maxPendingQueue
              /\ \A n \in DOMAIN Append(queue, r) :
                   /\ Append(queue, r)[n].fresh
                   /\ Append(queue, r)[n].rid # 0 => Append(queue, r)[n].kind = "recovery"
         /\ \A kinds : LET t == OfKinds(queue, kinds)
                       IN /\ t \in Seq(RequestType) /\ Len(t) <= maxPendingQueue
                          /\ \A n \in DOMAIN t : t[n].fresh /\ (t[n].rid # 0 => t[n].kind = "recovery")
<1>1. ASSUME NEW r \in RequestType, ~QueueFull, r.fresh, r.rid # 0 => r.kind = "recovery"
      PROVE  /\ Append(queue, r) \in Seq(RequestType) /\ Len(Append(queue, r)) <= maxPendingQueue
             /\ \A n \in DOMAIN Append(queue, r) :
                  /\ Append(queue, r)[n].fresh
                  /\ Append(queue, r)[n].rid # 0 => Append(queue, r)[n].kind = "recovery"
  BY <1>1, Sizes DEF RequestTypes, QueueInv, QueueFull
<1>2. ASSUME NEW kinds
      PROVE  LET t == OfKinds(queue, kinds)
             IN /\ t \in Seq(RequestType) /\ Len(t) <= maxPendingQueue
                /\ \A n \in DOMAIN t : t[n].fresh /\ (t[n].rid # 0 => t[n].kind = "recovery")
  <2> DEFINE t == OfKinds(queue, kinds)
  <2>1. t \in Seq(RequestType) /\ Chosen(t, queue, kinds)
    BY OfKindsSelects DEF RequestTypes
  <2> HIDE DEF t
  <2>2. Len(t) <= maxPendingQueue
    BY <2>1, Sizes DEF RequestTypes, Chosen
  <2>3. \A n \in DOMAIN t : \E m \in DOMAIN queue : t[n] = queue[m]
    BY <2>1 DEF Chosen
  <2> QED
    BY <2>1, <2>2, <2>3 DEF RequestTypes, QueueInv, t
<1> QED
  BY <1>1, <1>2

\* What waits behind a finished turn.
LEMMA WaitingTypes ==
  ASSUME RequestTypes
  PROVE  /\ NextWaiting \in Seq(RequestType) /\ Len(NextWaiting) <= maxPendingQueue
         /\ \A n \in DOMAIN NextWaiting :
              NextWaiting[n].fresh /\ (NextWaiting[n].rid # 0 => NextWaiting[n].kind = "recovery")
         /\ NextWaiting # <<>> =>
              /\ Head(NextWaiting) \in RequestType /\ Head(NextWaiting) = NextWaiting[1]
              /\ 1 \in DOMAIN NextWaiting
              /\ Tail(NextWaiting) \in Seq(RequestType) /\ Len(Tail(NextWaiting)) <= maxPendingQueue
              /\ DOMAIN Tail(NextWaiting) = 1 .. Len(NextWaiting) - 1
              /\ \A n \in DOMAIN Tail(NextWaiting) :
                   n + 1 \in DOMAIN NextWaiting /\ Tail(NextWaiting)[n] = NextWaiting[n + 1]
<1> DEFINE w == NextWaiting
<1>1. /\ w \in Seq(RequestType) /\ Len(w) <= maxPendingQueue
      /\ \A n \in DOMAIN w : w[n].fresh /\ (w[n].rid # 0 => w[n].kind = "recovery")
  <2>1. CASE gate
    BY <2>1, QueueTypes DEF NextWaiting
  <2>2. CASE ~gate
    BY <2>2 DEF NextWaiting, RequestTypes, QueueInv
  <2> QED
    BY <2>1, <2>2
<1> HIDE DEF w
<1>2. w # <<>> => /\ Head(w) \in RequestType /\ Head(w) = w[1] /\ 1 \in DOMAIN w
                  /\ Tail(w) \in Seq(RequestType) /\ Len(Tail(w)) <= maxPendingQueue
                  /\ DOMAIN Tail(w) = 1 .. Len(w) - 1
                  /\ \A n \in DOMAIN Tail(w) : n + 1 \in DOMAIN w /\ Tail(w)[n] = w[n + 1]
  BY <1>1, Sizes
<1> QED
  BY <1>1, <1>2 DEF w

\* The retry of a generation.
LEMMA GenerationFields ==
  ASSUME FileTypes, NEW i \in Ids
  PROVE  /\ Generation(i) \in RequestType
         /\ Generation(i).kind = "recovery" /\ Generation(i).rid = i /\ Generation(i).own = FALSE
         /\ Generation(i).fresh = TRUE
<1>1. gen[i].prompt \in AnyPrompt /\ i \in 0 .. MaxIds
  BY Sizes DEF FileTypes, GenType, AnyPrompt, Ids
<1> QED
  BY <1>1 DEF Generation, Request, RequestType, AnyPrompt

\* Requests in all their places.
LEMMA RequestTypesStep ==
  ASSUME FileTypes, RequestTypes, CountTypes, SetTypes, [Next]_vars
  PROVE  RequestTypes'
<1> DEFINE QueueFine(q) == /\ q \in Seq(RequestType) /\ Len(q) <= maxPendingQueue
                           /\ \A n \in DOMAIN q : q[n].fresh /\ (q[n].rid # 0 => q[n].kind = "recovery")
           Retries == {r \in RequestType : r.kind = "recovery"}
<1>0. QueueFine(queue) /\ QueueFine(<<>>) /\ handoff \subseteq Retries /\ local \subseteq Retries
  BY Sizes DEF RequestTypes, QueueInv
<1>a. ASSUME QueueFine(queue'), turn' \in TurnType, submit' \in AnyPrompt,
             handoff' \subseteq Retries, local' \subseteq Retries
      PROVE  RequestTypes'
  BY <1>a DEF RequestTypes, QueueInv
<1> HIDE DEF QueueFine
<1>b. ASSUME UNCHANGED <<queue, submit>>, turn' \in TurnType,
             handoff' \subseteq Retries, local' \subseteq Retries
      PROVE  RequestTypes'
  BY <1>0, <1>a, <1>b DEF RequestTypes
<1>c. ASSUME UNCHANGED <<queue, submit, turn, handoff, local>>
      PROVE  RequestTypes'
  BY <1>0, <1>b, <1>c DEF RequestTypes
<1>d. ASSUME NEW r \in RequestType, ~QueueFull, r.fresh, r.rid # 0 => r.kind = "recovery"
      PROVE  QueueFine(Append(queue, r))
  BY <1>d, QueueTypes DEF QueueFine
<1>e. /\ turn \in TurnType /\ turn.req \in RequestType
      /\ \A v \in BOOLEAN : [turn EXCEPT !.cancelled = v] \in TurnType
      /\ [turn EXCEPT !.pc = "running"] \in TurnType /\ [turn EXCEPT !.pc = "accepted"] \in TurnType
      /\ \A q \in RequestType : [turn EXCEPT !.req = q] \in TurnType
  BY DEF RequestTypes, TurnType, Places
<1>f. \A i \in Ids : Generation(i) \in Retries
  BY GenerationFields
<1>g. Stale(handoff) \subseteq Retries /\ Stale(local) \subseteq Retries
  BY <1>0, StaleSet
<1>h. ASSUME NEW p, NEW f
      PROVE  Repeatable(p, f) \subseteq Ids
  BY DEF Repeatable, Match, Pending, InState
<1>i. \A r \in RequestType : Turn("accepted", r) \in TurnType /\ Turn("claiming", r) \in TurnType
  BY TurnFields DEF Places
<1>1. CASE UNCHANGED vars \/ Autosave \/ \E i \in Ids : TimerWakes(i)
  BY <1>1, <1>c DEF vars, Autosave, TimerWakes, frontVars, timerVars
<1>2. CASE Accept
  <2>1. ASSUME NEW kind \in {"user", "explicit"}
        PROVE  /\ Request(kind, submit, 0, FALSE) \in RequestType
               /\ Request(kind, submit, 0, FALSE).fresh /\ Request(kind, submit, 0, FALSE).rid = 0
    <3>1. 0 \in 0 .. MaxIds /\ submit \in AnyPrompt
      BY Sizes DEF RequestTypes
    <3> QED
      BY <3>1 DEF Request, RequestType, AnyPrompt
  <2>2. turn' \in TurnType
    BY <1>2, <1>e, <1>i, <2>1 DEF Accept
  <2>3. QueueFine(queue')
    BY <1>0, <1>2, <1>d, <2>1 DEF Accept
  <2>4. submit' \in AnyPrompt /\ handoff' = handoff /\ local' = local
    BY <1>2 DEF Accept, AnyPrompt, timerVars
  <2> QED
    BY <1>0, <1>a, <2>2, <2>3, <2>4
<1>3. CASE Shutdown
  <2>1. turn' \in TurnType
    <3>1. turn' = [turn EXCEPT !.cancelled = turn.pc \in Owned]
      BY <1>3 DEF Shutdown
    <3>2. (turn.pc \in Owned) \in BOOLEAN
      OBVIOUS
    <3> QED
      BY <1>e, <3>1, <3>2, Zenon
  <2> QED
    BY <1>0, <1>3, <1>b, <2>1 DEF Shutdown
<1>4. CASE Restart
  <2>1. turn' \in TurnType
    BY <1>4, NoTurnFields DEF Restart
  <2>2. QueueFine(queue') /\ submit' \in AnyPrompt /\ handoff' = {} /\ local' = {}
    BY <1>0, <1>4 DEF Restart, AnyPrompt
  <2> QED
    BY <1>a, <2>1, <2>2
<1>5. CASE Start
  BY <1>0, <1>5, <1>b, <1>e DEF Start, timerVars
<1>6. ASSUME NEW r \in local, LocalFires(r)
      PROVE  RequestTypes'
  BY <1>0, <1>6, <1>b, <1>e DEF LocalFires, frontVars
<1>7. ASSUME NEW r \in handoff, Dispatch(r)
      PROVE  RequestTypes'
  <2>1. r \in RequestType /\ r.kind = "recovery"
    BY <1>0
  <2>2. turn' \in TurnType
    BY <1>7, <1>e, <1>i, <2>1 DEF Dispatch, Enters
  <2>3. QueueFine(queue')
    BY <1>0, <1>7, <1>d, <2>1 DEF Dispatch, Enters
  <2>4. submit' \in AnyPrompt /\ handoff' \subseteq handoff /\ local' = local
    BY <1>7 DEF Dispatch, RequestTypes
  <2> QED
    BY <1>0, <1>a, <2>2, <2>3, <2>4
<1>8. ASSUME NEW p \in Prompts, FailForGood(p)
      PROVE  RequestTypes'
  BY <1>0, <1>8, <1>b, NoTurnFields DEF FailForGood, Finishing, timerVars
<1>9. ASSUME NEW p \in Prompts, NEW k \in Kinds, NEW o, FailWithRetry(p, k, o)
      PROVE  RequestTypes'
  <2>1. Request("recovery", p, turn.req.rid, TRUE) \in Retries
    <3>1. p \in AnyPrompt /\ turn.req.rid \in 0 .. MaxIds
      BY <1>e DEF AnyPrompt, RequestType
    <3> QED
      BY <3>1 DEF Request, RequestType, AnyPrompt
  <2>2. local' \subseteq Retries /\ handoff' = handoff
    BY <1>0, <1>9, <2>1 DEF FailWithRetry
  <2>3. turn' \in TurnType /\ UNCHANGED <<queue, submit>>
    BY <1>9, NoTurnFields DEF FailWithRetry, Finishing
  <2> QED
    BY <1>0, <1>b, <2>2, <2>3
<1>10. ASSUME NEW o, NEW w \in woken, TimerClaims(w, o)
       PROVE  RequestTypes'
  <2>1. w.rid \in Ids
    BY DEF SetTypes
  <2>2. handoff' \subseteq Retries
    BY <1>0, <1>10, <1>f, <2>1 DEF TimerClaims
  <2> QED
    BY <1>0, <1>10, <1>b, <1>e, <2>2 DEF TimerClaims, frontVars
<1>11. ASSUME NEW o, NEW r \in handoff, DispatchRefused(r, o)
       PROVE  RequestTypes'
  BY <1>0, <1>11, <1>b, <1>e DEF DispatchRefused, frontVars
<1>12. ASSUME NEW o, NEW p \in Prompts \union {ClearCommand}, Submit(p, o)
       PROVE  RequestTypes'
  <2>1. /\ Request("explicit", p, 0, FALSE) \in RequestType
        /\ Request("explicit", p, 0, FALSE).fresh /\ Request("explicit", p, 0, FALSE).rid = 0
    <3>1. 0 \in 0 .. MaxIds /\ p \in AnyPrompt
      BY Sizes DEF AnyPrompt
    <3> QED
      BY <3>1 DEF Request, RequestType, AnyPrompt
  <2>2. QueueFine(queue')
    BY <1>0, <1>12, <1>d, <2>1 DEF Submit
  <2>3. handoff' \subseteq Retries
    BY <1>0, <1>12, <1>f, <1>h DEF Submit
  <2>4. turn' = turn /\ local' = local /\ submit' \in AnyPrompt
    BY <1>12 DEF Submit, RequestTypes, AnyPrompt
  <2> QED
    BY <1>0, <1>a, <1>e, <2>2, <2>3, <2>4
<1>13. ASSUME NEW o, Esc(o)
       PROVE  RequestTypes'
  <2>1. turn' \in TurnType
    <3>1. turn' = [StaleTurn EXCEPT !.cancelled = turn.pc \in Owned]
      BY <1>13 DEF Esc
    <3>2. (turn.pc \in Owned) \in BOOLEAN
      OBVIOUS
    <3> QED
      BY <1>e, <3>1, <3>2, StaleFields, Zenon DEF StaleTurn
  <2>2. queue' = <<>> /\ submit' = submit /\ handoff' = Stale(handoff) /\ local' = Stale(local)
    BY <1>13 DEF Esc, BoundaryStales
  <2> QED
    BY <1>0, <1>a, <1>g, <2>1, <2>2 DEF RequestTypes
<1>14. ASSUME NEW o, GiveUp(o) \/ SetupPanics(o)
       PROVE  RequestTypes'
  BY <1>0, <1>14, <1>b, NoTurnFields DEF GiveUp, SetupPanics, Finishing
<1>15. ASSUME NEW o, NEW p \in Prompts, Succeed(p, o)
       PROVE  RequestTypes'
  BY <1>0, <1>15, <1>b, NoTurnFields DEF Succeed, Finishing
<1>16. ASSUME NEW o, Clear(o)
       PROVE  RequestTypes'
  <2>1. turn' \in TurnType /\ submit' = submit
    BY <1>16, NoTurnFields DEF Clear, Finishing
  <2>2. QueueFine(queue')
    BY <1>0, <1>16, QueueTypes DEF Clear, QueueFine
  <2>3. handoff' \subseteq Retries /\ local' \subseteq Retries
    BY <1>0, <1>16, <1>g DEF Clear, BoundaryStales, timerVars
  <2> QED
    BY <1>a, <2>1, <2>2, <2>3 DEF RequestTypes
<1>17. CASE HandOver
  <2>1. turn' \in TurnType
    <3>1. ASSUME NEW q \in RequestType
          PROVE  Turn("claiming", [q EXCEPT !.fresh = @ /\ turn.req.fresh]) \in TurnType
      BY <1>e, <1>i DEF RequestType
    <3>2. NextWaiting # <<>> => Head(NextWaiting) \in RequestType
      BY WaitingTypes
    <3> QED
      BY <1>17, <3>1, <3>2, NoTurnFields DEF HandOver
  <2>2. QueueFine(queue')
    <3>1. NextWaiting # <<>> => QueueFine(Tail(NextWaiting))
      BY WaitingTypes DEF QueueFine
    <3> QED
      BY <1>0, <1>17, <3>1 DEF HandOver
  <2>3. UNCHANGED <<handoff, local, submit>>
    BY <1>17 DEF HandOver, timerVars
  <2> QED
    BY <1>0, <1>a, <2>1, <2>2, <2>3 DEF RequestTypes
<1>18. CASE Capture \/ PublishPanics
  BY <1>0, <1>18, <1>b, NoTurnFields DEF Capture, PublishPanics, timerVars
<1>19. ASSUME NEW o, Promote(o)
       PROVE  RequestTypes'
  <2>1. turn' \in TurnType
    BY <1>19, <1>e, <1>f, <1>h, NoTurnFields DEF Promote, Finishing
  <2> QED
    BY <1>0, <1>19, <1>b, <2>1 DEF Promote
<1> QED
  BY <1>1, <1>2, <1>3, <1>4, <1>5, <1>6, <1>7, <1>8, <1>9, <1>10, <1>11, <1>12, <1>13, <1>14,
     <1>15, <1>16, <1>17, <1>18, <1>19
  DEF Next, Foreground

\* The counters of attempts: seeded from a generation, forgotten, counted up.
LEMMA AttemptsFine ==
  ASSUME FileTypes, CountTypes
  PROVE  /\ \A i \in Ids : /\ Seeded(i) \in [Prompts -> [Kinds -> Nat]]
                           /\ \A p \in Prompts, k \in Kinds : Seeded(i)[p][k] <= maxAttempts[k]
         /\ \A p \in Prompts, K \in SUBSET Kinds :
              /\ Forgotten(p, K) \in [Prompts -> [Kinds -> Nat]]
              /\ \A q \in Prompts, k \in Kinds : Forgotten(p, K)[q][k] <= maxAttempts[k]
         /\ \A p \in Prompts, kind \in Kinds : attempts[p][kind] < maxAttempts[kind] =>
              /\ Counted(p, kind) \in [Prompts -> [Kinds -> Nat]]
              /\ \A q \in Prompts, k \in Kinds : Counted(p, kind)[q][k] <= maxAttempts[k]
<1>1. ASSUME NEW i \in Ids
      PROVE  /\ Seeded(i) \in [Prompts -> [Kinds -> Nat]]
             /\ \A p \in Prompts, k \in Kinds : Seeded(i)[p][k] <= maxAttempts[k]
  <2>1. gen[i].attempts \in [Kinds -> Nat] /\ \A k \in Kinds : gen[i].attempts[k] <= maxAttempts[k]
    BY DEF FileTypes, FilesInv, GenType
  <2> QED
    BY <2>1 DEF CountTypes, Seeded
<1>2. ASSUME NEW p \in Prompts, NEW K \in SUBSET Kinds
      PROVE  /\ Forgotten(p, K) \in [Prompts -> [Kinds -> Nat]]
             /\ \A q \in Prompts, k \in Kinds : Forgotten(p, K)[q][k] <= maxAttempts[k]
             /\ \A k \in Kinds \ K : Forgotten(p, K)[p][k] = attempts[p][k]
  BY Sizes DEF CountTypes, Forgotten
<1>3. ASSUME NEW p \in Prompts, NEW kind \in Kinds, attempts[p][kind] < maxAttempts[kind]
      PROVE  /\ Counted(p, kind) \in [Prompts -> [Kinds -> Nat]]
             /\ \A q \in Prompts, k \in Kinds : Counted(p, kind)[q][k] <= maxAttempts[k]
  <2> DEFINE base == IF kind = "rate_limit" THEN attempts ELSE Forgotten(p, {"rate_limit"})
  <2>1. /\ base \in [Prompts -> [Kinds -> Nat]] /\ base[p][kind] = attempts[p][kind]
        /\ \A q \in Prompts, k \in Kinds : base[q][k] <= maxAttempts[k]
    <3>1. {"rate_limit"} \in SUBSET Kinds /\ (kind # "rate_limit" => kind \in Kinds \ {"rate_limit"})
      BY DEF Kinds
    <3> QED
      BY <1>2, <3>1 DEF CountTypes
  <2>2. Counted(p, kind) = [base EXCEPT ![p][kind] = base[p][kind] + 1]
    BY <2>1 DEF Counted
  <2> HIDE DEF base
  <2> QED
    BY <1>3, <2>1, <2>2, Sizes
<1> QED
  BY <1>1, <1>2, <1>3

\* The counters and the bounds.
LEMMA CountTypesStep ==
  ASSUME FileTypes, RequestTypes, CountTypes, SetTypes, [Next]_vars
  PROVE  CountTypes'
<1> DEFINE AttemptsFineNow == /\ attempts' \in [Prompts -> [Kinds -> Nat]]
                              /\ \A p \in Prompts, k \in Kinds : attempts'[p][k] <= maxAttempts[k]
<1>0. attempts' = attempts => AttemptsFineNow
  BY DEF CountTypes
<1>a. ASSUME AttemptsFineNow, UNCHANGED <<retries, boundVars>>
      PROVE  CountTypes'
  BY <1>a DEF CountTypes, boundVars
<1>b. ASSUME AttemptsFineNow, NEW n \in 0 .. 1, NEW o, Upsets(n, o), UNCHANGED <<retries, typed>>
      PROVE  CountTypes'
  <2>1. upsets' \in 0 .. MaxUpsets
    BY <1>b, Sizes DEF Upsets, CountTypes
  <2> QED
    BY <1>b, <2>1 DEF CountTypes
<1>c. \A p, f : Repeatable(p, f) \subseteq Ids
  BY DEF Repeatable, Match, Pending, InState
<1>d. Kinds \in SUBSET Kinds
  OBVIOUS
<1> HIDE DEF AttemptsFineNow
<1>1. CASE UNCHANGED vars \/ Autosave \/ Accept \/ Shutdown \/ Capture \/ HandOver
           \/ (\E i \in Ids : TimerWakes(i)) \/ (\E r \in local : LocalFires(r))
           \/ (\E r \in handoff : Dispatch(r))
  BY <1>0, <1>1, <1>a
  DEF vars, Autosave, Accept, Shutdown, Capture, HandOver, TimerWakes, LocalFires, Dispatch, ghostVars
<1>12. CASE PublishPanics
  BY <1>0, <1>12, <1>b DEF PublishPanics
<1>2. CASE Restart
  <2>1. AttemptsFineNow
    BY <1>2, Sizes DEF Restart, NoAttempts, AttemptsFineNow
  <2> QED
    BY <1>2, <1>b, <2>1 DEF Restart
<1>3. CASE Start
  <2>1. retries' \in [Prompts -> Int]
    <3>1. ASSUME NEW p
          PROVE  Cardinality(Match(p)) \in Nat
      <4>1. Match(p) \in SUBSET (1 .. MaxIds) /\ IsFiniteSet(1 .. MaxIds)
        BY UpTo, Sizes DEF Match, Pending, InState, Ids
      <4> QED
        BY <4>1, FS_Subset, FS_CardinalityType
    <3> DEFINE c == Cardinality(Match(turn.req.prompt))
    <3>2. c \in Nat
      BY <3>1
    <3>3. \/ retries' = retries
          \/ /\ turn.req.prompt \in Prompts
             /\ retries' = [retries EXCEPT ![turn.req.prompt] =
                              IF turn.req.kind = "recovery" THEN @ + 1 ELSE -c]
      BY <1>3 DEF Start
    <3> HIDE DEF c
    <3> QED
      BY <3>2, <3>3 DEF CountTypes
  <2> QED
    BY <1>3, <2>1 DEF Start, CountTypes, boundVars
<1>4. ASSUME NEW p \in Prompts, FailForGood(p)
      PROVE  CountTypes'
  <2>1. AttemptsFineNow
    BY <1>4, <1>d, AttemptsFine DEF FailForGood, AttemptsFineNow
  <2> QED
    BY <1>4, <1>a, <2>1 DEF FailForGood, ghostVars
<1>5. ASSUME NEW p \in Prompts, NEW k \in Kinds, NEW o, FailWithRetry(p, k, o)
      PROVE  CountTypes'
  <2>1. AttemptsFineNow
    BY <1>5, AttemptsFine DEF FailWithRetry, AttemptsFineNow
  <2> QED
    BY <1>5, <1>b, <2>1 DEF FailWithRetry
<1>6. ASSUME NEW o, NEW w \in woken, TimerClaims(w, o)
      PROVE  CountTypes'
  <2>1. w.rid \in Ids
    BY DEF SetTypes
  <2>2. attempts' \in {attempts, Seeded(w.rid)}
    BY <1>6 DEF TimerClaims, Claim
  <2>3. AttemptsFineNow
    BY <1>0, <2>1, <2>2, AttemptsFine DEF AttemptsFineNow
  <2> QED
    BY <1>6, <1>b, <2>3 DEF TimerClaims
<1>7. ASSUME NEW o, NEW r \in handoff, DispatchRefused(r, o)
      PROVE  CountTypes'
  BY <1>0, <1>7, <1>b DEF DispatchRefused
<1>8. ASSUME NEW o, NEW p, Submit(p, o)
      PROVE  CountTypes'
  <2>1. attempts' = attempts \/ \E i \in Ids : attempts' = Seeded(i)
    BY <1>8, <1>c DEF Submit, Claim
  <2>2. AttemptsFineNow
    BY <1>0, <2>1, AttemptsFine DEF AttemptsFineNow
  <2>3. upsets' \in 0 .. MaxUpsets /\ typed' \in 0 .. MaxTyped /\ retries' = retries
    BY <1>8, Sizes DEF Submit, Upsets, CountTypes
  <2> QED
    BY <2>2, <2>3 DEF CountTypes, AttemptsFineNow
<1>9. ASSUME NEW o, Esc(o) \/ GiveUp(o) \/ SetupPanics(o) \/ Clear(o)
      PROVE  CountTypes'
  BY <1>0, <1>9, <1>b DEF Esc, GiveUp, SetupPanics, Clear, ghostVars
<1>10. ASSUME NEW o, NEW p \in Prompts, Succeed(p, o)
      PROVE  CountTypes'
  <2>1. AttemptsFineNow
    BY <1>10, <1>d, AttemptsFine DEF Succeed, AttemptsFineNow
  <2> QED
    BY <1>10, <1>b, <2>1 DEF Succeed
<1>11. ASSUME NEW o, Promote(o)
      PROVE  CountTypes'
  <2>1. attempts' = attempts \/ \E i \in Ids : attempts' = Seeded(i)
    BY <1>11, <1>c DEF Promote, Claim
  <2>2. AttemptsFineNow
    BY <1>0, <2>1, AttemptsFine DEF AttemptsFineNow
  <2> QED
    BY <1>11, <1>b, <2>2 DEF Promote
<1> QED
  BY <1>1, <1>2, <1>3, <1>4, <1>5, <1>6, <1>7, <1>8, <1>9, <1>10, <1>11, <1>12 DEF Next, Foreground

\* The sets of generations and the flags.
LEMMA SetTypesStep ==
  ASSUME FileTypes, RequestTypes, CountTypes, SetTypes, [Next]_vars
  PROVE  SetTypes'
<1> DEFINE IdSets == /\ timers' \subseteq Ids /\ awaiting' \subseteq Ids /\ told' \subseteq Ids
           Rest == /\ woken' \subseteq [rid : Ids, fresh : BOOLEAN]
                   /\ started' \subseteq Ids /\ unsaved' \subseteq Ids
                   /\ gate' \in BOOLEAN /\ shut' \in BOOLEAN /\ paused' \in BOOLEAN
                   /\ stranded' \in BOOLEAN
<1>a. ASSUME IdSets, Rest
      PROVE  SetTypes'
  BY <1>a DEF SetTypes
<1>b. UNCHANGED <<timers, awaiting, told>> => IdSets
  BY DEF SetTypes
<1>c. UNCHANGED <<woken, started, unsaved, gate, shut, paused, stranded>> => Rest
  BY DEF SetTypes
<1>d. ASSUME NEW m, NEW g, NEW t \in SUBSET Ids, NEW a \in SUBSET Ids, Resume(m, g, t, a)
      PROVE  IdSets
  BY <1>d DEF Resume, Armed, InState, SetTypes
<1>e. ASSUME NEW i \in Ids, NEW o \in Outcome, Claim(i, o)
      PROVE  IdSets
  BY <1>e DEF Claim, SetTypes, Outcome
<1>f. \A p, f : Repeatable(p, f) \subseteq Ids
  BY DEF Repeatable, Match, Pending, InState
<1>g. turn.req.rid # 0 => turn.req.rid \in Ids
  BY Sizes DEF RequestTypes, TurnType, RequestType, Ids
<1>h. Unstarted \subseteq Ids
  <2>1. \A n \in DOMAIN queue : queue[n] \in RequestType
    BY DEF RequestTypes
  <2>2. \A r \in RequestType : r.rid # 0 => r.rid \in Ids
    BY Sizes DEF RequestType, Ids
  <2> QED
    BY <2>1, <2>2 DEF Unstarted, SetTypes
<1>i. Stale(woken) \subseteq [rid : Ids, fresh : BOOLEAN]
  BY StaleSet DEF SetTypes
<1>j. \A i : timers \ {i} \in SUBSET Ids /\ awaiting \ {i} \in SUBSET Ids
  BY DEF SetTypes
<1>1. CASE UNCHANGED vars \/ Autosave \/ (\E r \in local : LocalFires(r)) \/ (\E p \in Prompts : FailForGood(p))
  BY <1>1, <1>a, <1>b, <1>c
  DEF vars, Autosave, LocalFires, FailForGood, ghostVars, timerVars, frontVars
<1>2. CASE Accept \/ Shutdown \/ \E r \in handoff : Dispatch(r)
  BY <1>2, <1>a DEF Accept, Shutdown, Dispatch, SetTypes, ghostVars, timerVars
<1>15. CASE Capture \/ PublishPanics \/ HandOver
  <2>1. UNCHANGED <<timers, awaiting, told, woken, started, unsaved, shut, paused>>
    BY <1>15 DEF Capture, PublishPanics, HandOver, ghostVars, timerVars
  <2>2. gate' \in BOOLEAN /\ stranded' \in BOOLEAN
    BY <1>15 DEF Capture, PublishPanics, HandOver, ghostVars, SetTypes
  <2> QED
    BY <2>1, <2>2 DEF SetTypes
<1>3. CASE Restart
  <2>1. Resume(mem', gen, {}, {}) /\ {} \in SUBSET Ids
    BY <1>3 DEF Restart
  <2>2. IdSets
    BY <1>d, <2>1
  <2> QED
    BY <1>3, <1>a, <2>2 DEF Restart, SetTypes
<1>4. CASE Start
  BY <1>4, <1>b, <1>g DEF Start, SetTypes, timerVars
<1>5. ASSUME NEW i \in Ids, TimerWakes(i)
      PROVE  SetTypes'
  <2>1. [rid |-> i, fresh |-> TRUE] \in [rid : Ids, fresh : BOOLEAN]
    OBVIOUS
  <2>2. woken' \subseteq [rid : Ids, fresh : BOOLEAN]
    BY <1>5, <2>1 DEF TimerWakes, SetTypes
  <2> QED
    BY <1>5, <2>2 DEF TimerWakes, SetTypes, ghostVars, frontVars
<1>6. ASSUME NEW p \in Prompts, NEW k \in Kinds, NEW o, FailWithRetry(p, k, o)
      PROVE  SetTypes'
  <2>0. lastId + 1 \in Ids
    BY <1>6, Sizes DEF FailWithRetry, FileTypes, Ids
  <2>1. unsaved' \subseteq Ids
    BY <1>6, <1>g, <2>0 DEF FailWithRetry, SetTypes
  <2>2. IdSets
    <3>1. timers \union {lastId + 1} \in SUBSET Ids /\ awaiting \in SUBSET Ids
      BY <2>0 DEF SetTypes
    <3>2. \/ \E m, g : Resume(m, g, timers \union {lastId + 1}, awaiting)
          \/ /\ UNCHANGED <<timers, awaiting>>
             /\ \/ told' = told
                \/ \E m : told' = told \union InState(m, "scheduled")
      BY <1>6 DEF FailWithRetry
    <3>3. CASE \E m, g : Resume(m, g, timers \union {lastId + 1}, awaiting)
      BY <1>d, <3>1, <3>3
    <3>4. CASE ~\E m, g : Resume(m, g, timers \union {lastId + 1}, awaiting)
      BY <3>2, <3>4 DEF SetTypes, InState
    <3> QED
      BY <3>3, <3>4
  <2> QED
    BY <1>6, <1>a, <2>1, <2>2 DEF FailWithRetry, SetTypes
<1>7. ASSUME NEW o \in Outcome, NEW w \in woken, TimerClaims(w, o)
      PROVE  SetTypes'
  <2>1. w.rid \in Ids
    BY DEF SetTypes
  <2>2. IdSets
    BY <1>7, <1>e, <2>1 DEF TimerClaims, SetTypes
  <2> QED
    BY <1>7, <1>a, <2>2 DEF TimerClaims, SetTypes, frontVars
<1>8. ASSUME NEW o, NEW r \in handoff, DispatchRefused(r, o)
      PROVE  SetTypes'
  <2>1. r.rid # 0 => r.rid \in Ids
    BY Sizes DEF RequestTypes, RequestType, Ids
  <2>2. IdSets
    BY <1>8, <1>b, <1>d, <1>j, <2>1 DEF DispatchRefused, SetTypes
  <2> QED
    BY <1>8, <1>a, <1>c, <2>2 DEF DispatchRefused, frontVars
<1>9. ASSUME NEW o \in Outcome, NEW p, Submit(p, o)
      PROVE  SetTypes'
  <2>1. IdSets
    BY <1>9, <1>b, <1>e, <1>f DEF Submit
  <2> QED
    BY <1>9, <1>a, <2>1 DEF Submit, SetTypes
<1>10. ASSUME NEW o, Esc(o)
       PROVE  SetTypes'
  BY <1>10, <1>h, <1>i DEF Esc, BoundaryStales, SetTypes
<1>11. ASSUME NEW o, GiveUp(o)
       PROVE  SetTypes'
  BY <1>11, <1>j DEF GiveUp, SetTypes, ghostVars
<1>16. ASSUME NEW o, SetupPanics(o)
       PROVE  SetTypes'
  <2>1. IdSets
    BY <1>16, <1>b, <1>d, <1>j DEF SetupPanics
  <2> QED
    BY <1>16, <1>a, <1>c, <2>1 DEF SetupPanics
<1>12. ASSUME NEW o, NEW p \in Prompts, Succeed(p, o)
       PROVE  SetTypes'
  <2>1. IdSets
    BY <1>12, <1>b, <1>d, <1>j DEF Succeed
  <2> QED
    BY <1>12, <1>a, <1>c, <2>1 DEF Succeed
<1>13. ASSUME NEW o, Clear(o)
       PROVE  SetTypes'
  BY <1>13, <1>i DEF Clear, BoundaryStales, SetTypes, ghostVars, timerVars
<1>14. ASSUME NEW o \in Outcome, Promote(o)
       PROVE  SetTypes'
  <2>1. IdSets
    BY <1>14, <1>b, <1>e, <1>f, <1>j DEF Promote, SetTypes
  <2> QED
    BY <1>14, <1>a, <1>c, <2>1 DEF Promote
<1> QED
  BY <1>1, <1>2, <1>3, <1>4, <1>5, <1>6, <1>7, <1>8, <1>9, <1>10, <1>11, <1>12, <1>13, <1>14, <1>15,
     <1>16, Sizes
  DEF Next, Foreground, Outcome

\* The types with what they rest on.
LEMMA TypeInvariant == Spec => []TypeInv
<1>1. Init => TypeInv
  <2> SUFFICES ASSUME Init
               PROVE  TypeInv
    OBVIOUS
  <2>1. FileTypes
    BY Sizes DEF Init, FileTypes, FilesInv, States, GenType, NoAttempts
  <2>2. RequestTypes
    BY Sizes, NoTurnFields DEF Init, RequestTypes, QueueInv, AnyPrompt
  <2>3. CountTypes
    BY Sizes DEF Init, CountTypes, NoAttempts
  <2>4. SetTypes
    BY DEF Init, SetTypes
  <2> QED
    BY <2>1, <2>2, <2>3, <2>4, TypeParts
<1>2. TypeInv /\ [Next]_vars => TypeInv'
  <2> SUFFICES ASSUME TypeInv, [Next]_vars
               PROVE  TypeInv'
    OBVIOUS
  <2>1. FileTypes /\ RequestTypes /\ CountTypes /\ SetTypes
    BY TypeParts
  <2>2. FileTypes' /\ RequestTypes' /\ CountTypes' /\ SetTypes'
    BY <2>1, FileTypesStep, RequestTypesStep, CountTypesStep, SetTypesStep
  <2> QED
    BY <2>2 DEF TypeInv, RecoveryTypeOK, FileTypes, RequestTypes, CountTypes, SetTypes, States,
                GenType, TurnType, Places, AnyPrompt
<1> QED
  BY <1>1, <1>2, PTL DEF Spec

\* Types, for every value of the constants: the FIFO never holds more than
\* maxPendingQueue requests, no counter of attempts passes its budget, and what is in
\* memory is always among what a restart may load (pending_queue.go, ApplyAndSave).
THEOREM RecoveryTypeCorrect == Spec => []RecoveryTypeOK
<1>1. TypeInv => RecoveryTypeOK
  BY DEF TypeInv
<1> QED
  BY <1>1, TypeInvariant, PTL

-----------------------------------------------------------------------------
(* One claim *)

Single(d) == \A i, j \in Ids : d[i] = "claimed" /\ d[j] = "claimed" => i = j

\* A save keeps the claims single if what it writes does.
LEMMA ApplySingle ==
  ASSUME FileTypes, ClaimedOnce, NEW new, Single(new), NEW o \in Outcome, ApplyAndSave(new, o)
  PROVE  ClaimedOnce'
<1>1. disk' \subseteq disk \union {new}
  BY ApplyEffect DEF FileTypes
<1> QED
  BY <1>1 DEF ClaimedOnce, Single

\* A session with no claims that are not in memory.
LEMMA FewerClaims ==
  ASSUME FileTypes, ClaimedOnce, NEW new \in States, \A i \in Ids : new[i] = "claimed" => mem[i] = "claimed"
  PROVE  Single(new)
  BY DEF FileTypes, ClaimedOnce, Single

\* The first claim.
LEMMA FirstClaim ==
  ASSUME FileTypes, NEW i \in Ids, InState(mem, "claimed") = {}
  PROVE  Single([mem EXCEPT ![i] = "claimed"])
  BY DEF FileTypes, InState, Single, States

\* No step makes a second claim.
LEMMA ClaimedOnceStep ==
  ASSUME TypeInv, ClaimedOnce, [Next]_vars
  PROVE  ClaimedOnce'
<1>0. FileTypes /\ RequestTypes /\ SetTypes
  BY TypeParts
<1>a. ASSUME UNCHANGED disk
      PROVE  ClaimedOnce'
  BY <1>a DEF ClaimedOnce
<1>b. ASSUME NEW o \in Outcome, NEW ids, Release(ids, o)
      PROVE  ClaimedOnce'
  <2>1. Released(ids) \in States /\ \A i \in Ids : Released(ids)[i] = "claimed" => mem[i] = "claimed"
    BY <1>0 DEF FileTypes, States, Released
  <2> QED
    BY <1>0, <1>a, <1>b, <2>1, FewerClaims, ApplySingle DEF Release, fileVars
<1>c. ASSUME NEW o \in Outcome, NEW i \in Ids, InState(mem, "claimed") = {},
             ApplyAndSave([mem EXCEPT ![i] = "claimed"], o)
      PROVE  ClaimedOnce'
  BY <1>0, <1>c, FirstClaim, ApplySingle
<1>d. ASSUME NEW p, NEW f, NEW i \in Repeatable(p, f)
      PROVE  i \in Ids /\ InState(mem, "claimed") = {}
  BY DEF Repeatable, Match, Pending, InState, Claimable
<1>1. CASE UNCHANGED vars \/ Accept \/ Shutdown \/ Start
           \/ (\E i \in Ids : TimerWakes(i)) \/ (\E r \in local : LocalFires(r))
           \/ (\E r \in handoff : Dispatch(r)) \/ (\E p \in Prompts : FailForGood(p))
  BY <1>1, <1>a
  DEF vars, Accept, Shutdown, Start, TimerWakes, LocalFires, Dispatch, FailForGood, fileVars
<1>11. CASE Capture \/ PublishPanics \/ HandOver
  BY <1>11, <1>a DEF Capture, PublishPanics, HandOver, fileVars
<1>2. CASE Autosave \/ Restart
  <2>1. disk' \subseteq disk
    BY <1>0, <1>2 DEF Autosave, Restart, FileTypes
  <2> QED
    BY <2>1 DEF ClaimedOnce
<1>3. ASSUME NEW o \in Outcome, NEW w \in woken, TimerClaims(w, o)
      PROVE  ClaimedOnce'
  <2>1. w.rid \in Ids
    BY <1>0 DEF SetTypes
  <2> QED
    BY <1>3, <1>a, <1>c, <2>1 DEF TimerClaims, Claim, Claimable, fileVars
<1>4. ASSUME NEW o \in Outcome,
             Esc(o) \/ GiveUp(o) \/ SetupPanics(o) \/ \E r \in handoff : DispatchRefused(r, o)
      PROVE  ClaimedOnce'
  BY <1>4, <1>a, <1>b DEF Esc, GiveUp, SetupPanics, DispatchRefused, fileVars
<1>5. ASSUME NEW o \in Outcome, NEW p, Submit(p, o)
      PROVE  ClaimedOnce'
  BY <1>5, <1>a, <1>c, <1>d DEF Submit, Claim, fileVars
<1>6. ASSUME NEW o \in Outcome, Promote(o)
      PROVE  ClaimedOnce'
  BY <1>6, <1>a, <1>c, <1>d DEF Promote, Claim, fileVars
<1>7. ASSUME NEW o \in Outcome, NEW new \in States,
             \A i \in Ids : new[i] = "claimed" => mem[i] = "claimed", ApplyAndSave(new, o)
      PROVE  ClaimedOnce'
  BY <1>0, <1>7, FewerClaims, ApplySingle
<1>8. ASSUME NEW o \in Outcome, NEW p \in Prompts, Succeed(p, o)
      PROVE  ClaimedOnce'
  <2> DEFINE new == [mem EXCEPT ![turn.req.rid] = "none"]
  <2>1. new \in States /\ \A i \in Ids : new[i] = "claimed" => mem[i] = "claimed"
    BY <1>0 DEF FileTypes, States
  <2> HIDE DEF new
  <2>2. ApplyAndSave(new, o) \/ UNCHANGED fileVars
    BY <1>8 DEF Succeed, new
  <2> QED
    BY <1>7, <1>a, <2>1, <2>2 DEF fileVars
<1>9. ASSUME NEW o \in Outcome, Clear(o)
      PROVE  ClaimedOnce'
  <2>1. [i \in Ids |-> "none"] \in States
    BY DEF States
  <2> QED
    BY <1>9, <1>7, <2>1 DEF Clear
<1>10. ASSUME NEW o \in Outcome, NEW p \in Prompts, NEW k \in Kinds, FailWithRetry(p, k, o)
      PROVE  ClaimedOnce'
  <2> DEFINE kept == IF turn.req.rid = 0 THEN mem ELSE [mem EXCEPT ![turn.req.rid] = "none"]
             new == [kept EXCEPT ![lastId + 1] = "scheduled"]
  <2>1. new \in States /\ \A i \in Ids : new[i] = "claimed" => mem[i] = "claimed"
    BY <1>0 DEF FileTypes, States
  <2> HIDE DEF new
  <2>2. UNCHANGED disk \/ disk' = Contents(new, o)
    BY <1>10 DEF FailWithRetry, new, fileVars
  <2>3. disk' \subseteq disk \union {new}
    BY <2>2 DEF Contents, Outcome
  <2>4. Single(new)
    BY <1>0, <2>1, FewerClaims
  <2> QED
    BY <2>3, <2>4 DEF ClaimedOnce, Single
<1> QED
  BY <1>1, <1>2, <1>3, <1>4, <1>5, <1>6, <1>8, <1>9, <1>10, <1>11, Sizes DEF Next, Foreground, Outcome

\* OneClaim: claims are made only when there is none, in the same section under
\* sessionLeaseMu, so at most one generation is claimed in whatever a restart may
\* find in the session file (claimPendingRecovery).
THEOREM AtMostOneClaim == Spec => []OneClaim
<1>1. Init => ClaimedOnce
  BY DEF Init, ClaimedOnce
<1>2. TypeInv /\ ClaimedOnce /\ [Next]_vars => ClaimedOnce'
  BY ClaimedOnceStep
<1>3. ClaimedOnce => OneClaim
  <2> SUFFICES ASSUME ClaimedOnce, NEW d \in disk
               PROVE  Cardinality(InState(d, "claimed")) <= 1
    BY DEF OneClaim
  <2>1. CASE InState(d, "claimed") = {}
    BY <2>1, FS_EmptySet
  <2>2. CASE InState(d, "claimed") # {}
    <3>1. PICK i \in Ids : d[i] = "claimed"
      BY <2>2 DEF InState
    <3>2. InState(d, "claimed") = {i}
      BY <3>1 DEF ClaimedOnce, InState
    <3>3. Cardinality({i}) = 1
      BY FS_Singleton
    <3> QED
      BY <3>2, <3>3
  <2> QED
    BY <2>1, <2>2
<1> QED
  BY <1>1, <1>2, <1>3, TypeInvariant, PTL DEF Spec

-----------------------------------------------------------------------------
(* Nobody is left behind *)

\* Only Esc and the shutdown close the gate or cancel a turn.
LEMMA GateStep ==
  ASSUME TypeInv, GateInv, [Next]_vars
  PROVE  GateInv'
<1>0. RequestTypes
  BY TypeParts
<1>a. ASSUME gate' \in {gate, FALSE}, turn'.cancelled \in {turn.cancelled, FALSE},
             paused' = paused, shut' = shut
      PROVE  GateInv'
  BY <1>a DEF GateInv
<1>b. /\ \A r, pc : Turn(pc, r).cancelled = FALSE
      /\ Idle.cancelled = FALSE
  BY DEF Turn, Idle
<1>c. ASSUME turn' = turn \/ turn' = Idle \/ \E r, pc : turn' = Turn(pc, r)
      PROVE  turn'.cancelled \in {turn.cancelled, FALSE}
  BY <1>b, <1>c
<1>1. CASE UNCHANGED vars \/ Autosave \/ (\E i \in Ids : TimerWakes(i)) \/ (\E r \in local : LocalFires(r))
  BY <1>1, <1>a DEF vars, Autosave, TimerWakes, LocalFires, frontVars, ghostVars
<1>2. CASE Accept
  <2>1. gate' \in {gate, FALSE} /\ paused' = paused /\ shut' = shut
    BY <1>2 DEF Accept, ghostVars
  <2>2. turn' = turn \/ \E r : turn' = Turn("accepted", r)
    BY <1>2 DEF Accept
  <2> QED
    BY <1>a, <1>c, <2>1, <2>2
<1>3. CASE Shutdown \/ Restart \/ \E o \in SaveOutcomes : Esc(o)
  BY <1>3, <1>b DEF Shutdown, Restart, Esc, GateInv
<1>4. CASE Start
  BY <1>0, <1>4, <1>a DEF Start, RequestTypes, TurnType
<1>5. ASSUME NEW r \in handoff, Dispatch(r)
      PROVE  GateInv'
  BY <1>5, <1>a, <1>c DEF Dispatch, Enters, ghostVars
<1>6. ASSUME NEW p \in Prompts, NEW o, NEW k, FailForGood(p) \/ Succeed(p, o) \/ FailWithRetry(p, k, o)
      PROVE  GateInv'
  <2>1. UNCHANGED <<gate, paused, shut>> /\ turn' = Turn("finishing", NoRequest)
    BY <1>6 DEF FailForGood, Succeed, FailWithRetry, Finishing, ghostVars
  <2> QED
    BY <1>a, <1>c, <2>1
<1>7. ASSUME NEW o, (\E w \in woken : TimerClaims(w, o)) \/ (\E r \in handoff : DispatchRefused(r, o))
      PROVE  GateInv'
  <2>1. UNCHANGED <<gate, paused, shut, turn>>
    BY <1>7 DEF TimerClaims, DispatchRefused, frontVars
  <2> QED
    BY <1>a, <2>1
<1>8. ASSUME NEW o, NEW p, Submit(p, o)
      PROVE  GateInv'
  BY <1>8, <1>a DEF Submit
<1>12. CASE PublishPanics
  BY <1>12, <1>a, <1>c DEF PublishPanics
<1>13. CASE Capture
  <2>1. UNCHANGED <<paused, shut>> /\ gate' = (gate \/ shut) /\ turn' \in {Idle, Turn("handing", NoRequest)}
    BY <1>13 DEF Capture, ghostVars
  <2> QED
    BY <1>b, <2>1 DEF GateInv
<1>14. ASSUME NEW o, SetupPanics(o)
       PROVE  GateInv'
  BY <1>14, <1>a, <1>c DEF SetupPanics, Finishing
<1>15. ASSUME NEW o, Promote(o)
       PROVE  GateInv'
  <2>1. turn'.cancelled \in {turn.cancelled, FALSE}
    BY <1>0, <1>15, <1>b DEF Promote, Finishing, RequestTypes, TurnType
  <2> QED
    BY <1>15, <1>a, <2>1 DEF Promote
<1>9. ASSUME NEW o, GiveUp(o)
      PROVE  GateInv'
  <2>1. UNCHANGED <<paused, shut>> /\ gate' = (gate \/ shut) /\ turn' \in {Idle, Turn("finishing", NoRequest)}
    BY <1>9 DEF GiveUp, ghostVars
  <2> QED
    BY <1>b, <2>1 DEF GateInv
<1>10. ASSUME NEW o, Clear(o)
       PROVE  GateInv'
  BY <1>10, <1>a, <1>c DEF Clear, Finishing, ghostVars
<1>11. CASE HandOver
  <2>1. /\ UNCHANGED <<paused, shut>>
        /\ turn' = Idle \/ \E r : turn' = Turn("claiming", r)
        /\ shut \/ gate' \in {gate, FALSE}
    BY <1>11 DEF HandOver
  <2> QED
    BY <1>a, <1>c, <2>1 DEF GateInv
<1> QED
  BY <1>1, <1>2, <1>3, <1>4, <1>5, <1>6, <1>7, <1>8, <1>9, <1>10, <1>11, <1>12, <1>13, <1>14, <1>15
  DEF Next, Foreground

\* IdleMeansDrained: a request enters the FIFO only while a turn holds the
\* foreground, and the finalizer of that turn gives the foreground up only when it
\* has found the FIFO empty, or when the messages of its end have panicked
\* (finishForegroundProcessing).
THEOREM NobodyWaitsForAFreeForeground == Spec => []IdleMeansDrained
<1>1. Init => IdleMeansDrained
  BY DEF Init, IdleMeansDrained
<1>2. ASSUME TypeInv, IdleMeansDrained, [Next]_vars
      PROVE  IdleMeansDrained'
  <2> USE <1>2
  <2>0. RequestTypes
    BY TypeParts
  <2>a. \A r : /\ Turn("accepted", r).pc # "idle" /\ Turn("finishing", r).pc # "idle"
               /\ Turn("claiming", r).pc # "idle" /\ Turn("handing", r).pc # "idle"
    BY DEF Turn
  <2>b. ASSUME UNCHANGED <<queue, shut, stranded>>, turn'.pc = "idle" => turn.pc = "idle"
        PROVE  IdleMeansDrained'
    BY <2>b DEF IdleMeansDrained
  <2>c. ASSUME turn'.pc # "idle"
        PROVE  IdleMeansDrained'
    BY <2>c DEF IdleMeansDrained
  <2>1. CASE UNCHANGED vars \/ Autosave \/ (\E i \in Ids : TimerWakes(i)) \/ (\E r \in local : LocalFires(r))
    BY <2>1, <2>b DEF vars, Autosave, TimerWakes, LocalFires, frontVars, ghostVars
  <2>2. CASE Accept
    BY <2>2, <2>a, <2>b, <2>c DEF Accept, ghostVars
  <2>3. CASE Shutdown \/ Restart
    BY <2>3 DEF Shutdown, Restart, IdleMeansDrained, ghostVars
  <2>4. CASE Start \/ (\E p \in Prompts : FailForGood(p) \/ \E o : Succeed(p, o) \/ \E k \in Kinds : FailWithRetry(p, k, o))
    BY <2>0, <2>4, <2>a, <2>c
    DEF Start, FailForGood, Succeed, FailWithRetry, Finishing, RequestTypes, TurnType
  <2>5. CASE \E r \in handoff : Dispatch(r)
    BY <2>5, <2>a, <2>b, <2>c DEF Dispatch, Enters, ghostVars
  <2>6. CASE \E o \in SaveOutcomes : \/ \E w \in woken : TimerClaims(w, o)
                                     \/ \E r \in handoff : DispatchRefused(r, o)
    BY <2>6, <2>b DEF TimerClaims, DispatchRefused, frontVars
  <2>7. CASE \E o \in SaveOutcomes : \E p \in Prompts \union {ClearCommand} : Submit(p, o)
    BY <2>7, <2>b, <2>c DEF Submit
  <2>8. CASE \E o \in SaveOutcomes : Esc(o)
    BY <2>8 DEF Esc, IdleMeansDrained
  <2>9. ASSUME NEW o, GiveUp(o) \/ Clear(o) \/ SetupPanics(o) \/ Capture \/ PublishPanics \/ HandOver
        PROVE  IdleMeansDrained'
    <3>1. \/ \E r : turn' \in {Turn("claiming", r), Turn("finishing", r), Turn("handing", r)}
          \/ shut /\ shut' = shut
          \/ stranded'
          \/ queue' = <<>>
      BY <2>9 DEF GiveUp, Clear, SetupPanics, Capture, PublishPanics, HandOver, Finishing
    <3> QED
      BY <2>a, <3>1 DEF IdleMeansDrained
  <2>10. ASSUME NEW o, Promote(o)
         PROVE  IdleMeansDrained'
    <3>1. turn'.pc # "idle"
      BY <2>0, <2>10, <2>a DEF Promote, Finishing, RequestTypes, TurnType
    <3> QED
      BY <2>c, <3>1
  <2> QED
    BY <2>1, <2>2, <2>3, <2>4, <2>5, <2>6, <2>7, <2>8, <2>9, <2>10 DEF Next, Foreground
<1> QED
  BY <1>1, <1>2, TypeInvariant, PTL DEF Spec

\* Whoever takes the obstacle away arms the timers again or tells the user.
LEMMA StrandedStep ==
  ASSUME TypeInv, GateInv, NoneStranded, [Next]_vars
  PROVE  NoneStranded'
<1> DEFINE Reached(i) == i \in timers \union told \/ [rid |-> i, fresh |-> TRUE] \in woken
<1>0. FileTypes /\ RequestTypes /\ SetTypes
  BY TypeParts
<1>a. ASSUME mem' = mem, Blocked(mem, gen) => Blocked(mem, gen'), shut' = shut, paused' = paused,
             \A i \in InState(mem, "scheduled") : Reached(i) => Reached(i)'
      PROVE  NoneStranded'
  <2>1. Blocked(mem, gen)' <=> Blocked(mem, gen')
    BY <1>a DEF Blocked, Malformed, Pending, InState
  <2>2. InState(mem, "scheduled")' = InState(mem, "scheduled")
    BY <1>a DEF InState
  <2> QED
    BY <1>a, <2>1, <2>2 DEF NoneStranded
<1>b. ASSUME UNCHANGED <<mem, gen, shut, paused>>, timers \subseteq timers', told \subseteq told',
             woken \subseteq woken'
      PROVE  NoneStranded'
  <2>1. \A i : Reached(i) => Reached(i)'
    BY <1>b
  <2> HIDE DEF Reached
  <2> QED
    BY <1>a, <1>b, <2>1
<1>c. ASSUME shut' \/ paused'
      PROVE  NoneStranded'
  BY <1>c DEF NoneStranded
<1>d. ASSUME NEW i \in Ids, mem'[i] = "claimed"
      PROVE  NoneStranded'
  BY <1>d DEF NoneStranded, Blocked, InState
<1>e. ASSUME NEW t, NEW a, Resume(mem', gen', t, a)
      PROVE  NoneStranded'
  <2>1. ~Blocked(mem', gen') => InState(mem', "scheduled") \subseteq timers'
    BY <1>e DEF Resume, Armed
  <2>2. /\ Blocked(mem, gen)' <=> Blocked(mem', gen')
        /\ InState(mem, "scheduled")' = InState(mem', "scheduled")
    BY DEF Blocked, Malformed, Pending, InState
  <2> QED
    BY <2>1, <2>2 DEF NoneStranded
<1>f. ASSUME InState(mem', "scheduled") \subseteq told'
      PROVE  NoneStranded'
  <2>1. InState(mem, "scheduled")' = InState(mem', "scheduled")
    BY DEF InState
  <2> QED
    BY <1>f, <2>1 DEF NoneStranded
<1>g. ASSUME NEW i \in Ids, NEW o \in Outcome, ApplyAndSave([mem EXCEPT ![i] = "claimed"], o)
      PROVE  /\ o = "failed" => mem' = mem /\ gen' = gen
             /\ o # "failed" => mem'[i] = "claimed"
  <2> DEFINE new == [mem EXCEPT ![i] = "claimed"]
  <2>1. new[i] = "claimed" /\ mem \in disk
    BY <1>0 DEF FileTypes, States
  <2>2. ApplyAndSave(new, o)
    BY <1>g
  <2> HIDE DEF new
  <2> QED
    BY <2>1, <2>2, ApplyEffect
<1>h. ASSUME NEW p, NEW f, NEW i \in Repeatable(p, f)
      PROVE  i \in Ids
  BY DEF Repeatable, Match, Pending, InState
<1> HIDE DEF Reached
<1>1. CASE UNCHANGED vars \/ Autosave \/ Accept \/ Start \/ (\E r \in local : LocalFires(r))
           \/ (\E r \in handoff : Dispatch(r)) \/ (\E p \in Prompts : FailForGood(p))
           \/ Capture \/ PublishPanics \/ HandOver
  <2>1. UNCHANGED <<mem, gen, shut, paused, timers, told, woken>>
    BY <1>1 DEF vars, Autosave, Accept, Start, LocalFires, Dispatch, FailForGood, Capture,
                PublishPanics, HandOver, fileVars, timerVars, frontVars, ghostVars
  <2> QED
    BY <1>b, <2>1
<1>2. CASE Shutdown \/ \E o \in SaveOutcomes : Esc(o)
  BY <1>2, <1>c DEF Shutdown, Esc
<1>3. CASE Restart
  <2>1. Resume(mem', gen', {}, {})
    BY <1>3 DEF Restart
  <2> QED
    BY <1>e, <2>1
<1>4. ASSUME NEW i \in Ids, TimerWakes(i)
      PROVE  NoneStranded'
  <2>1. \A j : Reached(j) => Reached(j)'
    BY <1>4 DEF TimerWakes, Reached, ghostVars
  <2>2. UNCHANGED <<mem, gen, shut, paused>>
    BY <1>4 DEF TimerWakes, fileVars, frontVars, ghostVars
  <2> QED
    BY <1>a, <2>1, <2>2
<1>5. ASSUME NEW o \in Outcome, NEW w \in woken, TimerClaims(w, o)
      PROVE  NoneStranded'
  <2>0. w.rid \in Ids /\ w = [rid |-> w.rid, fresh |-> w.fresh] /\ w.fresh \in BOOLEAN
    BY <1>0 DEF SetTypes
  <2>1. woken' = woken \ {w} /\ shut' = shut /\ paused' = paused
    BY <1>5 DEF TimerClaims, frontVars
  <2>2. ASSUME NEW i, i # w.rid \/ ~w.fresh \/ i \in told', timers \subseteq timers',
               told \subseteq told', Reached(i)
        PROVE  Reached(i)'
    <3>1. CASE i \in timers \union told \/ i \in told'
      BY <2>2, <3>1 DEF Reached
    <3>2. CASE [rid |-> i, fresh |-> TRUE] \in woken /\ (i # w.rid \/ ~w.fresh)
      <4>1. [rid |-> i, fresh |-> TRUE].rid = i /\ [rid |-> i, fresh |-> TRUE].fresh = TRUE
        OBVIOUS
      <4>2. [rid |-> i, fresh |-> TRUE] # w
        BY <3>2, <4>1
      <4> QED
        BY <2>1, <3>2, <4>2 DEF Reached
    <3> QED
      BY <2>2, <3>1, <3>2 DEF Reached
  <2>3. CASE Claimable(w.rid, w.fresh) /\ Claim(w.rid, o)
    <3>1. CASE o # "failed"
      BY <1>d, <1>g, <2>0, <2>3, <3>1 DEF Claim
    <3>2. CASE o = "failed"
      <4>1. mem' = mem /\ gen' = gen /\ timers' = timers /\ told' = told \union {w.rid}
        BY <1>g, <2>0, <2>3, <3>2 DEF Claim
      <4>2. \A i : Reached(i) => Reached(i)'
        BY <2>2, <4>1
      <4> QED
        BY <1>a, <2>1, <4>1, <4>2
    <3> QED
      BY <3>1, <3>2
  <2>4. CASE /\ ~Claimable(w.rid, w.fresh)
             /\ UNCHANGED <<fileVars, timers>> /\ told \subseteq told'
    <3>1. CASE InState(mem, "claimed") # {}
      BY <1>d, <2>4, <3>1 DEF InState, fileVars
    <3>2. CASE InState(mem, "claimed") = {}
      <4>1. ~w.fresh \/ w.rid \notin InState(mem, "scheduled")
        BY <2>4, <3>2 DEF Claimable, InState
      <4>2. \A i \in InState(mem, "scheduled") : Reached(i) => Reached(i)'
        BY <2>2, <2>4, <4>1
      <4> QED
        BY <1>a, <2>1, <2>4, <4>2 DEF fileVars
    <3> QED
      BY <3>1, <3>2
  <2> QED
    BY <1>5, <2>3, <2>4 DEF TimerClaims
<1>6. ASSUME NEW o \in Outcome, NEW r \in handoff, DispatchRefused(r, o)
      PROVE  NoneStranded'
  <2>0. UNCHANGED <<shut, paused, woken>>
    BY <1>6 DEF DispatchRefused, frontVars
  <2>1. CASE UNCHANGED <<fileVars, timers, told>>
    BY <1>b, <2>0, <2>1 DEF fileVars
  <2>2. CASE Release({r.rid}, o) /\ o = "failed" /\ UNCHANGED <<timers, told>>
    <3>1. mem' = mem /\ gen' = gen
      BY <1>0, <2>2, ApplyEffect DEF Release, fileVars, FileTypes
    <3> QED
      BY <1>b, <2>0, <2>2, <3>1
  <2>3. CASE gate
    BY <1>c, <2>0, <2>3 DEF GateInv
  <2>4. CASE Release({r.rid}, o) /\ \E t, a : Resume(mem', gen, t, a)
    <3>1. gen' = gen
      BY <2>4 DEF Release, fileVars, ApplyAndSave
    <3> QED
      BY <1>e, <2>4, <3>1
  <2> QED
    BY <1>6, <2>1, <2>2, <2>3, <2>4 DEF DispatchRefused
<1>7. ASSUME NEW o \in Outcome, NEW p, Submit(p, o)
      PROVE  NoneStranded'
  <2>0. UNCHANGED <<shut, paused, woken>>
    BY <1>7 DEF Submit
  <2>1. CASE UNCHANGED <<fileVars, timers, told>>
    BY <1>b, <2>0, <2>1 DEF fileVars
  <2>2. ASSUME NEW i \in Repeatable(p, TRUE), Claim(i, o)
        PROVE  NoneStranded'
    <3>1. CASE o # "failed"
      BY <1>d, <1>g, <1>h, <2>2, <3>1 DEF Claim
    <3>2. CASE o = "failed"
      <4>1. mem' = mem /\ gen' = gen /\ timers' = timers /\ told \subseteq told'
        BY <1>g, <1>h, <2>2, <3>2 DEF Claim
      <4> QED
        BY <1>b, <2>0, <4>1
    <3> QED
      BY <3>1, <3>2
  <2> QED
    BY <1>7, <2>1, <2>2 DEF Submit
<1>8. ASSUME NEW o \in Outcome, GiveUp(o)
      PROVE  NoneStranded'
  <2>0. UNCHANGED <<shut, paused, woken, told>>
    BY <1>8 DEF GiveUp, ghostVars
  <2>1. CASE shut \/ turn.cancelled
    BY <1>c, <2>0, <2>1 DEF GateInv
  <2>2. CASE UNCHANGED <<fileVars, timers, awaiting>>
    BY <1>b, <2>0, <2>2 DEF fileVars
  <2> QED
    BY <1>8, <2>1, <2>2 DEF GiveUp
<1>9. ASSUME NEW o \in Outcome, NEW p \in Prompts, Succeed(p, o)
      PROVE  NoneStranded'
  <2>0. UNCHANGED <<shut, paused, woken>>
    BY <1>9 DEF Succeed
  <2>1. CASE UNCHANGED <<fileVars, timers, told>>
    BY <1>b, <2>0, <2>1 DEF fileVars
  <2>2. CASE \E new : ApplyAndSave(new, o) /\ o = "failed" /\ UNCHANGED <<timers, told>>
    <3>1. mem' = mem /\ gen' = gen
      BY <2>2 DEF ApplyAndSave
    <3> QED
      BY <1>b, <2>0, <2>2, <3>1
  <2>3. CASE gen' = gen /\ \E t, a : Resume(mem', gen, t, a)
    BY <1>e, <2>3
  <2> QED
    BY <1>9, <2>1, <2>2, <2>3 DEF Succeed, ApplyAndSave
<1>10. ASSUME NEW o \in Outcome, Clear(o)
       PROVE  NoneStranded'
  <2>1. CASE o = "failed"
    BY <1>10, <1>b, <2>1 DEF Clear, ApplyAndSave, timerVars, ghostVars
  <2>2. CASE o # "failed"
    BY <1>10, <1>f, <2>2 DEF Clear, ApplyAndSave, InState
  <2> QED
    BY <2>1, <2>2
<1>11. ASSUME NEW o \in Outcome, Promote(o)
       PROVE  NoneStranded'
  <2>0. UNCHANGED <<shut, paused, woken>>
    BY <1>11 DEF Promote
  <2>1. CASE UNCHANGED <<fileVars, timers, told>>
    BY <1>b, <2>0, <2>1 DEF fileVars
  <2>2. ASSUME NEW p, NEW f, NEW i \in Repeatable(p, f), Claim(i, o)
        PROVE  NoneStranded'
    <3>1. CASE o # "failed"
      BY <1>d, <1>g, <1>h, <2>2, <3>1 DEF Claim
    <3>2. CASE o = "failed"
      <4>1. mem' = mem /\ gen' = gen /\ timers' = timers /\ told \subseteq told'
        BY <1>g, <1>h, <2>2, <3>2 DEF Claim
      <4> QED
        BY <1>b, <2>0, <4>1
    <3> QED
      BY <3>1, <3>2
  <2> QED
    BY <1>11, <2>1, <2>2 DEF Promote
<1>13. ASSUME NEW o \in Outcome, SetupPanics(o)
       PROVE  NoneStranded'
  <2>0. UNCHANGED <<shut, paused, woken>>
    BY <1>13 DEF SetupPanics
  <2>1. CASE UNCHANGED <<fileVars, timers, told>>
    BY <1>b, <2>0, <2>1 DEF fileVars
  <2>2. CASE Release({turn.req.rid}, o) /\ o = "failed" /\ UNCHANGED <<timers, told>>
    <3>1. mem' = mem /\ gen' = gen
      BY <1>0, <2>2, ApplyEffect DEF Release, fileVars, FileTypes
    <3> QED
      BY <1>b, <2>0, <2>2, <3>1
  <2>3. CASE Release({turn.req.rid}, o) /\ \E t, a : Resume(mem', gen, t, a)
    <3>1. gen' = gen
      BY <2>3 DEF Release, fileVars, ApplyAndSave
    <3> QED
      BY <1>e, <2>3, <3>1
  <2> QED
    BY <1>13, <2>1, <2>2, <2>3 DEF SetupPanics
<1>12. ASSUME NEW o \in Outcome, NEW p \in Prompts, NEW k \in Kinds, FailWithRetry(p, k, o)
       PROVE  NoneStranded'
  <2>0. UNCHANGED <<shut, paused, woken>>
    BY <1>12 DEF FailWithRetry
  <2>1. CASE UNCHANGED <<fileVars, timers, told>>
    BY <1>b, <2>0, <2>1 DEF fileVars
  <2>2. CASE o = "saved" /\ \E t, a : Resume(mem', gen', t, a)
    BY <1>e, <2>2
  <2>3. CASE \E new : mem' = new /\ told' = told \union InState(new, "scheduled")
    BY <1>f, <2>3
  <2>4. CASE /\ mem' = mem /\ UNCHANGED <<timers, told>>
             /\ \E g : gen' = [gen EXCEPT ![lastId + 1] = g]
    <3>1. \A i \in Pending(mem) : i # lastId + 1 /\ i \in Ids
      BY <1>0 DEF FileTypes, FilesInv, Pending, InState, Ids
    <3>2. \A i \in Pending(mem) : gen'[i] = gen[i]
      BY <1>0, <2>4, <3>1 DEF FileTypes
    <3>3. Blocked(mem, gen) => Blocked(mem, gen')
      BY <3>2 DEF Blocked, Malformed
    <3>4. \A i : Reached(i) => Reached(i)'
      BY <2>0, <2>4 DEF Reached
    <3> QED
      BY <1>a, <2>0, <2>4, <3>3, <3>4
  <2>5. ASSUME NEW new, NEW g, NEW t, lastId < MaxIds,
               gen' = [gen EXCEPT ![lastId + 1] = g],
               mem' = (IF o = "failed" THEN mem ELSE new),
               \/ o = "saved" /\ Resume(new, gen', t, awaiting)
               \/ o = "uncertain" /\ told' = told \union InState(new, "scheduled")
               \/ o = "failed" /\ UNCHANGED <<timers, told>>
        PROVE  NoneStranded'
    <3>1. CASE o = "saved"
      <4>1. mem' = new /\ Resume(new, gen', t, awaiting)
        BY <2>5, <3>1
      <4> QED
        BY <2>2, <3>1, <4>1
    <3>2. CASE o = "uncertain"
      <4>1. mem' = new /\ told' = told \union InState(new, "scheduled")
        BY <2>5, <3>2
      <4> QED
        BY <2>3, <4>1
    <3>3. CASE o = "failed"
      BY <2>4, <2>5, <3>3
    <3> QED
      BY <2>5, <3>1, <3>2, <3>3
  <2>6. CASE turn.req.fresh /\ Room(turn.req.rid)
    <3> DEFINE kept == IF turn.req.rid = 0 THEN mem ELSE [mem EXCEPT ![turn.req.rid] = "none"]
               new == [kept EXCEPT ![lastId + 1] = "scheduled"]
               g == [prompt |-> p, attempts |-> Carried(Counted(p, k)[p], turn.req.rid)]
    <3>1. /\ lastId < MaxIds
          /\ gen' = [gen EXCEPT ![lastId + 1] = g]
          /\ mem' = (IF o = "failed" THEN mem ELSE new)
          /\ \/ o = "saved" /\ Resume(new, gen', timers \union {lastId + 1}, awaiting)
             \/ o = "uncertain" /\ told' = told \union InState(new, "scheduled")
             \/ o = "failed" /\ UNCHANGED <<timers, told>>
      BY <1>12, <2>6 DEF FailWithRetry
    <3> HIDE DEF new, g
    <3> QED
      BY <2>5, <3>1
  <2> QED
    BY <1>12, <2>1, <2>6 DEF FailWithRetry
<1> QED
  BY <1>1, <1>2, <1>3, <1>4, <1>5, <1>6, <1>7, <1>8, <1>9, <1>10, <1>11, <1>12, <1>13,
     Sizes
  DEF Next, Foreground, Outcome

\* NoneStranded: a scheduled recovery has a timer, or someone is about to claim it,
\* or a claim of another (or an inconsistent batch) holds it back, or the user was
\* told or has paused automation with Esc; in particular whoever ends a claim arms
\* the others again (resumePersistedRecoveries).
THEOREM NoRecoveryStranded == Spec => []NoneStranded
<1>1. Init => GateInv /\ NoneStranded
  BY DEF Init, GateInv, NoneStranded, InState, Idle, Turn
<1>2. TypeInv /\ GateInv /\ [Next]_vars => GateInv'
  BY GateStep
<1>3. TypeInv /\ GateInv /\ NoneStranded /\ [Next]_vars => NoneStranded'
  BY StrandedStep
<1> QED
  BY <1>1, <1>2, <1>3, TypeInvariant, PTL DEF Spec

-----------------------------------------------------------------------------
(* One holder *)

\* Fewer retries of the current lineage,
LEMMA CarriesFewer ==
  ASSUME NEW S, NEW T, \A r \in S : r.fresh => r \in T, NEW i
  PROVE  (Carries(S, i) => Carries(T, i)) /\ (CarriesOnce(T, i) => CarriesOnce(S, i))
  BY DEF Carries, CarriesOnce

\* one less,
LEMMA CarriesWithout ==
  ASSUME NEW S, NEW r \in S, NEW i, CarriesOnce(S, i), r.fresh, r.rid = i
  PROVE  ~Carries(S \ {r}, i)
  BY DEF Carries, CarriesOnce

\* one more.
LEMMA CarriesMore ==
  ASSUME NEW S, NEW r, NEW i
  PROVE  /\ Carries(S \union {r}, i) => Carries(S, i) \/ (r.rid = i /\ r.fresh)
         /\ CarriesOnce(S, i) /\ (r.rid = i /\ r.fresh => ~Carries(S, i))
              => CarriesOnce(S \union {r}, i)
  BY DEF Carries, CarriesOnce

\* The FIFO without its head,
LEMMA WaitsTail ==
  ASSUME NEW q \in Seq(RequestType), q # <<>>, NEW i
  PROVE  /\ Waits(Tail(q), i) => Waits(q, i)
         /\ Waits(q, Head(q).rid)
         /\ WaitsOnce(q, i) => WaitsOnce(Tail(q), i)
         /\ WaitsOnce(q, i) /\ Head(q).rid = i => ~Waits(Tail(q), i)
<1>1. /\ Head(q) = q[1] /\ 1 \in DOMAIN q /\ DOMAIN Tail(q) = 1 .. Len(q) - 1 /\ Len(q) \in Nat
      /\ \A n \in DOMAIN Tail(q) : n + 1 \in DOMAIN q /\ Tail(q)[n] = q[n + 1]
  OBVIOUS
<1>2. Waits(Tail(q), i) => Waits(q, i)
  BY <1>1 DEF Waits
<1>3. Waits(q, Head(q).rid)
  BY <1>1 DEF Waits
<1>4. ASSUME WaitsOnce(q, i), NEW m \in DOMAIN Tail(q), NEW n \in DOMAIN Tail(q),
             Tail(q)[m].rid = i, Tail(q)[n].rid = i
      PROVE  m = n
  <2>1. m + 1 = n + 1
    BY <1>1, <1>4 DEF WaitsOnce
  <2>2. m \in 1 .. Len(q) - 1 /\ n \in 1 .. Len(q) - 1
    BY <1>1
  <2> QED
    BY <1>1, <2>1, <2>2
<1>5. ASSUME WaitsOnce(q, i), Head(q).rid = i, NEW n \in DOMAIN Tail(q), Tail(q)[n].rid = i
      PROVE  FALSE
  <2>1. n + 1 = 1
    BY <1>1, <1>5 DEF WaitsOnce
  <2>2. n \in 1 .. Len(q) - 1
    BY <1>1
  <2> QED
    BY <1>1, <2>1, <2>2
<1> QED
  BY <1>2, <1>3, <1>4, <1>5 DEF WaitsOnce, Waits

\* a part of it,
LEMMA WaitsSelected ==
  ASSUME NEW t, NEW q, NEW kinds, Chosen(t, q, kinds), NEW i
  PROVE  (Waits(t, i) => Waits(q, i)) /\ (WaitsOnce(q, i) => WaitsOnce(t, i))
<1>1. PICK f \in [DOMAIN t -> DOMAIN q] :
        /\ \A n \in DOMAIN t : t[n] = q[f[n]] /\ q[f[n]].kind \in kinds
        /\ \A m, n \in DOMAIN t : f[m] = f[n] => m = n
  BY DEF Chosen
<1>2. \A n \in DOMAIN t : f[n] \in DOMAIN q
  BY <1>1
<1> QED
  BY <1>1, <1>2 DEF Waits, WaitsOnce

\* and with one more.
LEMMA WaitsMore ==
  ASSUME NEW q \in Seq(RequestType), NEW r \in RequestType, NEW i
  PROVE  /\ Waits(Append(q, r), i) => Waits(q, i) \/ r.rid = i
         /\ WaitsOnce(q, i) /\ (r.rid = i => ~Waits(q, i)) => WaitsOnce(Append(q, r), i)
<1>1. /\ DOMAIN Append(q, r) = DOMAIN q \union {Len(q) + 1} /\ Len(q) + 1 \notin DOMAIN q
      /\ \A n \in DOMAIN q : Append(q, r)[n] = q[n]
      /\ Append(q, r)[Len(q) + 1] = r
  OBVIOUS
<1> QED
  BY <1>1 DEF Waits, WaitsOnce

\* What waits behind a finished turn is part of what waits.
LEMMA NextWaits ==
  ASSUME RequestTypes, NEW i
  PROVE  (Waits(NextWaiting, i) => Waits(queue, i)) /\ (WaitsOnce(queue, i) => WaitsOnce(NextWaiting, i))
<1>1. CASE gate
  BY <1>1, OfKindsSelects, WaitsSelected DEF NextWaiting, RequestTypes
<1>2. CASE ~gate
  BY <1>2 DEF NextWaiting
<1> QED
  BY <1>1, <1>2

HeldInv == HeldIsClaimed /\ HeldOnce

\* The places after a step.
LEMMA PlacesNext ==
  ASSUME NEW i
  PROVE  /\ InQueue(i)' <=> Waits(queue', i)
         /\ InHandoff(i)' <=> Carries(handoff', i)
         /\ InLocal(i)' <=> Carries(local', i)
         /\ WaitsOnce(queue, i)' <=> WaitsOnce(queue', i)
         /\ CarriesOnce(handoff, i)' <=> CarriesOnce(handoff', i)
         /\ CarriesOnce(local, i)' <=> CarriesOnce(local', i)
  BY DEF InQueue, InHandoff, InLocal, Waits, WaitsOnce, Carries, CarriesOnce

\* A generation is in the turn only if it was there before, and nobody else releases
\* it once it has left the place where Esc may.
StaysInTurn(i) ==
  InTurn(i)' => InTurn(i) /\ (turn'.pc = turn.pc \/ turn.pc # "claiming" \/ i \notin awaiting')

\* A step after which nothing is held that was not held there before, and that
\* takes no claim from what is still held.
LEMMA HeldKept ==
  ASSUME FileTypes, HeldInv,
         \A i \in Ids : StaysInTurn(i),
         \A i \in Ids : (Waits(queue', i) => Waits(queue, i)) /\ WaitsOnce(queue', i),
         \A r \in handoff' : r.fresh => r \in handoff,
         \A r \in local' : r.fresh => r \in local,
         awaiting' \subseteq awaiting,
         \A d \in disk' : d \in disk \/ \A i \in Ids : mem[i] = "claimed" /\ Held(i)' => d[i] = "claimed"
  PROVE  HeldInv'
<1>1. ASSUME NEW i \in Ids
      PROVE  /\ InQueue(i)' => InQueue(i)
             /\ InHandoff(i)' => InHandoff(i)
             /\ InLocal(i)' => InLocal(i)
             /\ CarriesOnce(handoff, i)' /\ CarriesOnce(local, i)' /\ WaitsOnce(queue, i)'
  <2>1. CarriesOnce(handoff, i) /\ CarriesOnce(local, i)
    BY DEF HeldInv, HeldOnce
  <2> QED
    BY <2>1, PlacesNext, CarriesFewer DEF InHandoff, InLocal, InQueue
<1>2. \A i \in Ids : Held(i)' => Held(i)
  BY <1>1 DEF Held, StaysInTurn
<1>3. HeldIsClaimed'
  <2> SUFFICES ASSUME NEW i \in Ids, Held(i)', NEW d \in disk'
               PROVE  d[i] = "claimed"
    BY DEF HeldIsClaimed
  <2>1. \A e \in disk : e[i] = "claimed"
    BY <1>2 DEF HeldInv, HeldIsClaimed
  <2>2. mem[i] = "claimed"
    BY <2>1 DEF FileTypes
  <2> QED
    BY <2>1, <2>2
<1>4. HeldOnce'
  BY <1>1 DEF HeldInv, HeldOnce, Apart, StaysInTurn
<1> QED
  BY <1>3, <1>4 DEF HeldInv

\* Nothing is held while there is no claim.
LEMMA NobodyHolds ==
  ASSUME FileTypes, HeldInv, InState(mem, "claimed") = {}
  PROVE  \A i \in Ids : ~Held(i)
  BY DEF FileTypes, HeldInv, HeldIsClaimed, InState

\* A claim hands the generation to the dispatcher alone.
LEMMA ClaimHolds ==
  ASSUME FileTypes, HeldInv, NEW i \in Ids, InState(mem, "claimed") = {}, NEW o \in Outcome, Claim(i, o),
         handoff' = IF o = "saved" THEN handoff \union {Generation(i)} ELSE handoff,
         UNCHANGED <<local, queue, turn>>
  PROVE  HeldInv'
<1>1. \A j \in Ids : ~Held(j)
  BY NobodyHolds
<1>2. \A j \in Ids : ~InTurn(j)' /\ ~InQueue(j)' /\ ~InLocal(j)'
  BY <1>1, PlacesNext DEF Held, InTurn, InQueue, InLocal
<1>3. \A j \in Ids : WaitsOnce(queue, j)' /\ CarriesOnce(local, j)'
  BY PlacesNext DEF HeldInv, HeldOnce
<1>4. CASE o = "saved"
  <2> DEFINE new == [mem EXCEPT ![i] = "claimed"]
  <2>1. new[i] = "claimed"
    BY DEF FileTypes, States
  <2>2. disk' = {new} /\ handoff' = handoff \union {Generation(i)}
    BY <1>4 DEF Claim, ApplyAndSave, Contents
  <2>3. Generation(i).rid = i /\ Generation(i).fresh = TRUE
    BY GenerationFields
  <2> HIDE DEF new
  <2>4. \A j \in Ids : (InHandoff(j)' => j = i) /\ CarriesOnce(handoff, j)'
    <3>1. \A j \in Ids : ~Carries(handoff, j) /\ CarriesOnce(handoff, j)
      BY <1>1 DEF HeldInv, HeldOnce, Held, InHandoff
    <3> QED
      BY <2>2, <2>3, <3>1, CarriesMore, PlacesNext
  <2>5. HeldIsClaimed'
    BY <1>2, <2>1, <2>2, <2>4 DEF HeldIsClaimed, Held
  <2>6. HeldOnce'
    BY <1>2, <1>3, <2>4 DEF HeldOnce, Apart
  <2> QED
    BY <2>5, <2>6 DEF HeldInv
<1>5. CASE o # "saved"
  <2>1. handoff' = handoff
    BY <1>5
  <2>2. \A j \in Ids : ~InHandoff(j)' /\ CarriesOnce(handoff, j)'
    BY <1>1, <2>1, PlacesNext DEF Held, InHandoff, HeldInv, HeldOnce
  <2> QED
    BY <1>2, <1>3, <2>2 DEF HeldInv, HeldIsClaimed, HeldOnce, Held, Apart
<1> QED
  BY <1>4, <1>5

\* What a release of ids leaves to the others.
LEMMA ReleaseKeeps ==
  ASSUME FileTypes, NEW ids, NEW o \in Outcome, Release(ids, o), NEW d \in disk'
  PROVE  d \in disk \/ \A i \in Ids : mem[i] = "claimed" /\ i \notin ids => d[i] = "claimed"
<1>1. \A i \in Ids : mem[i] = "claimed" /\ i \notin ids => Released(ids)[i] = "claimed"
  BY DEF Released
<1> DEFINE new == Released(ids)
<1> HIDE DEF new
<1>2. disk' = disk \/ ApplyAndSave(new, o)
  BY DEF Release, new, fileVars
<1>3. disk' \subseteq disk \union {new}
  BY <1>2, ApplyEffect DEF FileTypes
<1> QED
  BY <1>1, <1>3 DEF new

\* No step makes a second holder, or takes the claim from one.
LEMMA HeldStep ==
  ASSUME TypeInv, HeldInv, [Next]_vars
  PROVE  HeldInv'
<1>0. FileTypes /\ RequestTypes /\ SetTypes
  BY TypeParts
<1>i. 0 \notin Ids /\ \A i \in Ids : i \in 0 .. MaxIds /\ i # 0
  BY Sizes DEF Ids
<1>a. ASSUME turn'.pc \notin {"claiming", "accepted", "running"}
      PROVE  \A i \in Ids : ~InTurn(i)' /\ StaysInTurn(i)
  BY <1>a DEF InTurn, StaysInTurn
<1>b. ASSUME queue' = queue
      PROVE  \A i \in Ids : (Waits(queue', i) => Waits(queue, i)) /\ WaitsOnce(queue', i)
  BY <1>b DEF HeldInv, HeldOnce
<1>c. ASSUME NEW r \in RequestType, r.rid = 0, queue' = Append(queue, r)
      PROVE  \A i \in Ids : (Waits(queue', i) => Waits(queue, i)) /\ WaitsOnce(queue', i)
  BY <1>0, <1>c, <1>i, WaitsMore DEF HeldInv, HeldOnce, RequestTypes
<1>d. ASSUME queue' = <<>>
      PROVE  \A i \in Ids : (Waits(queue', i) => Waits(queue, i)) /\ WaitsOnce(queue', i)
  BY <1>d DEF Waits, WaitsOnce
<1>e. ASSUME turn' = turn
      PROVE  \A i \in Ids : (InTurn(i)' => InTurn(i)) /\ StaysInTurn(i)
  BY <1>e DEF InTurn, StaysInTurn
<1>f. /\ Turn("finishing", NoRequest).pc \notin {"claiming", "accepted", "running"}
      /\ Turn("handing", NoRequest).pc \notin {"claiming", "accepted", "running"}
      /\ Idle.pc \notin {"claiming", "accepted", "running"}
  BY NoTurnFields
<1>g. \A p \in AnyPrompt, kind \in {"user", "explicit"} :
         Request(kind, p, 0, FALSE) \in RequestType /\ Request(kind, p, 0, FALSE).rid = 0
  BY Sizes DEF Request, RequestType, AnyPrompt
<1>1. CASE UNCHANGED vars \/ Autosave \/ \E i \in Ids : TimerWakes(i)
  <2>1. UNCHANGED <<handoff, local, queue, turn, awaiting>> /\ disk' \subseteq disk
    BY <1>0, <1>1 DEF vars, Autosave, TimerWakes, fileVars, timerVars, frontVars, FileTypes
  <2> QED
    BY <1>0, <1>b, <1>e, <2>1, HeldKept
<1>2. CASE Accept
  <2>1. UNCHANGED <<handoff, local, awaiting, disk>>
    BY <1>2 DEF Accept, fileVars, timerVars
  <2>2. queue' = queue \/ \E kind \in {"user", "explicit"} : queue' = Append(queue, Request(kind, submit, 0, FALSE))
    BY <1>2 DEF Accept
  <2>3. turn' = turn \/ turn' = Turn("accepted", Request("user", submit, 0, FALSE))
    BY <1>2 DEF Accept
  <2>4. submit \in AnyPrompt
    BY <1>0 DEF RequestTypes
  <2>5. \A i \in Ids : StaysInTurn(i)
    <3>1. CASE turn' = Turn("accepted", Request("user", submit, 0, FALSE))
      <4> DEFINE r == Request("user", submit, 0, FALSE)
      <4>0. r \in RequestType /\ r.rid = 0 /\ turn' = Turn("accepted", r)
        BY <1>g, <2>4, <3>1
      <4> HIDE DEF r
      <4>1. turn'.req.rid = 0
        BY <4>0, TurnFields DEF Places
      <4> QED
        BY <1>i, <4>1 DEF InTurn, StaysInTurn
    <3> QED
      BY <1>e, <2>3, <3>1
  <2>6. \A i \in Ids : (Waits(queue', i) => Waits(queue, i)) /\ WaitsOnce(queue', i)
    BY <1>b, <1>c, <1>g, <2>2, <2>4
  <2> QED
    BY <1>0, <2>1, <2>5, <2>6, HeldKept
<1>3. CASE Shutdown
  <2>1. UNCHANGED <<handoff, awaiting, disk, queue>> /\ local' = {}
    BY <1>3 DEF Shutdown, fileVars
  <2>2. turn'.pc = turn.pc /\ turn'.req = turn.req
    BY <1>0, <1>3 DEF Shutdown, RequestTypes, TurnType
  <2>3. \A i \in Ids : StaysInTurn(i)
    BY <2>2 DEF InTurn, StaysInTurn
  <2> QED
    BY <1>0, <1>b, <2>1, <2>3, HeldKept
<1>4. CASE Restart
  <2>1. handoff' = {} /\ local' = {} /\ queue' = <<>> /\ turn' = Idle
    BY <1>4 DEF Restart
  <2>2. \A i \in Ids : ~InTurn(i)'
    BY <1>a, <1>f, <2>1
  <2>3. \A i \in Ids : ~Held(i)' /\ WaitsOnce(queue, i)' /\ CarriesOnce(handoff, i)' /\ CarriesOnce(local, i)'
    BY <2>1, <2>2 DEF Held, InQueue, InHandoff, InLocal, Waits, Carries, WaitsOnce, CarriesOnce
  <2> QED
    BY <2>3 DEF HeldInv, HeldIsClaimed, HeldOnce, Held, Apart
<1>5. CASE Start
  <2>1. UNCHANGED <<handoff, local, awaiting, disk, queue>>
    BY <1>5 DEF Start, fileVars, timerVars
  <2>2. turn.pc = "accepted" /\ (turn.req.fresh \/ turn.req.rid = 0) /\ turn'.req = turn.req
    BY <1>0, <1>5 DEF Start, Current, RequestTypes, TurnType
  <2>3. \A i \in Ids : StaysInTurn(i)
    BY <1>i, <2>2 DEF InTurn, StaysInTurn
  <2> QED
    BY <1>0, <1>b, <2>1, <2>3, HeldKept
<1>6. CASE \E p \in Prompts : FailForGood(p)
  <2>1. UNCHANGED <<handoff, local, awaiting, disk, queue>> /\ turn' = Turn("finishing", NoRequest)
    BY <1>6 DEF FailForGood, Finishing, fileVars, timerVars
  <2> QED
    BY <1>0, <1>a, <1>b, <1>f, <2>1, HeldKept
<1>7. ASSUME NEW o \in Outcome, NEW w \in woken, TimerClaims(w, o)
      PROVE  HeldInv'
  <2>1. w.rid \in Ids /\ UNCHANGED <<local, queue, turn>>
    BY <1>0, <1>7 DEF SetTypes, TimerClaims, frontVars
  <2>2. CASE Claimable(w.rid, w.fresh)
    BY <1>0, <1>7, <2>1, <2>2, ClaimHolds DEF TimerClaims, Claimable
  <2>3. CASE ~Claimable(w.rid, w.fresh)
    <3>1. UNCHANGED <<handoff, awaiting, disk>>
      BY <1>7, <2>3 DEF TimerClaims, fileVars
    <3> QED
      BY <1>0, <1>b, <1>e, <2>1, <3>1, HeldKept
  <2> QED
    BY <2>2, <2>3
<1>8. ASSUME NEW r \in local, LocalFires(r)
      PROVE  HeldInv'
  <2>0. UNCHANGED <<queue, turn, awaiting, disk>> /\ local' = local \ {r} /\ handoff' = handoff \union {r}
    BY <1>8 DEF LocalFires, fileVars, frontVars
  <2>1. CASE r.fresh /\ r.rid \in Ids
    <3> DEFINE i == r.rid
    <3>1. InLocal(i) /\ Apart(i) /\ CarriesOnce(local, i)
      BY <2>1 DEF InLocal, Carries, HeldInv, HeldOnce
    <3>2. ~InQueue(i) /\ ~InTurn(i) /\ ~Carries(handoff, i) /\ ~Carries(local', i)
      BY <2>0, <2>1, <3>1, CarriesWithout DEF Apart, InHandoff
    <3>3. ASSUME NEW j \in Ids
          PROVE  /\ InTurn(j)' <=> InTurn(j)
                 /\ InQueue(j)' <=> InQueue(j)
                 /\ InHandoff(j)' => InHandoff(j) \/ j = i
                 /\ InLocal(j)' => InLocal(j)
                 /\ WaitsOnce(queue, j)' /\ CarriesOnce(handoff, j)' /\ CarriesOnce(local, j)'
      <4>1. CarriesOnce(handoff, j) /\ CarriesOnce(local, j) /\ WaitsOnce(queue, j)
        BY DEF HeldInv, HeldOnce
      <4>2. (Carries(local', j) => Carries(local, j)) /\ CarriesOnce(local', j)
        BY <2>0, <4>1, CarriesFewer
      <4>3. (Carries(handoff', j) => Carries(handoff, j) \/ j = i) /\ CarriesOnce(handoff', j)
        BY <2>0, <3>2, <4>1, CarriesMore
      <4> QED
        BY <2>0, <4>1, <4>2, <4>3, PlacesNext DEF InTurn, InQueue, InHandoff, InLocal
    <3>4. ~InQueue(i)' /\ ~InTurn(i)' /\ ~InLocal(i)'
      BY <2>1, <3>2, <3>3, PlacesNext
    <3>5. HeldIsClaimed'
      <4>1. \A j \in Ids : Held(j)' => Held(j)
        BY <3>1, <3>3 DEF Held
      <4> QED
        BY <2>0, <4>1 DEF HeldInv, HeldIsClaimed
    <3>6. \A j \in Ids : Apart(j)'
      <4>1. \A j \in Ids : j # i => Apart(j)'
        BY <2>0, <3>3 DEF HeldInv, HeldOnce, Apart
      <4>2. Apart(i)'
        BY <3>4 DEF Apart
      <4> QED
        BY <4>1, <4>2
    <3> QED
      BY <3>3, <3>5, <3>6 DEF HeldInv, HeldOnce
  <2>2. CASE ~(r.fresh /\ r.rid \in Ids)
    <3>1. ASSUME NEW j \in Ids
          PROVE  /\ InTurn(j)' <=> InTurn(j)
                 /\ InQueue(j)' <=> InQueue(j)
                 /\ InHandoff(j)' => InHandoff(j)
                 /\ InLocal(j)' => InLocal(j)
                 /\ WaitsOnce(queue, j)' /\ CarriesOnce(handoff, j)' /\ CarriesOnce(local, j)'
      <4>1. CarriesOnce(handoff, j) /\ CarriesOnce(local, j) /\ WaitsOnce(queue, j)
        BY DEF HeldInv, HeldOnce
      <4>2. (Carries(local', j) => Carries(local, j)) /\ CarriesOnce(local', j)
        BY <2>0, <4>1, CarriesFewer
      <4>3. (Carries(handoff', j) => Carries(handoff, j)) /\ CarriesOnce(handoff', j)
        BY <2>0, <2>2, <4>1, CarriesMore
      <4> QED
        BY <2>0, <4>1, <4>2, <4>3, PlacesNext DEF InTurn, InQueue, InHandoff, InLocal
    <3>2. \A j \in Ids : Apart(j)'
      BY <2>0, <3>1 DEF HeldInv, HeldOnce, Apart
    <3>3. HeldIsClaimed'
      BY <2>0, <3>1 DEF HeldInv, HeldIsClaimed, Held
    <3> QED
      BY <3>1, <3>2, <3>3 DEF HeldInv, HeldOnce
  <2> QED
    BY <2>1, <2>2
<1>9. ASSUME NEW r \in handoff, Dispatch(r)
      PROVE  HeldInv'
  <2>0. UNCHANGED <<local, disk>> /\ handoff' = handoff \ {r}
    BY <1>9 DEF Dispatch, fileVars
  <2>r. r \in RequestType /\ r.rid \in 0 .. MaxIds
    BY <1>0 DEF RequestTypes, RequestType
  <2>1. CASE UNCHANGED <<turn, queue, awaiting>>
    BY <1>0, <1>b, <1>e, <2>0, <2>1, HeldKept
  <2>2. CASE r.fresh /\ awaiting' = awaiting \ {r.rid} /\ Enters(r)
    <3>1. ASSUME NEW j \in Ids
          PROVE  /\ InLocal(j)' <=> InLocal(j)
                 /\ InHandoff(j)' => InHandoff(j) /\ j # r.rid
                 /\ CarriesOnce(local, j)' /\ CarriesOnce(handoff, j)'
      <4>1. CarriesOnce(handoff, j) /\ CarriesOnce(local, j)
        BY DEF HeldInv, HeldOnce
      <4>2. (Carries(handoff', j) => Carries(handoff, j)) /\ CarriesOnce(handoff', j)
        BY <2>0, <4>1, CarriesFewer
      <4>3. j = r.rid => ~Carries(handoff', j)
        BY <2>0, <2>2, <4>1, CarriesWithout
      <4> QED
        BY <2>0, <4>1, <4>2, <4>3, PlacesNext DEF InHandoff, InLocal
    <3>2. r.rid \in Ids => /\ ~InTurn(r.rid) /\ ~InQueue(r.rid) /\ ~InLocal(r.rid) /\ Held(r.rid)
      BY <2>2 DEF HeldInv, HeldOnce, Apart, InHandoff, Carries, Held
    <3>3. ASSUME NEW j \in Ids
          PROVE  /\ InTurn(j)' => InTurn(j) \/ (j = r.rid /\ turn.pc = "idle")
                 /\ InQueue(j)' => InQueue(j) \/ (j = r.rid /\ turn.pc # "idle")
                 /\ WaitsOnce(queue, j)'
                 /\ turn.pc = "idle" => ~InTurn(j)
                 /\ turn.pc # "idle" => turn' = turn
      <4>1. CASE turn.pc = "idle" /\ turn' = Turn("accepted", r) /\ queue' = queue
        <5>1. turn'.req = r
          BY <2>r, <4>1, TurnFields DEF Places
        <5>2. InTurn(j)' => j = r.rid
          BY <5>1 DEF InTurn
        <5> QED
          BY <1>b, <4>1, <5>2, PlacesNext DEF InTurn, InQueue
      <4>2. CASE turn.pc # "idle" /\ queue' = Append(queue, r) /\ turn' = turn
        <5>1. (Waits(queue', j) => Waits(queue, j) \/ r.rid = j) /\ WaitsOnce(queue', j)
          <6>1. queue \in Seq(RequestType) /\ WaitsOnce(queue, j) /\ (r.rid = j => ~Waits(queue, j))
            BY <1>0, <3>2 DEF RequestTypes, HeldInv, HeldOnce, InQueue
          <6> QED
            BY <2>r, <4>2, <6>1, WaitsMore
        <5>2. InTurn(j)' => InTurn(j)
          BY <1>e, <4>2
        <5> QED
          BY <4>2, <5>1, <5>2, PlacesNext DEF InQueue
      <4> QED
        BY <2>2, <4>1, <4>2 DEF Enters
    <3>4. \A j \in Ids : Held(j)' => Held(j)
      BY <3>1, <3>2, <3>3 DEF Held
    <3>5. HeldIsClaimed'
      BY <2>0, <3>4 DEF HeldInv, HeldIsClaimed
    <3>6. \A j \in Ids : Apart(j)'
      <4> SUFFICES ASSUME NEW j \in Ids PROVE Apart(j)'
        OBVIOUS
      <4>1. Apart(j)
        BY DEF HeldInv, HeldOnce
      <4>2. CASE j # r.rid
        BY <2>2, <3>1, <3>3, <4>1, <4>2 DEF Apart
      <4>3. CASE j = r.rid
        BY <2>2, <3>1, <3>2, <3>3, <4>1, <4>3 DEF Apart
      <4> QED
        BY <4>2, <4>3
    <3> QED
      BY <3>1, <3>3, <3>5, <3>6 DEF HeldInv, HeldOnce
  <2> QED
    BY <1>9, <2>1, <2>2 DEF Dispatch
<1>10. ASSUME NEW o \in Outcome, NEW r \in handoff, DispatchRefused(r, o)
       PROVE  HeldInv'
  <2>0. UNCHANGED <<local, queue, turn>> /\ handoff' = handoff \ {r} /\ r.fresh
    BY <1>10 DEF DispatchRefused, frontVars
  <2>1. awaiting' \subseteq awaiting
    BY <1>10 DEF DispatchRefused, Resume
  <2>2. \A i \in Ids : Held(i)' => i # r.rid
    <3> SUFFICES ASSUME r.rid \in Ids PROVE ~Held(r.rid)'
      OBVIOUS
    <3>1. InHandoff(r.rid) /\ Apart(r.rid) /\ CarriesOnce(handoff, r.rid)
      BY <2>0 DEF InHandoff, Carries, HeldInv, HeldOnce
    <3>2. ~Carries(handoff', r.rid)
      BY <2>0, <3>1, CarriesWithout
    <3>3. ~Carries(local, r.rid) /\ ~Waits(queue, r.rid) /\ ~InTurn(r.rid)
      BY <3>1 DEF Apart, InLocal, InQueue
    <3> QED
      BY <1>e, <2>0, <3>2, <3>3, PlacesNext DEF Held
  <2>3. ASSUME NEW d \in disk'
        PROVE  d \in disk \/ \A i \in Ids : mem[i] = "claimed" /\ Held(i)' => d[i] = "claimed"
    <3>1. CASE UNCHANGED fileVars
      BY <3>1 DEF fileVars
    <3>2. CASE Release({r.rid}, o)
      BY <1>0, <2>2, <3>2, ReleaseKeeps
    <3> QED
      BY <1>10, <3>1, <3>2 DEF DispatchRefused
  <2>4. \A s \in handoff' : s.fresh => s \in handoff
    BY <2>0
  <2>5. \A s \in local' : s.fresh => s \in local
    BY <2>0
  <2> QED
    BY <1>0, <1>b, <1>e, <2>0, <2>1, <2>3, <2>4, <2>5, HeldKept
<1>j. ASSUME NEW p, NEW f, NEW i \in Repeatable(p, f)
      PROVE  i \in Ids /\ InState(mem, "claimed") = {}
  BY DEF Repeatable, Match, Pending, InState, Claimable
<1>11. ASSUME NEW o \in Outcome, NEW p \in Prompts \union {ClearCommand}, Submit(p, o)
       PROVE  HeldInv'
  <2>0. UNCHANGED <<local, turn>>
    BY <1>11 DEF Submit
  <2>1. CASE \E i \in Repeatable(p, TRUE) :
               /\ Claim(i, o) /\ queue' = queue
               /\ handoff' = IF o = "saved" THEN handoff \union {Generation(i)} ELSE handoff
    BY <1>0, <1>j, <2>0, <2>1, ClaimHolds
  <2>2. CASE UNCHANGED <<fileVars, awaiting, handoff>>
             /\ (queue' = queue \/ queue' = Append(queue, Request("explicit", p, 0, FALSE)))
    <3>1. p \in AnyPrompt
      BY DEF AnyPrompt
    <3>2. \A i \in Ids : (Waits(queue', i) => Waits(queue, i)) /\ WaitsOnce(queue', i)
      BY <1>b, <1>c, <1>g, <2>2, <3>1
    <3> QED
      BY <1>0, <1>e, <2>0, <2>2, <3>2, HeldKept DEF fileVars
  <2> QED
    BY <1>11, <2>1, <2>2 DEF Submit
<1>12. ASSUME NEW o \in Outcome, Esc(o)
       PROVE  HeldInv'
  <2>1. awaiting' = {} /\ queue' = <<>> /\ handoff' = Stale(handoff) /\ local' = Stale(local)
    BY <1>12 DEF Esc, BoundaryStales
  <2>2. (\A r \in handoff' : ~r.fresh) /\ (\A r \in local' : ~r.fresh)
    BY <1>0, <2>1, StaleSet DEF RequestTypes
  <2>3. turn'.pc = turn.pc /\ turn'.req.rid = turn.req.rid /\ turn'.req.fresh = FALSE
    <3>1. turn' = [[turn EXCEPT !.req.fresh = FALSE] EXCEPT !.cancelled = turn.pc \in Owned]
      BY <1>12 DEF Esc, StaleTurn
    <3>2. (turn.pc \in Owned) \in BOOLEAN
      OBVIOUS
    <3> QED
      BY <1>0, <3>1, <3>2, StaleFields DEF RequestTypes
  <2>4. \A i \in Ids : StaysInTurn(i) /\ (InTurn(i)' => InTurn(i) /\ turn.pc = "running")
    BY <2>3 DEF InTurn, StaysInTurn
  <2>5. \A i \in Ids : Held(i)' => InTurn(i) /\ turn.pc = "running"
    BY <2>1, <2>2, <2>4 DEF Held, InQueue, InHandoff, InLocal, Waits, Carries
  <2>6. ASSUME NEW i \in Ids, InTurn(i), turn.pc = "running"
        PROVE  i \notin Unstarted
    BY <2>6 DEF Unstarted, HeldInv, HeldOnce, Apart, InQueue, Waits
  <2>7. Release(Unstarted, o)
    BY <1>12 DEF Esc
  <2>8. ASSUME NEW d \in disk'
        PROVE  d \in disk \/ \A i \in Ids : mem[i] = "claimed" /\ Held(i)' => d[i] = "claimed"
    BY <1>0, <2>5, <2>6, <2>7, ReleaseKeeps
  <2>9. (\A s \in handoff' : s.fresh => s \in handoff) /\ (\A s \in local' : s.fresh => s \in local)
    BY <2>2
  <2> QED
    BY <1>0, <1>d, <2>1, <2>4, <2>8, <2>9, HeldKept
<1>13. ASSUME NEW o \in Outcome, GiveUp(o) \/ SetupPanics(o)
       PROVE  HeldInv'
  <2>0. /\ UNCHANGED <<handoff, local, queue>> /\ turn.pc = "accepted"
        /\ turn' \in {Idle, Turn("finishing", NoRequest)}
    BY <1>13 DEF GiveUp, SetupPanics, Finishing
  <2>1. awaiting' \subseteq awaiting
    BY <1>13 DEF GiveUp, SetupPanics, Resume
  <2>2. \A i \in Ids : ~InTurn(i)' /\ StaysInTurn(i)
    BY <1>a, <1>f, <2>0
  <2>3. ASSUME turn.req.fresh, NEW i \in Ids, i = turn.req.rid
        PROVE  ~Held(i)'
    <3>1. InTurn(i) /\ Apart(i)
      BY <2>0, <2>3 DEF InTurn, HeldInv, HeldOnce
    <3>2. ~Carries(local, i) /\ ~Waits(queue, i) /\ ~Carries(handoff, i)
      BY <3>1 DEF Apart, InLocal, InQueue, InHandoff
    <3> QED
      BY <2>0, <2>2, <3>2, PlacesNext DEF Held
  <2>4. ASSUME NEW d \in disk'
        PROVE  d \in disk \/ \A i \in Ids : mem[i] = "claimed" /\ Held(i)' => d[i] = "claimed"
    <3>1. CASE UNCHANGED fileVars
      BY <3>1 DEF fileVars
    <3>2. CASE turn.req.fresh /\ Release({turn.req.rid}, o)
      BY <1>0, <2>3, <3>2, ReleaseKeeps
    <3> QED
      BY <1>13, <3>1, <3>2 DEF GiveUp, SetupPanics
  <2> QED
    BY <1>0, <1>b, <2>0, <2>1, <2>2, <2>4, HeldKept
<1>14. ASSUME turn.pc = "running", UNCHANGED <<handoff, local, queue>>, turn' = Turn("finishing", NoRequest),
              awaiting' \subseteq awaiting, NEW new, disk' \subseteq disk \union {new},
              \A i \in Ids : mem[i] = "claimed" /\ i # turn.req.rid => new[i] = "claimed"
       PROVE  HeldInv'
  <2>1. \A i \in Ids : ~InTurn(i)' /\ StaysInTurn(i)
    BY <1>14, <1>a, <1>f
  <2>2. ASSUME NEW i \in Ids, i = turn.req.rid
        PROVE  ~Held(i)'
    <3>1. InTurn(i) /\ Apart(i)
      BY <1>14, <2>2 DEF InTurn, HeldInv, HeldOnce
    <3>2. ~Carries(local, i) /\ ~Waits(queue, i) /\ ~Carries(handoff, i)
      BY <3>1 DEF Apart, InLocal, InQueue, InHandoff
    <3> QED
      BY <1>14, <2>1, <3>2, PlacesNext DEF Held
  <2>3. ASSUME NEW d \in disk'
        PROVE  d \in disk \/ \A i \in Ids : mem[i] = "claimed" /\ Held(i)' => d[i] = "claimed"
    BY <1>14, <2>2
  <2> QED
    BY <1>0, <1>14, <1>b, <2>1, <2>3, HeldKept
<1>15. ASSUME NEW o \in Outcome, NEW p \in Prompts, Succeed(p, o)
       PROVE  HeldInv'
  <2> DEFINE new == [mem EXCEPT ![turn.req.rid] = "none"]
  <2>0. turn.pc = "running" /\ UNCHANGED <<handoff, local, queue>> /\ turn' = Turn("finishing", NoRequest)
    BY <1>15 DEF Succeed, Running, Finishing
  <2>1. \A i \in Ids : mem[i] = "claimed" /\ i # turn.req.rid => new[i] = "claimed"
    BY <1>0 DEF FileTypes, States
  <2>2. awaiting' \subseteq awaiting
    BY <1>15 DEF Succeed, Resume
  <2>3. UNCHANGED disk \/ ApplyAndSave(new, o)
    BY <1>15 DEF Succeed, fileVars
  <2> HIDE DEF new
  <2>4. disk' \subseteq disk \union {new}
    BY <1>0, <2>3, ApplyEffect DEF FileTypes
  <2> QED
    BY <1>14, <2>0, <2>1, <2>2, <2>4
<1>16. ASSUME NEW o \in Outcome, NEW p \in Prompts, NEW k \in Kinds, FailWithRetry(p, k, o)
       PROVE  HeldInv'
  <2> DEFINE rid == turn.req.rid
             kept == IF rid = 0 THEN mem ELSE [mem EXCEPT ![rid] = "none"]
             new == [kept EXCEPT ![lastId + 1] = "scheduled"]
  <2>0. /\ turn.pc = "running" /\ UNCHANGED <<handoff, queue>> /\ turn' = Turn("finishing", NoRequest)
        /\ lastId < MaxIds
    BY <1>16 DEF FailWithRetry, Running, Finishing
  <2>1. \A i \in Ids : mem[i] = "claimed" /\ i # rid => new[i] = "claimed"
    <3>1. \A i \in Ids : mem[i] = "claimed" => i # lastId + 1
      BY <1>0 DEF FileTypes, FilesInv, Ids
    <3> QED
      BY <1>0, <3>1 DEF FileTypes, States
  <2>2. UNCHANGED disk \/ disk' = Contents(new, o)
    BY <1>16 DEF FailWithRetry, fileVars
  <2>3. awaiting' \subseteq awaiting
    BY <1>16 DEF FailWithRetry, Resume
  <2>4. \/ local' = local
        \/ /\ o = "failed" /\ turn.req.fresh /\ awaiting' = awaiting
           /\ local' = local \union {Request("recovery", p, rid, TRUE)}
    BY <1>16 DEF FailWithRetry
  <2> HIDE DEF new
  <2>5. disk' \subseteq disk \union {new} /\ (o = "failed" => disk' = disk)
    BY <2>2 DEF Contents, Outcome
  <2>6. CASE local' = local
    BY <1>14, <2>0, <2>1, <2>3, <2>5, <2>6
  <2>7. CASE /\ o = "failed" /\ awaiting' = awaiting
             /\ local' = local \union {Request("recovery", p, rid, TRUE)}
    <3> DEFINE r == Request("recovery", p, rid, TRUE)
    <3>1. r.fresh = TRUE /\ r.rid = rid /\ local' = local \union {r}
      BY <2>7 DEF Request
    <3> HIDE DEF r
    <3>2. \A i \in Ids : ~InTurn(i)'
      BY <1>a, <1>f, <2>0
    <3>3. ASSUME NEW i \in Ids
          PROVE  /\ InQueue(i)' <=> InQueue(i)
                 /\ InHandoff(i)' <=> InHandoff(i)
                 /\ WaitsOnce(queue, i)' /\ CarriesOnce(handoff, i)'
      BY <2>0, PlacesNext DEF InQueue, InHandoff, HeldInv, HeldOnce
    <3>4. ASSUME NEW i \in Ids
          PROVE  (InLocal(i)' => InLocal(i) \/ InTurn(i)) /\ CarriesOnce(local, i)'
      <4>1. i = rid => InTurn(i)
        BY <2>0 DEF InTurn
      <4>2. (InTurn(i) => ~Carries(local, i)) /\ CarriesOnce(local, i)
        BY DEF HeldInv, HeldOnce, Apart, InLocal
      <4>3. (Carries(local', i) => Carries(local, i) \/ i = rid) /\ CarriesOnce(local', i)
        BY <3>1, <4>1, <4>2, CarriesMore
      <4> QED
        BY <4>1, <4>3, PlacesNext DEF InLocal
    <3>5. HeldIsClaimed'
      <4>1. \A i \in Ids : Held(i)' => Held(i)
        BY <3>2, <3>3, <3>4 DEF Held
      <4> QED
        BY <2>5, <2>7, <4>1 DEF HeldInv, HeldIsClaimed
    <3>6. \A i \in Ids : Apart(i)'
      BY <2>0, <2>7, <3>2, <3>3, <3>4 DEF HeldInv, HeldOnce, Apart
    <3> QED
      BY <3>3, <3>4, <3>5, <3>6 DEF HeldInv, HeldOnce
  <2> QED
    BY <2>4, <2>6, <2>7
<1>17. ASSUME NEW o \in Outcome, Clear(o)
       PROVE  HeldInv'
  <2>0. turn.pc = "running" /\ turn' = Turn("finishing", NoRequest)
    BY <1>17 DEF Clear, Running, Finishing
  <2>1. CASE o = "failed"
    <3>1. UNCHANGED <<handoff, local, queue, awaiting, disk>>
      BY <1>17, <2>1 DEF Clear, ApplyAndSave, Contents, timerVars
    <3> QED
      BY <1>0, <1>a, <1>b, <1>f, <2>0, <3>1, HeldKept
  <2>2. CASE o # "failed"
    <3>1. /\ awaiting' = {} /\ handoff' = Stale(handoff) /\ local' = Stale(local)
          /\ queue' = OfKinds(queue, {"user", "explicit"})
      BY <1>17, <2>2 DEF Clear, BoundaryStales
    <3>2. (\A r \in handoff' : ~r.fresh) /\ (\A r \in local' : ~r.fresh)
      BY <1>0, <3>1, StaleSet DEF RequestTypes
    <3>3. \A i \in Ids : ~InTurn(i)' /\ StaysInTurn(i)
      BY <1>a, <1>f, <2>0
    <3>4. Chosen(queue', queue, {"user", "explicit"})
      BY <1>0, <3>1, OfKindsSelects DEF RequestTypes
    <3>5. \A i \in Ids : ~Waits(queue', i) /\ WaitsOnce(queue', i)
      <4>1. \A n \in DOMAIN queue : queue[n].kind \in {"user", "explicit"} => queue[n].rid = 0
        BY <1>0 DEF RequestTypes, QueueInv
      <4>2. \A n \in DOMAIN queue' : queue'[n].rid = 0
        BY <3>4, <4>1 DEF Chosen
      <4> QED
        BY <1>i, <4>2 DEF Waits, WaitsOnce
    <3>6. \A i \in Ids : ~Held(i)'
      BY <3>2, <3>3, <3>5, PlacesNext DEF Held, Carries
    <3> QED
      BY <1>0, <3>1, <3>2, <3>3, <3>5, <3>6, HeldKept
  <2> QED
    BY <2>1, <2>2
<1>18. CASE HandOver
  <2> DEFINE w == NextWaiting
  <2>0. UNCHANGED <<handoff, local, awaiting, disk>> /\ turn.pc = "handing"
    BY <1>18 DEF HandOver, timerVars, fileVars
  <2>1. CASE turn' = Idle /\ queue' \in {queue, <<>>}
    <3>1. \A i \in Ids : StaysInTurn(i)
      BY <1>a, <1>f, <2>1
    <3>2. \A i \in Ids : (Waits(queue', i) => Waits(queue, i)) /\ WaitsOnce(queue', i)
      BY <1>b, <1>d, <2>1
    <3> QED
      BY <1>0, <2>0, <3>1, <3>2, HeldKept
  <2>2. ASSUME w # <<>>, queue' = Tail(w)
        PROVE  /\ \A i \in Ids : (Waits(queue', i) => Waits(queue, i)) /\ WaitsOnce(queue', i)
               /\ Head(w) \in RequestType
               /\ Head(w).rid \in Ids => InQueue(Head(w).rid) /\ ~Waits(queue', Head(w).rid)
    <3>1. w \in Seq(RequestType) /\ Head(w) \in RequestType
      BY <1>0, <2>2, WaitingTypes
    <3>2. \A i \in Ids : (Waits(w, i) => Waits(queue, i)) /\ WaitsOnce(w, i)
      BY <1>0, NextWaits DEF HeldInv, HeldOnce
    <3> HIDE DEF w
    <3> QED
      BY <2>2, <3>1, <3>2, WaitsTail DEF InQueue
  <2>3. CASE /\ w # <<>> /\ queue' = Tail(w)
             /\ turn' = Turn("claiming", [Head(w) EXCEPT !.fresh = @ /\ turn.req.fresh])
    <3> DEFINE r == Head(w)
               q == [r EXCEPT !.fresh = @ /\ turn.req.fresh]
    <3>1. r \in RequestType /\ (r.rid \in Ids => InQueue(r.rid) /\ ~Waits(queue', r.rid))
      BY <2>2, <2>3
    <3>2. turn'.req.rid = r.rid
      <4>1. turn' = Turn("claiming", q)
        BY <2>3
      <4>2. q.rid = r.rid
        <5> HIDE DEF r
        <5> QED
          BY <3>1 DEF RequestType
      <4>3. turn'.req = q
        <5> HIDE DEF q
        <5> QED
          BY <4>1 DEF Turn
      <4> QED
        BY <4>2, <4>3
    <3> HIDE DEF q, r, w
    <3>3. ASSUME NEW i \in Ids
          PROVE  /\ InTurn(i)' => InQueue(i) /\ ~InQueue(i)'
                 /\ InQueue(i)' => InQueue(i)
                 /\ InHandoff(i)' <=> InHandoff(i)
                 /\ InLocal(i)' <=> InLocal(i)
                 /\ WaitsOnce(queue, i)' /\ CarriesOnce(handoff, i)' /\ CarriesOnce(local, i)'
      <4>1. InTurn(i)' => i = r.rid
        BY <3>2 DEF InTurn
      <4>2. CarriesOnce(handoff, i) /\ CarriesOnce(local, i)
        BY DEF HeldInv, HeldOnce
      <4> QED
        BY <2>0, <2>2, <2>3, <3>1, <4>1, <4>2, PlacesNext DEF InQueue, InHandoff, InLocal
    <3>4. HeldIsClaimed'
      <4>1. \A i \in Ids : Held(i)' => Held(i)
        BY <3>3 DEF Held
      <4> QED
        BY <2>0, <4>1 DEF HeldInv, HeldIsClaimed
    <3>5. \A i \in Ids : Apart(i)'
      BY <2>0, <3>3 DEF HeldInv, HeldOnce, Apart
    <3> QED
      BY <3>3, <3>4, <3>5 DEF HeldInv, HeldOnce
  <2> HIDE DEF w
  <2>4. \/ turn' = Idle /\ queue' \in {queue, <<>>}
        \/ /\ w # <<>> /\ queue' = Tail(w)
           /\ turn' = Turn("claiming", [Head(w) EXCEPT !.fresh = @ /\ turn.req.fresh])
    BY <1>18 DEF HandOver, w
  <2> QED
    BY <2>1, <2>3, <2>4
<1>19. CASE Capture \/ PublishPanics
  <2>1. /\ UNCHANGED <<handoff, local, awaiting, disk, queue>>
        /\ turn' \in {Idle, Turn("handing", NoRequest)}
    BY <1>19 DEF Capture, PublishPanics, timerVars, fileVars
  <2> QED
    BY <1>0, <1>a, <1>b, <1>f, <2>1, HeldKept
<1>20. ASSUME NEW o \in Outcome, Promote(o)
       PROVE  HeldInv'
  <2>0. UNCHANGED <<handoff, local, queue>> /\ turn.pc = "claiming" /\ turn \in TurnType
    BY <1>0, <1>20 DEF Promote, RequestTypes
  <2>1. CASE /\ turn' = [turn EXCEPT !.pc = "accepted"] /\ awaiting' = awaiting \ {turn.req.rid}
             /\ UNCHANGED fileVars
    <3>1. turn'.req = turn.req
      BY <2>0, <2>1 DEF TurnType
    <3>2. \A i \in Ids : StaysInTurn(i)
      BY <2>0, <2>1, <3>1 DEF InTurn, StaysInTurn
    <3> QED
      BY <1>0, <1>b, <2>0, <2>1, <3>2, HeldKept DEF fileVars
  <2>2. CASE turn' = Turn("finishing", NoRequest) /\ UNCHANGED <<fileVars, awaiting>>
    BY <1>0, <1>a, <1>b, <1>f, <2>0, <2>2, HeldKept DEF fileVars
  <2>3. ASSUME NEW i \in Ids, InState(mem, "claimed") = {}, Claim(i, o),
               turn' = (IF o = "saved" THEN [turn EXCEPT !.req = Generation(i)]
                        ELSE Turn("finishing", NoRequest))
        PROVE  HeldInv'
    <3>1. \A j \in Ids : ~Held(j)
      BY <1>0, <2>3, NobodyHolds
    <3>2. ASSUME NEW j \in Ids
          PROVE  /\ ~InQueue(j)' /\ ~InHandoff(j)' /\ ~InLocal(j)'
                 /\ WaitsOnce(queue, j)' /\ CarriesOnce(handoff, j)' /\ CarriesOnce(local, j)'
      <4>1. CarriesOnce(handoff, j) /\ CarriesOnce(local, j) /\ WaitsOnce(queue, j)
        BY DEF HeldInv, HeldOnce
      <4> QED
        BY <2>0, <3>1, <4>1, PlacesNext DEF Held, InQueue, InHandoff, InLocal
    <3>3. CASE o = "saved"
      <4> DEFINE new == [mem EXCEPT ![i] = "claimed"]
      <4>1. new[i] = "claimed" /\ disk' = {new}
        BY <1>0, <2>3, <3>3 DEF FileTypes, States, Claim, ApplyAndSave, Contents
      <4> HIDE DEF new
      <4> DEFINE r == Generation(i)
      <4>r. r \in RequestType /\ r.rid = i
        BY <1>0, GenerationFields
      <4>t. turn' = [turn EXCEPT !.req = r]
        BY <2>3, <3>3
      <4> HIDE DEF r
      <4>2. turn'.req.rid = i /\ turn'.pc = "claiming"
        BY <2>0, <4>r, <4>t DEF TurnType
      <4>3. \A j \in Ids : InTurn(j)' => j = i
        BY <4>2 DEF InTurn
      <4>4. HeldIsClaimed'
        BY <3>2, <4>1, <4>3 DEF HeldIsClaimed, Held
      <4> QED
        BY <3>2, <4>2, <4>4 DEF HeldInv, HeldOnce, Apart
    <3>4. CASE o # "saved"
      <4>1. \A j \in Ids : ~InTurn(j)'
        BY <1>a, <1>f, <2>3, <3>4
      <4> QED
        BY <3>2, <4>1 DEF HeldInv, HeldIsClaimed, HeldOnce, Held, Apart
    <3> QED
      BY <3>3, <3>4
  <2>4. \/ /\ turn' = [turn EXCEPT !.pc = "accepted"] /\ awaiting' = awaiting \ {turn.req.rid}
           /\ UNCHANGED fileVars
        \/ turn' = Turn("finishing", NoRequest) /\ UNCHANGED <<fileVars, awaiting>>
        \/ \E i \in Repeatable(turn.req.prompt, turn.req.fresh) :
             /\ Claim(i, o)
             /\ turn' = (IF o = "saved" THEN [turn EXCEPT !.req = Generation(i)]
                         ELSE Turn("finishing", NoRequest))
    BY <1>20 DEF Promote, Finishing
  <2> QED
    BY <1>j, <2>1, <2>2, <2>3, <2>4
<1> QED
  BY <1>1, <1>2, <1>3, <1>4, <1>5, <1>6, <1>7, <1>8, <1>9, <1>10, <1>11, <1>12, <1>13, <1>15, <1>16,
     <1>17, <1>18, <1>19, <1>20, Sizes
  DEF Next, Foreground, Outcome

-----------------------------------------------------------------------------
(* Checkpoints are used once *)

\* A used generation that comes to no new place stays used.
LEMMA SpentKept ==
  ASSUME FileTypes, NEW i \in Ids, Spent(i), lastId' \in Nat, lastId <= lastId',
         \A d \in disk' : d \in disk \/ d[i] # "scheduled",
         Waits(queue', i) => Waits(queue, i),
         Carries(handoff', i) => Carries(handoff, i),
         Carries(local', i) => Carries(local, i),
         i \in awaiting' => i \in awaiting,
         InTurn(i)' => turn'.pc = "running" \/ (InTurn(i) /\ turn.pc # "running")
  PROVE  Spent(i)'
<1>1. i <= lastId'
  BY DEF Spent, FileTypes, Ids
<1>2. ~InQueue(i)' /\ ~InHandoff(i)' /\ ~InLocal(i)' /\ i \notin awaiting'
  BY PlacesNext DEF Spent, InQueue, InHandoff, InLocal
<1>3. InTurn(i)' => turn'.pc = "running"
  BY DEF Spent
<1>4. \A d \in disk' : d[i] # "scheduled"
  BY DEF Spent
<1> QED
  BY <1>1, <1>2, <1>3, <1>4 DEF Spent

\* A save that does not schedule i.
LEMMA ApplySpent ==
  ASSUME FileTypes, NEW i \in Ids, NEW new, new[i] # "scheduled", NEW o \in Outcome, ApplyAndSave(new, o)
  PROVE  /\ \A d \in disk' : d \in disk \/ d[i] # "scheduled"
         /\ lastId' = lastId
<1>1. disk' \subseteq disk \union {new} /\ lastId' = lastId
  BY ApplyEffect DEF FileTypes
<1> QED
  BY <1>1

\* A release of others, or of one that is not claimed.
LEMMA ReleaseSpent ==
  ASSUME FileTypes, NEW i \in Ids, NEW ids, i \notin ids, mem[i] # "scheduled", NEW o \in Outcome, Release(ids, o)
  PROVE  /\ \A d \in disk' : d \in disk \/ d[i] # "scheduled"
         /\ lastId' = lastId
<1> DEFINE new == Released(ids)
<1>1. new[i] # "scheduled"
  BY DEF Released
<1>2. UNCHANGED <<disk, lastId>> \/ ApplyAndSave(new, o)
  BY DEF Release, fileVars
<1> HIDE DEF new
<1> QED
  BY <1>1, <1>2, ApplySpent

\* No step brings a used generation back.
LEMMA SpentStep ==
  ASSUME TypeInv, HeldInv, SpentStays, [Next]_vars
  PROVE  SpentStays'
<1>0. FileTypes /\ RequestTypes /\ SetTypes
  BY TypeParts
<1>n. lastId \in Nat /\ lastId <= lastId
  BY <1>0, Sizes DEF FileTypes
<1>i. 0 \notin Ids
  BY DEF Ids
<1>f. /\ Turn("finishing", NoRequest).pc = "finishing" /\ Idle.pc = "idle"
      /\ Turn("handing", NoRequest).pc = "handing"
  BY NoTurnFields
<1>j. ASSUME NEW p, NEW f, NEW j \in Repeatable(p, f)
      PROVE  j \in Ids /\ mem[j] = "scheduled"
  BY DEF Repeatable, Match, Pending, InState, Claimable
<1>1. CASE Start
  <2> DEFINE r == turn.req
  <2>1. /\ UNCHANGED <<handoff, local, awaiting, queue, disk, lastId, unsaved>>
        /\ turn.pc = "accepted" /\ (r.fresh \/ r.rid = 0)
        /\ started' \subseteq started \union {r.rid}
        /\ r.rid = 0 => started' = started
    BY <1>1 DEF Start, Current, fileVars, timerVars
  <2>2. turn'.pc = "running"
    BY <1>0, <1>1 DEF Start, RequestTypes, TurnType
  <2>3. ASSUME NEW i \in started \ unsaved
        PROVE  Spent(i)'
    <3>1. i \in Ids /\ Spent(i)
      BY <1>0 DEF SetTypes, SpentStays
    <3> QED
      BY <1>0, <1>n, <2>1, <2>2, <3>1, SpentKept
  <2>4. ASSUME NEW i, i = r.rid, r.rid # 0
        PROVE  Spent(i)'
    <3>1. i \in Ids
      <4>1. i \in 0 .. MaxIds
        BY <1>0, <2>4 DEF RequestTypes, TurnType, RequestType
      <4> QED
        BY <2>4, <4>1, Sizes DEF Ids
    <3>2. InTurn(i)
      BY <2>1, <2>4 DEF InTurn
    <3>3. /\ ~InQueue(i) /\ ~InHandoff(i) /\ ~InLocal(i) /\ i \notin awaiting
          /\ \A d \in disk : d[i] = "claimed"
      BY <2>1, <3>1, <3>2 DEF HeldInv, HeldIsClaimed, HeldOnce, Held, Apart
    <3>4. i <= lastId
      BY <1>0, <3>1, <3>3 DEF FileTypes, FilesInv, Ids
    <3> QED
      BY <2>1, <2>2, <3>3, <3>4, PlacesNext DEF Spent, InQueue, InHandoff, InLocal
  <2> QED
    BY <2>1, <2>3, <2>4 DEF SpentStays
<1>2. ASSUME ~Start
      PROVE  started' = started /\ unsaved \subseteq unsaved'
  <2>1. CASE UNCHANGED vars \/ Autosave \/ Accept \/ Shutdown \/ Restart
             \/ (\E i \in Ids : TimerWakes(i)) \/ (\E r \in local : LocalFires(r))
             \/ (\E r \in handoff : Dispatch(r)) \/ (\E p \in Prompts : FailForGood(p))
             \/ Capture \/ PublishPanics \/ HandOver
    BY <2>1 DEF vars, Autosave, Accept, Shutdown, Restart, TimerWakes, LocalFires, Dispatch, FailForGood,
                Capture, PublishPanics, HandOver, ghostVars
  <2>2. CASE \E o \in SaveOutcomes : \/ \E w \in woken : TimerClaims(w, o)
                                     \/ \E r \in handoff : DispatchRefused(r, o)
                                     \/ \E p \in Prompts \union {ClearCommand} : Submit(p, o)
                                     \/ Esc(o)
    BY <2>2 DEF TimerClaims, DispatchRefused, Submit, Esc
  <2>3. CASE \E o \in SaveOutcomes : Foreground(o)
    BY <2>3 DEF Foreground, GiveUp, Succeed, Clear, SetupPanics, Promote, ghostVars
  <2>4. CASE \E p \in Prompts, k \in Kinds, o \in PersistOutcomes : FailWithRetry(p, k, o)
    BY <2>4 DEF FailWithRetry
  <2> QED
    BY <1>2, <2>1, <2>2, <2>3, <2>4 DEF Next
<1>3. SUFFICES ASSUME ~Start, NEW i \in Ids, i \in started, i \notin unsaved', i \notin unsaved
               PROVE  Spent(i)'
  <2>1. \A i \in started : i \in Ids
    BY <1>0 DEF SetTypes
  <2>2. ASSUME ~Start, NEW i \in started' \ unsaved'
        PROVE  i \in Ids /\ i \in started /\ i \notin unsaved' /\ i \notin unsaved
    BY <1>2, <2>1, <2>2
  <2> QED
    BY <1>1, <1>3, <2>2 DEF SpentStays
<1>4. Spent(i) /\ mem[i] # "scheduled" /\ ~Carries(handoff, i) /\ ~Carries(local, i) /\ ~Waits(queue, i)
  <2>1. Spent(i)
    BY <1>3 DEF SpentStays
  <2> QED
    BY <1>0, <2>1 DEF Spent, FileTypes, InHandoff, InLocal, InQueue
<1>a. ASSUME turn'.pc \notin {"claiming", "accepted", "running"}
      PROVE  ~InTurn(i)'
  BY <1>a DEF InTurn
<1>b. ASSUME turn' = turn
      PROVE  InTurn(i)' => turn'.pc = "running" \/ (InTurn(i) /\ turn.pc # "running")
  BY <1>b DEF InTurn
<1>c. ASSUME NEW S, NEW r \in S
      PROVE  Carries(S \ {r}, i) => Carries(S, i)
  BY CarriesFewer
<1>d. ASSUME NEW S, S \subseteq RequestType
      PROVE  ~Carries(Stale(S), i)
  BY <1>d, StaleSet DEF Carries
<1>q. ASSUME NEW r \in RequestType, r.rid # i, queue' = Append(queue, r)
      PROVE  Waits(queue', i) => Waits(queue, i)
  BY <1>0, <1>q, WaitsMore DEF RequestTypes
<1>g. \A p \in AnyPrompt, kind \in {"user", "explicit"} :
         Request(kind, p, 0, FALSE) \in RequestType /\ Request(kind, p, 0, FALSE).rid # i
  BY <1>i, Sizes DEF Request, RequestType, AnyPrompt
<1>5. CASE UNCHANGED vars \/ Autosave \/ (\E j \in Ids : TimerWakes(j)) \/ (\E p \in Prompts : FailForGood(p))
  <2>1. UNCHANGED <<handoff, local, queue, awaiting, lastId>> /\ disk' \subseteq disk
    BY <1>0, <1>5 DEF vars, Autosave, TimerWakes, FailForGood, fileVars, timerVars, frontVars, FileTypes
  <2>2. turn' = turn \/ turn' = Turn("finishing", NoRequest)
    BY <1>5 DEF vars, Autosave, TimerWakes, FailForGood, Finishing, frontVars
  <2>3. InTurn(i)' => turn'.pc = "running" \/ (InTurn(i) /\ turn.pc # "running")
    BY <1>a, <1>b, <1>f, <2>2
  <2> QED
    BY <1>0, <1>4, <1>n, <2>1, <2>3, SpentKept
<1>6. CASE Accept
  <2>1. UNCHANGED <<handoff, local, awaiting, disk, lastId>>
    BY <1>6 DEF Accept, fileVars, timerVars
  <2>2. queue' = queue \/ \E kind \in {"user", "explicit"} : queue' = Append(queue, Request(kind, submit, 0, FALSE))
    BY <1>6 DEF Accept
  <2>3. turn' = turn \/ turn' = Turn("accepted", Request("user", submit, 0, FALSE))
    BY <1>6 DEF Accept
  <2>4. submit \in AnyPrompt
    BY <1>0 DEF RequestTypes
  <2>5. Waits(queue', i) => Waits(queue, i)
    BY <1>g, <1>q, <2>2, <2>4
  <2>6. CASE turn' = Turn("accepted", Request("user", submit, 0, FALSE))
    <3> DEFINE r == Request("user", submit, 0, FALSE)
    <3>1. r \in RequestType /\ r.rid # i /\ turn' = Turn("accepted", r)
      BY <1>g, <2>4, <2>6
    <3> HIDE DEF r
    <3>2. ~InTurn(i)'
      BY <3>1, TurnFields DEF Places, InTurn
    <3> QED
      BY <1>0, <1>4, <1>n, <2>1, <2>5, <3>2, SpentKept
  <2> QED
    BY <1>0, <1>4, <1>b, <1>n, <2>1, <2>3, <2>5, <2>6, SpentKept
<1>7. CASE Shutdown
  <2>1. UNCHANGED <<handoff, awaiting, disk, queue, lastId>> /\ local' = {}
    BY <1>7 DEF Shutdown, fileVars
  <2>2. turn'.pc = turn.pc /\ turn'.req = turn.req
    BY <1>0, <1>7 DEF Shutdown, RequestTypes, TurnType
  <2>3. InTurn(i)' => InTurn(i) /\ turn'.pc = turn.pc
    BY <2>2 DEF InTurn
  <2>4. ~Carries(local', i)
    BY <2>1 DEF Carries
  <2> QED
    BY <1>0, <1>4, <1>n, <2>1, <2>3, <2>4, SpentKept
<1>8. CASE Restart
  <2>1. /\ handoff' = {} /\ local' = {} /\ queue' = <<>> /\ turn' = Idle /\ awaiting' = {}
        /\ disk' \subseteq disk /\ lastId' = lastId
    BY <1>8 DEF Restart, Resume
  <2>2. ~Carries(handoff', i) /\ ~Carries(local', i) /\ ~Waits(queue', i) /\ ~InTurn(i)'
    BY <1>a, <1>f, <2>1 DEF Carries, Waits
  <2> QED
    BY <1>0, <1>4, <1>n, <2>1, <2>2, SpentKept
<1>9. ASSUME NEW r \in local, LocalFires(r)
      PROVE  Spent(i)'
  <2>1. UNCHANGED <<queue, turn, awaiting, disk, lastId>> /\ local' = local \ {r} /\ handoff' = handoff \union {r}
    BY <1>9 DEF LocalFires, fileVars, frontVars
  <2>2. ~(r.fresh /\ r.rid = i)
    BY <1>4 DEF Carries
  <2>3. Carries(handoff', i) => Carries(handoff, i)
    BY <2>1, <2>2, CarriesMore
  <2> QED
    BY <1>0, <1>4, <1>b, <1>c, <1>n, <2>1, <2>3, SpentKept
<1>10. ASSUME NEW r \in handoff, Dispatch(r)
       PROVE  Spent(i)'
  <2>1. UNCHANGED <<local, disk, lastId>> /\ handoff' = handoff \ {r} /\ awaiting' \subseteq awaiting
    BY <1>10 DEF Dispatch, fileVars
  <2>2. \/ UNCHANGED <<turn, queue>>
        \/ r.fresh /\ turn' = Turn("accepted", r) /\ queue' = queue
        \/ r.fresh /\ turn' = turn /\ queue' = Append(queue, r)
    BY <1>10 DEF Dispatch, Enters
  <2>3. r \in RequestType /\ (r.fresh => r.rid # i)
    BY <1>0, <1>4 DEF RequestTypes, Carries
  <2>4. Waits(queue', i) => Waits(queue, i)
    BY <1>q, <2>2, <2>3
  <2>5. InTurn(i)' => turn'.pc = "running" \/ (InTurn(i) /\ turn.pc # "running")
    <3>1. CASE r.fresh /\ turn' = Turn("accepted", r)
      BY <2>3, <3>1, TurnFields DEF Places, InTurn
    <3> QED
      BY <1>b, <2>2, <3>1
  <2> QED
    BY <1>0, <1>4, <1>c, <1>n, <2>1, <2>4, <2>5, SpentKept
<1>11. ASSUME NEW o \in Outcome, NEW r \in handoff, DispatchRefused(r, o)
       PROVE  Spent(i)'
  <2>1. UNCHANGED <<local, queue, turn>> /\ handoff' = handoff \ {r} /\ r.fresh
    BY <1>11 DEF DispatchRefused, frontVars
  <2>2. awaiting' \subseteq awaiting
    BY <1>11 DEF DispatchRefused, Resume
  <2>3. r.rid # i
    BY <1>4, <2>1 DEF Carries
  <2>4. lastId' = lastId /\ \A d \in disk' : d \in disk \/ d[i] # "scheduled"
    <3>1. CASE UNCHANGED fileVars
      BY <3>1 DEF fileVars
    <3>2. CASE Release({r.rid}, o)
      BY <1>0, <1>4, <2>3, <3>2, ReleaseSpent
    <3> QED
      BY <1>11, <3>1, <3>2 DEF DispatchRefused
  <2> QED
    BY <1>0, <1>4, <1>b, <1>c, <1>n, <2>1, <2>2, <2>4, SpentKept
<1>12. ASSUME NEW o \in Outcome, NEW j \in Ids, mem[j] = "scheduled", Claim(j, o),
              handoff' = IF o = "saved" THEN handoff \union {Generation(j)} ELSE handoff,
              UNCHANGED <<local, queue, turn>>
       PROVE  Spent(i)'
  <2> DEFINE new == [mem EXCEPT ![j] = "claimed"]
  <2>1. j # i /\ new[i] # "scheduled" /\ ApplyAndSave(new, o)
    BY <1>0, <1>12, <1>4 DEF FileTypes, States, Claim
  <2> HIDE DEF new
  <2>2. lastId' = lastId /\ \A d \in disk' : d \in disk \/ d[i] # "scheduled"
    BY <1>0, <2>1, ApplySpent
  <2>3. awaiting' \subseteq awaiting \union {j}
    BY <1>12 DEF Claim, Outcome
  <2>4. Carries(handoff', i) => Carries(handoff, i)
    <3> DEFINE r == Generation(j)
    <3>1. r.rid # i /\ (handoff' = handoff \/ handoff' = handoff \union {r})
      BY <1>0, <1>12, <2>1, GenerationFields
    <3> HIDE DEF r
    <3> QED
      BY <3>1, CarriesMore
  <2> QED
    BY <1>0, <1>12, <1>4, <1>b, <1>n, <2>1, <2>2, <2>3, <2>4, SpentKept
<1>13. ASSUME NEW o \in Outcome, NEW w \in woken, TimerClaims(w, o)
       PROVE  Spent(i)'
  <2>1. w.rid \in Ids /\ UNCHANGED <<local, queue, turn>>
    BY <1>0, <1>13 DEF SetTypes, TimerClaims, frontVars
  <2>2. CASE Claimable(w.rid, w.fresh)
    BY <1>12, <1>13, <2>1, <2>2 DEF TimerClaims, Claimable
  <2>3. CASE ~Claimable(w.rid, w.fresh)
    <3>1. UNCHANGED <<handoff, awaiting, disk, lastId>>
      BY <1>13, <2>3 DEF TimerClaims, fileVars
    <3> QED
      BY <1>0, <1>4, <1>b, <1>n, <2>1, <3>1, SpentKept
  <2> QED
    BY <2>2, <2>3
<1>14. ASSUME NEW o \in Outcome, NEW p \in Prompts \union {ClearCommand}, Submit(p, o)
       PROVE  Spent(i)'
  <2>0. UNCHANGED <<local, turn>>
    BY <1>14 DEF Submit
  <2>1. CASE \E j \in Repeatable(p, TRUE) :
               /\ Claim(j, o) /\ queue' = queue
               /\ handoff' = IF o = "saved" THEN handoff \union {Generation(j)} ELSE handoff
    BY <1>12, <1>j, <2>0, <2>1
  <2>2. CASE UNCHANGED <<fileVars, awaiting, handoff>>
             /\ (queue' = queue \/ queue' = Append(queue, Request("explicit", p, 0, FALSE)))
    <3>1. p \in AnyPrompt
      BY DEF AnyPrompt
    <3>2. Waits(queue', i) => Waits(queue, i)
      BY <1>g, <1>q, <2>2, <3>1
    <3> QED
      BY <1>0, <1>4, <1>b, <1>n, <2>0, <2>2, <3>2, SpentKept DEF fileVars
  <2> QED
    BY <1>14, <2>1, <2>2 DEF Submit
<1>15. ASSUME NEW o \in Outcome, Esc(o)
       PROVE  Spent(i)'
  <2>1. awaiting' = {} /\ queue' = <<>> /\ handoff' = Stale(handoff) /\ local' = Stale(local)
    BY <1>15 DEF Esc, BoundaryStales
  <2>2. ~Carries(handoff', i) /\ ~Carries(local', i) /\ ~Waits(queue', i)
    BY <1>0, <1>d, <2>1 DEF RequestTypes, Waits
  <2>3. turn'.req.fresh = FALSE
    <3>1. turn' = [[turn EXCEPT !.req.fresh = FALSE] EXCEPT !.cancelled = turn.pc \in Owned]
      BY <1>15 DEF Esc, StaleTurn
    <3>2. (turn.pc \in Owned) \in BOOLEAN
      OBVIOUS
    <3> QED
      BY <1>0, <3>1, <3>2, StaleFields DEF RequestTypes
  <2>4. InTurn(i)' => turn'.pc = "running"
    BY <2>3 DEF InTurn
  <2>5. i \notin Unstarted /\ Release(Unstarted, o)
    BY <1>15, <1>4 DEF Esc, Unstarted, Spent, Waits
  <2>6. lastId' = lastId /\ \A d \in disk' : d \in disk \/ d[i] # "scheduled"
    BY <1>0, <1>4, <2>5, ReleaseSpent
  <2> QED
    BY <1>0, <1>4, <1>n, <2>1, <2>2, <2>4, <2>6, SpentKept
<1>16. ASSUME NEW o \in Outcome, GiveUp(o) \/ SetupPanics(o)
       PROVE  Spent(i)'
  <2>0. /\ UNCHANGED <<handoff, local, queue>> /\ turn.pc = "accepted"
        /\ turn' \in {Idle, Turn("finishing", NoRequest)} /\ awaiting' \subseteq awaiting
    BY <1>16 DEF GiveUp, SetupPanics, Finishing, Resume
  <2>1. ~InTurn(i)'
    BY <1>a, <1>f, <2>0
  <2>2. turn.req.fresh => turn.req.rid # i
    BY <1>4, <2>0 DEF Spent, InTurn
  <2>3. lastId' = lastId /\ \A d \in disk' : d \in disk \/ d[i] # "scheduled"
    <3>1. CASE UNCHANGED fileVars
      BY <3>1 DEF fileVars
    <3>2. CASE turn.req.fresh /\ Release({turn.req.rid}, o)
      BY <1>0, <1>4, <2>2, <3>2, ReleaseSpent
    <3> QED
      BY <1>16, <3>1, <3>2 DEF GiveUp, SetupPanics
  <2> QED
    BY <1>0, <1>4, <1>n, <2>0, <2>1, <2>3, SpentKept
<1>17. ASSUME NEW o \in Outcome, NEW p \in Prompts, Succeed(p, o)
       PROVE  Spent(i)'
  <2> DEFINE new == [mem EXCEPT ![turn.req.rid] = "none"]
  <2>0. UNCHANGED <<handoff, local, queue>> /\ turn' = Turn("finishing", NoRequest)
    BY <1>17 DEF Succeed, Finishing
  <2>1. new[i] # "scheduled"
    BY <1>0, <1>4 DEF FileTypes, States
  <2>2. awaiting' \subseteq awaiting
    BY <1>17 DEF Succeed, Resume
  <2>3. UNCHANGED <<disk, lastId>> \/ ApplyAndSave(new, o)
    BY <1>17 DEF Succeed, fileVars
  <2> HIDE DEF new
  <2>4. lastId' = lastId /\ \A d \in disk' : d \in disk \/ d[i] # "scheduled"
    BY <1>0, <2>1, <2>3, ApplySpent
  <2>5. ~InTurn(i)'
    BY <1>a, <1>f, <2>0
  <2> QED
    BY <1>0, <1>4, <1>n, <2>0, <2>2, <2>4, <2>5, SpentKept
<1>18. ASSUME NEW o \in Outcome, NEW p \in Prompts, NEW k \in Kinds, FailWithRetry(p, k, o)
       PROVE  Spent(i)'
  <2> DEFINE rid == turn.req.rid
             kept == IF rid = 0 THEN mem ELSE [mem EXCEPT ![rid] = "none"]
             new == [kept EXCEPT ![lastId + 1] = "scheduled"]
  <2>0. UNCHANGED <<handoff, queue>> /\ turn' = Turn("finishing", NoRequest)
    BY <1>18 DEF FailWithRetry, Finishing
  <2>1. new[i] # "scheduled"
    <3>1. i # lastId + 1
      BY <1>4, <1>n DEF Spent, Ids
    <3> QED
      BY <1>0, <1>4, <3>1 DEF FileTypes, States
  <2>2. UNCHANGED disk \/ disk' = Contents(new, o)
    BY <1>18 DEF FailWithRetry, fileVars
  <2>3. awaiting' \subseteq awaiting /\ lastId' \in {lastId, lastId + 1}
    BY <1>18 DEF FailWithRetry, Resume, fileVars
  <2>4. \/ local' = local
        \/ /\ unsaved' = unsaved \union ({lastId + 1, rid} \ {0})
           /\ local' = local \union {Request("recovery", p, rid, TRUE)}
    BY <1>18 DEF FailWithRetry
  <2> HIDE DEF new
  <2>5. \A d \in disk' : d \in disk \/ d[i] # "scheduled"
    BY <2>1, <2>2 DEF Contents, Outcome
  <2>6. Carries(local', i) => Carries(local, i)
    <3>1. CASE /\ unsaved' = unsaved \union ({lastId + 1, rid} \ {0})
               /\ local' = local \union {Request("recovery", p, rid, TRUE)}
      <4> DEFINE r == Request("recovery", p, rid, TRUE)
      <4>1. r.rid = rid /\ local' = local \union {r} /\ rid # i
        BY <1>3, <1>i, <3>1 DEF Request
      <4> HIDE DEF r
      <4> QED
        BY <4>1, CarriesMore
    <3> QED
      BY <2>4, <3>1
  <2>7. ~InTurn(i)'
    BY <1>a, <1>f, <2>0
  <2>8. lastId' \in Nat /\ lastId <= lastId'
    BY <1>n, <2>3
  <2> QED
    BY <1>0, <1>4, <2>0, <2>3, <2>5, <2>6, <2>7, <2>8, SpentKept
<1>19. ASSUME NEW o \in Outcome, Clear(o)
       PROVE  Spent(i)'
  <2> DEFINE new == [j \in Ids |-> "none"]
  <2>0. turn' = Turn("finishing", NoRequest) /\ awaiting' \subseteq awaiting
    BY <1>19 DEF Clear, Finishing, timerVars
  <2>1. new[i] # "scheduled" /\ ApplyAndSave(new, o)
    BY <1>19 DEF Clear
  <2> HIDE DEF new
  <2>2. lastId' = lastId /\ \A d \in disk' : d \in disk \/ d[i] # "scheduled"
    BY <1>0, <2>1, ApplySpent
  <2>3. \/ UNCHANGED <<handoff, local, queue>>
        \/ /\ handoff' = Stale(handoff) /\ local' = Stale(local)
           /\ queue' = OfKinds(queue, {"user", "explicit"})
    BY <1>19 DEF Clear, BoundaryStales, timerVars
  <2>4. Carries(handoff', i) => Carries(handoff, i)
    BY <1>0, <1>d, <2>3 DEF RequestTypes
  <2>5. Carries(local', i) => Carries(local, i)
    BY <1>0, <1>d, <2>3 DEF RequestTypes
  <2>6. Waits(queue', i) => Waits(queue, i)
    BY <1>0, <2>3, OfKindsSelects, WaitsSelected DEF RequestTypes
  <2>7. ~InTurn(i)'
    BY <1>a, <1>f, <2>0
  <2> QED
    BY <1>0, <1>4, <1>n, <2>0, <2>2, <2>4, <2>5, <2>6, <2>7, SpentKept
<1>20. CASE HandOver
  <2> DEFINE w == NextWaiting
  <2>0. UNCHANGED <<handoff, local, awaiting, disk, lastId>>
    BY <1>20 DEF HandOver, timerVars, fileVars
  <2>1. w \in Seq(RequestType) /\ (Waits(w, i) => Waits(queue, i))
    BY <1>0, WaitingTypes, NextWaits
  <2> HIDE DEF w
  <2>2. \/ queue' \in {queue, <<>>} /\ turn' = Idle
        \/ /\ w # <<>> /\ queue' = Tail(w)
           /\ turn' = Turn("claiming", [Head(w) EXCEPT !.fresh = @ /\ turn.req.fresh])
    BY <1>20 DEF HandOver, w
  <2>3. Waits(queue', i) => Waits(queue, i)
    <3>1. ~Waits(<<>>, i)
      BY DEF Waits
    <3>2. w # <<>> => (Waits(Tail(w), i) => Waits(w, i))
      BY <2>1, WaitsTail
    <3> QED
      BY <2>1, <2>2, <3>1, <3>2
  <2>4. ~InTurn(i)'
    <3>1. CASE turn' = Idle
      BY <1>a, <1>f, <3>1
    <3>2. CASE w # <<>> /\ turn' = Turn("claiming", [Head(w) EXCEPT !.fresh = @ /\ turn.req.fresh])
      <4> DEFINE r == Head(w)
                 q == [r EXCEPT !.fresh = @ /\ turn.req.fresh]
      <4>1. r \in RequestType /\ Waits(w, r.rid)
        BY <2>1, <3>2, WaitsTail
      <4>2. r.rid # i
        BY <1>4, <2>1, <4>1
      <4>3. turn' = Turn("claiming", q)
        BY <3>2
      <4>4. q.rid = r.rid
        <5> HIDE DEF r
        <5> QED
          BY <4>1 DEF RequestType
      <4> HIDE DEF q, r
      <4> QED
        BY <4>2, <4>3, <4>4 DEF Turn, InTurn
    <3> QED
      BY <2>2, <3>1, <3>2
  <2> QED
    BY <1>0, <1>4, <1>n, <2>0, <2>3, <2>4, SpentKept
<1>21. CASE Capture \/ PublishPanics
  <2>1. /\ UNCHANGED <<handoff, local, awaiting, disk, lastId, queue>>
        /\ turn' \in {Idle, Turn("handing", NoRequest)}
    BY <1>21 DEF Capture, PublishPanics, timerVars, fileVars
  <2>2. ~InTurn(i)'
    BY <1>a, <1>f, <2>1
  <2> QED
    BY <1>0, <1>4, <1>n, <2>1, <2>2, SpentKept
<1>22. ASSUME NEW o \in Outcome, Promote(o)
       PROVE  Spent(i)'
  <2>0. UNCHANGED <<handoff, local, queue>> /\ turn.pc = "claiming" /\ turn \in TurnType
    BY <1>0, <1>22 DEF Promote, RequestTypes
  <2>1. \/ /\ turn' = [turn EXCEPT !.pc = "accepted"] /\ awaiting' \subseteq awaiting
           /\ UNCHANGED fileVars
        \/ turn' = Turn("finishing", NoRequest) /\ UNCHANGED <<fileVars, awaiting>>
        \/ \E j \in Repeatable(turn.req.prompt, turn.req.fresh) :
             /\ Claim(j, o)
             /\ turn' \in {[turn EXCEPT !.req = Generation(j)], Turn("finishing", NoRequest)}
    BY <1>22 DEF Promote, Finishing
  <2>2. ASSUME turn' = [turn EXCEPT !.pc = "accepted"], awaiting' \subseteq awaiting, UNCHANGED fileVars
        PROVE  Spent(i)'
    <3>1. turn'.req = turn.req
      BY <2>0, <2>2 DEF TurnType
    <3>2. InTurn(i)' => InTurn(i) /\ turn.pc # "running"
      BY <2>0, <2>2, <3>1 DEF InTurn, TurnType
    <3> QED
      BY <1>0, <1>4, <1>n, <2>0, <2>2, <3>2, SpentKept DEF fileVars
  <2>3. ASSUME turn' = Turn("finishing", NoRequest), UNCHANGED <<fileVars, awaiting>>
        PROVE  Spent(i)'
    <3>1. ~InTurn(i)'
      BY <1>a, <1>f, <2>3
    <3> QED
      BY <1>0, <1>4, <1>n, <2>0, <2>3, <3>1, SpentKept DEF fileVars
  <2>4. ASSUME NEW j \in Ids, mem[j] = "scheduled", Claim(j, o),
               turn' \in {[turn EXCEPT !.req = Generation(j)], Turn("finishing", NoRequest)}
        PROVE  Spent(i)'
    <3> DEFINE new == [mem EXCEPT ![j] = "claimed"]
    <3>1. j # i /\ new[i] # "scheduled" /\ ApplyAndSave(new, o)
      BY <1>0, <1>4, <2>4 DEF FileTypes, States, Claim
    <3> HIDE DEF new
    <3>2. lastId' = lastId /\ \A d \in disk' : d \in disk \/ d[i] # "scheduled"
      BY <1>0, <3>1, ApplySpent
    <3>3. awaiting' \subseteq awaiting \union {j}
      BY <2>4 DEF Claim, Outcome
    <3>4. ~InTurn(i)'
      <4> DEFINE r == Generation(j)
      <4>1. r.rid # i
        BY <1>0, <3>1, GenerationFields
      <4> HIDE DEF r
      <4>2. CASE turn' = [turn EXCEPT !.req = r]
        <5>1. turn'.req = r
          BY <2>0, <4>2 DEF TurnType
        <5> QED
          BY <4>1, <5>1 DEF InTurn
      <4>3. CASE turn' = Turn("finishing", NoRequest)
        BY <1>a, <1>f, <4>3
      <4> QED
        BY <2>4, <4>2, <4>3 DEF r
    <3> QED
      BY <1>0, <1>4, <1>n, <2>0, <3>1, <3>2, <3>3, <3>4, SpentKept
  <2> QED
    BY <1>j, <2>1, <2>2, <2>3, <2>4
<1> QED
  BY <1>3, <1>5, <1>6, <1>7, <1>8, <1>9, <1>10, <1>11, <1>13, <1>14, <1>15, <1>16, <1>17, <1>18, <1>19,
     <1>20, <1>21, <1>22, Sizes
  DEF Next, Foreground, Outcome

\* The holders and the used generations, in every behaviour.
LEMMA HoldersInvariant == Spec => [](TypeInv /\ HeldInv /\ SpentStays)
<1>1. Init => HeldInv /\ SpentStays
  <2>1. Init => Idle.pc = "idle" /\ turn = Idle
    BY NoTurnFields DEF Init
  <2> QED
    BY <2>1 DEF Init, HeldInv, HeldIsClaimed, HeldOnce, Held, Apart, InTurn, InQueue, InHandoff, InLocal,
                Waits, WaitsOnce, Carries, CarriesOnce, SpentStays
<1>2. TypeInv /\ HeldInv /\ [Next]_vars => HeldInv'
  BY HeldStep
<1>3. TypeInv /\ HeldInv /\ SpentStays /\ [Next]_vars => SpentStays'
  BY SpentStep
<1> QED
  BY <1>1, <1>2, <1>3, TypeInvariant, PTL DEF Spec

\* ClaimCoversRun: while the side effects of a recovery are under way, every content
\* the session file may turn out to have after a crash says that it was claimed: a
\* claim is saved before its retry is handed on, the retry is in one place, and only
\* the place that holds it gives the claim back.
THEOREM RunIsCoveredByAClaim == Spec => []ClaimCoversRun
<1>1. TypeInv /\ HeldInv => ClaimCoversRun
  <2> SUFFICES ASSUME TypeInv, HeldInv, turn.pc = "running", turn.req.rid # 0
               PROVE  \A d \in disk : d[turn.req.rid] = "claimed"
    BY DEF ClaimCoversRun
  <2>1. turn.req.rid \in 0 .. MaxIds
    BY TypeParts DEF RequestTypes, TurnType, RequestType
  <2>2. turn.req.rid \in Ids
    BY <2>1, Sizes DEF Ids
  <2> QED
    BY <2>2 DEF HeldInv, HeldIsClaimed, Held, InTurn
<1> QED
  BY <1>1, HoldersInvariant, PTL

\* A turn begins to run in Start alone.
LEMMA RunsByStart ==
  ASSUME TypeInv, [Next]_vars, turn.pc # "running", turn'.pc = "running"
  PROVE  Start
<1>0. turn \in TurnType
  BY TypeParts DEF RequestTypes
<1>a. \A pc, r : Turn(pc, r).pc = pc
  BY DEF Turn
<1>1. CASE UNCHANGED vars \/ Autosave \/ Accept \/ (\E i \in Ids : TimerWakes(i))
           \/ (\E r \in local : LocalFires(r)) \/ (\E r \in handoff : Dispatch(r))
           \/ \E p \in Prompts : FailForGood(p)
  <2>1. turn' = turn \/ \E r : turn' \in {Turn("accepted", r), Turn("finishing", r)}
    BY <1>1 DEF vars, Autosave, Accept, TimerWakes, LocalFires, Dispatch, Enters, FailForGood, Finishing, frontVars
  <2> QED
    BY <1>a, <2>1
<1>2. CASE Shutdown \/ Restart \/ \E o \in SaveOutcomes : Esc(o)
  <2>1. CASE Shutdown
    BY <1>0, <2>1 DEF Shutdown, TurnType
  <2>2. CASE Restart
    BY <2>2, NoTurnFields DEF Restart
  <2>3. CASE \E o \in SaveOutcomes : Esc(o)
    <3>1. turn' = [[turn EXCEPT !.req.fresh = FALSE] EXCEPT !.cancelled = turn.pc \in Owned]
      BY <2>3 DEF Esc, StaleTurn
    <3>2. (turn.pc \in Owned) \in BOOLEAN
      OBVIOUS
    <3> QED
      BY <1>0, <3>1, <3>2, StaleFields
  <2> QED
    BY <1>2, <2>1, <2>2, <2>3
<1>3. CASE \E o \in SaveOutcomes : \/ \E w \in woken : TimerClaims(w, o)
                                   \/ \E r \in handoff : DispatchRefused(r, o)
                                   \/ \E p \in Prompts \union {ClearCommand} : Submit(p, o)
  BY <1>3 DEF TimerClaims, DispatchRefused, Submit, frontVars
<1>4. CASE \E p \in Prompts, k \in Kinds, o \in PersistOutcomes : FailWithRetry(p, k, o)
  BY <1>4, <1>a DEF FailWithRetry, Finishing
<1>5. CASE \E o \in SaveOutcomes : Foreground(o)
  <2>1. CASE \E o \in SaveOutcomes : Promote(o)
    <3>1. \/ \E r : turn' = Turn("finishing", r)
          \/ turn.pc = "claiming" /\ turn' = [turn EXCEPT !.pc = "accepted"]
          \/ turn.pc = "claiming" /\ \E r : turn' = [turn EXCEPT !.req = r]
      BY <2>1 DEF Promote, Finishing
    <3>2. turn'.pc \in {"finishing", "accepted", "claiming"}
      BY <1>0, <1>a, <3>1 DEF TurnType
    <3> QED
      BY <3>2
  <2>2. CASE \E o \in SaveOutcomes : ~Promote(o) /\ Foreground(o)
    <3>1. turn' = Idle \/ \E r : turn' = Turn("finishing", r)
      BY <2>2 DEF Foreground, GiveUp, Succeed, Clear, SetupPanics, Finishing
    <3> QED
      BY <1>a, <3>1, NoTurnFields
  <2> QED
    BY <1>5, <2>1, <2>2
<1>6. CASE Capture \/ PublishPanics \/ HandOver
  <2>1. turn' = Idle \/ \E r : turn' \in {Turn("handing", r), Turn("claiming", r)}
    BY <1>6 DEF Capture, PublishPanics, HandOver
  <2> QED
    BY <1>a, <2>1, NoTurnFields
<1> QED
  BY <1>1, <1>2, <1>3, <1>4, <1>5, <1>6 DEF Next

\* StartsOnce: the checkpoints of a generation start a turn at most once, however
\* often the process crashes and whatever the user types: once a turn has started
\* with them the generation is never scheduled again, and no retry of it is under
\* way, unless its successor could not be written (persistPendingRecovery).
THEOREM CheckpointsStartOnce == Spec => StartsOnce
<1>1. ASSUME TypeInv, SpentStays, [Next]_vars
      PROVE  [turn.pc = "accepted" /\ turn'.pc = "running" /\ turn.req.rid # 0 /\ ~turn.req.own =>
                turn.req.rid \notin started \ unsaved]_vars
  <2> SUFFICES ASSUME turn.pc = "accepted", turn'.pc = "running", turn.req.rid # 0
               PROVE  turn.req.rid \notin started \ unsaved
    OBVIOUS
  <2>1. turn.req.fresh
    BY <1>1, RunsByStart DEF Start, Current
  <2> QED
    BY <1>1, <2>1 DEF SpentStays, Spent, InTurn
<1> QED
  BY <1>1, HoldersInvariant, PTL DEF Spec, StartsOnce

-----------------------------------------------------------------------------
(* The budget of automatic retries                                          *)

\* A prompt with a generation that could not be written: its retries are counted by
\* this process alone.
Uncounted(p) == \E i \in unsaved : gen[i].prompt = p

\* What a generation has recorded, and the generations of p in the contents d.
Recorded(i) == gen[i].attempts["rate_limit"] + gen[i].attempts["auto_resume"]
Of(d, p) == {i \in Pending(d) : gen[i].prompt = p}

\* Somebody may claim the generation, has its retry, or may give its claim back.
Moving(i) == i \in timers \/ [rid |-> i, fresh |-> TRUE] \in woken \/ Held(i) \/ i \in awaiting

\* The retries of p so far and those its unstarted generations still stand for.
Owed(p) == retries[p] + Cardinality(Match(p) \ started)

\* A request that may still be started, or is running.
Live(r) ==
  \/ r \in handoff \union local /\ r.fresh
  \/ \E n \in DOMAIN queue : r = queue[n]
  \/ r = turn.req /\ (turn.pc = "running" \/ (turn.pc \in {"claiming", "accepted"} /\ r.fresh))

\* A request for a retry carries the prompt of its generation, and the checkpoints of
\* the generation unless that could not be written.
Honest(r) ==
  /\ r.kind # "recovery" => r.rid = 0
  /\ r.rid # 0 => r.rid <= lastId /\ gen[r.rid].prompt = r.prompt
  /\ r.kind = "recovery" /\ r.prompt \in Prompts /\ (r.rid = 0 \/ r.own) => Uncounted(r.prompt)
RequestsHonest == \A r \in RequestType : Live(r) => Honest(r)

\* Every generation written has recorded an attempt.
AllRecorded ==
  /\ \A i \in unsaved : i <= lastId
  /\ \A i \in Ids : i <= lastId => Recorded(i) >= 1

\* Of two generations of one request only the older can move: the batch is malformed.
OldestMoves ==
  \A i \in Ids : Moving(i) =>
     /\ i <= lastId
     /\ i \in Pending(mem) => \A j \in Match(gen[i].prompt) : i <= j

\* The inductive invariant: a generation has recorded the retries so far and its own.
\* One that waits alone, in any contents a restart may load:
WaitsPaid ==
  \A p \in Prompts : ~Uncounted(p) =>
     \A d \in disk, i \in Ids : Of(d, p) = {i} /\ d[i] = "scheduled" => retries[p] + 1 <= Recorded(i)
\* one that moves, and those that wait behind it:
MovesPaid ==
  \A p \in Prompts : ~Uncounted(p) =>
     \A i, j \in Match(p) : Moving(i) => Owed(p) <= Recorded(j)
\* one whose retry is under way: the next attempt is counted on top of it, or there is
\* one to spare;
RunsCounted ==
  \A p \in Prompts : ~Uncounted(p) =>
     \A i \in Ids : Match(p) = {i} /\ Held(i) =>
        \/ Owed(p) + 1 <= Recorded(i)
        \/ \A k \in Kinds : gen[i].attempts[k] <= attempts[p][k]
\* and a new request starts with nothing to its account.
NewIsFree ==
  \A p \in Prompts : turn.pc = "running" /\ turn.req.kind # "recovery" /\ turn.req.prompt = p =>
     retries[p] <= -Cardinality(Match(p))

BudgetInv ==
  /\ RequestsHonest /\ AllRecorded /\ OldestMoves
  /\ WaitsPaid /\ MovesPaid /\ RunsCounted /\ NewIsFree

-----------------------------------------------------------------------------
\* Sets of generations are finite,
LEMMA Counts ==
  ASSUME NEW S \in SUBSET Ids
  PROVE  IsFiniteSet(S) /\ Cardinality(S) \in Nat
<1>1. IsFiniteSet(Ids)
  BY Sizes, FS_Interval DEF Ids
<1> QED
  BY <1>1, FS_Subset, FS_CardinalityType

\* a part has no more members,
LEMMA CountsLess ==
  ASSUME NEW T \in SUBSET Ids, NEW S \in SUBSET T
  PROVE  Cardinality(S) <= Cardinality(T)
  BY Counts, FS_Subset

\* one more is one more,
LEMMA CountsMore ==
  ASSUME NEW S \in SUBSET Ids, NEW x \in Ids
  PROVE  /\ x \notin S => Cardinality(S \union {x}) = Cardinality(S) + 1
         /\ Cardinality(S \union {x}) <= Cardinality(S) + 1
<1>1. IsFiniteSet(S) /\ Cardinality(S) \in Nat
  BY Counts
<1>2. x \notin S => Cardinality(S \union {x}) = Cardinality(S) + 1
  BY <1>1, FS_AddElement
<1>3. x \in S => S \union {x} = S
  OBVIOUS
<1> QED
  BY <1>1, <1>2, <1>3

\* and a single one is one.
LEMMA CountsOne ==
  ASSUME NEW S \in SUBSET Ids, NEW x
  PROVE  /\ S \subseteq {x} => Cardinality(S) <= 1
         /\ x \in S => 1 <= Cardinality(S)
<1>1. Cardinality({x}) = 1 /\ IsFiniteSet({x})
  BY FS_Singleton
<1>2. S \subseteq {x} => Cardinality(S) <= 1
  BY <1>1, FS_Subset
<1>3. x \in S => 1 <= Cardinality(S)
  BY <1>1, Counts, FS_Subset
<1> QED
  BY <1>2, <1>3

\* The generations of a request, and the numbers of the invariant.
LEMMA Numbers ==
  ASSUME FileTypes, CountTypes
  PROVE  /\ \A p : Match(p) \subseteq Ids /\ Of(mem, p) = Match(p)
         /\ \A p \in Prompts : /\ retries[p] \in Int /\ Owed(p) \in Int /\ retries[p] <= Owed(p)
                               /\ \A i : Match(p) \subseteq {i} => Owed(p) <= retries[p] + 1
                               /\ \A i \in Match(p) \ started : retries[p] + 1 <= Owed(p)
         /\ \A i \in Ids : Recorded(i) \in Nat
<1>1. \A p : Match(p) \subseteq Ids /\ Of(mem, p) = Match(p)
  BY DEF Match, Of, Pending, InState
<1>2. \A i \in Ids : Recorded(i) \in Nat
  BY DEF Recorded, FileTypes, GenType, Kinds
<1>3. ASSUME NEW p \in Prompts
      PROVE  /\ retries[p] \in Int /\ Owed(p) \in Int /\ retries[p] <= Owed(p)
             /\ \A i : Match(p) \subseteq {i} => Owed(p) <= retries[p] + 1
             /\ \A i \in Match(p) \ started : retries[p] + 1 <= Owed(p)
  <2> DEFINE S == Match(p) \ started
  <2>1. S \in SUBSET Ids
    BY <1>1
  <2>2. retries[p] \in Int
    BY DEF CountTypes
  <2>3. Owed(p) = retries[p] + Cardinality(S)
    BY DEF Owed
  <2> HIDE DEF S
  <2>4. Cardinality(S) \in Nat
    BY <2>1, Counts
  <2>5. /\ \A i : S \subseteq {i} => Cardinality(S) <= 1
        /\ \A i \in S : 1 <= Cardinality(S)
    BY <2>1, CountsOne
  <2>6. \A i : Match(p) \subseteq {i} => S \subseteq {i}
    BY DEF S
  <2>7. \A i \in S : retries[p] + 1 <= Owed(p)
    BY <2>2, <2>3, <2>4, <2>5
  <2>8. ASSUME NEW i, Match(p) \subseteq {i}
        PROVE  Owed(p) <= retries[p] + 1
    BY <2>2, <2>3, <2>4, <2>5, <2>6, <2>8
  <2> QED
    BY <2>2, <2>3, <2>4, <2>7, <2>8 DEF S
<1> QED
  BY <1>1, <1>2, <1>3

\* A claim, a release, or no change of the file: the generations stay, one is scheduled
\* again only from where it has not started, and what begins to move is alone.
LEMMA SteadyBudget ==
  ASSUME TypeInv, TypeInv', OldestMoves, WaitsPaid, MovesPaid, RunsCounted,
         UNCHANGED <<gen, lastId, unsaved, retries, started>>,
         \A i \in Ids : mem'[i] = "none" <=> mem[i] = "none",
         disk' \subseteq disk \union {mem'},
         \A i \in Ids : mem'[i] = "scheduled" =>
            mem[i] = "scheduled" \/ (Moving(i) /\ i \notin started \ unsaved),
         \A i \in Ids : Moving(i)' =>
            Moving(i) \/ (Match(gen[i].prompt) = {i} /\ (mem[i] = "scheduled" \/ mem'[i] = "scheduled")),
         \A i \in Ids, p \in Prompts : Held(i)' /\ Match(p) = {i} /\ ~Uncounted(p) =>
            \/ Held(i) /\ attempts'[p] = attempts[p]
            \/ \A k \in Kinds : gen[i].attempts[k] <= attempts'[p][k]
            \/ Owed(p) + 1 <= Recorded(i)
  PROVE  OldestMoves' /\ WaitsPaid' /\ MovesPaid' /\ RunsCounted'
<1>0. FileTypes /\ CountTypes /\ FileTypes'
  <2>1. FileTypes /\ CountTypes
    BY TypeParts
  <2>2. FileTypes'
    BY TypeParts, PTL
  <2> QED
    BY <2>1, <2>2
<1>1. /\ \A p : Match(p) \subseteq Ids /\ Of(mem, p) = Match(p)
      /\ \A p \in Prompts : /\ retries[p] \in Int /\ Owed(p) \in Int /\ retries[p] <= Owed(p)
                            /\ \A i : Match(p) \subseteq {i} => Owed(p) <= retries[p] + 1
                            /\ \A i \in Match(p) \ started : retries[p] + 1 <= Owed(p)
      /\ \A i \in Ids : Recorded(i) \in Nat
  BY <1>0, Numbers
<1>2. Pending(mem') = Pending(mem)
  BY <1>0 DEF Pending, InState, FileTypes, States
<1>3. /\ Pending(mem)' = Pending(mem)
      /\ \A p : Match(p)' = Match(p) /\ Of(mem', p) = Match(p)
      /\ \A p : Uncounted(p)' <=> Uncounted(p)
      /\ \A i : Recorded(i)' = Recorded(i)
  BY <1>2 DEF Match, Of, Uncounted, Recorded, Pending, InState
<1>4. \A p : Owed(p)' = Owed(p)
  BY <1>3 DEF Owed
<1>5. \A d : \A p : Of(d, p)' = Of(d, p)
  BY DEF Of, Pending, InState
<1>6. mem' \in disk' /\ mem \in disk
  BY <1>0 DEF FileTypes
<1>7. ASSUME NEW p \in Prompts, ~Uncounted(p), NEW i \in Ids, Match(p) = {i},
             mem[i] = "scheduled" \/ mem'[i] = "scheduled"
      PROVE  retries[p] + 1 <= Recorded(i) /\ Owed(p) <= Recorded(i)
  <2>1. CASE mem[i] = "scheduled"
    <3>1. retries[p] + 1 <= Recorded(i)
      BY <1>1, <1>6, <1>7, <2>1 DEF WaitsPaid
    <3>2. Owed(p) <= retries[p] + 1
      BY <1>1, <1>7
    <3> QED
      BY <1>1, <3>1, <3>2
  <2>2. CASE mem[i] # "scheduled"
    <3>1. Moving(i) /\ i \notin started \ unsaved
      BY <1>7, <2>2
    <3>2. i \notin unsaved
      BY <1>7 DEF Match, Uncounted
    <3>3. i \in Match(p) \ started
      BY <1>7, <3>1, <3>2
    <3>4. Owed(p) <= Recorded(i)
      BY <1>7, <3>1 DEF MovesPaid
    <3>5. retries[p] + 1 <= Owed(p)
      BY <1>1, <3>3
    <3> QED
      BY <1>1, <3>4, <3>5
  <2> QED
    BY <2>1, <2>2
<1>8. OldestMoves'
  <2> SUFFICES ASSUME NEW i \in Ids, Moving(i)'
               PROVE  i <= lastId /\ (i \in Pending(mem) => \A j \in Match(gen[i].prompt) : i <= j)
    BY <1>3 DEF OldestMoves
  <2>1. CASE Moving(i)
    BY <2>1 DEF OldestMoves
  <2>2. CASE ~Moving(i)
    <3>1. Match(gen[i].prompt) = {i} /\ i \in Pending(mem)
      BY <2>2 DEF Match
    <3>2. mem[i] # "none"
      BY <1>0, <3>1 DEF Pending, InState
    <3>3. i <= lastId
      BY <1>0, <3>2, Sizes DEF FileTypes, FilesInv, Ids
    <3> QED
      BY <3>1, <3>3 DEF Ids
  <2> QED
    BY <2>1, <2>2
<1>9. WaitsPaid'
  <2> SUFFICES ASSUME NEW p \in Prompts, ~Uncounted(p), NEW d \in disk', NEW i \in Ids,
                      Of(d, p)' = {i}, d[i] = "scheduled"
               PROVE  retries[p] + 1 <= Recorded(i)
    BY <1>3 DEF WaitsPaid
  <2>1. Of(d, p) = {i}
    BY <1>5
  <2>2. CASE d \in disk
    BY <2>1, <2>2 DEF WaitsPaid
  <2>3. CASE d = mem'
    BY <1>3, <1>7, <2>1, <2>3
  <2> QED
    BY <2>2, <2>3
<1>10. MovesPaid'
  <2> SUFFICES ASSUME NEW p \in Prompts, ~Uncounted(p), NEW i \in Match(p), NEW j \in Match(p), Moving(i)'
               PROVE  Owed(p) <= Recorded(j)
    BY <1>3, <1>4 DEF MovesPaid
  <2>1. CASE Moving(i)
    BY <2>1 DEF MovesPaid
  <2>2. CASE ~Moving(i)
    <3>1. i \in Ids /\ gen[i].prompt = p
      BY <1>1 DEF Match
    <3>2. Match(p) = {i} /\ (mem[i] = "scheduled" \/ mem'[i] = "scheduled")
      BY <2>2, <3>1
    <3> QED
      BY <1>7, <3>1, <3>2
  <2> QED
    BY <2>1, <2>2
<1>11. RunsCounted'
  <2> SUFFICES ASSUME NEW p \in Prompts, ~Uncounted(p), NEW i \in Ids, Match(p) = {i}, Held(i)'
               PROVE  \/ Owed(p) + 1 <= Recorded(i)
                      \/ \A k \in Kinds : gen[i].attempts[k] <= attempts'[p][k]
    BY <1>3, <1>4 DEF RunsCounted
  <2> QED
    BY DEF RunsCounted
<1> QED
  BY <1>8, <1>9, <1>10, <1>11

\* What moves is alone and waits.
LoneMoves ==
  \A i \in Ids : Moving(i) /\ i \in Pending(mem) => Match(gen[i].prompt) = {i} /\ mem[i] = "scheduled"

\* What moves alone is paid for as what waits.
LEMMA LonePaid == TypeInv /\ LoneMoves /\ WaitsPaid => MovesPaid
<1> SUFFICES ASSUME TypeInv, LoneMoves, WaitsPaid, NEW p \in Prompts, ~Uncounted(p),
                    NEW i \in Match(p), NEW j \in Match(p), Moving(i)
             PROVE  Owed(p) <= Recorded(j)
  BY DEF MovesPaid
<1>0. FileTypes /\ CountTypes
  BY TypeParts
<1>1. i \in Ids /\ i \in Pending(mem) /\ gen[i].prompt = p
  BY DEF Match, Pending, InState
<1>2. Match(p) = {i} /\ mem[i] = "scheduled" /\ j = i
  BY <1>1 DEF LoneMoves
<1>3. Of(mem, p) = {i} /\ mem \in disk
  BY <1>0, <1>2 DEF Of, Match, FileTypes
<1>4. retries[p] + 1 <= Recorded(i)
  BY <1>1, <1>2, <1>3 DEF WaitsPaid
<1>5. /\ Owed(p) <= retries[p] + 1 /\ Owed(p) \in Int /\ retries[p] \in Int
      /\ Recorded(i) \in Nat
  BY <1>0, <1>1, <1>2, Numbers
<1> QED
  BY <1>2, <1>4, <1>5

\* The next process: what it loads was paid for, and it arms only what is alone.
LEMMA RestartBudget ==
  ASSUME TypeInv, TypeInv', WaitsPaid, Restart
  PROVE  OldestMoves' /\ WaitsPaid' /\ MovesPaid' /\ RunsCounted'
<1>0. /\ mem' \in disk /\ disk' = {mem'}
      /\ UNCHANGED <<gen, lastId, unsaved, retries, started>>
      /\ timers' = Armed(mem', gen, {}) /\ awaiting' = {}
      /\ woken' = {} /\ handoff' = {} /\ local' = {} /\ queue' = <<>> /\ turn' = Idle
  BY DEF Restart, Resume
<1>1. FileTypes' /\ FileTypes
  <2>1. FileTypes
    BY TypeParts
  <2>2. FileTypes'
    BY TypeParts, PTL
  <2> QED
    BY <2>1, <2>2
<1>2. \A i \in Ids : ~Held(i)'
  <2>1. Idle.pc = "idle"
    BY NoTurnFields
  <2>2. \A i \in Ids : ~InTurn(i)'
    BY <1>0, <2>1 DEF InTurn
  <2> QED
    BY <1>0, <2>2, PlacesNext DEF Held, Waits, Carries
<1>3. \A i \in Ids : Moving(i)' => i \in timers'
  BY <1>0, <1>2 DEF Moving
<1>4. /\ \A p : Match(p)' = {j \in Pending(mem') : gen[j].prompt = p}
      /\ Pending(mem)' = Pending(mem')
      /\ \A d : \A p : Of(d, p)' = Of(d, p)
      /\ \A p : Uncounted(p)' <=> Uncounted(p)
      /\ \A i : Recorded(i)' = Recorded(i)
  BY <1>0 DEF Match, Of, Uncounted, Recorded, Pending, InState
<1>5. ASSUME NEW i \in Ids, i \in timers'
      PROVE  mem'[i] = "scheduled" /\ Match(gen[i].prompt)' = {i}
  <2>1. ~Blocked(mem', gen) /\ i \in InState(mem', "scheduled")
    BY <1>0, <1>5 DEF Armed
  <2>2. ~Malformed(mem', gen) /\ i \in Pending(mem') /\ mem'[i] = "scheduled"
    BY <2>1 DEF Blocked, Pending, InState
  <2>3. PICK p : p = gen[i].prompt /\ p = gen'[i].prompt
    BY <1>0
  <2>4. {j \in Pending(mem') : gen[j].prompt = p} = {i}
    BY <2>2, <2>3 DEF Malformed
  <2>5. Match(p)' = {i}
    BY <1>4, <2>4
  <2> QED
    BY <2>2, <2>3, <2>5
<1>6. LoneMoves'
  <2> SUFFICES ASSUME NEW i \in Ids, Moving(i)'
               PROVE  Match(gen[i].prompt)' = {i} /\ mem'[i] = "scheduled"
    BY <1>0, <1>4 DEF LoneMoves
  <2> QED
    BY <1>3, <1>5
<1>7. OldestMoves'
  <2> SUFFICES ASSUME NEW i \in Ids, Moving(i)'
               PROVE  i <= lastId /\ (\A j \in Match(gen[i].prompt)' : i <= j)
    BY <1>0, <1>4 DEF OldestMoves
  <2>1. mem'[i] = "scheduled" /\ Match(gen[i].prompt)' = {i}
    BY <1>3, <1>5
  <2>2. i <= lastId
    BY <1>0, <1>1, <2>1, Sizes DEF FileTypes, FilesInv, Ids
  <2> QED
    BY <2>1, <2>2 DEF Ids
<1>8. WaitsPaid'
  BY <1>0, <1>4 DEF WaitsPaid
<1>9. MovesPaid'
  BY <1>6, <1>8, LonePaid, PTL
<1>10. RunsCounted'
  BY <1>2 DEF RunsCounted
<1> QED
  BY <1>7, <1>8, <1>9, <1>10

\* A cleared conversation has no generations.
LEMMA ClearBudget ==
  ASSUME TypeInv, OldestMoves, WaitsPaid,
         UNCHANGED <<gen, lastId, unsaved, retries, started>>,
         \A i \in Ids : mem'[i] = "none",
         disk' \subseteq disk \union {mem'},
         \A i \in Ids : Moving(i)' => Moving(i)
  PROVE  OldestMoves' /\ WaitsPaid' /\ MovesPaid' /\ RunsCounted'
<1>1. /\ Pending(mem') = {} /\ Pending(mem)' = {}
      /\ \A p : Match(p)' = {}
      /\ \A d : \A p : Of(d, p)' = Of(d, p)
      /\ \A p : Of(mem', p) = {}
      /\ \A p : Uncounted(p)' <=> Uncounted(p)
      /\ \A i : Recorded(i)' = Recorded(i)
  BY DEF Match, Of, Uncounted, Recorded, Pending, InState
<1>2. OldestMoves'
  BY <1>1 DEF OldestMoves
<1>3. WaitsPaid'
  <2> SUFFICES ASSUME NEW p \in Prompts, ~Uncounted(p), NEW d \in disk', NEW i \in Ids,
                      Of(d, p)' = {i}, d[i] = "scheduled"
               PROVE  retries[p] + 1 <= Recorded(i)
    BY <1>1 DEF WaitsPaid
  <2>1. Of(d, p) = {i}
    BY <1>1
  <2>2. d \in disk
    BY <1>1, <2>1
  <2> QED
    BY <2>1, <2>2 DEF WaitsPaid
<1>4. MovesPaid' /\ RunsCounted'
  BY <1>1 DEF MovesPaid, RunsCounted
<1> QED
  BY <1>2, <1>3, <1>4

\* A recovery succeeded: what waited behind it was paid for while it moved.
LEMMA RemoveBudget ==
  ASSUME TypeInv, TypeInv', SpentStays, OldestMoves, WaitsPaid, MovesPaid,
         UNCHANGED <<gen, lastId, unsaved, retries, started>>,
         NEW i \in Ids, Held(i), mem[i] = "claimed",
         mem' = [mem EXCEPT ![i] = "none"],
         disk' \subseteq disk \union {mem'},
         \A j \in Ids : ~Held(j)',
         \A j \in Ids : Moving(j)' => Moving(j) \/ (Match(gen[j].prompt)' = {j} /\ mem'[j] = "scheduled")
  PROVE  OldestMoves' /\ WaitsPaid' /\ MovesPaid' /\ RunsCounted'
<1>0. FileTypes /\ CountTypes /\ FileTypes' /\ CountTypes'
  <2>1. FileTypes /\ CountTypes
    BY TypeParts
  <2>2. FileTypes' /\ CountTypes'
    BY TypeParts, PTL
  <2> QED
    BY <2>1, <2>2
<1>1. /\ \A p : Match(p) \subseteq Ids /\ Of(mem, p) = Match(p)
      /\ \A p \in Prompts : /\ retries[p] \in Int /\ Owed(p) \in Int /\ retries[p] <= Owed(p)
                            /\ \A j : Match(p) \subseteq {j} => Owed(p) <= retries[p] + 1
                            /\ \A j \in Match(p) \ started : retries[p] + 1 <= Owed(p)
      /\ \A j \in Ids : Recorded(j) \in Nat
  BY <1>0, Numbers
<1>2. /\ \A j \in Ids : j # i => mem'[j] = mem[j]
      /\ mem'[i] = "none"
  BY <1>0 DEF FileTypes, States
<1>3. Pending(mem') = Pending(mem) \ {i}
  BY <1>2 DEF Pending, InState
<1>4. /\ Pending(mem)' = Pending(mem) \ {i}
      /\ \A p : Match(p)' = Match(p) \ {i} /\ Of(mem', p) = Match(p) \ {i}
      /\ \A d : \A p : Of(d, p)' = Of(d, p)
      /\ \A p : Uncounted(p)' <=> Uncounted(p)
      /\ \A j : Recorded(j)' = Recorded(j)
  BY <1>3 DEF Match, Of, Uncounted, Recorded, Pending, InState
<1>5. \A p \in Prompts : Owed(p)' <= Owed(p) /\ Owed(p)' \in Int
  <2> SUFFICES ASSUME NEW p \in Prompts
               PROVE  Owed(p)' <= Owed(p) /\ Owed(p)' \in Int
    OBVIOUS
  <2> DEFINE S == Match(p) \ started
             T == (Match(p) \ {i}) \ started
  <2>1. S \in SUBSET Ids /\ T \in SUBSET S /\ T \in SUBSET Ids
    BY <1>1
  <2>2. Owed(p) = retries[p] + Cardinality(S) /\ Owed(p)' = retries[p] + Cardinality(T)
    BY <1>4 DEF Owed
  <2> HIDE DEF S, T
  <2> QED
    BY <1>1, <2>1, <2>2, Counts, CountsLess
<1>6. OldestMoves'
  <2> SUFFICES ASSUME NEW j \in Ids, Moving(j)'
               PROVE  j <= lastId /\ (j \in Pending(mem) \ {i} => \A k \in Match(gen[j].prompt)' : j <= k)
    BY <1>4 DEF OldestMoves
  <2>1. CASE Moving(j)
    BY <1>4, <2>1 DEF OldestMoves
  <2>2. CASE ~Moving(j)
    <3>1. Match(gen[j].prompt)' = {j} /\ mem'[j] = "scheduled"
      BY <2>2
    <3>2. j <= lastId
      BY <1>0, <3>1, Sizes DEF FileTypes, FilesInv, Ids
    <3> QED
      BY <3>1, <3>2 DEF Ids
  <2> QED
    BY <2>1, <2>2
<1>7. ASSUME NEW p \in Prompts, ~Uncounted(p), NEW j \in Ids, Match(p) \ {i} = {j}, mem'[j] = "scheduled"
      PROVE  retries[p] + 1 <= Recorded(j)
  <2>1. j # i /\ mem[j] = "scheduled" /\ j \in Match(p)
    BY <1>2, <1>7
  <2>2. CASE i \notin Match(p)
    <3>1. Of(mem, p) = {j} /\ mem \in disk
      BY <1>0, <1>1, <1>7, <2>2 DEF FileTypes
    <3> QED
      BY <1>7, <2>1, <3>1 DEF WaitsPaid
  <2>3. CASE i \in Match(p)
    <3>1. Moving(i)
      BY DEF Moving
    <3>2. Owed(p) <= Recorded(j)
      BY <1>7, <2>1, <2>3, <3>1 DEF MovesPaid
    <3>3. j \notin unsaved
      BY <1>7, <2>1 DEF Match, Uncounted
    <3>4. j \notin started
      BY <1>0, <2>1, <3>3 DEF SpentStays, Spent, FileTypes
    <3>5. retries[p] + 1 <= Owed(p)
      BY <1>1, <2>1, <3>4
    <3> QED
      BY <1>1, <3>2, <3>5
  <2> QED
    BY <2>2, <2>3
<1>8. WaitsPaid'
  <2> SUFFICES ASSUME NEW p \in Prompts, ~Uncounted(p), NEW d \in disk', NEW j \in Ids,
                      Of(d, p)' = {j}, d[j] = "scheduled"
               PROVE  retries[p] + 1 <= Recorded(j)
    BY <1>4 DEF WaitsPaid
  <2>1. Of(d, p) = {j}
    BY <1>4
  <2>2. CASE d \in disk
    BY <2>1, <2>2 DEF WaitsPaid
  <2>3. CASE d = mem'
    BY <1>4, <1>7, <2>1, <2>3
  <2> QED
    BY <2>2, <2>3
<1>9. MovesPaid'
  <2> SUFFICES ASSUME NEW p \in Prompts, ~Uncounted(p), NEW j \in Match(p) \ {i}, NEW k \in Match(p) \ {i},
                      Moving(j)'
               PROVE  Owed(p)' <= Recorded(k)
    BY <1>4 DEF MovesPaid
  <2>0. j \in Ids /\ k \in Ids /\ gen[j].prompt = p
    BY <1>1 DEF Match
  <2>1. CASE Moving(j)
    <3>1. Owed(p) <= Recorded(k)
      BY <2>1 DEF MovesPaid
    <3> QED
      BY <1>1, <1>5, <2>0, <3>1
  <2>2. CASE ~Moving(j)
    <3>1. Match(p) \ {i} = {j} /\ mem'[j] = "scheduled"
      BY <1>4, <2>0, <2>2
    <3>2. retries[p] + 1 <= Recorded(j) /\ k = j
      BY <1>7, <2>0, <3>1
    <3>3. Owed(p)' <= retries[p] + 1
      <4> DEFINE T == (Match(p) \ {i}) \ started
      <4>1. T \in SUBSET Ids /\ T \subseteq {j}
        BY <1>1, <3>1
      <4>2. Owed(p)' = retries[p] + Cardinality(T)
        BY <1>4 DEF Owed
      <4> HIDE DEF T
      <4> QED
        BY <1>1, <4>1, <4>2, Counts, CountsOne
    <3> QED
      BY <1>1, <1>5, <2>0, <3>2, <3>3
  <2> QED
    BY <2>1, <2>2
<1>10. RunsCounted'
  BY DEF RunsCounted
<1> QED
  BY <1>6, <1>8, <1>9, <1>10

\* The start of a turn.  A new request clears the account of its prompt; the retry of a
\* generation makes one more retry and one less that is owed.
LEMMA StartBudget ==
  ASSUME TypeInv, TypeInv', HeldInv, SpentStays, RequestsHonest, AllRecorded,
         OldestMoves, WaitsPaid, MovesPaid, RunsCounted, Start
  PROVE  OldestMoves' /\ WaitsPaid' /\ MovesPaid' /\ RunsCounted' /\ NewIsFree'
<1>0. FileTypes /\ CountTypes /\ RequestTypes /\ SetTypes
  BY TypeParts
<1>1. /\ \A p : Match(p) \subseteq Ids /\ Of(mem, p) = Match(p)
      /\ \A p \in Prompts : /\ retries[p] \in Int /\ Owed(p) \in Int /\ retries[p] <= Owed(p)
                            /\ \A j : Match(p) \subseteq {j} => Owed(p) <= retries[p] + 1
                            /\ \A j \in Match(p) \ started : retries[p] + 1 <= Owed(p)
      /\ \A j \in Ids : Recorded(j) \in Nat
  BY <1>0, Numbers
<1> DEFINE r == turn.req
<1>2. /\ UNCHANGED <<mem, disk, gen, lastId, unsaved, attempts, timers, woken, handoff, awaiting, local, queue>>
      /\ turn.pc = "accepted" /\ Current(r)
      /\ started' = IF r.rid = 0 \/ r.own THEN started ELSE started \union {r.rid}
      /\ retries' = IF r.prompt \notin Prompts THEN retries
                    ELSE [retries EXCEPT ![r.prompt] =
                            IF r.kind = "recovery" THEN @ + 1 ELSE -Cardinality(Match(r.prompt))]
  BY DEF Start, fileVars, timerVars
<1>3. turn'.pc = "running" /\ turn'.req = r
  BY <1>0 DEF Start, RequestTypes, TurnType
<1>4. r \in RequestType /\ r.rid \in 0 .. MaxIds /\ Honest(r)
  <2>1. r \in RequestType /\ r.rid \in 0 .. MaxIds
    BY <1>0 DEF RequestTypes, TurnType, RequestType
  <2>2. CASE r.fresh
    <3>1. Live(r)
      BY <1>2, <2>2 DEF Live
    <3> QED
      BY <2>1, <3>1 DEF RequestsHonest
  <2>3. CASE r.rid = 0 /\ r.prompt = ClearCommand
    BY <2>1, <2>3, Sizes DEF Honest
  <2> QED
    BY <1>2, <2>2, <2>3, <2>1 DEF Current
<1> HIDE DEF r
<1>5. \A i \in Ids : (Held(i)' <=> Held(i)) /\ (Moving(i)' <=> Moving(i))
  <2> SUFFICES ASSUME NEW i \in Ids
               PROVE  (Held(i)' <=> Held(i)) /\ (Moving(i)' <=> Moving(i))
    OBVIOUS
  <2>1. InTurn(i)' <=> InTurn(i)
    BY <1>2, <1>3, Sizes DEF InTurn, r, Current, Ids
  <2>2. Held(i)' <=> Held(i)
    BY <1>2, <2>1, PlacesNext DEF Held, InQueue, InHandoff, InLocal
  <2> QED
    BY <1>2, <2>2 DEF Moving
<1>6. /\ Pending(mem)' = Pending(mem)
      /\ \A p : Match(p)' = Match(p)
      /\ \A d : \A p : Of(d, p)' = Of(d, p)
      /\ \A p : Uncounted(p)' <=> Uncounted(p)
      /\ \A i : Recorded(i)' = Recorded(i)
  BY <1>2 DEF Match, Of, Uncounted, Recorded, Pending, InState
<1>7. OldestMoves'
  BY <1>2, <1>5, <1>6 DEF OldestMoves
<1>8. ASSUME NEW d \in disk, NEW i \in Ids, d[i] # "none"
      PROVE  1 <= Recorded(i)
  <2>1. i <= lastId
    BY <1>0, <1>8, Sizes DEF FileTypes, FilesInv, Ids
  <2> QED
    BY <2>1 DEF AllRecorded
<1>9. ASSUME NEW p \in Prompts, NEW i \in Match(p)
      PROVE  1 <= Recorded(i) /\ i \in Ids
  <2>1. i \in Ids /\ mem[i] # "none" /\ mem \in disk
    BY <1>0, <1>1 DEF Match, Pending, InState, FileTypes
  <2> QED
    BY <1>8, <2>1
<1>10. ASSUME NEW p \in Prompts, p # r.prompt \/ r.prompt \notin Prompts, ~Uncounted(p)
       PROVE  retries'[p] = retries[p] /\ Owed(p)' = Owed(p)
  <2>1. retries'[p] = retries[p]
    BY <1>0, <1>2, <1>10 DEF CountTypes
  <2>2. Match(p) \ started' = Match(p) \ started
    <3>1. CASE r.rid = 0 \/ r.own
      BY <1>2, <3>1
    <3>2. CASE r.rid # 0 /\ ~r.own
      <4>1. gen[r.rid].prompt = r.prompt
        BY <1>4, <3>2 DEF Honest
      <4>2. r.rid \notin Match(p)
        BY <1>10, <4>1 DEF Match
      <4> QED
        BY <1>2, <4>2
    <3> QED
      BY <1>4, <3>1, <3>2 DEF RequestType
  <2> QED
    BY <1>6, <2>1, <2>2 DEF Owed
<1>11. ASSUME NEW p \in Prompts, p = r.prompt, r.kind # "recovery"
       PROVE  /\ retries'[p] = -Cardinality(Match(p)) /\ retries'[p] + 1 <= 1
              /\ Owed(p)' + 1 <= 1 /\ Owed(p)' \in Int /\ retries'[p] \in Int
  <2>1. retries'[p] = -Cardinality(Match(p))
    BY <1>0, <1>2, <1>11 DEF CountTypes
  <2>2. r.rid = 0 /\ started' = started
    BY <1>2, <1>4, <1>11 DEF Honest
  <2> DEFINE M == Match(p)
             S == Match(p) \ started
  <2>3. M \in SUBSET Ids /\ S \in SUBSET M /\ S \in SUBSET Ids
    BY <1>1
  <2>4. Owed(p)' = retries'[p] + Cardinality(S)
    BY <1>6, <2>2 DEF Owed
  <2>5. retries'[p] = -Cardinality(M)
    BY <2>1
  <2> HIDE DEF M, S
  <2>6. Cardinality(M) \in Nat /\ Cardinality(S) \in Nat /\ Cardinality(S) <= Cardinality(M)
    BY <2>3, Counts, CountsLess
  <2> QED
    BY <2>1, <2>4, <2>5, <2>6
<1>12. ASSUME NEW p \in Prompts, p = r.prompt, r.kind = "recovery", ~Uncounted(p)
       PROVE  /\ Owed(p)' = Owed(p)
              /\ \A d \in disk : r.rid \in Of(d, p) /\ d[r.rid] = "claimed"
  <2>1. r.rid # 0 /\ ~r.own /\ gen[r.rid].prompt = p /\ r.rid \in Ids
    BY <1>4, <1>12, Sizes DEF Honest, Ids
  <2>2. InTurn(r.rid)
    BY <1>2, <2>1 DEF InTurn, Current, r
  <2>3. \A d \in disk : d[r.rid] = "claimed"
    BY <2>1, <2>2 DEF HeldInv, HeldIsClaimed, Held
  <2>4. r.rid \notin unsaved
    BY <1>12, <2>1 DEF Uncounted
  <2>5. r.rid \notin started
    BY <1>2, <2>2, <2>4 DEF SpentStays, Spent
  <2>6. \A d \in disk : r.rid \in Of(d, p)
    BY <2>1, <2>3 DEF Of, Pending, InState
  <2>7. r.rid \in Match(p)
    BY <1>0, <1>1, <2>6 DEF FileTypes
  <2> DEFINE T == (Match(p) \ started) \ {r.rid}
  <2>8. /\ T \in SUBSET Ids /\ r.rid \notin T /\ T \union {r.rid} = Match(p) \ started
        /\ Match(p) \ started' = T
    BY <1>1, <1>2, <2>1, <2>5, <2>7
  <2>9. retries'[p] = retries[p] + 1
    BY <1>0, <1>2, <1>12 DEF CountTypes
  <2>10. Owed(p)' = retries[p] + 1 + Cardinality(T) /\ Owed(p) = retries[p] + Cardinality(T \union {r.rid})
    BY <1>6, <2>8, <2>9 DEF Owed
  <2> HIDE DEF T
  <2>11. Cardinality(T) \in Nat /\ Cardinality(T \union {r.rid}) = Cardinality(T) + 1
    BY <2>1, <2>8, Counts, CountsMore
  <2>12. Owed(p)' = Owed(p)
    BY <1>1, <1>12, <2>10, <2>11
  <2> QED
    BY <2>3, <2>6, <2>12
<1>13. WaitsPaid'
  <2> SUFFICES ASSUME NEW p \in Prompts, ~Uncounted(p), NEW d \in disk, NEW i \in Ids,
                      Of(d, p) = {i}, d[i] = "scheduled"
               PROVE  retries'[p] + 1 <= Recorded(i)
    BY <1>2, <1>6 DEF WaitsPaid
  <2>1. CASE p # r.prompt
    BY <1>10, <2>1 DEF WaitsPaid
  <2>2. CASE p = r.prompt /\ r.kind # "recovery"
    <3>1. 1 <= Recorded(i) /\ Recorded(i) \in Nat
      BY <1>1, <1>8
    <3>2. retries'[p] + 1 <= 1 /\ retries'[p] \in Int
      BY <1>11, <2>2
    <3> QED
      BY <3>1, <3>2
  <2>3. CASE p = r.prompt /\ r.kind = "recovery"
    <3>1. r.rid \in Of(d, p) /\ d[r.rid] = "claimed"
      BY <1>12, <2>3
    <3> QED
      BY <3>1
  <2> QED
    BY <2>1, <2>2, <2>3
<1>14. MovesPaid'
  <2> SUFFICES ASSUME NEW p \in Prompts, ~Uncounted(p), NEW i \in Match(p), NEW j \in Match(p), Moving(i)'
               PROVE  Owed(p)' <= Recorded(j)
    BY <1>6 DEF MovesPaid
  <2>0. Moving(i) /\ i \in Ids /\ j \in Ids
    BY <1>1, <1>5
  <2>1. Owed(p) <= Recorded(j)
    BY <2>0 DEF MovesPaid
  <2>2. CASE p = r.prompt /\ r.kind # "recovery"
    <3>1. 1 <= Recorded(j) /\ Recorded(j) \in Nat
      BY <1>1, <1>9
    <3>2. Owed(p)' + 1 <= 1 /\ Owed(p)' \in Int
      BY <1>11, <2>2
    <3> QED
      BY <3>1, <3>2
  <2>3. CASE ~(p = r.prompt /\ r.kind # "recovery")
    <3>1. Owed(p)' = Owed(p)
      BY <1>10, <1>12, <2>3
    <3> QED
      BY <2>1, <3>1
  <2> QED
    BY <2>2, <2>3
<1>15. RunsCounted'
  <2> SUFFICES ASSUME NEW p \in Prompts, ~Uncounted(p), NEW i \in Ids, Match(p) = {i}, Held(i)'
               PROVE  \/ Owed(p)' + 1 <= Recorded(i)
                      \/ \A k \in Kinds : gen[i].attempts[k] <= attempts[p][k]
    BY <1>2, <1>6 DEF RunsCounted
  <2>1. \/ Owed(p) + 1 <= Recorded(i)
        \/ \A k \in Kinds : gen[i].attempts[k] <= attempts[p][k]
    BY <1>5 DEF RunsCounted
  <2>2. CASE p = r.prompt /\ r.kind # "recovery"
    <3>1. 1 <= Recorded(i) /\ Recorded(i) \in Nat
      BY <1>1, <1>9
    <3>2. Owed(p)' + 1 <= 1 /\ Owed(p)' \in Int
      BY <1>11, <2>2
    <3> QED
      BY <3>1, <3>2
  <2>3. CASE ~(p = r.prompt /\ r.kind # "recovery")
    <3>1. Owed(p)' = Owed(p)
      BY <1>10, <1>12, <2>3
    <3> QED
      BY <2>1, <3>1
  <2> QED
    BY <2>2, <2>3
<1>16. NewIsFree'
  <2> SUFFICES ASSUME NEW p \in Prompts, r.kind # "recovery", r.prompt = p
               PROVE  retries'[p] <= -Cardinality(Match(p))
    BY <1>3, <1>6 DEF NewIsFree
  <2>1. Cardinality(Match(p)) \in Nat
    BY <1>1, Counts
  <2> QED
    BY <1>11, <2>1
<1> QED
  BY <1>7, <1>13, <1>14, <1>15, <1>16

\* A new generation n of the request p, in the place of i (0 = of none): it has recorded what
\* i had, and this attempt if i's were counted.
Follows(p, i, n, kind) ==
  /\ n \in Ids /\ n = lastId + 1 /\ lastId' = n
  /\ gen' \in [Ids -> GenType] /\ \A j \in Ids \ {n} : gen'[j] = gen[j]
  /\ gen'[n].prompt = p
  /\ gen'[n].attempts[kind] >= attempts[p][kind] + 1
  /\ i # 0 => /\ i \in Ids /\ Held(i) /\ gen[i].prompt = p
              /\ \A k \in Kinds : gen'[n].attempts[k] >= gen[i].attempts[k]

\* A failure that is to be retried, with a generation that was written.
LEMMA FollowBudget ==
  ASSUME TypeInv, TypeInv', HeldInv, HeldInv', AllRecorded,
         OldestMoves, WaitsPaid, MovesPaid, RunsCounted,
         NEW p \in Prompts, NEW kind \in Kinds, NEW i, NEW n, Follows(p, i, n, kind),
         i = 0 /\ ~Uncounted(p) => retries[p] <= -Cardinality(Match(p)),
         UNCHANGED <<unsaved, retries, started>>,
         \A j \in Ids : mem'[j] = IF j = n THEN "scheduled" ELSE IF j = i THEN "none" ELSE mem[j],
         disk' \subseteq disk \union {mem'},
         \A j \in Ids : Held(j)' => Held(j) /\ j # i,
         \A q \in Prompts : q # p => attempts'[q] = attempts[q],
         \A j \in Ids : Moving(j)' => Moving(j) \/ (Match(gen[j].prompt)' = {j} /\ mem'[j] = "scheduled")
  PROVE  OldestMoves' /\ WaitsPaid' /\ MovesPaid' /\ RunsCounted'
<1>0. FileTypes /\ CountTypes /\ SetTypes /\ FileTypes' /\ CountTypes'
  <2>1. FileTypes /\ CountTypes /\ SetTypes
    BY TypeParts
  <2>2. FileTypes' /\ CountTypes'
    BY TypeParts, PTL
  <2> QED
    BY <2>1, <2>2
<1>1. /\ \A q : Match(q) \subseteq Ids /\ Of(mem, q) = Match(q)
      /\ \A q \in Prompts : /\ retries[q] \in Int /\ Owed(q) \in Int /\ retries[q] <= Owed(q)
                            /\ \A j : Match(q) \subseteq {j} => Owed(q) <= retries[q] + 1
                            /\ \A j \in Match(q) \ started : retries[q] + 1 <= Owed(q)
      /\ \A j \in Ids : Recorded(j) \in Nat
  BY <1>0, Numbers
<1>2. /\ n \in Ids /\ n = lastId + 1 /\ lastId \in Nat /\ gen'[n].prompt = p /\ lastId' = n
      /\ \A j \in Ids \ {n} : gen'[j] = gen[j]
      /\ \A d \in disk : d \in States /\ d[n] = "none"
      /\ n \notin unsaved /\ mem \in disk /\ mem' \in disk' /\ i # n
  BY <1>0, Sizes DEF Follows, FileTypes, FilesInv, Ids, AllRecorded, HeldInv, HeldIsClaimed
<1>3. i # 0 => i \in Ids /\ gen[i].prompt = p /\ Moving(i) /\ mem[i] = "claimed" /\ i \in Match(p) /\ Held(i)
  <2>1. i # 0 => i \in Ids /\ gen[i].prompt = p /\ Held(i)
    BY DEF Follows
  <2>2. i # 0 => mem[i] = "claimed"
    BY <1>2, <2>1 DEF HeldInv, HeldIsClaimed
  <2> QED
    BY <2>1, <2>2 DEF Moving, Match, Pending, InState
<1>4. \A q : Uncounted(q)' <=> Uncounted(q)
  BY <1>0, <1>2 DEF Uncounted, SetTypes
<1>5. \A j \in Ids \ {n} : Recorded(j)' = Recorded(j)
  BY <1>2 DEF Recorded
<1>6. \A d \in disk : \A q : Of(d, q)' = Of(d, q)
  <2> SUFFICES ASSUME NEW d \in disk, NEW q
               PROVE  Of(d, q)' = Of(d, q)
    OBVIOUS
  <2>1. \A j \in Pending(d) : j \in Ids \ {n} /\ gen'[j] = gen[j]
    BY <1>2 DEF Pending, InState
  <2>2. Of(d, q)' = {j \in Pending(d) : gen'[j].prompt = q}
    BY DEF Of, Pending, InState
  <2> QED
    BY <2>1, <2>2 DEF Of
<1>7. Pending(mem') = (Pending(mem) \ {i}) \union {n}
  BY <1>2 DEF Pending, InState
<1>8. /\ Pending(mem)' = (Pending(mem) \ {i}) \union {n}
      /\ Match(p)' = (Match(p) \ {i}) \union {n}
      /\ \A q : q # p => Match(q)' = Match(q)
      /\ \A d : d = mem' => \A q : Of(d, q)' = Match(q)'
  <2>1. Pending(mem)' = Pending(mem')
    BY DEF Pending, InState
  <2>2. \A q : Match(q)' = {j \in Pending(mem') : gen'[j].prompt = q}
    BY <2>1 DEF Match
  <2>3. \A d : d = mem' => \A q : Of(d, q)' = {j \in Pending(mem') : gen'[j].prompt = q}
    BY DEF Of, Pending, InState
  <2>4. n \notin Pending(mem)
    BY <1>2 DEF Pending, InState
  <2>5. \A j \in Pending(mem) : j \in Ids \ {n} /\ gen'[j] = gen[j]
    BY <1>2, <2>4 DEF Pending, InState
  <2>6. Match(p)' = (Match(p) \ {i}) \union {n}
    BY <1>2, <1>7, <2>2, <2>5 DEF Match
  <2>7. ASSUME NEW q, q # p
        PROVE  Match(q)' = Match(q)
    <3>1. i \notin Match(q)
      BY <1>2, <1>3, <2>7, Sizes DEF Match, Pending, InState, Ids
    <3> QED
      BY <1>2, <1>7, <2>2, <2>5, <2>7, <3>1 DEF Match
  <2>8. Pending(mem)' = (Pending(mem) \ {i}) \union {n}
    BY <1>7, <2>1
  <2>9. ASSUME NEW d, d = mem', NEW q
        PROVE  Of(d, q)' = Match(q)'
    BY <2>2, <2>3, <2>9
  <2> QED
    BY <2>6, <2>7, <2>8, <2>9
<1>9. Recorded(n)' \in Nat /\ 1 <= Recorded(n)' /\ (i # 0 => Recorded(i) <= Recorded(n)')
  <2>1. /\ \A k \in Kinds : gen'[n].attempts[k] \in Nat
        /\ gen'[n].attempts[kind] >= attempts[p][kind] + 1 /\ attempts[p][kind] \in Nat
    BY <1>0, <1>2 DEF Follows, GenType, CountTypes
  <2>2. Recorded(n)' = gen'[n].attempts["rate_limit"] + gen'[n].attempts["auto_resume"]
    BY DEF Recorded
  <2>3. "rate_limit" \in Kinds /\ "auto_resume" \in Kinds
    BY DEF Kinds
  <2>4. gen'[n].attempts[kind] >= 1
    BY <2>1
  <2>5. 1 <= Recorded(n)' /\ Recorded(n)' \in Nat
    BY <2>1, <2>2, <2>3, <2>4 DEF Kinds
  <2>6. ASSUME i # 0
        PROVE  Recorded(i) <= Recorded(n)'
    <3>1. \A k \in Kinds : gen'[n].attempts[k] >= gen[i].attempts[k]
      BY <2>6 DEF Follows
    <3>2. \A k \in Kinds : gen[i].attempts[k] \in Nat
      BY <1>0, <1>3, <2>6 DEF FileTypes, GenType
    <3> QED
      BY <2>1, <2>2, <2>3, <3>1, <3>2 DEF Recorded
  <2> QED
    BY <2>5, <2>6
<1>10. ASSUME i # 0, \A k \in Kinds : gen[i].attempts[k] <= attempts[p][k]
       PROVE  Recorded(i) + 1 <= Recorded(n)'
  <2>1. \A k \in Kinds : /\ gen'[n].attempts[k] >= gen[i].attempts[k] /\ gen[i].attempts[k] \in Nat
                         /\ gen'[n].attempts[k] \in Nat
    BY <1>0, <1>2, <1>3, <1>10 DEF Follows, FileTypes, GenType
  <2>2. gen'[n].attempts[kind] >= gen[i].attempts[kind] + 1
    <3>1. gen'[n].attempts[kind] >= attempts[p][kind] + 1 /\ attempts[p][kind] \in Nat
      BY <1>0 DEF Follows, CountTypes
    <3> QED
      BY <1>10, <2>1, <3>1
  <2>3. kind = "rate_limit" \/ kind = "auto_resume"
    BY DEF Kinds
  <2>4. "rate_limit" \in Kinds /\ "auto_resume" \in Kinds
    BY DEF Kinds
  <2>5. Recorded(n)' = gen'[n].attempts["rate_limit"] + gen'[n].attempts["auto_resume"]
    BY DEF Recorded
  <2> QED
    BY <2>1, <2>2, <2>3, <2>4, <2>5 DEF Recorded
<1>11. ASSUME ~Uncounted(p), Match(p)' = {n}
       PROVE  retries[p] + 1 <= Recorded(n)'
  <2>1. CASE i = 0
    <3>1. retries[p] <= -Cardinality(Match(p)) /\ Cardinality(Match(p)) \in Nat
      BY <1>1, <1>11, <2>1, Counts
    <3> QED
      BY <1>1, <1>9, <3>1
  <2>2. CASE i # 0
    <3>1. Match(p) = {i}
      BY <1>2, <1>3, <1>8, <1>11, <2>2 DEF Match, Pending, InState
    <3>2. Owed(p) <= Recorded(i)
      BY <1>3, <1>11, <2>2 DEF MovesPaid
    <3>3. \/ Owed(p) + 1 <= Recorded(i)
          \/ \A k \in Kinds : gen[i].attempts[k] <= attempts[p][k]
      BY <1>3, <1>11, <2>2, <3>1 DEF RunsCounted
    <3>4. Owed(p) + 1 <= Recorded(n)'
      BY <1>1, <1>3, <1>9, <1>10, <2>2, <3>2, <3>3
    <3> QED
      BY <1>1, <1>9, <3>4
  <2> QED
    BY <2>1, <2>2
<1>12. OldestMoves'
  <2> SUFFICES ASSUME NEW j \in Ids, Moving(j)'
               PROVE  j <= lastId' /\ (j \in Pending(mem)' => \A k \in Match(gen[j].prompt)' : j <= k)
    BY DEF OldestMoves
  <2>1. CASE Moving(j)
    <3>1. j <= lastId /\ j # n /\ gen'[j] = gen[j] /\ j <= n /\ j <= lastId'
      BY <1>2, <2>1 DEF OldestMoves, Ids
    <3>2. ASSUME j \in Pending(mem)', NEW k \in Match(gen[j].prompt)'
          PROVE  j <= k
      <4>1. j \in Pending(mem)
        BY <1>8, <3>1, <3>2
      <4>2. PICK q : q = gen[j].prompt /\ q = gen'[j].prompt
        BY <3>1
      <4>3. k \in Match(q)'
        BY <3>2, <4>2
      <4>4. k \in Match(q) \/ k = n
        BY <1>8, <4>3
      <4>5. \A m \in Match(q) : j <= m
        BY <2>1, <4>1, <4>2 DEF OldestMoves
      <4> QED
        BY <3>1, <4>4, <4>5
    <3> QED
      BY <3>1, <3>2
  <2>2. CASE ~Moving(j)
    <3>1. Match(gen[j].prompt)' = {j} /\ mem'[j] = "scheduled"
      BY <2>2
    <3>2. j <= lastId'
      BY <1>0, <1>2, <3>1, Sizes DEF FileTypes, FilesInv, Ids
    <3> QED
      BY <3>1, <3>2 DEF Ids
  <2> QED
    BY <2>1, <2>2
<1>13. ASSUME NEW q \in Prompts, ~Uncounted(q), NEW j \in Ids, Match(q)' = {j}, mem'[j] = "scheduled"
       PROVE  retries[q] + 1 <= Recorded(j)'
  <2>1. CASE q = p
    <3>1. j = n
      BY <1>8, <1>13, <2>1
    <3> QED
      BY <1>11, <1>13, <2>1, <3>1
  <2>2. CASE q # p
    <3>1. Of(mem, q) = {j}
      BY <1>1, <1>8, <1>13, <2>2
    <3>2. j # n /\ j # i /\ mem[j] = "scheduled"
      <4>1. j \in Pending(mem) /\ gen[j].prompt = q
        BY <3>1 DEF Of
      <4>2. j # n
        BY <1>2, <4>1 DEF Pending, InState
      <4>3. j # i
        BY <1>3, <2>2, <4>1, Sizes DEF Pending, InState, Ids
      <4> QED
        BY <1>13, <4>2, <4>3
    <3>3. retries[q] + 1 <= Recorded(j)
      BY <1>2, <1>13, <3>1, <3>2 DEF WaitsPaid
    <3>4. Recorded(j)' = Recorded(j)
      BY <1>5, <3>2
    <3> QED
      BY <3>3, <3>4
  <2> QED
    BY <2>1, <2>2
<1>14. WaitsPaid'
  <2> SUFFICES ASSUME NEW q \in Prompts, ~Uncounted(q), NEW d \in disk', NEW j \in Ids,
                      Of(d, q)' = {j}, d[j] = "scheduled"
               PROVE  retries[q] + 1 <= Recorded(j)'
    BY <1>4 DEF WaitsPaid
  <2>1. CASE d \in disk
    <3>1. Of(d, q) = {j} /\ j # n
      BY <1>2, <1>6, <2>1
    <3> QED
      BY <1>5, <2>1, <3>1 DEF WaitsPaid
  <2>2. CASE d = mem'
    <3>1. Match(q)' = {j} /\ mem'[j] = "scheduled"
      BY <1>8, <2>2
    <3> QED
      BY <1>13, <3>1
  <2> QED
    BY <2>1, <2>2
<1>15. MovesPaid'
  <2> SUFFICES ASSUME NEW q \in Prompts, ~Uncounted(q), NEW j \in Match(q)', NEW k \in Match(q)', Moving(j)'
               PROVE  Owed(q)' <= Recorded(k)'
    BY <1>4 DEF MovesPaid
  <2> DEFINE T == Match(q)' \ started
  <2>0. j \in Ids /\ k \in Ids /\ gen'[j].prompt = q /\ Match(q)' \subseteq Ids /\ T \in SUBSET Ids
    BY <1>1, <1>2, <1>8 DEF Match, Pending, InState
  <2>1. Owed(q)' = retries[q] + Cardinality(T) /\ retries[q] \in Int
    BY <1>1 DEF Owed
  <2>2. CASE Match(q)' = {j} /\ mem'[j] = "scheduled"
    <3>1. Cardinality(T) <= 1 /\ Cardinality(T) \in Nat
      BY <2>0, <2>2, Counts, CountsOne
    <3>2. retries[q] + 1 <= Recorded(j)' /\ k = j
      BY <1>13, <2>0, <2>2
    <3>3. Recorded(j)' \in Nat
      BY <1>1, <1>5, <1>9, <2>0
    <3> QED
      BY <2>1, <3>1, <3>2, <3>3
  <2>3. CASE ~(Match(q)' = {j} /\ mem'[j] = "scheduled")
    <3>1. Moving(j)
      <4>1. Match(gen[j].prompt)' = Match(q)'
        BY <2>0
      <4> QED
        BY <2>0, <2>3, <4>1
    <3>2. j # n
      BY <1>2, <2>0, <3>1 DEF OldestMoves, Ids
    <3>3. CASE q # p
      <4>1. Match(q)' = Match(q) /\ T = Match(q) \ started
        BY <1>8, <3>3
      <4>2. Owed(q)' = Owed(q)
        BY <2>1, <4>1 DEF Owed
      <4>3. k # n
        BY <1>2, <4>1 DEF Match, Pending, InState
      <4>4. Owed(q) <= Recorded(k) /\ Recorded(k)' = Recorded(k)
        BY <1>5, <2>0, <3>1, <4>1, <4>3 DEF MovesPaid
      <4> QED
        BY <4>2, <4>4
    <3>4. CASE q = p /\ i # 0
      <4>1. j \in Match(p) /\ j # i
        BY <1>8, <3>2, <3>4
      <4>2. gen[j].prompt = p /\ j \in Pending(mem) /\ i \in Pending(mem) /\ i \in Ids /\ gen[i].prompt = p /\ i \in Match(p)
        BY <1>3, <3>4, <4>1 DEF Match
      <4>3. j <= i /\ i <= j
        BY <1>3, <2>0, <3>1, <3>4, <4>1, <4>2 DEF OldestMoves
      <4> QED
        BY <2>0, <4>1, <4>2, <4>3 DEF Ids
    <3>5. CASE q = p /\ i = 0
      <4>1. Match(p)' = Match(p) \union {n} /\ n \notin Match(p)
        <5>1. 0 \notin Match(p)
          BY <1>1, Sizes DEF Ids
        <5> QED
          BY <1>2, <1>8, <3>5, <5>1 DEF Match, Pending, InState
      <4> DEFINE M == Match(p)
      <4>2. M \in SUBSET Ids /\ T \in SUBSET (M \union {n}) /\ M \union {n} \in SUBSET Ids
        BY <1>1, <1>2, <3>5, <4>1
      <4>3. retries[p] <= -Cardinality(M)
        BY <3>5
      <4> HIDE DEF M, T
      <4>4. /\ Cardinality(T) <= Cardinality(M \union {n}) /\ Cardinality(M \union {n}) <= Cardinality(M) + 1
            /\ Cardinality(T) \in Nat /\ Cardinality(M) \in Nat /\ Cardinality(M \union {n}) \in Nat
        BY <1>2, <2>0, <4>2, Counts, CountsLess, CountsMore
      <4>5. Owed(q)' <= 1 /\ Owed(q)' \in Int
        BY <2>1, <3>5, <4>3, <4>4
      <4>6. 1 <= Recorded(k)' /\ Recorded(k)' \in Nat
        <5>1. CASE k = n
          BY <1>9, <5>1
        <5>2. CASE k # n
          <6>1. mem[k] # "none" /\ k <= lastId
            <7>1. k \in Match(p)
              BY <3>5, <4>1, <5>2
            <7>2. mem[k] # "none"
              BY <7>1 DEF Match, Pending, InState
            <7> QED
              BY <1>0, <2>0, <7>2, Sizes DEF FileTypes, FilesInv, Ids
          <6>2. Recorded(k) >= 1 /\ Recorded(k) \in Nat /\ Recorded(k)' = Recorded(k)
            BY <1>1, <1>5, <2>0, <5>2, <6>1 DEF AllRecorded
          <6> QED
            BY <6>2
        <5> QED
          BY <5>1, <5>2
      <4> QED
        BY <4>5, <4>6
    <3> QED
      BY <3>3, <3>4, <3>5
  <2> QED
    BY <2>2, <2>3
<1>16. RunsCounted'
  <2> SUFFICES ASSUME NEW q \in Prompts, ~Uncounted(q), NEW j \in Ids, Match(q)' = {j}, Held(j)'
               PROVE  \/ Owed(q)' + 1 <= Recorded(j)'
                      \/ \A k \in Kinds : gen'[j].attempts[k] <= attempts'[q][k]
    BY <1>4 DEF RunsCounted
  <2>1. mem'[j] = "claimed"
    BY <1>2 DEF HeldInv, HeldIsClaimed
  <2>2. j # n
    BY <1>2, <2>1
  <2>3. q # p
    BY <1>8, <2>2
  <2>4. Match(q) = {j} /\ Owed(q)' = Owed(q) /\ Recorded(j)' = Recorded(j) /\ gen'[j] = gen[j] /\ attempts'[q] = attempts[q]
    BY <1>2, <1>5, <1>8, <2>2, <2>3 DEF Owed
  <2> QED
    BY <2>4 DEF RunsCounted
<1> QED
  BY <1>12, <1>14, <1>15, <1>16

\* With a generation that could not be written the retries of p are not counted any more,
\* and those of the others do not change.
LEMMA UnsavedBudget ==
  ASSUME TypeInv, TypeInv', HeldInv, HeldInv', AllRecorded,
         OldestMoves, WaitsPaid, MovesPaid, RunsCounted,
         NEW p \in Prompts, NEW kind, NEW i, NEW n, Follows(p, i, n, kind),
         UNCHANGED <<mem, disk, retries, started>>,
         unsaved \subseteq unsaved', n \in unsaved',
         \A q \in Prompts : q # p => attempts'[q] = attempts[q],
         \A j \in Ids : (Held(j)' => Held(j)) /\ (Moving(j)' => Moving(j))
  PROVE  OldestMoves' /\ WaitsPaid' /\ MovesPaid' /\ RunsCounted'
<1>0. FileTypes /\ CountTypes /\ SetTypes
  BY TypeParts
<1>2. /\ n \in Ids /\ n = lastId + 1 /\ lastId \in Nat /\ gen'[n].prompt = p /\ lastId' = n
      /\ \A j \in Ids \ {n} : gen'[j] = gen[j]
      /\ \A d \in disk : d \in States /\ d[n] = "none"
      /\ n \notin unsaved /\ mem \in disk
  BY <1>0, Sizes DEF Follows, FileTypes, FilesInv, Ids, AllRecorded
<1>3. \A d \in disk : \A j \in Pending(d) : j \in Ids \ {n} /\ gen'[j] = gen[j]
  BY <1>2 DEF Pending, InState
<1>4. \A d \in disk : \A q : Of(d, q)' = Of(d, q)
  <2> SUFFICES ASSUME NEW d \in disk, NEW q
               PROVE  Of(d, q)' = Of(d, q)
    OBVIOUS
  <2>1. Of(d, q)' = {j \in Pending(d) : gen'[j].prompt = q}
    BY DEF Of, Pending, InState
  <2> QED
    BY <1>3, <2>1 DEF Of
<1>5. Pending(mem)' = Pending(mem) /\ \A q : Match(q)' = Match(q)
  <2>1. Pending(mem)' = Pending(mem)
    BY DEF Pending, InState
  <2>2. \A q : Match(q)' = {j \in Pending(mem) : gen'[j].prompt = q}
    BY <2>1 DEF Match
  <2> QED
    BY <1>2, <1>3, <2>1, <2>2 DEF Match
<1>6. \A q : ~Uncounted(q)' => ~Uncounted(q) /\ q # p
  BY <1>0, <1>2 DEF Uncounted, SetTypes
<1>7. /\ \A j \in Ids \ {n} : Recorded(j)' = Recorded(j)
      /\ \A q : Owed(q)' = Owed(q)
  BY <1>2, <1>5 DEF Recorded, Owed
<1>8. OldestMoves'
  <2> SUFFICES ASSUME NEW j \in Ids, Moving(j)'
               PROVE  j <= lastId' /\ (j \in Pending(mem) => \A k \in Match(gen[j].prompt)' : j <= k)
    BY <1>5 DEF OldestMoves
  <2>1. Moving(j) /\ j <= lastId /\ j <= lastId' /\ j # n
    BY <1>2 DEF OldestMoves, Ids
  <2>2. PICK q : q = gen[j].prompt /\ q = gen'[j].prompt
    BY <1>2, <2>1
  <2>3. j \in Pending(mem) => \A k \in Match(q) : j <= k
    BY <2>1, <2>2 DEF OldestMoves
  <2>4. Match(q)' = Match(q)
    BY <1>5
  <2> QED
    BY <2>1, <2>2, <2>3, <2>4
<1>9. WaitsPaid'
  <2> SUFFICES ASSUME NEW q \in Prompts, ~Uncounted(q)', NEW d \in disk, NEW j \in Ids,
                      Of(d, q)' = {j}, d[j] = "scheduled"
               PROVE  retries[q] + 1 <= Recorded(j)'
    BY DEF WaitsPaid
  <2>1. Of(d, q) = {j} /\ j # n
    BY <1>2, <1>4
  <2> QED
    BY <1>6, <1>7, <2>1 DEF WaitsPaid
<1>10. \A q : \A j \in Match(q) : j \in Ids \ {n} /\ gen'[j] = gen[j]
  BY <1>2, <1>3 DEF Match
<1>11. MovesPaid'
  <2> SUFFICES ASSUME NEW q \in Prompts, ~Uncounted(q)', NEW j \in Match(q), NEW k \in Match(q), Moving(j)'
               PROVE  Owed(q)' <= Recorded(k)'
    BY <1>5 DEF MovesPaid
  <2> QED
    BY <1>6, <1>7, <1>10 DEF MovesPaid
<1>12. RunsCounted'
  <2> SUFFICES ASSUME NEW q \in Prompts, ~Uncounted(q)', NEW j \in Ids, Match(q) = {j}, Held(j)'
               PROVE  \/ Owed(q)' + 1 <= Recorded(j)'
                      \/ \A k \in Kinds : gen'[j].attempts[k] <= attempts'[q][k]
    BY <1>5 DEF RunsCounted
  <2>1. j \in Match(q)
    OBVIOUS
  <2> QED
    BY <1>6, <1>7, <1>10, <2>1 DEF RunsCounted
<1> QED
  BY <1>8, <1>9, <1>11, <1>12

-----------------------------------------------------------------------------
\* The same request but for its lineage.
Same(r, s) == r.kind = s.kind /\ r.prompt = s.prompt /\ r.rid = s.rid /\ r.own = s.own

\* Where a request that is live after a step comes from: it was live, the user typed it
\* (or it is a command), a generation was claimed, or a retry could not be saved.
Comes(r) ==
  \/ \E s \in RequestType : Live(s) /\ Same(r, s)
  \/ r.rid = 0 /\ (r.kind # "recovery" \/ r.prompt = ClearCommand)
  \/ \E i \in Ids : /\ r = Generation(i) /\ mem[i] = "scheduled" /\ InState(mem, "claimed") = {}
                    /\ attempts' = Seeded(i) /\ (Moving(i) \/ ~Malformed(mem, gen))
  \/ /\ \E p \in Prompts, k \in Kinds : FailWithRetry(p, k, "failed") /\ turn.req.fresh /\ lastId' = lastId + 1
     /\ r.kind = "recovery" /\ r.own /\ r.rid = turn.req.rid /\ r.prompt = turn.req.prompt

HeldByLive == \A i \in Ids : Held(i) <=> \E r \in RequestType : Live(r) /\ r.rid = i

\* A generation is held by a live request.
LEMMA HeldLive == TypeInv => HeldByLive
<1> SUFFICES ASSUME TypeInv, NEW i \in Ids
             PROVE  Held(i) <=> \E r \in RequestType : Live(r) /\ r.rid = i
  BY DEF HeldByLive
<1>0. /\ handoff \subseteq RequestType /\ local \subseteq RequestType /\ turn.req \in RequestType
      /\ \A n \in DOMAIN queue : queue[n] \in RequestType
  BY TypeParts DEF RequestTypes, TurnType
<1>1. ASSUME Held(i)
      PROVE  \E r \in RequestType : Live(r) /\ r.rid = i
  <2>1. CASE InTurn(i)
    BY <1>0, <2>1 DEF InTurn, Live
  <2>2. CASE InQueue(i)
    BY <1>0, <2>2 DEF InQueue, Waits, Live
  <2>3. CASE InHandoff(i) \/ InLocal(i)
    BY <1>0, <2>3 DEF InHandoff, InLocal, Carries, Live
  <2> QED
    BY <1>1, <2>1, <2>2, <2>3 DEF Held
<1>2. ASSUME NEW r \in RequestType, Live(r), r.rid = i
      PROVE  Held(i)
  BY <1>2 DEF Held, InTurn, InQueue, InHandoff, InLocal, Waits, Carries, Live
<1> QED
  BY <1>1, <1>2

\* What waits behind a finished turn waited in the FIFO.
LEMMA NextFromQueue ==
  ASSUME RequestTypes
  PROVE  /\ NextWaiting \in Seq(RequestType)
         /\ \A n \in DOMAIN NextWaiting : \E m \in DOMAIN queue : NextWaiting[n] = queue[m]
<1>1. queue \in Seq(RequestType)
  BY DEF RequestTypes
<1>2. CASE gate
  <2>1. NextWaiting = OfKinds(queue, {"explicit"})
    BY <1>2 DEF NextWaiting
  <2> DEFINE t == OfKinds(queue, {"explicit"})
  <2>2. t \in Seq(RequestType) /\ Chosen(t, queue, {"explicit"})
    BY <1>1, OfKindsSelects
  <2> HIDE DEF t
  <2>3. PICK f \in [DOMAIN t -> DOMAIN queue] : \A n \in DOMAIN t : t[n] = queue[f[n]]
    BY <2>2 DEF Chosen
  <2>4. \A n \in DOMAIN t : f[n] \in DOMAIN queue
    BY <2>3
  <2> QED
    BY <2>1, <2>2, <2>3, <2>4 DEF t
<1>3. CASE ~gate
  BY <1>1, <1>3 DEF NextWaiting
<1> QED
  BY <1>2, <1>3

\* Every request that is live after a step comes from one of these.
LEMMA LiveStep ==
  ASSUME TypeInv, [Next]_vars, NEW r \in RequestType, Live(r)'
  PROVE  Comes(r)
<1>0. FileTypes /\ RequestTypes /\ SetTypes
  BY TypeParts
<1>t. /\ handoff \subseteq RequestType /\ local \subseteq RequestType
      /\ turn \in TurnType /\ turn.req \in RequestType /\ queue \in Seq(RequestType)
      /\ \A n \in DOMAIN queue : queue[n] \in RequestType
  BY <1>0 DEF RequestTypes, TurnType
<1>f. /\ Turn("finishing", NoRequest).pc = "finishing" /\ Idle.pc = "idle"
      /\ Turn("handing", NoRequest).pc = "handing"
  BY NoTurnFields
<1>r. Same(r, r)
  BY DEF Same
\* the three places after the step
<1>l. \/ r \in handoff' \union local' /\ r.fresh
      \/ \E n \in DOMAIN queue' : r = queue'[n]
      \/ r = turn'.req /\ (turn'.pc = "running" \/ (turn'.pc \in {"claiming", "accepted"} /\ r.fresh))
  BY DEF Live
<1>a. ASSUME Live(r)
      PROVE  Comes(r)
  BY <1>a, <1>r DEF Comes
<1>b. ASSUME NEW p \in AnyPrompt, NEW kind \in {"user", "explicit"}, r = Request(kind, p, 0, FALSE)
      PROVE  Comes(r)
  BY <1>b DEF Comes, Request
<1>c. ASSUME NEW s \in RequestType, NEW n \in DOMAIN Append(queue, s), r = Append(queue, s)[n]
      PROVE  r = s \/ Live(r)
  BY <1>c, <1>t DEF Live
<1>d. ASSUME NEW p, NEW fresh, NEW i \in Repeatable(p, fresh)
      PROVE  i \in Ids /\ mem[i] = "scheduled" /\ InState(mem, "claimed") = {} /\ ~Malformed(mem, gen)
  BY DEF Repeatable, Match, Pending, InState, Claimable
<1>e. submit \in AnyPrompt /\ Prompts \union {ClearCommand} \subseteq AnyPrompt
  BY <1>0 DEF RequestTypes, AnyPrompt
<1>1. CASE UNCHANGED vars \/ Autosave \/ \E i \in Ids : TimerWakes(i)
  <2>1. UNCHANGED <<handoff, local, queue, turn>>
    BY <1>1 DEF vars, Autosave, TimerWakes, timerVars, frontVars
  <2> QED
    BY <1>a, <1>l, <2>1 DEF Live
<1>2. CASE Accept
  <2>1. UNCHANGED <<handoff, local>>
    BY <1>2 DEF Accept, timerVars
  <2>2. queue' = queue \/ \E kind \in {"user", "explicit"} : queue' = Append(queue, Request(kind, submit, 0, FALSE))
    BY <1>2 DEF Accept
  <2>3. turn' = turn \/ turn' = Turn("accepted", Request("user", submit, 0, FALSE))
    BY <1>2 DEF Accept
  <2>4. CASE r \in handoff' \union local' /\ r.fresh
    BY <1>a, <2>1, <2>4 DEF Live
  <2>5. CASE \E n \in DOMAIN queue' : r = queue'[n]
    <3>1. CASE queue' = queue
      BY <1>a, <2>5, <3>1 DEF Live
    <3>2. ASSUME NEW kind \in {"user", "explicit"}, queue' = Append(queue, Request(kind, submit, 0, FALSE))
          PROVE  Comes(r)
      <4>1. Request(kind, submit, 0, FALSE) \in RequestType
        BY <1>e, Sizes DEF Request, RequestType, AnyPrompt
      <4> QED
        BY <1>a, <1>b, <1>c, <1>e, <2>5, <3>2, <4>1
    <3> QED
      BY <2>2, <3>1, <3>2
  <2>6. CASE r = turn'.req /\ (turn'.pc = "running" \/ (turn'.pc \in {"claiming", "accepted"} /\ r.fresh))
    <3>1. CASE turn' = turn
      BY <1>a, <2>6, <3>1 DEF Live
    <3>2. CASE turn' = Turn("accepted", Request("user", submit, 0, FALSE))
      BY <1>b, <1>e, <2>6, <3>2 DEF Turn
    <3> QED
      BY <2>3, <3>1, <3>2
  <2> QED
    BY <1>l, <2>4, <2>5, <2>6
<1>3. CASE Shutdown \/ Start
  <2>1. UNCHANGED <<handoff, queue>> /\ local' \subseteq local
    BY <1>3 DEF Shutdown, Start, timerVars
  <2>2. /\ turn'.req = turn.req
        /\ \/ turn'.pc = turn.pc \/ (turn.pc = "accepted" /\ turn.req.fresh)
           \/ turn.req.rid = 0 /\ turn.req.prompt = ClearCommand
    BY <1>3, <1>t DEF Shutdown, Start, Current, TurnType
  <2>3. CASE r = turn.req /\ turn.req.rid = 0 /\ turn.req.prompt = ClearCommand
    BY <2>3 DEF Comes
  <2> QED
    BY <1>a, <1>l, <2>1, <2>2, <2>3 DEF Live
<1>4. CASE Restart
  <2>1. handoff' = {} /\ local' = {} /\ queue' = <<>> /\ turn'.pc = "idle"
    BY <1>4, <1>f DEF Restart
  <2> QED
    BY <1>l, <2>1
<1>5. ASSUME NEW s \in local, LocalFires(s)
      PROVE  Comes(r)
  <2>1. UNCHANGED <<queue, turn>> /\ handoff' \union local' \subseteq handoff \union local
    BY <1>5 DEF LocalFires, frontVars
  <2> QED
    BY <1>a, <1>l, <2>1 DEF Live
<1>6. ASSUME NEW s \in handoff, Dispatch(s)
      PROVE  Comes(r)
  <2>1. local' = local /\ handoff' \subseteq handoff
    BY <1>6 DEF Dispatch
  <2>2. \/ UNCHANGED <<turn, queue>>
        \/ s.fresh /\ turn' = Turn("accepted", s) /\ queue' = queue
        \/ s.fresh /\ queue' = Append(queue, s) /\ turn' = turn
    BY <1>6 DEF Dispatch, Enters
  <2>3. s \in RequestType /\ (s.fresh => Live(s))
    BY <1>t DEF Live
  <2>4. CASE r \in handoff' \union local' /\ r.fresh
    BY <1>a, <2>1, <2>4 DEF Live
  <2>5. CASE \E n \in DOMAIN queue' : r = queue'[n]
    <3>1. CASE queue' = queue
      BY <1>a, <2>5, <3>1 DEF Live
    <3>2. CASE queue' = Append(queue, s) /\ s.fresh
      BY <1>a, <1>c, <2>3, <2>5, <3>2
    <3> QED
      BY <2>2, <3>1, <3>2
  <2>6. CASE r = turn'.req /\ (turn'.pc = "running" \/ (turn'.pc \in {"claiming", "accepted"} /\ r.fresh))
    <3>1. CASE turn' = turn
      BY <1>a, <2>6, <3>1 DEF Live
    <3>2. CASE turn' = Turn("accepted", s) /\ s.fresh
      <4>1. r = s
        BY <2>3, <2>6, <3>2, TurnFields DEF Places
      <4> QED
        BY <1>a, <2>3, <3>2, <4>1
    <3> QED
      BY <2>2, <3>1, <3>2
  <2> QED
    BY <1>l, <2>4, <2>5, <2>6
<1>7. CASE \/ \E p \in Prompts : FailForGood(p)
           \/ \E o \in SaveOutcomes : GiveUp(o) \/ SetupPanics(o) \/ \E p \in Prompts : Succeed(p, o)
           \/ Capture \/ PublishPanics
  <2>1. UNCHANGED <<handoff, local, queue>> /\ turn'.pc \in {"idle", "finishing", "handing"}
    BY <1>7, <1>f DEF FailForGood, GiveUp, SetupPanics, Succeed, Capture, PublishPanics, Finishing, timerVars
  <2> QED
    BY <1>a, <1>l, <2>1 DEF Live
<1>8. ASSUME NEW p \in Prompts, NEW k \in Kinds, NEW o \in PersistOutcomes, FailWithRetry(p, k, o)
      PROVE  Comes(r)
  <2>1. UNCHANGED <<handoff, queue>> /\ turn'.pc = "finishing"
    BY <1>8, <1>f DEF FailWithRetry, Finishing
  <2>2. \/ local' = local
        \/ /\ o = "failed" /\ turn.req.fresh /\ turn.req.prompt = p /\ lastId' = lastId + 1
           /\ local' = local \union {Request("recovery", p, turn.req.rid, TRUE)}
    BY <1>8 DEF FailWithRetry, Running
  <2>3. CASE (r \in handoff \union local /\ r.fresh) \/ \E n \in DOMAIN queue : r = queue[n]
    BY <1>a, <2>3 DEF Live
  <2>4. CASE /\ o = "failed" /\ turn.req.fresh /\ turn.req.prompt = p /\ lastId' = lastId + 1
             /\ r = Request("recovery", p, turn.req.rid, TRUE)
    <3>1. r.kind = "recovery" /\ r.own /\ r.rid = turn.req.rid /\ r.prompt = turn.req.prompt
      BY <2>4 DEF Request
    <3> QED
      BY <1>8, <2>4, <3>1 DEF Comes
  <2> QED
    BY <1>l, <2>1, <2>2, <2>3, <2>4
<1>9. ASSUME NEW o \in SaveOutcomes, NEW w \in woken, TimerClaims(w, o)
      PROVE  Comes(r)
  <2>1. UNCHANGED <<local, queue, turn>> /\ w.rid \in Ids
    BY <1>0, <1>9 DEF TimerClaims, frontVars, SetTypes
  <2>2. \/ handoff' = handoff
        \/ /\ handoff' = handoff \union {Generation(w.rid)}
           /\ mem[w.rid] = "scheduled" /\ InState(mem, "claimed") = {} /\ attempts' = Seeded(w.rid)
           /\ w.fresh = TRUE
    BY <1>0, <1>9 DEF TimerClaims, Claimable, Claim, SetTypes
  <2>3. CASE r = Generation(w.rid) /\ handoff' # handoff
    <3>1. w = [rid |-> w.rid, fresh |-> TRUE]
      BY <1>0, <2>2, <2>3 DEF SetTypes
    <3>2. Moving(w.rid)
      BY <3>1 DEF Moving
    <3> QED
      BY <2>1, <2>2, <2>3, <3>2 DEF Comes
  <2> QED
    BY <1>a, <1>l, <2>1, <2>2, <2>3 DEF Live
<1>10. ASSUME NEW o \in SaveOutcomes, NEW s \in handoff, DispatchRefused(s, o)
      PROVE  Comes(r)
  <2>1. UNCHANGED <<local, queue, turn>> /\ handoff' \subseteq handoff
    BY <1>10 DEF DispatchRefused, frontVars
  <2> QED
    BY <1>a, <1>l, <2>1 DEF Live
<1>11. ASSUME NEW o \in SaveOutcomes, NEW p \in Prompts \union {ClearCommand}, Submit(p, o)
      PROVE  Comes(r)
  <2>1. UNCHANGED <<local, turn>>
    BY <1>11 DEF Submit
  <2>2. \/ queue' = queue
        \/ queue' = Append(queue, Request("explicit", p, 0, FALSE)) /\ handoff' = handoff
    BY <1>11 DEF Submit
  <2>3. \/ handoff' = handoff
        \/ \E i \in Repeatable(p, TRUE) : handoff' = handoff \union {Generation(i)} /\ attempts' = Seeded(i)
    BY <1>11 DEF Submit, Claim
  <2>4. CASE r \in handoff' \union local' /\ r.fresh
    <3>1. CASE handoff' = handoff
      BY <1>a, <2>1, <2>4, <3>1 DEF Live
    <3>2. ASSUME NEW i \in Repeatable(p, TRUE), handoff' = handoff \union {Generation(i)}, attempts' = Seeded(i)
          PROVE  Comes(r)
      <4>1. CASE r = Generation(i)
        BY <1>d, <3>2, <4>1 DEF Comes
      <4> QED
        BY <1>a, <2>1, <2>4, <3>2, <4>1 DEF Live
    <3> QED
      BY <2>3, <3>1, <3>2
  <2>5. CASE \E n \in DOMAIN queue' : r = queue'[n]
    <3>1. CASE queue' = queue
      BY <1>a, <2>5, <3>1 DEF Live
    <3>2. CASE queue' = Append(queue, Request("explicit", p, 0, FALSE))
      <4>1. p \in AnyPrompt /\ Request("explicit", p, 0, FALSE) \in RequestType
        BY <1>e, Sizes DEF Request, RequestType, AnyPrompt
      <4> QED
        BY <1>a, <1>b, <1>c, <2>5, <3>2, <4>1
    <3> QED
      BY <2>2, <3>1, <3>2
  <2>6. CASE r = turn'.req /\ (turn'.pc = "running" \/ (turn'.pc \in {"claiming", "accepted"} /\ r.fresh))
    BY <1>a, <2>1, <2>6 DEF Live
  <2> QED
    BY <1>l, <2>4, <2>5, <2>6
<1>12. ASSUME NEW o \in SaveOutcomes, Esc(o)
      PROVE  Comes(r)
  <2>1. queue' = <<>> /\ handoff' = Stale(handoff) /\ local' = Stale(local)
    BY <1>12 DEF Esc, BoundaryStales
  <2>2. \A s \in handoff' \union local' : ~s.fresh
    BY <1>t, <2>1, StaleSet
  <2>3. turn' = [[turn EXCEPT !.req.fresh = FALSE] EXCEPT !.cancelled = turn.pc \in Owned]
    BY <1>12 DEF Esc, StaleTurn
  <2>4. (turn.pc \in Owned) \in BOOLEAN
    OBVIOUS
  <2>5. turn'.pc = turn.pc /\ turn'.req.fresh = FALSE
    BY <1>t, <2>3, <2>4, StaleFields
  <2>6. r = turn'.req /\ turn.pc = "running"
    BY <1>l, <2>1, <2>2, <2>5
  <2>7. Live(turn.req)
    BY <2>6 DEF Live
  <2>8. Same(turn'.req, turn.req)
    <3>1. turn'.req = [turn.req EXCEPT !.fresh = FALSE]
      BY <1>t, <2>3 DEF TurnType
    <3> QED
      BY <1>t, <3>1 DEF Same, RequestType
  <2> QED
    BY <1>t, <2>6, <2>7, <2>8 DEF Comes
<1>13. ASSUME NEW o \in SaveOutcomes, Clear(o)
      PROVE  Comes(r)
  <2>1. turn'.pc = "finishing"
    BY <1>13, <1>f DEF Clear, Finishing
  <2>2. CASE UNCHANGED <<handoff, local, queue>>
    BY <1>a, <1>l, <2>1, <2>2 DEF Live
  <2>3. CASE handoff' = Stale(handoff) /\ local' = Stale(local) /\ queue' = OfKinds(queue, {"user", "explicit"})
    <3>1. \A s \in handoff' \union local' : ~s.fresh
      BY <1>t, <2>3, StaleSet
    <3> DEFINE t == OfKinds(queue, {"user", "explicit"})
    <3>2. Chosen(t, queue, {"user", "explicit"})
      BY <1>t, OfKindsSelects
    <3>3. queue' = t
      BY <2>3
    <3> HIDE DEF t
    <3>4. PICK f \in [DOMAIN t -> DOMAIN queue] : \A n \in DOMAIN t : t[n] = queue[f[n]]
      BY <3>2 DEF Chosen
    <3>5. PICK n \in DOMAIN t : r = t[n]
      BY <1>l, <2>1, <3>1, <3>3
    <3>6. f[n] \in DOMAIN queue /\ r = queue[f[n]]
      BY <3>4, <3>5
    <3> QED
      BY <1>a, <3>6 DEF Live
  <2> QED
    BY <1>13, <2>2, <2>3 DEF Clear, BoundaryStales, timerVars
<1>14. CASE HandOver
  <2>1. UNCHANGED <<handoff, local>>
    BY <1>14 DEF HandOver, timerVars
  <2>2. /\ NextWaiting \in Seq(RequestType)
        /\ \A n \in DOMAIN NextWaiting : \E m \in DOMAIN queue : NextWaiting[n] = queue[m]
    BY <1>0, NextFromQueue
  <2>3. queue' = queue \/ queue' = <<>> \/ (NextWaiting # <<>> /\ queue' = Tail(NextWaiting))
    BY <1>14 DEF HandOver
  <2>4. \/ turn' = Idle
        \/ /\ NextWaiting # <<>>
           /\ turn' = Turn("claiming", [Head(NextWaiting) EXCEPT !.fresh = @ /\ turn.req.fresh])
    BY <1>14 DEF HandOver
  <2>5. CASE r \in handoff' \union local' /\ r.fresh
    BY <1>a, <2>1, <2>5 DEF Live
  <2>6. CASE \E n \in DOMAIN queue' : r = queue'[n]
    <3>1. CASE queue' = queue
      BY <1>a, <2>6, <3>1 DEF Live
    <3>2. CASE NextWaiting # <<>> /\ queue' = Tail(NextWaiting)
      <4>1. PICK n \in DOMAIN Tail(NextWaiting) : r = Tail(NextWaiting)[n]
        BY <2>6, <3>2
      <4> DEFINE q == NextWaiting
      <4>2. q \in Seq(RequestType) /\ q # <<>> /\ n \in DOMAIN Tail(q) /\ r = Tail(q)[n]
        BY <2>2, <3>2, <4>1
      <4> HIDE DEF q
      <4>3. n + 1 \in DOMAIN q /\ Tail(q)[n] = q[n + 1]
        BY <4>2
      <4>4. \E m \in DOMAIN queue : q[n + 1] = queue[m]
        BY <2>2, <4>3 DEF q
      <4> QED
        BY <1>a, <4>2, <4>3, <4>4 DEF Live
    <3> QED
      BY <2>3, <2>6, <3>1, <3>2
  <2>7. CASE r = turn'.req /\ (turn'.pc = "running" \/ (turn'.pc \in {"claiming", "accepted"} /\ r.fresh))
    <3> DEFINE q == NextWaiting
               s == Head(q)
               u == [s EXCEPT !.fresh = @ /\ turn.req.fresh]
    <3>1. q \in Seq(RequestType) /\ q # <<>> /\ turn' = Turn("claiming", u)
      BY <1>f, <2>2, <2>4, <2>7
    <3>2. 1 \in DOMAIN q /\ s = q[1] /\ s \in RequestType
      <4> HIDE DEF q
      <4> QED
        BY <3>1
    <3>3. \E m \in DOMAIN queue : s = queue[m]
      BY <2>2, <3>2
    <3>4. Same(u, s)
      <4> HIDE DEF s
      <4> QED
        BY <3>2 DEF Same, RequestType
    <3> HIDE DEF u, s, q
    <3>5. r = u
      BY <2>7, <3>1 DEF Turn
    <3>6. Live(s)
      BY <3>3 DEF Live
    <3> QED
      BY <3>2, <3>4, <3>5, <3>6 DEF Comes
  <2> QED
    BY <1>l, <2>5, <2>6, <2>7
<1>15. ASSUME NEW o \in SaveOutcomes, Promote(o)
      PROVE  Comes(r)
  <2>1. UNCHANGED <<handoff, local, queue>> /\ turn.pc = "claiming"
    BY <1>15 DEF Promote
  <2>2. \/ turn' = [turn EXCEPT !.pc = "accepted"]
        \/ turn' = Turn("finishing", NoRequest)
        \/ \E i \in Repeatable(turn.req.prompt, turn.req.fresh) :
             turn' = [turn EXCEPT !.req = Generation(i)] /\ attempts' = Seeded(i)
    BY <1>15 DEF Promote, Claim, Finishing
  <2>3. CASE (r \in handoff' \union local' /\ r.fresh) \/ \E n \in DOMAIN queue' : r = queue'[n]
    BY <1>a, <2>1, <2>3 DEF Live
  <2>4. CASE r = turn'.req /\ (turn'.pc = "running" \/ (turn'.pc \in {"claiming", "accepted"} /\ r.fresh))
    <3>1. CASE turn' = [turn EXCEPT !.pc = "accepted"]
      <4>1. turn'.req = turn.req /\ turn'.pc = "accepted"
        BY <1>t, <3>1 DEF TurnType
      <4> QED
        BY <1>a, <2>1, <2>4, <4>1 DEF Live
    <3>2. ASSUME NEW i \in Repeatable(turn.req.prompt, turn.req.fresh),
                 turn' = [turn EXCEPT !.req = Generation(i)], attempts' = Seeded(i)
          PROVE  Comes(r)
      <4>1. r = Generation(i)
        BY <1>t, <2>4, <3>2 DEF TurnType
      <4> QED
        BY <1>d, <3>2, <4>1 DEF Comes
    <3> QED
      BY <1>f, <2>2, <2>4, <3>1, <3>2
  <2> QED
    BY <1>l, <2>3, <2>4
<1> QED
  BY <1>1, <1>2, <1>3, <1>4, <1>5, <1>6, <1>7, <1>8, <1>9, <1>10, <1>11, <1>12, <1>13, <1>14,
     <1>15 DEF Next, Foreground

\* What is held after a step was held before, or has been claimed in it.
LEMMA HeldFollows ==
  ASSUME TypeInv, TypeInv', [Next]_vars, NEW i \in Ids, Held(i)'
  PROVE  \/ Held(i)
         \/ /\ mem[i] = "scheduled" /\ InState(mem, "claimed") = {}
            /\ attempts' = Seeded(i) /\ (Moving(i) \/ ~Malformed(mem, gen))
<1>0. FileTypes
  BY TypeParts
<1>1. \E r \in RequestType : Live(r)' /\ r.rid = i
  <2>1. HeldByLive'
    BY HeldLive, PTL
  <2> QED
    BY <2>1 DEF HeldByLive
<1>2. PICK r \in RequestType : Live(r)' /\ r.rid = i
  BY <1>1
<1>3. Comes(r)
  BY <1>2, LiveStep
<1>4. ASSUME NEW s \in RequestType, Live(s), Same(r, s)
      PROVE  Held(i)
  BY <1>2, <1>4, HeldLive DEF HeldByLive, Same
<1>5. r.rid # 0
  BY <1>2, Sizes DEF Ids
<1>6. ASSUME NEW j \in Ids, r = Generation(j)
      PROVE  j = i
  BY <1>0, <1>2, <1>6, GenerationFields
<1>7. ASSUME NEW p, NEW k, FailWithRetry(p, k, "failed"), r.rid = turn.req.rid
      PROVE  Held(i)
  BY <1>2, <1>7 DEF FailWithRetry, Running, Held, InTurn
<1> QED
  BY <1>3, <1>4, <1>5, <1>6, <1>7 DEF Comes

\* Only a failure that is to be retried writes a generation.
LEMMA OnlyFailuresWrite ==
  ASSUME TypeInv, [Next]_vars
  PROVE  \/ UNCHANGED <<gen, lastId, unsaved>>
         \/ \E p \in Prompts, k \in Kinds, o \in Outcome : FailWithRetry(p, k, o) /\ lastId' = lastId + 1
<1>1. CASE UNCHANGED vars \/ Autosave \/ Accept \/ Shutdown \/ Restart \/ Start
           \/ (\E i \in Ids : TimerWakes(i)) \/ (\E r \in local : LocalFires(r))
           \/ (\E r \in handoff : Dispatch(r)) \/ (\E p \in Prompts : FailForGood(p))
           \/ Capture \/ PublishPanics \/ HandOver
  BY <1>1 DEF vars, Autosave, Accept, Shutdown, Restart, Start, TimerWakes, LocalFires, Dispatch, FailForGood,
              Capture, PublishPanics, HandOver, ghostVars, fileVars
<1>2. ASSUME NEW o \in SaveOutcomes, NEW w \in woken, TimerClaims(w, o)
      PROVE  UNCHANGED <<gen, lastId, unsaved>>
  BY <1>2 DEF TimerClaims, Claim, ApplyAndSave, fileVars
<1>5. ASSUME NEW o \in SaveOutcomes, NEW r \in handoff, DispatchRefused(r, o)
      PROVE  UNCHANGED <<gen, lastId, unsaved>>
  BY <1>5 DEF DispatchRefused, Release, ApplyAndSave, fileVars
<1>6. ASSUME NEW o \in SaveOutcomes, NEW p \in Prompts \union {ClearCommand}, Submit(p, o)
      PROVE  UNCHANGED <<gen, lastId, unsaved>>
  BY <1>6 DEF Submit, Claim, ApplyAndSave, fileVars
<1>7. ASSUME NEW o \in SaveOutcomes, Esc(o)
      PROVE  UNCHANGED <<gen, lastId, unsaved>>
  BY <1>7 DEF Esc, Release, ApplyAndSave, fileVars
<1>3. CASE \E o \in SaveOutcomes : Foreground(o)
  <2>1. PICK o \in SaveOutcomes : Foreground(o)
    BY <1>3
  <2>2. CASE GiveUp(o) \/ SetupPanics(o)
    BY <2>2 DEF GiveUp, SetupPanics, Release, ApplyAndSave, fileVars, ghostVars
  <2>3. CASE Clear(o) \/ \E p \in Prompts : Succeed(p, o)
    BY <2>3 DEF Succeed, Clear, ApplyAndSave, fileVars, ghostVars
  <2>4. CASE Promote(o)
    BY <2>4 DEF Promote, Claim, ApplyAndSave, fileVars
  <2> QED
    BY <2>1, <2>2, <2>3, <2>4 DEF Foreground
<1>4. CASE \E p \in Prompts, k \in Kinds, o \in PersistOutcomes : FailWithRetry(p, k, o)
  <2>1. PICK p \in Prompts, k \in Kinds, o \in PersistOutcomes : FailWithRetry(p, k, o)
    BY <1>4
  <2>2. lastId' = lastId + 1 \/ UNCHANGED <<gen, lastId, unsaved>>
    BY <2>1 DEF FailWithRetry, fileVars
  <2>3. o \in Outcome
    BY Sizes DEF Outcome
  <2> QED
    BY <2>1, <2>2, <2>3
<1> QED
  BY <1>1, <1>2, <1>3, <1>4, <1>5, <1>6, <1>7 DEF Next

\* The generation that such a failure writes.
LEMMA FailureFollows ==
  ASSUME TypeInv, TypeInv', RequestsHonest, NEW p \in Prompts, NEW k \in Kinds, NEW o \in Outcome,
         FailWithRetry(p, k, o), lastId' = lastId + 1
  PROVE  /\ Follows(p, turn.req.rid, lastId + 1, k)
         /\ unsaved' \subseteq unsaved \union ({lastId + 1, turn.req.rid} \ {0}) /\ unsaved \subseteq unsaved'
         /\ o = "failed" => lastId + 1 \in unsaved'
         /\ \A q \in Prompts : q # p => attempts'[q] = attempts[q]
         /\ Honest(turn.req) /\ turn.req.prompt = p /\ turn.req \in RequestType
<1>0. FileTypes /\ CountTypes /\ RequestTypes /\ FileTypes' /\ CountTypes'
  <2>1. FileTypes /\ CountTypes /\ RequestTypes
    BY TypeParts
  <2>2. FileTypes' /\ CountTypes'
    BY TypeParts, PTL
  <2> QED
    BY <2>1, <2>2
<1> DEFINE rid == turn.req.rid
           n == lastId + 1
           spent == Counted(p, k)
           c == Carried(spent[p], rid)
<1>1. /\ turn.pc = "running" /\ turn.req.prompt = p /\ lastId < MaxIds
      /\ attempts[p][k] < maxAttempts[k] /\ attempts' = spent
      /\ gen' = [gen EXCEPT ![n] = [prompt |-> p, attempts |-> c]]
      /\ \/ o # "failed" /\ unsaved' = unsaved
         \/ o = "failed" /\ unsaved' = unsaved \union ({n, rid} \ {0})
  <2>1. lastId' # lastId
    BY <1>0, Sizes DEF FileTypes
  <2> QED
    BY <2>1 DEF FailWithRetry, Running, fileVars
<1>2. turn.req \in RequestType /\ Live(turn.req)
  BY <1>0, <1>1 DEF RequestTypes, TurnType, Live
<1>3. Honest(turn.req)
  BY <1>2 DEF RequestsHonest
<1>4. lastId \in Nat /\ n \in Ids /\ n # 0 /\ rid \in 0 .. MaxIds /\ rid # n
  <2>1. lastId \in Nat /\ n \in Ids /\ n # 0 /\ rid \in 0 .. MaxIds
    BY <1>0, <1>1, <1>2, Sizes DEF FileTypes, Ids, RequestType
  <2>2. rid # 0 => rid <= lastId
    BY <1>3 DEF Honest
  <2> QED
    BY <2>1, <2>2, Sizes
<1>5. /\ spent \in [Prompts -> [Kinds -> Nat]] /\ spent[p][k] = attempts[p][k] + 1
      /\ \A q \in Prompts : q # p => spent[q] = attempts[q]
  BY <1>0, <1>1 DEF Counted, Forgotten, CountTypes, Kinds
<1>6. rid # 0 => rid \in Ids /\ Held(rid) /\ gen[rid].prompt = p
  <2>1. rid # 0 => rid \in Ids
    BY <1>4, Sizes DEF Ids
  <2>2. Held(rid)
    BY <1>1 DEF Held, InTurn
  <2> QED
    BY <1>1, <1>3, <2>1, <2>2 DEF Honest
<1>7. c[k] >= attempts[p][k] + 1 /\ (rid # 0 => \A j \in Kinds : c[j] >= gen[rid].attempts[j])
  <2> HIDE DEF spent
  <2>1. CASE rid = 0
    BY <1>0, <1>5, <2>1 DEF Carried, CountTypes
  <2>2. CASE rid # 0
    <3>1. \A j \in Kinds : gen[rid].attempts[j] \in Nat /\ spent[p][j] \in Nat
      BY <1>0, <1>5, <1>6, <2>2 DEF FileTypes, GenType
    <3>2. c = [j \in Kinds |-> IF spent[p][j] < gen[rid].attempts[j] THEN gen[rid].attempts[j] ELSE spent[p][j]]
      BY <2>2 DEF Carried
    <3>3. \A j \in Kinds : c[j] >= gen[rid].attempts[j] /\ c[j] >= spent[p][j]
      BY <3>1, <3>2
    <3> QED
      BY <1>5, <3>3
  <2> QED
    BY <2>1, <2>2
<1>8. gen'[n].prompt = p /\ gen'[n].attempts = c /\ \A j \in Ids \ {n} : gen'[j] = gen[j]
  <2> HIDE DEF c, n
  <2> QED
    BY <1>0, <1>1, <1>4 DEF FileTypes
<1>9. gen' \in [Ids -> GenType] /\ lastId' = n
  BY <1>0 DEF FileTypes
<1> HIDE DEF c, spent
<1>10. Follows(p, rid, n, k)
  BY <1>4, <1>6, <1>7, <1>8, <1>9 DEF Follows
<1> QED
  BY <1>1, <1>2, <1>3, <1>4, <1>5, <1>10

\* Every generation that is written records the attempt.
LEMMA RecordedStep ==
  ASSUME TypeInv, TypeInv', RequestsHonest, AllRecorded, [Next]_vars
  PROVE  /\ AllRecorded'
         /\ \A r \in RequestType : Honest(r) => Honest(r)'
         /\ \A q : Uncounted(q) => Uncounted(q)'
<1>0. FileTypes /\ CountTypes /\ SetTypes /\ RequestTypes
  BY TypeParts
<1>1. CASE UNCHANGED <<gen, lastId, unsaved>>
  BY <1>1 DEF AllRecorded, Recorded, Honest, Uncounted
<1>2. ASSUME NEW p \in Prompts, NEW k \in Kinds, NEW o \in Outcome, FailWithRetry(p, k, o), lastId' = lastId + 1
      PROVE  AllRecorded' /\ (\A r \in RequestType : Honest(r) => Honest(r)') /\ \A q : Uncounted(q) => Uncounted(q)'
  <2>n. PICK n, i : n = lastId + 1 /\ i = turn.req.rid
    OBVIOUS
  <2>1. /\ Follows(p, i, n, k)
        /\ unsaved' \subseteq unsaved \union ({n, i} \ {0}) /\ unsaved \subseteq unsaved'
        /\ Honest(turn.req)
    BY <1>2, <2>n, FailureFollows
  <2>2. /\ lastId \in Nat /\ n \in Ids /\ lastId' = n /\ \A j \in Ids \ {n} : gen'[j] = gen[j]
        /\ gen'[n].attempts[k] >= attempts[p][k] + 1 /\ attempts[p][k] \in Nat
        /\ gen'[n] \in GenType
    BY <1>0, <1>2, <2>n, <2>1, Sizes DEF Follows, FileTypes, CountTypes
  <2>3. i # 0 => i <= lastId
    BY <2>n, <2>1 DEF Honest
  <2>i. i \in 0 .. MaxIds
    BY <1>0, <2>n DEF RequestTypes, TurnType, RequestType
  <2>4. \A j \in unsaved' : j <= lastId'
    <3>1. \A j \in unsaved : j <= lastId /\ j \in Ids
      BY <1>0 DEF AllRecorded, SetTypes
    <3> QED
      BY <2>n, <2>1, <2>2, <2>3, <2>i, <3>1, Sizes DEF Ids
  <2>5. Recorded(n)' >= 1
    <3>1. Recorded(n)' = gen'[n].attempts["rate_limit"] + gen'[n].attempts["auto_resume"]
      BY DEF Recorded
    <3>2. \A j \in Kinds : gen'[n].attempts[j] \in Nat
      BY <2>2 DEF GenType
    <3>3. gen'[n].attempts[k] >= 1
      BY <2>2, <3>2
    <3> QED
      BY <3>1, <3>2, <3>3 DEF Kinds
  <2>6. AllRecorded'
    <3> SUFFICES ASSUME NEW j \in Ids, j <= lastId'
                 PROVE  Recorded(j)' >= 1
      BY <2>4 DEF AllRecorded
    <3>1. CASE j = n
      BY <2>5, <3>1
    <3>2. CASE j # n
      <4>1. j <= lastId /\ gen'[j] = gen[j]
        BY <2>n, <2>2, <3>2 DEF Ids
      <4>2. Recorded(j)' = Recorded(j)
        BY <4>1 DEF Recorded
      <4> QED
        BY <4>1, <4>2 DEF AllRecorded
    <3> QED
      BY <3>1, <3>2
  <2>7. \A q : Uncounted(q) => Uncounted(q)'
    <3>1. \A j \in unsaved : gen'[j] = gen[j] /\ j \in unsaved'
      BY <1>0, <2>n, <2>1, <2>2 DEF AllRecorded, SetTypes, Ids
    <3> QED
      BY <3>1 DEF Uncounted
  <2>8. ASSUME NEW r \in RequestType, Honest(r)
        PROVE  Honest(r)'
    <3>1. ASSUME r.rid # 0
          PROVE  r.rid <= lastId' /\ gen'[r.rid] = gen[r.rid]
      <4>1. r.rid \in Ids /\ r.rid <= lastId
        BY <2>8, <3>1, Sizes DEF Honest, RequestType, Ids
      <4> QED
        BY <2>n, <2>2, <4>1 DEF Ids
    <3> QED
      BY <2>7, <2>8, <3>1 DEF Honest
  <2> QED
    BY <2>6, <2>7, <2>8
<1> QED
  BY <1>1, <1>2, OnlyFailuresWrite

\* The requests stay honest.
LEMMA HonestStep ==
  ASSUME TypeInv, TypeInv', RequestsHonest, AllRecorded, [Next]_vars
  PROVE  RequestsHonest'
<1>0. FileTypes
  BY TypeParts
<1> SUFFICES ASSUME NEW r \in RequestType, Live(r)'
             PROVE  Honest(r)'
  BY DEF RequestsHonest
<1>1. Comes(r)
  BY LiveStep
<1>2. \A s \in RequestType : Honest(s) => Honest(s)'
  BY RecordedStep
<1>3. ASSUME NEW s \in RequestType, Live(s), Same(r, s)
      PROVE  Honest(r)'
  <2>1. Honest(s)
    BY <1>3 DEF RequestsHonest
  <2>2. Honest(r)
    BY <1>3, <2>1 DEF Honest, Same
  <2> QED
    BY <1>2, <2>2
<1>4. CASE r.rid = 0 /\ (r.kind # "recovery" \/ r.prompt = ClearCommand)
  BY <1>4, Sizes DEF Honest
<1>5. ASSUME NEW i \in Ids, r = Generation(i), mem[i] = "scheduled"
      PROVE  Honest(r)'
  <2>1. r.kind = "recovery" /\ r.rid = i /\ r.own = FALSE /\ r.prompt = gen[i].prompt
    BY <1>0, <1>5, GenerationFields DEF Generation, Request
  <2>2. i <= lastId /\ i # 0
    BY <1>0, <1>5, Sizes DEF FileTypes, FilesInv, Ids
  <2>3. Honest(r)
    BY <2>1, <2>2 DEF Honest
  <2> QED
    BY <1>2, <2>3
<1>6. ASSUME NEW p \in Prompts, NEW k \in Kinds, FailWithRetry(p, k, "failed"), lastId' = lastId + 1,
             r.kind = "recovery", r.rid = turn.req.rid, r.prompt = turn.req.prompt
      PROVE  Honest(r)'
  <2>1. "failed" \in Outcome
    BY DEF Outcome
  <2>2. /\ Follows(p, turn.req.rid, lastId + 1, k) /\ lastId + 1 \in unsaved'
        /\ Honest(turn.req) /\ turn.req.prompt = p /\ turn.req \in RequestType
    BY <1>6, <2>1, FailureFollows
  <2>3. Uncounted(r.prompt)'
    BY <1>6, <2>2 DEF Follows, Uncounted
  <2>4. r.rid # 0 => r.rid <= lastId' /\ gen'[r.rid].prompt = r.prompt
    <3>1. PICK s \in RequestType : s = turn.req
      BY <2>2
    <3>2. Honest(s)'
      BY <1>2, <2>2, <3>1
    <3>3. r.rid = s.rid /\ r.prompt = s.prompt
      BY <1>6, <3>1
    <3>4. s.rid # 0 => s.rid <= lastId' /\ gen'[s.rid].prompt = s.prompt
      BY <3>2 DEF Honest
    <3> QED
      BY <3>3, <3>4
  <2> QED
    BY <1>6, <2>3, <2>4 DEF Honest
<1> QED
  BY <1>1, <1>3, <1>4, <1>5, <1>6 DEF Comes

-----------------------------------------------------------------------------
\* The file of a step that writes and removes no generation: one is scheduled again only
\* by who may give its claim back, and has not started it.
FilesSteady ==
  /\ UNCHANGED <<gen, lastId>>
  /\ \A i \in Ids : mem'[i] = "none" <=> mem[i] = "none"
  /\ disk' \subseteq disk \union {mem'}
  /\ \A i \in Ids : mem'[i] = "scheduled" => mem[i] = "scheduled" \/ (Moving(i) /\ i \notin started \ unsaved)

\* What begins to move in a step: the only generation of its request, before or after it scheduled.
Lone(i) == Match(gen[i].prompt) = {i} /\ (mem[i] = "scheduled" \/ mem'[i] = "scheduled")

\* The claim of a scheduled generation is such a step,
LEMMA ClaimSteady ==
  ASSUME FileTypes, NEW i \in Ids, mem[i] = "scheduled", NEW o \in Outcome,
         ApplyAndSave([mem EXCEPT ![i] = "claimed"], o)
  PROVE  FilesSteady
<1> DEFINE new == [mem EXCEPT ![i] = "claimed"]
<1>1. /\ disk' \subseteq disk \union {new} /\ gen' = gen /\ lastId' = lastId
      /\ o = "failed" => mem' = mem /\ disk' = disk
      /\ o # "failed" => mem' = new
  BY ApplyEffect DEF FileTypes
<1>2. new[i] = "claimed" /\ \A j \in Ids : j # i => new[j] = mem[j]
  BY DEF FileTypes, States
<1> HIDE DEF new
<1> QED
  BY <1>1, <1>2 DEF FilesSteady

\* and so is a release of what waits or is about to be dispatched.
LEMMA ReleaseSteady ==
  ASSUME FileTypes, SpentStays, NEW o \in Outcome, NEW ids, Release(ids, o),
         \A i \in Ids \intersect ids : \/ InQueue(i) \/ InHandoff(i) \/ i \in awaiting
                                       \/ (InTurn(i) /\ turn.pc # "running")
  PROVE  FilesSteady
<1>1. CASE UNCHANGED fileVars
  BY <1>1 DEF fileVars, FilesSteady
<1>2. CASE ApplyAndSave(Released(ids), o)
  <2> DEFINE new == Released(ids)
  <2>1. /\ disk' \subseteq disk \union {new} /\ gen' = gen /\ lastId' = lastId
        /\ o = "failed" => mem' = mem /\ disk' = disk
        /\ o # "failed" => mem' = new
    BY <1>2, ApplyEffect DEF FileTypes
  <2>2. \A i \in Ids : /\ new[i] = "none" <=> mem[i] = "none"
                       /\ new[i] = "scheduled" => mem[i] = "scheduled" \/ i \in ids
    BY DEF Released
  <2>3. ASSUME NEW i \in Ids, i \in ids
        PROVE  Moving(i) /\ i \notin started \ unsaved
    BY <2>3 DEF Moving, Held, SpentStays, Spent
  <2> HIDE DEF new
  <2> QED
    BY <2>1, <2>2, <2>3 DEF FilesSteady
<1> QED
  BY <1>1, <1>2 DEF Release

\* resumePersistedRecoveries arms what had a timer, and else what is alone.
LEMMA ResumeMoves ==
  ASSUME FileTypes, FileTypes', FilesSteady, NEW t, NEW a, t \subseteq timers, a \subseteq awaiting,
         Resume(mem', gen, t, a), NEW i \in Ids, i \in timers' \/ i \in awaiting'
  PROVE  Moving(i) \/ Lone(i)
<1>1. CASE i \in timers \/ i \in awaiting
  BY <1>1 DEF Moving
<1>2. CASE ~(i \in timers \/ i \in awaiting)
  <2>1. ~Malformed(mem', gen) /\ mem'[i] = "scheduled"
    BY <1>2 DEF Resume, Armed, Blocked, InState
  <2>2. Pending(mem') = Pending(mem) /\ i \in Pending(mem)
    BY <2>1 DEF FileTypes, States, FilesSteady, Pending, InState
  <2>3. Match(gen[i].prompt) = {i}
    BY <2>1, <2>2 DEF Malformed, Match
  <2> QED
    BY <2>1, <2>3 DEF Lone
<1> QED
  BY <1>1, <1>2

\* A step of such a kind keeps the budget, if what is still held keeps its counters or has
\* one to spare.
LEMMA SteadyStep ==
  ASSUME TypeInv, TypeInv', HeldInv, BudgetInv, [Next]_vars,
         FilesSteady, UNCHANGED <<unsaved, retries, started>>,
         \A i \in Ids : i \in timers' \/ [rid |-> i, fresh |-> TRUE] \in woken' \/ i \in awaiting' =>
            Moving(i) \/ Lone(i),
         \A i \in Ids, p \in Prompts : Held(i) /\ Held(i)' /\ Match(p) = {i} /\ ~Uncounted(p) =>
            attempts'[p] = attempts[p] \/ Owed(p) + 1 <= Recorded(i)
  PROVE  OldestMoves' /\ WaitsPaid' /\ MovesPaid' /\ RunsCounted'
<1>0. FileTypes /\ CountTypes
  BY TypeParts
<1>1. ASSUME NEW i \in Ids, Held(i)', ~Held(i)
      PROVE  /\ mem[i] = "scheduled" /\ attempts' = Seeded(i) /\ (Moving(i) \/ Lone(i))
  <2>1. mem[i] = "scheduled" /\ attempts' = Seeded(i) /\ (Moving(i) \/ ~Malformed(mem, gen))
    BY <1>1, HeldFollows
  <2>2. ~Malformed(mem, gen) => Match(gen[i].prompt) = {i}
    BY <2>1 DEF Malformed, Match, Pending, InState
  <2> QED
    BY <2>1, <2>2 DEF Lone
<1>2. \A i \in Ids : Moving(i)' => Moving(i) \/ Lone(i)
  BY <1>1 DEF Moving
<1>3. ASSUME NEW i \in Ids, NEW p \in Prompts, Held(i)', Match(p) = {i}, ~Uncounted(p)
      PROVE  \/ Held(i) /\ attempts'[p] = attempts[p]
             \/ \A k \in Kinds : gen[i].attempts[k] <= attempts'[p][k]
             \/ Owed(p) + 1 <= Recorded(i)
  <2>1. CASE Held(i)
    BY <1>3, <2>1
  <2>2. CASE ~Held(i)
    <3>1. attempts' = Seeded(i) /\ gen[i].prompt = p
      BY <1>1, <1>3, <2>2 DEF Match
    <3>2. attempts'[p] = [k \in Kinds |-> IF attempts[p][k] < gen[i].attempts[k]
                                          THEN gen[i].attempts[k] ELSE attempts[p][k]]
      BY <1>0, <3>1 DEF Seeded, CountTypes
    <3>3. \A k \in Kinds : attempts[p][k] \in Nat /\ gen[i].attempts[k] \in Nat
      BY <1>0 DEF CountTypes, FileTypes, GenType
    <3>4. \A k \in Kinds : gen[i].attempts[k] <= attempts'[p][k]
      BY <3>2, <3>3
    <3> QED
      BY <3>4
  <2> QED
    BY <2>1, <2>2
<1>4. UNCHANGED <<gen, lastId, unsaved, retries, started>>
  BY DEF FilesSteady
<1>5. \A i \in Ids : mem'[i] = "none" <=> mem[i] = "none"
  BY DEF FilesSteady
<1>6. disk' \subseteq disk \union {mem'}
  BY DEF FilesSteady
<1>7. \A i \in Ids : mem'[i] = "scheduled" => mem[i] = "scheduled" \/ (Moving(i) /\ i \notin started \ unsaved)
  BY DEF FilesSteady
<1>8. OldestMoves /\ WaitsPaid /\ MovesPaid /\ RunsCounted
  BY DEF BudgetInv
<1>9. \A i \in Ids : Moving(i)' =>
         Moving(i) \/ (Match(gen[i].prompt) = {i} /\ (mem[i] = "scheduled" \/ mem'[i] = "scheduled"))
  BY <1>2 DEF Lone
<1> QED
  BY <1>3, <1>4, <1>5, <1>6, <1>7, <1>8, <1>9, SteadyBudget

\* When the turn of a generation ends, nobody holds any.
LEMMA TurnReleases ==
  ASSUME TypeInv, TypeInv', HeldInv, ClaimedOnce, turn.pc = "running", turn.req.rid \in Ids,
         turn'.pc \notin {"claiming", "accepted", "running"}, UNCHANGED <<handoff, local, queue>>
  PROVE  \A j \in Ids : ~Held(j)'
<1> SUFFICES ASSUME NEW j \in Ids, Held(j)'
             PROVE  FALSE
  OBVIOUS
<1>0. FileTypes
  BY TypeParts
<1>1. ~InTurn(j)'
  BY DEF InTurn
<1>2. InQueue(j) \/ InHandoff(j) \/ InLocal(j)
  BY <1>1, PlacesNext DEF Held, InQueue, InHandoff, InLocal
<1>3. InTurn(turn.req.rid)
  BY DEF InTurn
<1>4. mem[j] = "claimed" /\ mem[turn.req.rid] = "claimed"
  BY <1>0, <1>2, <1>3 DEF HeldInv, HeldIsClaimed, Held, FileTypes
<1>5. j = turn.req.rid
  BY <1>0, <1>4 DEF ClaimedOnce, FileTypes
<1> QED
  BY <1>2, <1>3, <1>5 DEF HeldInv, HeldOnce, Apart

\* A new request has more to spare than its generations need,
LEMMA NewHasRoom ==
  ASSUME TypeInv, BudgetInv, turn.pc = "running", turn.req.rid = 0,
         NEW p \in Prompts, turn.req.prompt = p, ~Uncounted(p)
  PROVE  /\ retries[p] <= -Cardinality(Match(p))
         /\ \A i \in Ids : Match(p) = {i} => Owed(p) + 1 <= Recorded(i)
<1>0. FileTypes /\ CountTypes /\ RequestTypes
  BY TypeParts
<1>1. turn.req \in RequestType /\ Live(turn.req)
  BY <1>0 DEF RequestTypes, TurnType, Live
<1>2. turn.req.kind # "recovery"
  BY <1>1 DEF BudgetInv, RequestsHonest, Honest
<1>3. retries[p] <= -Cardinality(Match(p))
  BY <1>2 DEF BudgetInv, NewIsFree
<1>4. ASSUME NEW i \in Ids, Match(p) = {i}
      PROVE  Owed(p) + 1 <= Recorded(i)
  <2>1. Cardinality({i}) = 1
    BY FS_Singleton
  <2>2. retries[p] <= -1
    BY <1>3, <1>4, <2>1
  <2>3. Owed(p) <= retries[p] + 1 /\ Owed(p) \in Int /\ retries[p] \in Int /\ Recorded(i) \in Nat
    BY <1>0, <1>4, Numbers
  <2>4. mem[i] # "none" /\ mem \in disk
    BY <1>0, <1>4 DEF Match, Pending, InState, FileTypes
  <2>5. i <= lastId
    BY <1>0, <2>4, Sizes DEF FileTypes, FilesInv, Ids
  <2>6. Recorded(i) >= 1
    BY <2>5 DEF BudgetInv, AllRecorded
  <2> QED
    BY <2>2, <2>3, <2>6
<1> QED
  BY <1>3, <1>4

\* so the counters that the end of a turn changes are those of nobody, or are not needed.
LEMMA EndOfTurn ==
  ASSUME TypeInv, TypeInv', HeldInv, ClaimedOnce, BudgetInv, NEW p \in Prompts, Running(p),
         turn'.pc \notin {"claiming", "accepted", "running"}, UNCHANGED <<handoff, local, queue>>,
         \A q \in Prompts : q # p => attempts'[q] = attempts[q],
         NEW i \in Ids, NEW q \in Prompts, Held(i)', Match(q) = {i}, ~Uncounted(q)
  PROVE  attempts'[q] = attempts[q] \/ Owed(q) + 1 <= Recorded(i)
<1>1. turn.pc = "running" /\ turn.req.prompt = p
  BY DEF Running
<1>2. turn.req.rid \in 0 .. MaxIds
  BY TypeParts DEF RequestTypes, TurnType, RequestType
<1>3. CASE turn.req.rid # 0
  <2>1. turn.req.rid \in Ids
    BY <1>2, <1>3, Sizes DEF Ids
  <2> QED
    BY <1>1, <2>1, TurnReleases
<1>4. CASE turn.req.rid = 0
  BY <1>1, <1>4, NewHasRoom
<1> QED
  BY <1>3, <1>4

\* What the accounts of a step come to, and the file of a step in which a turn goes on.
Kept == OldestMoves' /\ WaitsPaid' /\ MovesPaid' /\ RunsCounted'
GoesOnSteady == turn'.pc = "running" => FilesSteady

\* A step that neither changes the counters nor claims anything.
LEMMA PlainStep ==
  ASSUME TypeInv, TypeInv', HeldInv, BudgetInv, [Next]_vars, FilesSteady,
         UNCHANGED <<unsaved, retries, started, attempts>>,
         \A i \in Ids : i \in timers' \/ [rid |-> i, fresh |-> TRUE] \in woken' \/ i \in awaiting' =>
            Moving(i) \/ Lone(i)
  PROVE  Kept /\ GoesOnSteady
  BY SteadyStep DEF Kept, GoesOnSteady

\* A step that leaves the file alone and arms nothing.
LEMMA StillStep ==
  ASSUME TypeInv, TypeInv', HeldInv, BudgetInv, [Next]_vars,
         UNCHANGED fileVars, UNCHANGED <<unsaved, retries, started, attempts>>,
         timers' \subseteq timers, woken' \subseteq woken, awaiting' \subseteq awaiting
  PROVE  Kept /\ GoesOnSteady
<1>1. FilesSteady
  BY DEF FilesSteady, fileVars
<1>2. \A i \in Ids : i \in timers' \/ [rid |-> i, fresh |-> TRUE] \in woken' \/ i \in awaiting' => Moving(i)
  BY DEF Moving
<1> QED
  BY <1>1, <1>2, PlainStep

\* A step that claims a generation: nobody held one.
LEMMA ClaimStep ==
  ASSUME TypeInv, TypeInv', HeldInv, BudgetInv, [Next]_vars, InState(mem, "claimed") = {},
         NEW c \in Ids, mem[c] = "scheduled", NEW o \in Outcome, ApplyAndSave([mem EXCEPT ![c] = "claimed"], o),
         UNCHANGED <<unsaved, retries, started>>, Moving(c) \/ ~Malformed(mem, gen),
         timers' \subseteq timers, woken' \subseteq woken, awaiting' \subseteq awaiting \union {c}
  PROVE  Kept /\ GoesOnSteady
<1>0. FileTypes
  BY TypeParts
<1>1. FilesSteady
  BY <1>0, ClaimSteady
<1>2. \A i \in Ids : ~Held(i)
  BY <1>0, NobodyHolds
<1>3. Moving(c) \/ Lone(c)
  BY DEF Lone, Malformed, Match, Pending, InState
<1>4. \A i \in Ids : i \in timers' \/ [rid |-> i, fresh |-> TRUE] \in woken' \/ i \in awaiting' =>
         Moving(i) \/ Lone(i)
  BY <1>3 DEF Moving
<1> QED
  BY <1>1, <1>2, <1>4, SteadyStep DEF Kept, GoesOnSteady

\* The steps that leave the generations as they are.
LEMMA QuietBudget ==
  ASSUME TypeInv, TypeInv', HeldInv, BudgetInv, [Next]_vars,
         \/ UNCHANGED vars \/ Autosave \/ Accept \/ Shutdown \/ Capture \/ PublishPanics \/ HandOver
         \/ \E i \in Ids : TimerWakes(i)
         \/ \E r \in local : LocalFires(r)
         \/ \E r \in handoff : Dispatch(r)
  PROVE  Kept /\ GoesOnSteady
<1>0. FileTypes /\ SetTypes
  BY TypeParts
<1>1. /\ UNCHANGED <<mem, gen, lastId, unsaved, retries, started, attempts>>
      /\ disk' = disk \/ disk' = {mem}
  BY DEF vars, Autosave, Accept, Shutdown, Capture, PublishPanics, HandOver, TimerWakes, LocalFires, Dispatch,
         fileVars, ghostVars
<1>2. FilesSteady
  BY <1>0, <1>1 DEF FilesSteady, FileTypes
<1>3. \A i \in Ids : i \in timers' \/ [rid |-> i, fresh |-> TRUE] \in woken' \/ i \in awaiting' => Moving(i)
  <2>1. CASE \E j \in Ids : TimerWakes(j)
    <3>1. PICK j \in Ids : /\ j \in timers /\ timers' = timers \ {j} /\ awaiting' = awaiting
                           /\ woken' = woken \union {[rid |-> j, fresh |-> TRUE]}
      BY <2>1 DEF TimerWakes
    <3>2. ASSUME NEW i \in Ids, [rid |-> i, fresh |-> TRUE] = [rid |-> j, fresh |-> TRUE]
          PROVE  i = j
      <4>1. [rid |-> i, fresh |-> TRUE].rid = i /\ [rid |-> j, fresh |-> TRUE].rid = j
        OBVIOUS
      <4> QED
        BY <3>2, <4>1
    <3> QED
      BY <3>1, <3>2 DEF Moving
  <2>2. CASE ~ \E j \in Ids : TimerWakes(j)
    <3>1. timers' \subseteq timers /\ woken' = woken /\ awaiting' \subseteq awaiting
      BY <2>2 DEF vars, Autosave, Accept, Shutdown, Capture, PublishPanics, HandOver, LocalFires, Dispatch,
                  timerVars
    <3> QED
      BY <3>1 DEF Moving
  <2> QED
    BY <2>1, <2>2
<1> QED
  BY <1>1, <1>2, <1>3, PlainStep

\* A timer's claim.
LEMMA TimerClaimsBudget ==
  ASSUME TypeInv, TypeInv', HeldInv, BudgetInv, [Next]_vars, NEW o \in Outcome, NEW w \in woken, TimerClaims(w, o)
  PROVE  Kept /\ GoesOnSteady
<1>0. FileTypes /\ SetTypes
  BY TypeParts
<1>1. w.rid \in Ids /\ woken' \subseteq woken /\ UNCHANGED <<unsaved, retries, started>>
  BY <1>0 DEF SetTypes, TimerClaims
<1>2. CASE Claimable(w.rid, w.fresh)
  <2>1. Claim(w.rid, o) /\ mem[w.rid] = "scheduled" /\ InState(mem, "claimed") = {} /\ w.fresh
    BY <1>2 DEF TimerClaims, Claimable
  <2>2. w = [rid |-> w.rid, fresh |-> TRUE]
    BY <1>0, <2>1 DEF SetTypes
  <2>3. Moving(w.rid)
    BY <2>2 DEF Moving
  <2>4. ApplyAndSave([mem EXCEPT ![w.rid] = "claimed"], o) /\ timers' \subseteq timers
        /\ awaiting' \subseteq awaiting \union {w.rid}
    BY <2>1 DEF Claim, Outcome
  <2> QED
    BY <1>1, <2>1, <2>3, <2>4, ClaimStep
<1>3. CASE ~Claimable(w.rid, w.fresh)
  BY <1>1, <1>3, StillStep DEF TimerClaims
<1> QED
  BY <1>2, <1>3

\* A retry that is refused gives its claim back.
LEMMA RefusedBudget ==
  ASSUME TypeInv, TypeInv', HeldInv, SpentStays, BudgetInv, [Next]_vars, NEW o \in Outcome, NEW r \in handoff,
         DispatchRefused(r, o)
  PROVE  Kept /\ GoesOnSteady
<1>0. FileTypes /\ FileTypes'
  <2>1. FileTypes
    BY TypeParts
  <2>2. FileTypes'
    BY TypeParts, PTL
  <2> QED
    BY <2>1, <2>2
<1>1. UNCHANGED <<woken, attempts, started, unsaved, retries>> /\ r.fresh
  BY DEF DispatchRefused
<1>2. CASE r.rid = 0
  BY <1>1, <1>2, StillStep DEF DispatchRefused
<1>3. CASE r.rid # 0
  <2>1. Release({r.rid}, o)
    BY <1>3 DEF DispatchRefused
  <2>2. InHandoff(r.rid)
    BY <1>1 DEF InHandoff, Carries
  <2>3. FilesSteady
    BY <1>0, <2>1, <2>2, ReleaseSteady
  <2>4. \/ timers' \subseteq timers /\ awaiting' \subseteq awaiting
        \/ Resume(mem', gen, timers \ {r.rid}, awaiting \ {r.rid})
    BY <1>3 DEF DispatchRefused
  <2>5. \A i \in Ids : i \in timers' \/ i \in awaiting' => Moving(i) \/ Lone(i)
    <3>1. CASE timers' \subseteq timers /\ awaiting' \subseteq awaiting
      BY <3>1 DEF Moving
    <3>2. CASE Resume(mem', gen, timers \ {r.rid}, awaiting \ {r.rid})
      BY <1>0, <2>3, <3>2, ResumeMoves
    <3> QED
      BY <2>4, <3>1, <3>2
  <2>6. \A i \in Ids : [rid |-> i, fresh |-> TRUE] \in woken' => Moving(i)
    BY <1>1 DEF Moving
  <2> QED
    BY <1>1, <2>3, <2>5, <2>6, PlainStep
<1> QED
  BY <1>2, <1>3

\* The user repeats a request that has a generation, or types another.
LEMMA SubmitBudget ==
  ASSUME TypeInv, TypeInv', HeldInv, BudgetInv, [Next]_vars, NEW o \in Outcome, NEW p, Submit(p, o)
  PROVE  Kept /\ GoesOnSteady
<1>1. UNCHANGED <<woken, started, unsaved, retries>>
  BY DEF Submit
<1>2. ASSUME NEW i \in Repeatable(p, TRUE), Claim(i, o)
      PROVE  Kept /\ GoesOnSteady
  <2>1. i \in Ids /\ mem[i] = "scheduled" /\ InState(mem, "claimed") = {} /\ ~Malformed(mem, gen)
    BY DEF Repeatable, Match, Pending, InState, Claimable
  <2>2. ApplyAndSave([mem EXCEPT ![i] = "claimed"], o) /\ timers' \subseteq timers
        /\ awaiting' \subseteq awaiting \union {i}
    BY <1>2 DEF Claim, Outcome
  <2> QED
    BY <1>1, <2>1, <2>2, ClaimStep
<1>3. CASE UNCHANGED <<fileVars, timers, awaiting, attempts>>
  BY <1>1, <1>3, StillStep
<1>4. (\E i \in Repeatable(p, TRUE) : Claim(i, o)) \/ UNCHANGED <<fileVars, timers, awaiting, attempts>>
  BY DEF Submit
<1> QED
  BY <1>2, <1>3, <1>4

\* Esc gives back what has not started.
LEMMA EscBudget ==
  ASSUME TypeInv, TypeInv', HeldInv, SpentStays, BudgetInv, [Next]_vars, NEW o \in Outcome, Esc(o)
  PROVE  Kept /\ GoesOnSteady
<1>0. FileTypes /\ SetTypes
  BY TypeParts
<1>1. /\ UNCHANGED <<attempts, started, unsaved, retries>> /\ timers' = {} /\ awaiting' = {}
      /\ woken' = Stale(woken) /\ Release(Unstarted, o)
  BY DEF Esc, BoundaryStales
<1>2. \A i \in Unstarted : InQueue(i) \/ i \in awaiting
  BY DEF Unstarted, InQueue, Waits
<1>3. FilesSteady
  BY <1>0, <1>1, <1>2, ReleaseSteady
<1>4. \A i \in Ids : [rid |-> i, fresh |-> TRUE] \notin woken'
  <2>1. \A s \in woken : [s EXCEPT !.fresh = FALSE].fresh = FALSE
    BY <1>0 DEF SetTypes
  <2>2. \A w \in woken' : w.fresh = FALSE
    BY <1>1, <2>1 DEF Stale
  <2> QED
    BY <2>2
<1> QED
  BY <1>1, <1>3, <1>4, PlainStep

\* A turn that does not start gives its claim back,
LEMMA GiveUpBudget ==
  ASSUME TypeInv, TypeInv', HeldInv, SpentStays, BudgetInv, [Next]_vars, NEW o \in Outcome, GiveUp(o)
  PROVE  Kept /\ GoesOnSteady
<1>0. FileTypes
  BY TypeParts
<1>1. /\ UNCHANGED <<woken, attempts, started, unsaved, retries>>
      /\ timers' \subseteq timers /\ awaiting' \subseteq awaiting /\ turn.pc = "accepted"
  BY DEF GiveUp, ghostVars
<1>2. UNCHANGED fileVars \/ (turn.req.fresh /\ Release({turn.req.rid}, o))
  BY DEF GiveUp
<1>3. FilesSteady
  <2>1. CASE UNCHANGED fileVars
    BY <2>1 DEF fileVars, FilesSteady
  <2>2. CASE turn.req.fresh /\ Release({turn.req.rid}, o)
    <3>1. InTurn(turn.req.rid) /\ turn.pc # "running"
      BY <1>1, <2>2 DEF InTurn
    <3> QED
      BY <1>0, <2>2, <3>1, ReleaseSteady
  <2> QED
    BY <1>2, <2>1, <2>2
<1>4. \A i \in Ids : i \in timers' \/ [rid |-> i, fresh |-> TRUE] \in woken' \/ i \in awaiting' => Moving(i)
  BY <1>1 DEF Moving
<1> QED
  BY <1>1, <1>3, <1>4, PlainStep

\* also one whose setup panics, which arms the others,
LEMMA PanicBudget ==
  ASSUME TypeInv, TypeInv', HeldInv, SpentStays, BudgetInv, [Next]_vars, NEW o \in Outcome, SetupPanics(o)
  PROVE  Kept /\ GoesOnSteady
<1>0. FileTypes /\ FileTypes'
  <2>1. FileTypes
    BY TypeParts
  <2>2. FileTypes'
    BY TypeParts, PTL
  <2> QED
    BY <2>1, <2>2
<1> DEFINE rid == turn.req.rid
<1>1. UNCHANGED <<woken, attempts, started, unsaved, retries>> /\ turn.pc = "accepted"
  BY DEF SetupPanics
<1>2. \/ UNCHANGED <<fileVars, timers, awaiting>>
      \/ /\ turn.req.fresh /\ Release({rid}, o)
         /\ UNCHANGED <<timers, awaiting>> \/ Resume(mem', gen, timers \ {rid}, awaiting \ {rid})
  BY DEF SetupPanics
<1>3. CASE UNCHANGED <<fileVars, timers, awaiting>>
  BY <1>1, <1>3, StillStep
<1>4. CASE /\ turn.req.fresh /\ Release({rid}, o)
           /\ UNCHANGED <<timers, awaiting>> \/ Resume(mem', gen, timers \ {rid}, awaiting \ {rid})
  <2>1. InTurn(rid) /\ turn.pc # "running"
    BY <1>1, <1>4 DEF InTurn
  <2>2. FilesSteady
    BY <1>0, <1>4, <2>1, ReleaseSteady
  <2>3. \A i \in Ids : i \in timers' \/ i \in awaiting' => Moving(i) \/ Lone(i)
    <3>1. CASE UNCHANGED <<timers, awaiting>>
      BY <3>1 DEF Moving
    <3>2. CASE Resume(mem', gen, timers \ {rid}, awaiting \ {rid})
      BY <1>0, <2>2, <3>2, ResumeMoves
    <3> QED
      BY <1>4, <3>1, <3>2
  <2>4. \A i \in Ids : [rid |-> i, fresh |-> TRUE] \in woken' => Moving(i)
    BY <1>1 DEF Moving
  <2> QED
    BY <1>1, <2>2, <2>3, <2>4, PlainStep
<1> QED
  BY <1>2, <1>3, <1>4

\* and the next one may claim what its prompt repeats.
LEMMA PromoteBudget ==
  ASSUME TypeInv, TypeInv', HeldInv, BudgetInv, [Next]_vars, NEW o \in Outcome, Promote(o)
  PROVE  Kept /\ GoesOnSteady
<1>1. UNCHANGED <<woken, started, unsaved, retries>>
  BY DEF Promote
<1>2. ASSUME NEW p, NEW f, NEW i \in Repeatable(p, f), Claim(i, o)
      PROVE  Kept /\ GoesOnSteady
  <2>1. i \in Ids /\ mem[i] = "scheduled" /\ InState(mem, "claimed") = {} /\ ~Malformed(mem, gen)
    BY DEF Repeatable, Match, Pending, InState, Claimable
  <2>2. ApplyAndSave([mem EXCEPT ![i] = "claimed"], o) /\ timers' \subseteq timers
        /\ awaiting' \subseteq awaiting \union {i}
    BY <1>2 DEF Claim, Outcome
  <2> QED
    BY <1>1, <2>1, <2>2, ClaimStep
<1>3. CASE UNCHANGED <<fileVars, timers, attempts>> /\ awaiting' \subseteq awaiting
  BY <1>1, <1>3, StillStep
<1>4. \/ \E i \in Repeatable(turn.req.prompt, turn.req.fresh) : Claim(i, o)
      \/ UNCHANGED <<fileVars, timers, attempts>> /\ awaiting' \subseteq awaiting
  BY DEF Promote
<1> QED
  BY <1>2, <1>3, <1>4

\* A turn that fails for good leaves its generation claimed.
LEMMA FailForGoodBudget ==
  ASSUME TypeInv, TypeInv', HeldInv, ClaimedOnce, BudgetInv, [Next]_vars, NEW p \in Prompts, FailForGood(p)
  PROVE  Kept /\ GoesOnSteady
<1>0. CountTypes
  BY TypeParts
<1>1. /\ UNCHANGED <<mem, disk, gen, lastId, timers, woken, awaiting, handoff, local, queue>>
      /\ UNCHANGED <<started, unsaved, retries>> /\ Running(p) /\ turn'.pc \notin {"claiming", "accepted", "running"}
      /\ attempts' = Forgotten(p, Kinds)
  BY NoTurnFields DEF FailForGood, Finishing, fileVars, timerVars, ghostVars
<1>2. \A q \in Prompts : q # p => attempts'[q] = attempts[q]
  BY <1>0, <1>1 DEF Forgotten, CountTypes
<1>3. FilesSteady
  BY <1>1 DEF FilesSteady
<1>4. \A i \in Ids : i \in timers' \/ [rid |-> i, fresh |-> TRUE] \in woken' \/ i \in awaiting' => Moving(i)
  BY <1>1 DEF Moving
<1>5. \A i \in Ids, q \in Prompts : Held(i)' /\ Match(q) = {i} /\ ~Uncounted(q) =>
         attempts'[q] = attempts[q] \/ Owed(q) + 1 <= Recorded(i)
  BY <1>1, <1>2, EndOfTurn
<1> QED
  BY <1>1, <1>3, <1>4, <1>5, SteadyStep DEF Kept, GoesOnSteady

\* One that succeeds removes it, and arms the others.
LEMMA SucceedBudget ==
  ASSUME TypeInv, TypeInv', HeldInv, SpentStays, ClaimedOnce, BudgetInv, [Next]_vars,
         NEW o \in Outcome, NEW p \in Prompts, Succeed(p, o)
  PROVE  Kept /\ GoesOnSteady
<1>0. FileTypes /\ CountTypes /\ FileTypes'
  <2>1. FileTypes /\ CountTypes
    BY TypeParts
  <2>2. FileTypes'
    BY TypeParts, PTL
  <2> QED
    BY <2>1, <2>2
<1>1. /\ UNCHANGED <<woken, handoff, local, queue, started, unsaved, retries>>
      /\ Running(p) /\ turn'.pc \notin {"claiming", "accepted", "running"}
      /\ attempts' = Forgotten(p, Kinds)
  BY NoTurnFields DEF Succeed, Finishing
<1>2. \A q \in Prompts : q # p => attempts'[q] = attempts[q]
  BY <1>0, <1>1 DEF Forgotten, CountTypes
<1>3. CASE UNCHANGED <<mem, disk, gen, lastId, timers, awaiting>>
  <2>1. FilesSteady
    BY <1>3 DEF FilesSteady
  <2>2. \A i \in Ids : i \in timers' \/ [rid |-> i, fresh |-> TRUE] \in woken' \/ i \in awaiting' => Moving(i)
    BY <1>1, <1>3 DEF Moving
  <2>3. \A i \in Ids, q \in Prompts : Held(i)' /\ Match(q) = {i} /\ ~Uncounted(q) =>
           attempts'[q] = attempts[q] \/ Owed(q) + 1 <= Recorded(i)
    BY <1>1, <1>2, EndOfTurn
  <2> QED
    BY <1>1, <2>1, <2>2, <2>3, SteadyStep DEF Kept, GoesOnSteady
<1>4. CASE ~UNCHANGED <<mem, disk, gen, lastId, timers, awaiting>>
  <2>1. PICK i : i = turn.req.rid
    OBVIOUS
  <2>2. /\ i # 0 /\ ApplyAndSave([mem EXCEPT ![i] = "none"], o)
        /\ o # "failed" => Resume(mem', gen, timers \ {i}, awaiting \ {i})
        /\ o = "failed" => UNCHANGED <<timers, awaiting>>
    BY <1>4, <2>1 DEF Succeed, fileVars
  <2>3. /\ disk' \subseteq disk \union {[mem EXCEPT ![i] = "none"]}
        /\ o = "failed" => mem' = mem /\ disk' = disk
        /\ o # "failed" => mem' = [mem EXCEPT ![i] = "none"]
        /\ UNCHANGED <<gen, lastId>>
    BY <1>0, <2>2, ApplyEffect DEF FileTypes
  <2>4. o # "failed"
    BY <1>4, <2>2, <2>3
  <2>5. mem' = [mem EXCEPT ![i] = "none"] /\ disk' \subseteq disk \union {mem'}
    BY <2>3, <2>4
  <2>6. i \in Ids /\ turn.pc = "running"
    BY <1>1, <2>1, <2>2, TypeParts, Sizes DEF RequestTypes, TurnType, RequestType, Ids, Running
  <2>7. Held(i) /\ mem[i] = "claimed"
    BY <1>0, <2>1, <2>6 DEF Held, InTurn, HeldInv, HeldIsClaimed, FileTypes
  <2>8. \A j \in Ids : ~Held(j)'
    BY <1>1, <2>1, <2>6, TurnReleases
  <2>9. ASSUME NEW j \in Ids, Moving(j)', ~Moving(j)
        PROVE  Match(gen[j].prompt)' = {j} /\ mem'[j] = "scheduled"
    <3>1. j \in timers' /\ j \notin timers
      BY <1>1, <2>2, <2>4, <2>8, <2>9 DEF Moving, Resume
    <3>2. ~Malformed(mem', gen) /\ mem'[j] = "scheduled"
      BY <2>2, <2>4, <3>1 DEF Resume, Armed, Blocked, InState
    <3>3. PICK q : q = gen[j].prompt /\ q = gen'[j].prompt
      BY <2>3
    <3>4. {k \in Pending(mem') : gen[k].prompt = q} = {j}
      BY <3>2, <3>3 DEF Malformed, Pending, InState
    <3>5. Match(q)' = {j}
      BY <2>3, <3>4 DEF Match, Pending, InState
    <3> QED
      BY <3>2, <3>3, <3>5
  <2>10. OldestMoves' /\ WaitsPaid' /\ MovesPaid' /\ RunsCounted'
    <3>1. OldestMoves /\ WaitsPaid /\ MovesPaid
      BY DEF BudgetInv
    <3>2. UNCHANGED <<gen, lastId, unsaved, retries, started>>
      BY <1>1, <2>3
    <3>3. \A j \in Ids : Moving(j)' => Moving(j) \/ (Match(gen[j].prompt)' = {j} /\ mem'[j] = "scheduled")
      BY <2>9
    <3> QED
      BY <2>5, <2>6, <2>7, <2>8, <3>1, <3>2, <3>3, RemoveBudget
  <2> QED
    BY <1>1, <2>10 DEF Kept, GoesOnSteady
<1> QED
  BY <1>3, <1>4

\* A cleared conversation.
LEMMA ClearedBudget ==
  ASSUME TypeInv, TypeInv', HeldInv, BudgetInv, [Next]_vars, NEW o \in Outcome, Clear(o)
  PROVE  Kept /\ GoesOnSteady
<1>0. FileTypes /\ RequestTypes /\ SetTypes
  BY TypeParts
<1>1. /\ UNCHANGED <<attempts, started, unsaved, retries>> /\ turn'.pc \notin {"claiming", "accepted", "running"}
      /\ ApplyAndSave([i \in Ids |-> "none"], o)
  BY NoTurnFields DEF Clear, Finishing, ghostVars
<1>2. /\ disk' \subseteq disk \union {[i \in Ids |-> "none"]}
      /\ o = "failed" => mem' = mem /\ disk' = disk
      /\ o # "failed" => mem' = [i \in Ids |-> "none"]
      /\ UNCHANGED <<gen, lastId>>
  BY <1>0, <1>1, ApplyEffect DEF FileTypes
<1>3. CASE o = "failed"
  <2>1. UNCHANGED fileVars /\ UNCHANGED <<timers, woken, awaiting>>
    BY <1>2, <1>3 DEF Clear, fileVars, timerVars
  <2> QED
    BY <1>1, <2>1, StillStep
<1>4. CASE o # "failed"
  <2>1. /\ timers' = {} /\ awaiting' = {} /\ woken' = Stale(woken)
        /\ handoff' = Stale(handoff) /\ local' = Stale(local) /\ queue' = OfKinds(queue, {"user", "explicit"})
    BY <1>4 DEF Clear, BoundaryStales
  <2>2. \A i \in Ids : [rid |-> i, fresh |-> TRUE] \notin woken'
    <3>1. \A s \in woken : [s EXCEPT !.fresh = FALSE].fresh = FALSE
      BY <1>0 DEF SetTypes
    <3>2. \A w \in woken' : w.fresh = FALSE
      BY <2>1, <3>1 DEF Stale
    <3> QED
      BY <3>2
  <2>3. \A s \in handoff' \union local' : ~s.fresh
    BY <1>0, <2>1, StaleSet DEF RequestTypes
  <2>4. \A i \in Ids : Waits(queue', i) => Waits(queue, i)
    <3> DEFINE t == OfKinds(queue, {"user", "explicit"})
    <3>1. Chosen(t, queue, {"user", "explicit"}) /\ queue' = t
      BY <1>0, <2>1, OfKindsSelects DEF RequestTypes
    <3> HIDE DEF t
    <3> QED
      BY <3>1, WaitsSelected
  <2>5. \A i \in Ids : Held(i)' => Held(i)
    <3> SUFFICES ASSUME NEW i \in Ids, Held(i)'
                 PROVE  Held(i)
      OBVIOUS
    <3>1. ~InTurn(i)'
      BY <1>1 DEF InTurn
    <3>2. ~Carries(handoff', i) /\ ~Carries(local', i)
      BY <2>3 DEF Carries
    <3> QED
      BY <2>4, <3>1, <3>2, PlacesNext DEF Held, InQueue
  <2>6. \A i \in Ids : Moving(i)' => Moving(i)
    BY <2>1, <2>2, <2>5 DEF Moving
  <2>7. (\A i \in Ids : mem'[i] = "none") /\ disk' \subseteq disk \union {mem'}
    BY <1>2, <1>4
  <2>8. OldestMoves /\ WaitsPaid
    BY DEF BudgetInv
  <2>9. OldestMoves' /\ WaitsPaid' /\ MovesPaid' /\ RunsCounted'
    BY <1>1, <1>2, <2>6, <2>7, <2>8, ClearBudget
  <2> QED
    BY <1>1, <2>9 DEF Kept, GoesOnSteady
<1> QED
  BY <1>3, <1>4

\* A failure that is to be retried.
LEMMA FailWithRetryBudget ==
  ASSUME TypeInv, TypeInv', HeldInv, HeldInv', ClaimedOnce, BudgetInv, [Next]_vars,
         NEW o \in Outcome, NEW p \in Prompts, NEW k \in Kinds, FailWithRetry(p, k, o)
  PROVE  Kept /\ GoesOnSteady
<1>0. FileTypes /\ CountTypes /\ FileTypes' /\ RequestTypes
  <2>1. FileTypes /\ CountTypes /\ RequestTypes
    BY TypeParts
  <2>2. FileTypes'
    BY TypeParts, PTL
  <2> QED
    BY <2>1, <2>2
<1>1. /\ UNCHANGED <<woken, handoff, queue, started, retries>>
      /\ Running(p) /\ turn'.pc \notin {"claiming", "accepted", "running"}
      /\ attempts' = Counted(p, k)
  BY NoTurnFields DEF FailWithRetry, Finishing
<1>2. turn.pc = "running" /\ turn.req.prompt = p
  BY <1>1 DEF Running
<1>3. \A q \in Prompts : q # p => attempts'[q] = attempts[q]
  BY <1>0, <1>1 DEF Counted, Forgotten, CountTypes
<1>4. PICK i, n : i = turn.req.rid /\ n = lastId + 1
  OBVIOUS
<1>5. i \in 0 .. MaxIds /\ lastId \in Nat /\ lastId' \in Nat
  BY <1>0, <1>4, Sizes DEF RequestTypes, TurnType, RequestType, FileTypes
<1>6. OldestMoves /\ WaitsPaid /\ MovesPaid /\ RunsCounted /\ AllRecorded /\ RequestsHonest
  BY DEF BudgetInv
<1>w. /\ lastId' = lastId + 1 \/ UNCHANGED <<mem, disk, gen, lastId, timers, awaiting, local, unsaved>>
      /\ lastId < MaxIds
  BY DEF FailWithRetry, fileVars
<1>7. CASE lastId' = lastId
  <2>1. UNCHANGED <<mem, disk, gen, lastId, timers, awaiting, local, unsaved>>
    BY <1>5, <1>7, <1>w
  <2>2. FilesSteady
    BY <2>1 DEF FilesSteady
  <2>3. \A j \in Ids : j \in timers' \/ [rid |-> j, fresh |-> TRUE] \in woken' \/ j \in awaiting' => Moving(j)
    BY <1>1, <2>1 DEF Moving
  <2>4. \A j \in Ids, q \in Prompts : Held(j)' /\ Match(q) = {j} /\ ~Uncounted(q) =>
           attempts'[q] = attempts[q] \/ Owed(q) + 1 <= Recorded(j)
    BY <1>1, <1>3, <2>1, EndOfTurn
  <2> QED
    BY <1>1, <2>1, <2>2, <2>3, <2>4, SteadyStep DEF Kept, GoesOnSteady
<1>8. CASE lastId' # lastId
  <2>0. lastId' = n /\ n \in Ids
    BY <1>4, <1>5, <1>8, <1>w, Sizes DEF Ids
  <2> DEFINE new == [(IF i = 0 THEN mem ELSE [mem EXCEPT ![i] = "none"]) EXCEPT ![n] = "scheduled"]
  <2>1. /\ mem' = IF o = "failed" THEN mem ELSE new
        /\ disk' = Contents(new, o)
        /\ \/ /\ o = "saved"
              /\ Resume(new, gen', timers \union {n}, awaiting)
              /\ UNCHANGED <<local, unsaved>>
           \/ /\ o = "uncertain" /\ UNCHANGED <<timers, awaiting, local, unsaved>>
           \/ /\ o = "failed"
              /\ local' = local \union {Request("recovery", p, i, TRUE)}
              /\ UNCHANGED <<timers, awaiting>>
    BY <1>4, <1>8 DEF FailWithRetry, fileVars
  <2>2. \A j \in Ids : new[j] = IF j = n THEN "scheduled" ELSE IF j = i THEN "none" ELSE mem[j]
    BY <1>0, <1>5, <2>0, Sizes DEF FileTypes, States, Ids
  <2> HIDE DEF new
  <2>3. disk' \subseteq disk \union {new} /\ (o = "failed" => disk' = disk)
    BY <2>1 DEF Contents, Outcome
  <2>4. /\ Follows(p, i, n, k)
        /\ unsaved \subseteq unsaved' /\ (o = "failed" => n \in unsaved')
    BY <1>4, <1>6, <2>0, FailureFollows
  <2>5. \A j \in Ids : ~InTurn(j)'
    BY <1>1 DEF InTurn
  <2>6. CASE o = "failed"
    <3>1. \A j \in Ids : Held(j)' => Held(j)
      <4> SUFFICES ASSUME NEW j \in Ids, Held(j)'
                   PROVE  Held(j)
        OBVIOUS
      <4>1. Carries(local', j) => Carries(local, j) \/ j = i
        BY <2>1, <2>6 DEF Carries, Request
      <4>2. InTurn(i)
        BY <1>2, <1>4 DEF InTurn
      <4>3. (InQueue(j)' => InQueue(j)) /\ (InHandoff(j)' => InHandoff(j)) /\ (InLocal(j)' => InLocal(j) \/ j = i)
        BY <1>1, <4>1, PlacesNext DEF InQueue, InHandoff, InLocal
      <4> QED
        BY <2>5, <4>2, <4>3 DEF Held
    <3>2. \A j \in Ids : Moving(j)' => Moving(j)
      BY <1>1, <2>1, <2>6, <3>1 DEF Moving
    <3>3. UNCHANGED <<mem, disk, retries, started>>
      BY <1>1, <2>1, <2>3, <2>6
    <3>4. OldestMoves' /\ WaitsPaid' /\ MovesPaid' /\ RunsCounted'
      BY <1>3, <1>6, <2>4, <2>6, <3>1, <3>2, <3>3, UnsavedBudget
    <3> QED
      BY <1>1, <3>4 DEF Kept, GoesOnSteady
  <2>7. CASE o # "failed"
    <3>0. UNCHANGED <<local, unsaved>> /\ mem' = new
      BY <2>1, <2>7
    <3>1. \A j \in Ids : Held(j)' => Held(j) /\ j # i
      <4> SUFFICES ASSUME NEW j \in Ids, Held(j)'
                   PROVE  Held(j) /\ j # i
        OBVIOUS
      <4>1. Held(j)
        BY <1>1, <2>5, <3>0, PlacesNext DEF Held, InQueue, InHandoff, InLocal
      <4>2. j # i
        <5>1. CASE i \in Ids
          BY <1>1, <1>2, <1>4, <3>0, <5>1, TurnReleases
        <5>2. CASE i \notin Ids
          BY <5>2
        <5> QED
          BY <5>1, <5>2
      <4> QED
        BY <4>1, <4>2
    <3>2. ASSUME NEW j \in Ids, Moving(j)', ~Moving(j)
          PROVE  Match(gen[j].prompt)' = {j} /\ mem'[j] = "scheduled"
      <4>1. j \in timers' /\ j \notin timers
        <5>1. ~Held(j)'
          BY <3>1, <3>2 DEF Moving
        <5>2. awaiting' \subseteq awaiting
          BY <2>1, <2>7 DEF Resume
        <5> QED
          BY <1>1, <3>2, <5>1, <5>2 DEF Moving
      <4>2. o = "saved" /\ Resume(new, gen', timers \union {n}, awaiting)
        BY <2>1, <2>7, <4>1
      <4>3. ~Malformed(new, gen') /\ (j = n \/ new[j] = "scheduled")
        BY <4>1, <4>2 DEF Resume, Armed, Blocked, InState
      <4>4. new[j] = "scheduled"
        BY <2>2, <4>3
      <4>5. PICK q : q = gen'[j].prompt
        OBVIOUS
      <4>6. {x \in Pending(new) : gen'[x].prompt = q} = {j}
        BY <4>3, <4>4, <4>5 DEF Malformed, Pending, InState
      <4>7. Match(q)' = {j}
        BY <3>0, <4>6 DEF Match, Pending, InState
      <4> QED
        BY <3>0, <4>4, <4>5, <4>7
    <3>3. i = 0 /\ ~Uncounted(p) => retries[p] <= -Cardinality(Match(p))
      BY <1>2, <1>4, NewHasRoom
    <3>4. UNCHANGED <<unsaved, retries, started>>
      BY <1>1, <3>0
    <3>5. \A j \in Ids : mem'[j] = IF j = n THEN "scheduled" ELSE IF j = i THEN "none" ELSE mem[j]
      BY <2>2, <3>0
    <3>6. disk' \subseteq disk \union {mem'}
      BY <2>3, <3>0
    <3>7. \A j \in Ids : Moving(j)' => Moving(j) \/ (Match(gen[j].prompt)' = {j} /\ mem'[j] = "scheduled")
      BY <3>2
    <3>8. OldestMoves' /\ WaitsPaid' /\ MovesPaid' /\ RunsCounted'
      BY <1>3, <1>6, <2>4, <3>1, <3>3, <3>4, <3>5, <3>6, <3>7, FollowBudget
    <3> QED
      BY <1>1, <3>8 DEF Kept, GoesOnSteady
  <2> QED
    BY <2>6, <2>7
<1> QED
  BY <1>7, <1>8

\* A turn that goes on is of the same request.
LEMMA KeepsRunning ==
  ASSUME TypeInv, [Next]_vars, turn'.pc = "running", ~Start
  PROVE  turn.pc = "running" /\ turn'.req.kind = turn.req.kind /\ turn'.req.prompt = turn.req.prompt
<1>0. turn \in TurnType /\ turn.req \in RequestType
  BY TypeParts DEF RequestTypes, TurnType
<1>1. turn.pc = "running"
  BY RunsByStart
<1>a. \A pc, r : Turn(pc, r).pc = pc
  BY DEF Turn
<1>2. CASE UNCHANGED vars \/ Autosave \/ Accept \/ (\E i \in Ids : TimerWakes(i))
           \/ (\E r \in local : LocalFires(r)) \/ (\E r \in handoff : Dispatch(r))
           \/ \E p \in Prompts : FailForGood(p)
  <2>1. turn' = turn \/ \E r : turn' \in {Turn("accepted", r), Turn("finishing", r)}
    BY <1>2 DEF vars, Autosave, Accept, TimerWakes, LocalFires, Dispatch, Enters, FailForGood, Finishing, frontVars
  <2> QED
    BY <1>1, <1>a, <2>1
<1>3. CASE Shutdown
  BY <1>0, <1>1, <1>3 DEF Shutdown, TurnType
<1>4. CASE Restart
  BY <1>4, NoTurnFields DEF Restart
<1>5. CASE \E o \in SaveOutcomes : Esc(o)
  <2>1. turn' = [[turn EXCEPT !.req.fresh = FALSE] EXCEPT !.cancelled = turn.pc \in Owned]
    BY <1>5 DEF Esc, StaleTurn
  <2>2. turn'.req = [turn.req EXCEPT !.fresh = FALSE]
    BY <1>0, <2>1 DEF TurnType
  <2> QED
    BY <1>0, <1>1, <2>2 DEF RequestType
<1>6. CASE \E o \in SaveOutcomes : \/ \E w \in woken : TimerClaims(w, o)
                                   \/ \E r \in handoff : DispatchRefused(r, o)
                                   \/ \E p \in Prompts \union {ClearCommand} : Submit(p, o)
  BY <1>1, <1>6 DEF TimerClaims, DispatchRefused, Submit, frontVars
<1>7. CASE \E p \in Prompts, k \in Kinds, o \in PersistOutcomes : FailWithRetry(p, k, o)
  BY <1>7, <1>a DEF FailWithRetry, Finishing
<1>8. CASE \E o \in SaveOutcomes : Foreground(o)
  <2>1. turn' = Idle \/ \E r : turn' = Turn("finishing", r)
    BY <1>1, <1>8 DEF Foreground, GiveUp, Succeed, Clear, SetupPanics, Promote, Finishing
  <2> QED
    BY <1>a, <2>1, NoTurnFields
<1>9. CASE Capture \/ PublishPanics \/ HandOver
  BY <1>1, <1>9 DEF Capture, PublishPanics, HandOver
<1> QED
  BY <1>2, <1>3, <1>4, <1>5, <1>6, <1>7, <1>8, <1>9 DEF Next

\* The retries are counted in Start alone.
LEMMA RetriesByStart ==
  ASSUME [Next]_vars, ~Start
  PROVE  retries' = retries
<1>1. CASE UNCHANGED vars \/ Autosave \/ Accept \/ Shutdown \/ Restart \/ (\E i \in Ids : TimerWakes(i))
           \/ (\E r \in local : LocalFires(r)) \/ (\E r \in handoff : Dispatch(r))
           \/ (\E p \in Prompts : FailForGood(p)) \/ Capture \/ PublishPanics \/ HandOver
  BY <1>1 DEF vars, Autosave, Accept, Shutdown, Restart, TimerWakes, LocalFires, Dispatch, FailForGood, Capture,
              PublishPanics, HandOver, ghostVars
<1>2. CASE \E p \in Prompts, k \in Kinds, o \in PersistOutcomes : FailWithRetry(p, k, o)
  BY <1>2 DEF FailWithRetry
<1>3. CASE \E o \in SaveOutcomes : \/ \E w \in woken : TimerClaims(w, o)
                                   \/ \E r \in handoff : DispatchRefused(r, o)
                                   \/ \E p \in Prompts \union {ClearCommand} : Submit(p, o)
                                   \/ Esc(o)
  BY <1>3 DEF TimerClaims, DispatchRefused, Submit, Esc
<1>4. CASE \E o \in SaveOutcomes : Foreground(o)
  BY <1>4 DEF Foreground, GiveUp, Succeed, Clear, SetupPanics, Promote, ghostVars
<1> QED
  BY <1>1, <1>2, <1>3, <1>4 DEF Next

\* Every step keeps the budget.
LEMMA BudgetStep ==
  ASSUME TypeInv, TypeInv', HeldInv, HeldInv', SpentStays, ClaimedOnce, BudgetInv, [Next]_vars
  PROVE  BudgetInv'
<1>1. RequestsHonest' /\ AllRecorded'
  BY HonestStep, RecordedStep DEF BudgetInv
<1>2. CASE Start
  <2>1. Kept /\ NewIsFree'
    BY <1>2, StartBudget DEF BudgetInv, Kept
  <2> QED
    BY <1>1, <2>1 DEF BudgetInv, Kept
<1>3. CASE ~Start
  <2>1. Kept /\ GoesOnSteady
    <3>o. SaveOutcomes \subseteq Outcome /\ PersistOutcomes \subseteq Outcome
      BY Sizes DEF Outcome
    <3>1. CASE Restart
      <4>1. OldestMoves' /\ WaitsPaid' /\ MovesPaid' /\ RunsCounted'
        BY <3>1, RestartBudget DEF BudgetInv
      <4>2. turn'.pc # "running"
        BY <3>1, NoTurnFields DEF Restart
      <4> QED
        BY <4>1, <4>2 DEF Kept, GoesOnSteady
    <3>2. CASE \/ UNCHANGED vars \/ Autosave \/ Accept \/ Shutdown \/ Capture \/ PublishPanics \/ HandOver
               \/ \E i \in Ids : TimerWakes(i)
               \/ \E r \in local : LocalFires(r)
               \/ \E r \in handoff : Dispatch(r)
      BY <3>2, QuietBudget
    <3>3. ASSUME NEW p \in Prompts, FailForGood(p)
          PROVE  Kept /\ GoesOnSteady
      BY <3>3, FailForGoodBudget
    <3>4. ASSUME NEW p \in Prompts, NEW k \in Kinds, NEW o \in PersistOutcomes, FailWithRetry(p, k, o)
          PROVE  Kept /\ GoesOnSteady
      BY <3>4, <3>o, FailWithRetryBudget
    <3>5. ASSUME NEW o \in SaveOutcomes, NEW w \in woken, TimerClaims(w, o)
          PROVE  Kept /\ GoesOnSteady
      BY <3>5, <3>o, TimerClaimsBudget
    <3>6. ASSUME NEW o \in SaveOutcomes, NEW r \in handoff, DispatchRefused(r, o)
          PROVE  Kept /\ GoesOnSteady
      BY <3>6, <3>o, RefusedBudget
    <3>7. ASSUME NEW o \in SaveOutcomes, NEW p, Submit(p, o)
          PROVE  Kept /\ GoesOnSteady
      BY <3>7, <3>o, SubmitBudget
    <3>8. ASSUME NEW o \in SaveOutcomes, Esc(o)
          PROVE  Kept /\ GoesOnSteady
      BY <3>8, <3>o, EscBudget
    <3>9. ASSUME NEW o \in SaveOutcomes, GiveUp(o)
          PROVE  Kept /\ GoesOnSteady
      BY <3>9, <3>o, GiveUpBudget
    <3>10. ASSUME NEW o \in SaveOutcomes, NEW p \in Prompts, Succeed(p, o)
           PROVE  Kept /\ GoesOnSteady
      BY <3>10, <3>o, SucceedBudget
    <3>11. ASSUME NEW o \in SaveOutcomes, Clear(o)
           PROVE  Kept /\ GoesOnSteady
      BY <3>11, <3>o, ClearedBudget
    <3>12. ASSUME NEW o \in SaveOutcomes, Promote(o)
           PROVE  Kept /\ GoesOnSteady
      BY <3>12, <3>o, PromoteBudget
    <3>13. ASSUME NEW o \in SaveOutcomes, SetupPanics(o)
           PROVE  Kept /\ GoesOnSteady
      BY <3>13, <3>o, PanicBudget
    <3> QED
      BY <1>3, <3>1, <3>2, <3>3, <3>4, <3>5, <3>6, <3>7, <3>8, <3>9, <3>10, <3>11, <3>12, <3>13
      DEF Next, Foreground
  <2>2. NewIsFree'
    <3> SUFFICES ASSUME NEW p \in Prompts, turn'.pc = "running", turn'.req.kind # "recovery", turn'.req.prompt = p
                 PROVE  retries'[p] <= -Cardinality(Match(p)')
      BY DEF NewIsFree
    <3>1. turn.pc = "running" /\ turn'.req.kind = turn.req.kind /\ turn'.req.prompt = turn.req.prompt
      BY <1>3, KeepsRunning
    <3>2. retries' = retries
      BY <1>3, RetriesByStart
    <3>3. FilesSteady /\ FileTypes
      BY <2>1, TypeParts DEF GoesOnSteady
    <3>4. FileTypes'
      BY TypeParts, PTL
    <3>5. Pending(mem') = Pending(mem)
      BY <3>3, <3>4 DEF FilesSteady, FileTypes, States, Pending, InState
    <3>6. Match(p)' = Match(p)
      BY <3>3, <3>5 DEF FilesSteady, Match, Pending, InState
    <3> QED
      BY <3>1, <3>2, <3>6 DEF BudgetInv, NewIsFree
  <2> QED
    BY <1>1, <2>1, <2>2 DEF BudgetInv, Kept
<1> QED
  BY <1>2, <1>3

\* The bound, for the prompt of the turn that runs.
RunWithin ==
  \A p \in Prompts : Running(p) =>
     Uncounted(p) \/ retries[p] <= maxAttempts["rate_limit"] + maxAttempts["auto_resume"]

\* While a turn runs, its prompt has not been retried more often than was recorded.
LEMMA RunsWithinBudget == TypeInv /\ HeldInv /\ BudgetInv => RunWithin
<1> SUFFICES ASSUME TypeInv, HeldInv, BudgetInv, NEW p \in Prompts, Running(p), ~Uncounted(p)
             PROVE  retries[p] <= maxAttempts["rate_limit"] + maxAttempts["auto_resume"]
  BY DEF RunWithin
<1>0. FileTypes /\ CountTypes /\ RequestTypes
  BY TypeParts
<1>1. turn.pc = "running" /\ turn.req.prompt = p /\ turn.req.rid \in 0 .. MaxIds /\ turn.req \in RequestType
  BY <1>0 DEF Running, RequestTypes, TurnType, RequestType
<1>2. maxAttempts["rate_limit"] \in Nat /\ maxAttempts["auto_resume"] \in Nat /\ retries[p] \in Int
  BY <1>0, Sizes DEF Kinds, CountTypes
<1>3. CASE turn.req.rid = 0
  <2>1. retries[p] <= -Cardinality(Match(p))
    BY <1>1, <1>3, NewHasRoom
  <2>2. Cardinality(Match(p)) \in Nat
    BY <1>0, Numbers, Counts
  <2> QED
    BY <1>2, <2>1, <2>2
<1>4. CASE turn.req.rid # 0
  <2>1. PICK i : i = turn.req.rid
    OBVIOUS
  <2>2. i \in Ids
    BY <1>1, <1>4, <2>1, Sizes DEF Ids
  <2>3. Held(i) /\ Moving(i)
    BY <1>1, <2>1 DEF Moving, Held, InTurn
  <2>4. mem[i] = "claimed"
    BY <1>0, <2>2, <2>3 DEF HeldInv, HeldIsClaimed, FileTypes
  <2>5. Live(turn.req)
    BY <1>1 DEF Live
  <2>6. gen[i].prompt = p
    BY <1>1, <1>4, <2>1, <2>5 DEF BudgetInv, RequestsHonest, Honest
  <2>7. i \in Match(p)
    BY <2>2, <2>4, <2>6 DEF Match, Pending, InState
  <2>8. Owed(p) <= Recorded(i)
    BY <2>3, <2>7 DEF BudgetInv, MovesPaid
  <2>9. retries[p] <= Owed(p) /\ Owed(p) \in Int /\ Recorded(i) \in Nat
    BY <1>0, <2>2, Numbers
  <2>10. /\ gen[i].attempts["rate_limit"] <= maxAttempts["rate_limit"]
         /\ gen[i].attempts["auto_resume"] <= maxAttempts["auto_resume"]
         /\ gen[i].attempts["rate_limit"] \in Nat /\ gen[i].attempts["auto_resume"] \in Nat
    BY <1>0, <2>2 DEF FileTypes, FilesInv, GenType, Kinds
  <2>11. Recorded(i) <= maxAttempts["rate_limit"] + maxAttempts["auto_resume"]
    BY <1>2, <2>10 DEF Recorded
  <2> QED
    BY <1>2, <2>8, <2>9, <2>11
<1> QED
  BY <1>3, <1>4

\* WithinBudget: a prompt is retried automatically no more often than the two budgets allow
\* together, over any number of crashes, however rate limits and timeouts alternate, and
\* whatever the user repeats or cancels, unless one of its generations could not be written
\* (scheduleRateLimitAutoRetry, scheduleAutoResume, persistPendingRecovery): a generation
\* that may be claimed has recorded the retries so far and its own.
THEOREM RetriesStayWithinBudget == Spec => []WithinBudget
<1> DEFINE Bounded == \A p \in Prompts :
             Uncounted(p) \/ retries[p] <= maxAttempts["rate_limit"] + maxAttempts["auto_resume"]
<1>1. Init => ClaimedOnce
  BY DEF Init, ClaimedOnce
<1>2. TypeInv /\ ClaimedOnce /\ [Next]_vars => ClaimedOnce'
  BY ClaimedOnceStep
<1>3. Init => BudgetInv
  <2> SUFFICES ASSUME Init
               PROVE  BudgetInv
    OBVIOUS
  <2>1. /\ mem = [i \in Ids |-> "none"] /\ disk = {mem} /\ lastId = 0 /\ unsaved = {}
        /\ timers = {} /\ woken = {} /\ handoff = {} /\ awaiting = {} /\ local = {}
        /\ queue = <<>> /\ turn = Idle
    BY DEF Init
  <2>2. turn.pc = "idle"
    BY <2>1, NoTurnFields
  <2>3. \A r : ~Live(r)
    BY <2>1, <2>2 DEF Live
  <2>4. \A i \in Ids : ~Held(i) /\ ~Moving(i)
    BY <2>1, <2>2 DEF Moving, Held, InTurn, InQueue, InHandoff, InLocal, Waits, Carries
  <2>5. \A i \in Ids : ~(i <= lastId)
    BY <2>1, Sizes DEF Ids
  <2>6. \A p : Match(p) = {} /\ \A d \in disk : Of(d, p) = {}
    BY <2>1 DEF Match, Of, Pending, InState
  <2>7. RequestsHonest /\ AllRecorded /\ OldestMoves
    BY <2>1, <2>3, <2>4, <2>5 DEF RequestsHonest, AllRecorded, OldestMoves
  <2>8. WaitsPaid /\ MovesPaid /\ RunsCounted /\ NewIsFree
    BY <2>2, <2>6 DEF WaitsPaid, MovesPaid, RunsCounted, NewIsFree
  <2> QED
    BY <2>7, <2>8 DEF BudgetInv
<1>4. TypeInv /\ TypeInv' /\ HeldInv /\ HeldInv' /\ SpentStays /\ ClaimedOnce /\ BudgetInv /\ [Next]_vars => BudgetInv'
  BY BudgetStep
<1>5. Init => Bounded
  BY Sizes DEF Init, Kinds
<1>6. TypeInv /\ TypeInv' /\ HeldInv' /\ BudgetInv /\ BudgetInv' /\ Bounded /\ [Next]_vars => Bounded'
  <2> SUFFICES ASSUME TypeInv, TypeInv', HeldInv', BudgetInv, BudgetInv', Bounded, [Next]_vars,
                      NEW p \in Prompts, ~Uncounted(p)'
               PROVE  retries'[p] <= maxAttempts["rate_limit"] + maxAttempts["auto_resume"]
    OBVIOUS
  <2>1. ~Uncounted(p)
    BY RecordedStep DEF BudgetInv
  <2>2. RunWithin'
    BY RunsWithinBudget, PTL
  <2>3. CASE retries'[p] = retries[p]
    BY <2>1, <2>3
  <2>4. CASE retries'[p] # retries[p]
    <3>1. Start
      BY <2>4, RetriesByStart
    <3>2. turn.req.prompt = p
      BY <2>4, <3>1, TypeParts DEF Start, CountTypes
    <3>3. turn'.pc = "running" /\ turn'.req = turn.req
      BY <3>1, TypeParts DEF Start, RequestTypes, TurnType
    <3>4. Running(p)'
      BY <3>2, <3>3 DEF Running
    <3> QED
      BY <2>2, <3>4 DEF RunWithin
  <2> QED
    BY <2>3, <2>4
<1>7. Bounded /\ TypeInv => WithinBudget
  BY DEF WithinBudget, Uncounted, TypeInv
<1> HIDE DEF Bounded
<1> QED
  BY <1>1, <1>2, <1>3, <1>4, <1>5, <1>6, <1>7, HoldersInvariant, PTL DEF Spec
=============================================================================
